--------------------------- MODULE ActivityRegister ---------------------------
(***************************************************************************)
(* What the activity projection promises of status.lastUsedAt: it only     *)
(* ever shows a time at which the client really was used, and never moves  *)
(* back while the client exists.  When a use is shown is left open.        *)
(***************************************************************************)
EXTENDS Naturals

CONSTANTS Client, Time

VARIABLES
    uses,   \* the times each client was used at
    shown   \* its lastUsedAt; 0 when it has none

vars == <<uses, shown>>

Init ==
    /\ uses = [c \in Client |-> {}]
    /\ shown = [c \in Client |-> 0]

(* A sign-in or a token exchange, served by any replica. *)
Use(c) ==
    /\ \E t \in Time : uses' = [uses EXCEPT ![c] = @ \cup {t}]
    /\ UNCHANGED shown

(* A replica publishes one of the uses, newer than what is shown. *)
Publish(c) ==
    /\ \E t \in uses[c] :
         /\ t > shown[c]
         /\ shown' = [shown EXCEPT ![c] = t]
    /\ UNCHANGED uses

(* The client is deleted and its status with it. *)
Forget(c) ==
    /\ shown' = [shown EXCEPT ![c] = 0]
    /\ UNCHANGED uses

Next == \E c \in Client : Use(c) \/ Publish(c) \/ Forget(c)

Spec == Init /\ [][Next]_vars

=============================================================================
