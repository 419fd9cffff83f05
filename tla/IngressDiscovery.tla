-------------------------- MODULE IngressDiscovery --------------------------
(***************************************************************************)
(* The discovery operator on one Ingress: the OIDCClient of the same name   *)
(* that its annotations generate, and a client whose spec.ingressRef takes  *)
(* its host from it, which the client operator reconciles when asked.       *)
(***************************************************************************)
EXTENDS Naturals, Sequences

CONSTANTS
    Host,
    NoHost,     \* spec.rules has no host, or several
    Slot,       \* bounds the events being handled at once
    MaxUid,     \* times the Ingress is created
    MaxEvent    \* edits and re-creations of the Ingress, OIDCClients that a user
                \* creates or deletes, failed calls and crashes, together

ASSUME DiscoveryAssumption ==
    /\ NoHost \notin Host /\ Host # {}
    /\ {MaxUid, MaxEvent} \subseteq Nat

VARIABLES
    ingress,    \* the Ingress, its uid 0 when there is none
    client,     \* the OIDCClient of its name
    ref,        \* the referencing client: its host in Redis, its Ready condition
    events,     \* of the Ingress, that the watch has to deliver
    job,        \* the events being handled
    born,       \* the last uid
    spent,
    \* History.
    lapped,     \* two events were handled at once
    failed,     \* a call failed, or the process
    crossed,    \* a user interfered
    reused,     \* the Ingress was created anew before its last client was gone
    withdrawn   \* this Ingress has had a limit that a later edit took away

vars == <<ingress, client, ref, events, job, born, spent, lapped, failed, crossed, reused, withdrawn>>

Hosts == Host \cup {NoHost}
(* Whether it has oidc annotations, and among them the optional ones, which  *)
(* limit the groups or users.  The host stands for the value of every        *)
(* annotation; a redirect path that is missing leads to what a missing host  *)
(* does.                                                                    *)
Ingress ==
    {i \in [uid : 0 .. MaxUid, host : Hosts, asks : BOOLEAN, limited : BOOLEAN] :
        i.limited => i.asks}
NoIngress == [uid |-> 0, host |-> NoHost, asks |-> FALSE, limited |-> FALSE]

(* Limited: its spec has allowedGroups or allowedUsers.                      *)
Client == [kind : {"none", "hand", "found"}, owner : 0 .. MaxUid, host : Hosts, limited : BOOLEAN]
NoClient == [kind |-> "none", owner |-> 0, host |-> NoHost, limited |-> FALSE]

Job == [step : {"idle", "clients", "resolve", "register", "find", "delete", "patch", "create"},
        ing : Ingress, read : Client, host : Hosts]
Idle == [step |-> "idle", ing |-> NoIngress, read |-> NoClient, host |-> NoHost]

Busy(j) == job[j].step # "idle"
Calm == \A j \in Slot : ~Busy(j)

Init ==
    /\ ingress = NoIngress /\ client = NoClient
    /\ ref = [host |-> NoHost, ready |-> FALSE]
    /\ events = <<>> /\ job = [j \in Slot |-> Idle]
    /\ born = 0 /\ spent = 0
    /\ lapped = FALSE /\ failed = FALSE /\ crossed = FALSE /\ reused = FALSE /\ withdrawn = FALSE

(***************************************************************************)
(* The watch.                                                              *)
(***************************************************************************)

Deliver(j) ==
    /\ events # <<>> /\ ~Busy(j)
    /\ job' = [job EXCEPT ![j] = [Idle EXCEPT !.step = "clients", !.ing = Head(events)]]
    /\ events' = Tail(events)
    /\ lapped' = (lapped \/ ~Calm)
    /\ UNCHANGED <<ingress, client, ref, born, spent, failed, crossed, reused, withdrawn>>

Replayed == IF ingress.uid = 0 THEN <<>> ELSE <<ingress>>

(* Mutant: a watch that has ended stays ended. *)
ReopenNever == FALSE
(* A watch that has ended opens again, and replays the Ingress as ADDED. *)
Reopen ==
    /\ events' = Replayed
    /\ UNCHANGED <<ingress, client, ref, job, born, spent, lapped, failed, crossed, reused, withdrawn>>

Spend == spent < MaxEvent /\ spent' = spent + 1
Fault ==
    /\ Spend /\ failed' = TRUE
Sound == UNCHANGED <<spent, failed>>

(* The next leader watches from the beginning. *)
Crash ==
    /\ Fault
    /\ job' = [j \in Slot |-> Idle] /\ events' = Replayed
    /\ UNCHANGED <<ingress, client, ref, born, lapped, crossed, reused, withdrawn>>

(***************************************************************************)
(* #reconcileReferencingClients.                                           *)
(***************************************************************************)

Go(j, step) == job' = [job EXCEPT ![j].step = step]
Same == UNCHANGED <<ingress, events, born, lapped, crossed, reused, withdrawn>>

(* Mutant: the reconcile is left to the fingerprint, which has not moved. *)
ForcedNever(j) == FALSE
Forced(j) == TRUE

(* A failed list, or a failed read of the client, asks for no reconcile. *)
ListClients(j) ==
    /\ job[j].step = "clients"
    /\ \/ Sound /\ Go(j, IF Forced(j) THEN "resolve" ELSE "find")
       \/ Fault /\ Go(j, "find")
    /\ UNCHANGED <<client, ref>> /\ Same

(* Mutant: several hosts, or none, are no problem. *)
ResolvableAny(i) == i.uid # 0
Resolvable(i) == i.uid # 0 /\ i.host # NoHost

(* #resolveIngressRef, from the Ingress as it now is. *)
Resolve(j) ==
    /\ job[j].step = "resolve"
    /\ \/ /\ Sound /\ Resolvable(ingress)
          /\ job' = [job EXCEPT ![j].step = "register", ![j].host = ingress.host]
          /\ UNCHANGED ref
       \/ /\ (Sound /\ ~Resolvable(ingress)) \/ Fault
          /\ ref' = [ref EXCEPT !.ready = FALSE]
          /\ Go(j, "find")
    /\ UNCHANGED client /\ Same

(* After a second: the client's Redis record, then its condition. *)
Register(j) ==
    /\ job[j].step = "register"
    /\ \/ Sound /\ ref' = [host |-> job[j].host, ready |-> TRUE]
       \/ Fault /\ ref' = [ref EXCEPT !.ready = FALSE]
    /\ job' = [job EXCEPT ![j].step = "find", ![j].host = NoHost]
    /\ UNCHANGED client /\ Same

(***************************************************************************)
(* The generated client.                                                   *)
(***************************************************************************)

(* Mutant: any client of the name is taken for a generated one. *)
IsDiscoveredAny(c) == TRUE
(* isDiscoveredFrom: by the name that its label carries. *)
IsDiscovered(c) == c.kind = "found"

(* Mutant: a client that has the host already is left as it is. *)
DesiredHost(c, i) ==
    IF c.host = i.host THEN c ELSE [c EXCEPT !.host = i.host, !.limited = @ \/ i.limited]
(* The described fields are put over those that the client has: one that no  *)
(* annotation names any more stays.                                         *)
Desired(c, i) == [c EXCEPT !.host = i.host, !.limited = @ \/ i.limited]

(* What is to be done with the client that was read. *)
Todo(c, i) ==
    IF ~i.asks THEN IF c.kind # "none" /\ IsDiscovered(c) THEN "delete" ELSE "idle"
    ELSE IF (c.kind # "none" /\ ~IsDiscovered(c)) \/ i.host = NoHost THEN "idle"
    ELSE IF c.kind = "none" THEN "create"
    ELSE IF Desired(c, i) = c THEN "idle" ELSE "patch"

Release(j) == [job EXCEPT ![j] = Idle]

(* A failed read is taken for a client that does not exist. *)
FindClient(j) ==
    \E read \in {client, NoClient} :
       LET todo == Todo(read, job[j].ing) IN
       /\ job[j].step = "find"
       /\ (read = client /\ Sound) \/ (read = NoClient /\ Fault)
       /\ job' = IF todo = "idle" THEN Release(j)
                 ELSE [job EXCEPT ![j].step = todo, ![j].read = read]
       /\ UNCHANGED <<client, ref>> /\ Same

Create(j) ==
    /\ job[j].step = "create"
    /\ \/ /\ Sound
          /\ client' = IF client.kind # "none" THEN client
                       ELSE Desired([NoClient EXCEPT !.kind = "found", !.owner = job[j].ing.uid], job[j].ing)
       \/ (Fault /\ UNCHANGED client)
    /\ job' = Release(j) /\ UNCHANGED ref /\ Same

(* What differs from the client that was read, put into whatever has the     *)
(* name by then.                                                            *)
Patched(c, read, new) ==
    [c EXCEPT !.host = IF new.host # read.host THEN new.host ELSE @,
              !.limited = @ \/ (new.limited /\ ~read.limited)]

Patch(j) ==
    /\ job[j].step = "patch"
    /\ \/ /\ Sound
          /\ client' = IF client.kind = "none" THEN client
                       ELSE Patched(client, job[j].read, Desired(job[j].read, job[j].ing))
       \/ (Fault /\ UNCHANGED client)
    /\ job' = Release(j) /\ UNCHANGED ref /\ Same

Delete(j) ==
    /\ job[j].step = "delete"
    /\ \/ (Sound /\ client' = NoClient)
       \/ (Fault /\ UNCHANGED client)
    /\ job' = Release(j) /\ UNCHANGED ref /\ Same

(***************************************************************************)
(* The environment.                                                        *)
(***************************************************************************)

EditIngress ==
    /\ ingress.uid # 0 /\ Spend
    /\ \E i \in Ingress :
          /\ i.uid = ingress.uid /\ i # ingress
          /\ ingress' = i /\ events' = Append(events, i)
          /\ withdrawn' = (withdrawn \/ (ingress.limited /\ ~i.limited))
    /\ UNCHANGED <<client, ref, job, born, lapped, failed, crossed, reused>>

CreateIngress ==
    /\ ingress.uid = 0 /\ born < MaxUid
    /\ \E i \in Ingress :
          /\ i.uid = born + 1
          /\ ingress' = i /\ events' = Append(events, i)
    /\ born' = born + 1
    /\ IF born = 0 THEN UNCHANGED spent ELSE Spend
    /\ reused' = (reused \/ client.kind = "found" \/ events # <<>> \/ ~Calm)
    /\ withdrawn' = FALSE
    /\ UNCHANGED <<client, ref, job, lapped, failed, crossed>>

(* DELETED asks for nothing. *)
DeleteIngress ==
    /\ ingress.uid # 0
    /\ ingress' = NoIngress
    /\ UNCHANGED <<client, ref, events, job, born, spent, lapped, failed, crossed, reused, withdrawn>>

(* The garbage collector: a client whose owner is gone. *)
Collect ==
    /\ client.kind = "found" /\ client.owner # ingress.uid
    /\ client' = NoClient
    /\ UNCHANGED <<ingress, ref, events, job, born, spent, lapped, failed, crossed, reused, withdrawn>>

UserClient ==
    /\ Spend
    /\ \/ /\ client.kind = "none"
          /\ \E h \in Host, l \in BOOLEAN :
                client' = [NoClient EXCEPT !.kind = "hand", !.host = h, !.limited = l]
          /\ crossed' = (crossed \/ ~Calm)
       \/ /\ client.kind # "none"
          /\ client' = NoClient
          /\ crossed' = TRUE
    /\ UNCHANGED <<ingress, ref, events, job, born, lapped, failed, reused, withdrawn>>

Handle(j) ==
    \/ ListClients(j) \/ Resolve(j) \/ Register(j)
    \/ FindClient(j) \/ Create(j) \/ Patch(j) \/ Delete(j)

Next ==
    \/ \E j \in Slot : Deliver(j) \/ Handle(j)
    \/ Reopen \/ Crash
    \/ EditIngress \/ CreateIngress \/ DeleteIngress \/ Collect \/ UserClient

(* A handler runs on, the watch delivers and is opened again at the latest  *)
(* when its request times out, the collector collects.                      *)
FairSpec ==
    /\ Init /\ [][Next]_vars
    /\ \A j \in Slot : WF_vars(Handle(j)) /\ WF_vars(Deliver(j))
    /\ WF_vars(Reopen) /\ WF_vars(Collect)
-----------------------------------------------------------------------------

(* Types. *)
TypeOK ==
    /\ ingress \in Ingress /\ client \in Client /\ events \in Seq(Ingress)
    /\ job \in [Slot -> Job]
    /\ ref.host \in Hosts /\ (ref.ready => ref.host \in Host)

Describes(c, i) ==
    c.kind = "found" /\ c.owner = i.uid /\ c.host = i.host /\ (i.limited => c.limited)
Asks(i) == i.asks /\ i.host # NoHost

(* What the annotations ask for is what there is, a hand-written client of   *)
(* the name aside.  The client may be limited though the Ingress is not.     *)
InStep ==
    /\ Asks(ingress) => client.kind = "hand" \/ Describes(client, ingress)
    /\ ~ingress.asks => client.kind # "found" \/ client.owner # ingress.uid

(* Users, failures, overlaps and re-creations have not interfered. *)
AtRest == Calm /\ events = <<>> /\ ~lapped /\ ~failed /\ ~crossed /\ ~reused

(* Edits handled one at a time, none of them failing, leave the generated    *)
(* client as the Ingress describes it, unless users or a re-creation of the  *)
(* Ingress interfere; it is limited although the Ingress is not only by a    *)
(* limit that the same Ingress had before.                                   *)
Enrolled ==
    AtRest =>
        /\ InStep
        /\ client.kind = "found" /\ client.limited /\ ingress.uid # 0 => ingress.limited \/ withdrawn

(* A hand-written client is left alone by every handler, whatever overlaps   *)
(* or fails, unless it appeared while one was under way.                     *)
HandKept == [][~crossed /\ client.kind = "hand" => client' = client \/ crossed']_vars

(* However an edit and the handlers of earlier ones interleave, once all is  *)
(* handled a referencing client that is Ready is registered with the host    *)
(* that the Ingress has, if handlers did not overlap and none failed.        *)
RefFollows ==
    Calm /\ events = <<>> /\ ~lapped /\ ~failed /\ ingress.uid # 0 =>
        /\ ref.ready <=> ingress.host # NoHost
        /\ ref.ready => ref.host = ingress.host

(* Failed calls, crashes, overlaps and re-creations are made good once the   *)
(* watch opens again: the generated client has what the annotations say.  A  *)
(* limit that they have ceased to name is the exception, which no reopening  *)
(* takes away; InStep allows it.                                             *)
Healed == <>[]InStep
=============================================================================
