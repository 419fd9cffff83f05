---------------------------- MODULE LeaderElection ----------------------------
(***************************************************************************)
(* Which replica runs the operators: the election loop of                  *)
(* src/src/services/leader-election.js over one coordination.k8s.io Lease,  *)
(* with the callbacks src/src/app.js hands it and its shutdown hook.        *)
(*                                                                         *)
(* Time is kept as ages, in whole units: how long ago a timestamp was      *)
(* taken.  An age is only ever compared with Duration and Deadline, so one  *)
(* past both of them is not told apart from a greater one, and nothing here *)
(* bounds how long the system runs.  The clocks of the pods agree.          *)
(***************************************************************************)
EXTENDS Integers

CONSTANTS
    Pod,        \* the replicas, by pod name
    NoPod,      \* the holder of a lease nobody holds
    Duration,   \* leaseDurationSeconds
    Deadline,   \* renewDeadlineSeconds
    Faults,     \* how an API call may fail, other than with a 409
    MaxFault,   \* bound: API calls that fail
    MaxCrash    \* bound: processes that die

ASSUME LeaderElectionAssumption ==
    /\ NoPod \notin Pod
    /\ Duration \in Nat /\ Deadline \in Nat
    /\ Faults \subseteq {"forbidden", "error"}
    /\ MaxFault \in Nat /\ MaxCrash \in Nat

VARIABLES
    lease,     \* the Lease: its holder (NoPod before it exists) and the age of its renewTime
    up,        \* each process: down, booting (first tick), serving, gone
    timer,     \* whether the retry interval is set
    leading,   \* this.leading
    since,     \* the age of this.lastRenewedAt
    tick,      \* the tick in flight: its step, its view of the lease, its timestamp
    halt,      \* the stop() in flight: its step
    view,      \* whether the lease stop() read is still the one stored
    ops,       \* the operators: off, starting, on (stopReconcilers is set)
    wrote,     \* history: the age of the timestamp of the pod's last write
    spent      \* how much of each bound is used

vars == <<lease, up, timer, leading, since, tick, halt, view, ops, wrote, spent>>
process == <<up, timer, leading, since, ops>>

-----------------------------------------------------------------------------
Long == IF Duration > Deadline THEN Duration + 1 ELSE Deadline + 1
Age == 0 .. Long
Older(a) == IF a < Long THEN a + 1 ELSE a

Quiet == [pc |-> "idle", current |-> FALSE, age |-> 0]
TickSteps == {"idle", "reading", "acquiring", "renewing", "acquired", "renewed",
              "starting", "fallback"}

Types ==
    /\ lease \in [holder : Pod \cup {NoPod}, age : Age]
    /\ up \in [Pod -> {"down", "booting", "serving", "gone"}]
    /\ timer \in [Pod -> BOOLEAN]
    /\ leading \in [Pod -> BOOLEAN]
    /\ since \in [Pod -> Age]
    /\ tick \in [Pod -> [pc : TickSteps, current : BOOLEAN, age : Age]]
    /\ halt \in [Pod -> {"none", "reading", "releasing", "done"}]
    /\ view \in [Pod -> BOOLEAN]
    /\ ops \in [Pod -> {"off", "starting", "on"}]
    /\ wrote \in [Pod -> Age]
    /\ spent \in [fault : Nat, crash : Nat]

Init ==
    /\ lease = [holder |-> NoPod, age |-> Long]
    /\ up = [p \in Pod |-> "down"]
    /\ timer = [p \in Pod |-> FALSE]
    /\ leading = [p \in Pod |-> FALSE]
    /\ since = [p \in Pod |-> Long]
    /\ tick = [p \in Pod |-> Quiet]
    /\ halt = [p \in Pod |-> "none"]
    /\ view = [p \in Pod |-> FALSE]
    /\ ops = [p \in Pod |-> "off"]
    /\ wrote = [p \in Pod |-> Long]
    /\ spent = [fault |-> 0, crash |-> 0]

-----------------------------------------------------------------------------
(* A tick whose write, if it still lands, brings the timestamp it has taken. *)
Dated(p) == tick[p].pc \in {"acquiring", "renewing"}

(* Time passes. *)
Pass ==
    /\ lease' = [lease EXCEPT !.age = Older(@)]
    /\ since' = [p \in Pod |-> Older(since[p])]
    /\ tick' = [p \in Pod |-> IF Dated(p) THEN [tick[p] EXCEPT !.age = Older(@)] ELSE tick[p]]
    /\ wrote' = [p \in Pod |-> Older(wrote[p])]
    /\ UNCHANGED <<up, timer, leading, halt, view, ops, spent>>

(* Mutant: the lease is held to the renew deadline instead of its duration. *)
ExpiredEarly == lease.holder = NoPod \/ lease.age > Deadline

(* Mutant: only a lease that was handed back is free. *)
ExpiredNever == lease.holder = NoPod

Expired == lease.holder = NoPod \/ lease.age > Duration

At(p, pc) == tick[p].pc = pc

(* Types; and the operators of a pod are starting exactly while a tick of it *)
(* waits for startReconcilers: no other tick, no stop and no crash comes in  *)
(* between and leaves them half started.                                    *)
TypeOK ==
    /\ Types
    /\ \A p \in Pod : ops[p] = "starting" <=> At(p, "starting") \/ At(p, "fallback")

Go(p, pc) == tick' = [tick EXCEPT ![p].pc = pc]

(* The tick returns; the first one is what startOperators waits for. *)
Return(p) ==
    /\ tick' = [tick EXCEPT ![p] = Quiet]
    /\ up' = [up EXCEPT ![p] = "serving"]

StartLeading(p, pc) ==
    \/ leading[p] /\ Return(p) /\ UNCHANGED <<leading, ops>>
    \/ /\ ~leading[p]
       /\ leading' = [leading EXCEPT ![p] = TRUE]
       /\ ops' = [ops EXCEPT ![p] = "starting"]
       /\ Go(p, pc)
       /\ UNCHANGED up

(* Mutant: this.leading is cleared and the operators are not stood down. *)
StopLeadingOnly(p) ==
    /\ leading' = [leading EXCEPT ![p] = FALSE]
    /\ UNCHANGED ops

(* onStoppedLeading calls stopReconcilers, which is not set while the       *)
(* operators are still starting.                                            *)
StopLeading(p) ==
    \/ ~leading[p] /\ UNCHANGED <<leading, ops>>
    \/ /\ leading[p]
       /\ leading' = [leading EXCEPT ![p] = FALSE]
       /\ ops' = [ops EXCEPT ![p] = IF @ = "on" THEN "off" ELSE @]

PastDeadline(p) == since[p] > Deadline

FailRenewal(p) ==
    IF PastDeadline(p) THEN StopLeading(p) ELSE UNCHANGED <<leading, ops>>

Fault(kind) ==
    /\ kind \in Faults /\ spent.fault < MaxFault
    /\ spent' = [spent EXCEPT !.fault = @ + 1]

(* Anything that is neither a 409 nor a lack of rights is thrown, and the   *)
(* tick ends there.                                                         *)
Thrown(p) == Fault("error") /\ Return(p) /\ UNCHANGED <<timer, leading, ops>>

(* #handleApiError: without the right to use Leases, run without election.  *)
ApiError(p) ==
    \/ /\ Fault("forbidden")
       /\ timer' = [timer EXCEPT ![p] = FALSE]
       /\ StartLeading(p, "starting")
    \/ Thrown(p)

-----------------------------------------------------------------------------
(* The process starts, ticks at once and then on its interval. *)
Start(p) ==
    /\ up[p] = "down"
    /\ up' = [up EXCEPT ![p] = "booting"]
    /\ timer' = [timer EXCEPT ![p] = TRUE]
    /\ Go(p, "reading")
    /\ UNCHANGED <<lease, leading, since, halt, view, ops, wrote, spent>>

(* Mutant: a tick does not wait for the last one (this.ticking). *)
FireOverlapping(p) ==
    /\ timer[p] /\ up[p] = "serving"
    /\ Go(p, "reading")
    /\ UNCHANGED <<lease, process, halt, view, wrote, spent>>

Fire(p) ==
    /\ timer[p] /\ up[p] = "serving" /\ At(p, "idle")
    /\ Go(p, "reading")
    /\ UNCHANGED <<lease, process, halt, view, wrote, spent>>

(* getLease answers: create or take over, renew, or stand down. *)
Read(p) ==
    /\ At(p, "reading")
    /\ \/ /\ lease.holder # p /\ Expired
          /\ tick' = [tick EXCEPT ![p] = [pc |-> "acquiring", current |-> TRUE, age |-> 0]]
          /\ UNCHANGED process
       \/ /\ lease.holder = p
          /\ tick' = [tick EXCEPT ![p] = [pc |-> "renewing", current |-> TRUE, age |-> 0]]
          /\ UNCHANGED process
       \/ /\ lease.holder # p /\ ~Expired
          /\ StopLeading(p)
          /\ Return(p)
          /\ UNCHANGED <<timer, since>>
    /\ UNCHANGED <<lease, halt, view, wrote, spent>>

ReadFails(p) ==
    /\ At(p, "reading")
    /\ ApiError(p)
    /\ UNCHANGED <<lease, since, halt, view, wrote>>

(* A write of the lease: every other view of it is out of date. *)
Store(newLease, ticks) ==
    /\ lease' = newLease
    /\ tick' = [q \in Pod |-> [ticks[q] EXCEPT !.current = FALSE]]
    /\ view' = [q \in Pod |-> FALSE]

(* Mutant: a replace that carries no resourceVersion. *)
LandAnyway(p) ==
    /\ \/ At(p, "acquiring") /\ Store([holder |-> p, age |-> tick[p].age],
                                      [tick EXCEPT ![p].pc = "acquired", ![p].age = 0])
       \/ At(p, "renewing") /\ Store([lease EXCEPT !.age = tick[p].age],
                                     [tick EXCEPT ![p].pc = "renewed", ![p].age = 0])
    /\ wrote' = [wrote EXCEPT ![p] = tick[p].age]
    /\ UNCHANGED <<process, halt, spent>>

(* The create or replace reaches the API server and is accepted, because   *)
(* the resourceVersion it carries is the stored one.                        *)
Land(p) ==
    /\ tick[p].current
    /\ \/ At(p, "acquiring") /\ Store([holder |-> p, age |-> tick[p].age],
                                      [tick EXCEPT ![p].pc = "acquired", ![p].age = 0])
       \/ At(p, "renewing") /\ Store([lease EXCEPT !.age = tick[p].age],
                                     [tick EXCEPT ![p].pc = "renewed", ![p].age = 0])
    /\ wrote' = [wrote EXCEPT ![p] = tick[p].age]
    /\ UNCHANGED <<process, halt, spent>>

(* 409 *)
Conflict(p) ==
    /\ ~tick[p].current
    /\ \/ At(p, "acquiring") /\ StopLeading(p)
       \/ At(p, "renewing") /\ FailRenewal(p)
    /\ Return(p)
    /\ UNCHANGED <<lease, timer, since, halt, view, wrote, spent>>

(* The write is refused, or its outcome is lost with the connection. *)
AcquireFails(p) ==
    /\ \/ At(p, "acquiring") /\ ApiError(p)
       \/ At(p, "acquired") /\ Thrown(p)
    /\ UNCHANGED <<lease, since, halt, view, wrote>>

(* #failRenewal only comes after a 409 or a 403: what #handleApiError       *)
(* throws skips it.                                                         *)
RenewFails(p) ==
    /\ \/ /\ At(p, "renewing")
          /\ Fault("forbidden")
          /\ timer' = [timer EXCEPT ![p] = FALSE]
          /\ \/ leading[p] /\ FailRenewal(p) /\ Return(p)
             \/ ~leading[p] /\ StartLeading(p, "fallback")
       \/ (At(p, "renewing") \/ At(p, "renewed")) /\ Thrown(p)
    /\ UNCHANGED <<lease, since, halt, view, wrote>>

Reply(p) ==
    /\ At(p, "acquired") \/ At(p, "renewed")
    /\ since' = [since EXCEPT ![p] = 0]
    /\ StartLeading(p, "starting")
    /\ UNCHANGED <<lease, timer, halt, view, wrote, spent>>

(* startReconcilers is done. After a 403 of a renewal, #failRenewal follows. *)
Started(p) ==
    /\ \/ /\ At(p, "starting")
          /\ ops' = [ops EXCEPT ![p] = "on"]
          /\ UNCHANGED leading
       \/ /\ At(p, "fallback")
          /\ LET stands == leading[p] /\ PastDeadline(p) IN
             /\ leading' = [leading EXCEPT ![p] = @ /\ ~stands]
             /\ ops' = [ops EXCEPT ![p] = IF stands THEN "off" ELSE "on"]
    /\ Return(p)
    /\ UNCHANGED <<lease, timer, since, halt, view, wrote, spent>>

-----------------------------------------------------------------------------
(* The shutdown hook: election.stop(), then stopReconcilers if it is set.   *)

Halted(p) ==
    /\ halt' = [halt EXCEPT ![p] = "done"]
    /\ leading' = [leading EXCEPT ![p] = FALSE]
    /\ ops' = [ops EXCEPT ![p] = IF @ = "on" THEN "off" ELSE @]

Stop(p) ==
    /\ up[p] = "serving" /\ halt[p] = "none"
    /\ timer' = [timer EXCEPT ![p] = FALSE]
    /\ \/ ~leading[p] /\ Halted(p)
       \/ leading[p] /\ halt' = [halt EXCEPT ![p] = "reading"] /\ UNCHANGED <<leading, ops>>
    /\ UNCHANGED <<lease, up, since, tick, view, wrote, spent>>

StopRead(p) ==
    /\ halt[p] = "reading"
    /\ \/ /\ lease.holder = p
          /\ halt' = [halt EXCEPT ![p] = "releasing"]
          /\ view' = [view EXCEPT ![p] = TRUE]
          /\ UNCHANGED <<leading, ops, spent>>
       \/ lease.holder # p /\ Halted(p) /\ UNCHANGED <<view, spent>>
       \/ (\E kind \in Faults : Fault(kind)) /\ Halted(p) /\ UNCHANGED view
    /\ UNCHANGED <<lease, up, timer, since, tick, wrote>>

Release(p) ==
    /\ halt[p] = "releasing"
    /\ \/ /\ view[p]
          /\ Store([lease EXCEPT !.holder = NoPod], tick)
          /\ wrote' = [wrote EXCEPT ![p] = Long]
          /\ UNCHANGED spent
       \/ ~view[p] /\ UNCHANGED <<lease, tick, view, wrote, spent>>
       \/ (\E kind \in Faults : Fault(kind)) /\ UNCHANGED <<lease, tick, view, wrote>>
    /\ Halted(p)
    /\ UNCHANGED <<up, timer, since>>

(* The process dies. Its pod starts it again under the same name, unless it *)
(* was being stopped.                                                       *)
Crash(p) ==
    /\ up[p] \in {"booting", "serving"}
    /\ \/ /\ halt[p] = "none" /\ spent.crash < MaxCrash
          /\ spent' = [spent EXCEPT !.crash = @ + 1]
          /\ up' = [up EXCEPT ![p] = "down"]
       \/ halt[p] # "none" /\ up' = [up EXCEPT ![p] = "gone"] /\ UNCHANGED spent
    /\ timer' = [timer EXCEPT ![p] = FALSE]
    /\ leading' = [leading EXCEPT ![p] = FALSE]
    /\ since' = [since EXCEPT ![p] = Long]
    /\ tick' = [tick EXCEPT ![p] = Quiet]
    /\ ops' = [ops EXCEPT ![p] = "off"]
    /\ halt' = [halt EXCEPT ![p] = IF @ = "none" THEN @ ELSE "done"]
    /\ UNCHANGED <<lease, view, wrote>>

-----------------------------------------------------------------------------
TickStep(p) ==
    \/ Read(p) \/ ReadFails(p) \/ Land(p) \/ Conflict(p) \/ AcquireFails(p)
    \/ RenewFails(p) \/ Reply(p) \/ Started(p)

StopStep(p) == StopRead(p) \/ Release(p)

Next ==
    \/ Pass
    \/ \E p \in Pod : Start(p) \/ Fire(p) \/ TickStep(p) \/ Stop(p) \/ StopStep(p) \/ Crash(p)

Spec == Init /\ [][Next]_vars

(* Time passes, the interval fires while it is set, and calls return. *)
Fairness ==
    /\ WF_vars(Pass)
    /\ \A p \in Pod : WF_vars(Fire(p)) /\ WF_vars(TickStep(p)) /\ WF_vars(StopStep(p))

FairSpec == Spec /\ Fairness

-----------------------------------------------------------------------------
(* Properties. *)

(* The lease is the lock it is meant to be: it changes hands only once its   *)
(* renewTime is older than its duration, or by its holder releasing it on    *)
(* the way out, however reads, writes and crashes of the pods interleave.    *)
LeaseNotStolen ==
    [][lease.holder # NoPod /\ lease'.holder # lease.holder =>
         \/ lease'.holder # NoPod /\ lease.age > Duration
         \/ lease'.holder = NoPod /\ halt[lease.holder] = "releasing"]_vars

(* A pod whose last write of the lease is within the lease duration is its   *)
(* holder: nobody took over from a leader that renews in time, so two pods   *)
(* that both renew in time never lead together ("held by one pod at a time").*)
FreshLeaderHolds ==
    \A p \in Pod : wrote[p] <= Duration => lease.holder = p

(* Between ticks, and until the pod is stopped, the operators run exactly    *)
(* where this.leading says so: no failure, fallback or takeover leaves them  *)
(* running in a pod that stood down, or missing in one that leads.           *)
OperatorsFollow ==
    \A p \in Pod : At(p, "idle") /\ halt[p] = "none" => (leading[p] <=> ops[p] = "on")

(* As long as some pod is up, is not being stopped and keeps its interval     *)
(* (the fallback of a 401 or 403 clears it), the cluster does not stay        *)
(* unreconciled: again and again some pod runs the operators.                 *)
AlwaysReconciledAgain ==
    <>[](\E p \in Pod : up[p] = "serving" /\ halt[p] = "none" /\ timer[p])
        => []<>(\E p \in Pod : ops[p] = "on")

=============================================================================
