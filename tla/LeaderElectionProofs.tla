------------------------- MODULE LeaderElectionProofs -------------------------
(***************************************************************************)
(* Proofs about LeaderElection, for every set of pods, every duration and   *)
(* deadline and every number of failures and crashes.                       *)
(***************************************************************************)
EXTENDS LeaderElection, TLAPS

-----------------------------------------------------------------------------
(* Ages. *)

LEMMA LongIsLong == Long \in Nat /\ Duration < Long /\ Deadline < Long
  BY LeaderElectionAssumption DEF Long

LEMMA OlderAges ==
  ASSUME NEW a \in Age
  PROVE  /\ Older(a) \in Age
         /\ a > Duration => Older(a) > Duration
         /\ Older(a) <= Duration => a <= Duration
  BY LeaderElectionAssumption, LongIsLong DEF Older, Age

LEMMA AgeBounds == 0 \in Age /\ Long \in Age /\ Age \subseteq Nat
  BY LongIsLong DEF Age

-----------------------------------------------------------------------------
(* Type correctness. *)

LEMMA TypeInit == Init => Types
  BY AgeBounds DEF Init, Types, Quiet, TickSteps

(* What the parts of a tick and of a stop keep. *)

TickType == [pc : TickSteps, current : BOOLEAN, age : Age]

LEMMA ReturnType ==
  ASSUME Types, NEW p \in Pod, Return(p)
  PROVE  tick' \in [Pod -> TickType] /\ up' \in [Pod -> {"down", "booting", "serving", "gone"}]
  BY AgeBounds DEF Types, Return, Quiet, TickType, TickSteps

LEMMA GoType ==
  ASSUME Types, NEW p \in Pod, NEW pc \in TickSteps, Go(p, pc)
  PROVE  tick' \in [Pod -> TickType]
  BY DEF Types, Go, TickType

LEMMA StopLeadingType ==
  ASSUME Types, NEW p \in Pod, StopLeading(p)
  PROVE  leading' \in [Pod -> BOOLEAN] /\ ops' \in [Pod -> {"off", "starting", "on"}]
  <1>1. CASE UNCHANGED <<leading, ops>>
    BY <1>1 DEF Types
  <1>2. CASE leading' = [leading EXCEPT ![p] = FALSE]
             /\ ops' = [ops EXCEPT ![p] = IF @ = "on" THEN "off" ELSE @]
    BY <1>2 DEF Types
  <1> QED BY <1>1, <1>2 DEF StopLeading

LEMMA FailRenewalType ==
  ASSUME Types, NEW p \in Pod, FailRenewal(p)
  PROVE  leading' \in [Pod -> BOOLEAN] /\ ops' \in [Pod -> {"off", "starting", "on"}]
  <1>1. CASE UNCHANGED <<leading, ops>>
    BY <1>1 DEF Types
  <1>2. CASE StopLeading(p)
    BY <1>2, StopLeadingType
  <1> QED BY <1>1, <1>2 DEF FailRenewal

LEMMA StartLeadingType ==
  ASSUME Types, NEW p \in Pod, NEW pc \in TickSteps, StartLeading(p, pc)
  PROVE  /\ leading' \in [Pod -> BOOLEAN] /\ ops' \in [Pod -> {"off", "starting", "on"}]
         /\ tick' \in [Pod -> TickType]
         /\ up' \in [Pod -> {"down", "booting", "serving", "gone"}]
  <1>1. CASE leading[p] /\ Return(p) /\ UNCHANGED <<leading, ops>>
    BY <1>1, ReturnType DEF Types
  <1>2. CASE /\ leading' = [leading EXCEPT ![p] = TRUE]
             /\ ops' = [ops EXCEPT ![p] = "starting"]
             /\ Go(p, pc)
             /\ UNCHANGED up
    BY <1>2, GoType DEF Types
  <1> QED BY <1>1, <1>2 DEF StartLeading

LEMMA FaultType ==
  ASSUME Types, NEW kind, Fault(kind)
  PROVE  spent' \in [fault : Nat, crash : Nat]
  BY DEF Types, Fault

LEMMA ThrownType ==
  ASSUME Types, NEW p \in Pod, Thrown(p)
  PROVE  /\ leading' \in [Pod -> BOOLEAN] /\ ops' \in [Pod -> {"off", "starting", "on"}]
         /\ tick' \in [Pod -> TickType]
         /\ up' \in [Pod -> {"down", "booting", "serving", "gone"}]
         /\ spent' \in [fault : Nat, crash : Nat]
         /\ timer' \in [Pod -> BOOLEAN]
  <1>1. leading' \in [Pod -> BOOLEAN] /\ ops' \in [Pod -> {"off", "starting", "on"}]
        /\ timer' \in [Pod -> BOOLEAN]
    BY DEF Types, Thrown
  <1> QED BY <1>1, FaultType, ReturnType DEF Thrown

LEMMA ApiErrorType ==
  ASSUME Types, NEW p \in Pod, ApiError(p)
  PROVE  /\ leading' \in [Pod -> BOOLEAN] /\ ops' \in [Pod -> {"off", "starting", "on"}]
         /\ tick' \in [Pod -> TickType]
         /\ up' \in [Pod -> {"down", "booting", "serving", "gone"}]
         /\ spent' \in [fault : Nat, crash : Nat]
         /\ timer' \in [Pod -> BOOLEAN]
  <1>1. CASE Thrown(p)
    BY <1>1, ThrownType
  <1>2. CASE /\ Fault("forbidden")
             /\ timer' = [timer EXCEPT ![p] = FALSE]
             /\ StartLeading(p, "starting")
    <2>1. "starting" \in TickSteps
      BY DEF TickSteps
    <2>2. timer' \in [Pod -> BOOLEAN]
      BY <1>2 DEF Types
    <2> QED BY <1>2, <2>1, <2>2, StartLeadingType, FaultType
  <1> QED BY <1>1, <1>2 DEF ApiError

LEMMA HaltedType ==
  ASSUME Types, NEW p \in Pod, Halted(p)
  PROVE  /\ halt' \in [Pod -> {"none", "reading", "releasing", "done"}]
         /\ leading' \in [Pod -> BOOLEAN] /\ ops' \in [Pod -> {"off", "starting", "on"}]
  BY DEF Types, Halted

LEMMA StoreType ==
  ASSUME Types, NEW newLease \in [holder : Pod \cup {NoPod}, age : Age],
         NEW ticks \in [Pod -> TickType], Store(newLease, ticks)
  PROVE  /\ lease' \in [holder : Pod \cup {NoPod}, age : Age]
         /\ tick' \in [Pod -> TickType]
         /\ view' \in [Pod -> BOOLEAN]
  BY DEF Types, Store, TickType

(* A tick whose write has landed waits for its answer. *)
LEMMA Landed ==
  ASSUME tick \in [Pod -> TickType], NEW p \in Pod, NEW pc \in {"acquired", "renewed"}
  PROVE  /\ [tick EXCEPT ![p].pc = pc, ![p].age = 0] \in [Pod -> TickType]
         /\ [tick EXCEPT ![p].pc = pc, ![p].age = 0][p].pc = pc
         /\ \A q \in Pod \ {p} : [tick EXCEPT ![p].pc = pc, ![p].age = 0][q].pc = tick[q].pc
<1> DEFINE one == [tick[p] EXCEPT !.pc = pc, !.age = 0]
<1>1. tick[p] \in TickType
  OBVIOUS
<1>2. one \in TickType /\ one.pc = pc
  BY <1>1, AgeBounds DEF TickType, TickSteps
<1>3. [tick EXCEPT ![p].pc = pc, ![p].age = 0] = [tick EXCEPT ![p] = one]
  BY <1>1 DEF TickType
<1> QED BY <1>2, <1>3

LEMMA TypeStep == Types /\ [Next]_vars => Types'
  <1> SUFFICES ASSUME Types, [Next]_vars PROVE Types'
    OBVIOUS
  <1>0. "starting" \in TickSteps /\ "fallback" \in TickSteps /\ "reading" \in TickSteps
        /\ "acquiring" \in TickSteps /\ "renewing" \in TickSteps
        /\ "acquired" \in TickSteps /\ "renewed" \in TickSteps
    BY DEF TickSteps
  <1> USE DEF Types
  <1>1. CASE Pass
    <2>1. \A a \in Age : Older(a) \in Age
      BY OlderAges
    <2> QED BY <1>1, <2>1 DEF Pass
  <1>2. ASSUME NEW p \in Pod, Start(p) PROVE Types'
    BY <1>0, <1>2, GoType DEF Start, TickType
  <1>3. ASSUME NEW p \in Pod, Fire(p) PROVE Types'
    BY <1>0, <1>3, GoType DEF Fire, process, TickType
  <1>4. ASSUME NEW p \in Pod, Read(p) PROVE Types'
    <2>1. CASE tick' = [tick EXCEPT ![p] = [pc |-> "acquiring", current |-> TRUE, age |-> 0]]
               /\ UNCHANGED process
      BY <1>0, <1>4, <2>1, AgeBounds DEF Read, process
    <2>2. CASE tick' = [tick EXCEPT ![p] = [pc |-> "renewing", current |-> TRUE, age |-> 0]]
               /\ UNCHANGED process
      BY <1>0, <1>4, <2>2, AgeBounds DEF Read, process
    <2>3. CASE StopLeading(p) /\ Return(p) /\ UNCHANGED <<timer, since>>
      <3>1. UNCHANGED <<lease, halt, view, wrote, spent>>
        BY <1>4 DEF Read
      <3> QED BY <2>3, <3>1, StopLeadingType, ReturnType DEF TickType
    <2> QED BY <1>4, <2>1, <2>2, <2>3 DEF Read
  <1>5. ASSUME NEW p \in Pod, ReadFails(p) PROVE Types'
    BY <1>5, ApiErrorType DEF ReadFails, TickType
  <1>6. ASSUME NEW p \in Pod, Land(p) PROVE Types'
    <2>1. [tick EXCEPT ![p].pc = "acquired", ![p].age = 0] \in [Pod -> TickType]
          /\ [tick EXCEPT ![p].pc = "renewed", ![p].age = 0] \in [Pod -> TickType]
      BY Landed DEF TickType
    <2>2. [holder |-> p, age |-> tick[p].age] \in [holder : Pod \cup {NoPod}, age : Age]
          /\ [lease EXCEPT !.age = tick[p].age] \in [holder : Pod \cup {NoPod}, age : Age]
      OBVIOUS
    <2>3. lease' \in [holder : Pod \cup {NoPod}, age : Age] /\ tick' \in [Pod -> TickType]
          /\ view' \in [Pod -> BOOLEAN]
      BY <1>6, <2>1, <2>2, StoreType DEF Land
    <2>4. wrote' \in [Pod -> Age] /\ UNCHANGED <<process, halt, spent>>
      BY <1>6 DEF Land
    <2> QED BY <2>3, <2>4 DEF process, TickType
  <1>7. ASSUME NEW p \in Pod, Conflict(p) PROVE Types'
    <2>1. leading' \in [Pod -> BOOLEAN] /\ ops' \in [Pod -> {"off", "starting", "on"}]
      BY <1>7, StopLeadingType, FailRenewalType DEF Conflict
    <2> QED BY <1>7, <2>1, ReturnType DEF Conflict, TickType
  <1>8. ASSUME NEW p \in Pod, AcquireFails(p) PROVE Types'
    <2>1. ApiError(p) \/ Thrown(p)
      BY <1>8 DEF AcquireFails
    <2>2. UNCHANGED <<lease, since, halt, view, wrote>>
      BY <1>8 DEF AcquireFails
    <2> QED BY <2>1, <2>2, ApiErrorType, ThrownType DEF TickType
  <1>9. ASSUME NEW p \in Pod, RenewFails(p) PROVE Types'
    <2>0. UNCHANGED <<lease, since, halt, view, wrote>>
      BY <1>9 DEF RenewFails
    <2>1. CASE Thrown(p)
      BY <2>0, <2>1, ThrownType DEF TickType
    <2>2. CASE Fault("forbidden") /\ timer' = [timer EXCEPT ![p] = FALSE]
               /\ FailRenewal(p) /\ Return(p)
      BY <2>0, <2>2, FaultType, FailRenewalType, ReturnType DEF TickType
    <2>3. CASE Fault("forbidden") /\ timer' = [timer EXCEPT ![p] = FALSE]
               /\ StartLeading(p, "fallback")
      BY <1>0, <2>0, <2>3, FaultType, StartLeadingType DEF TickType
    <2> QED BY <1>9, <2>1, <2>2, <2>3 DEF RenewFails
  <1>10. ASSUME NEW p \in Pod, Reply(p) PROVE Types'
    <2>1. since' \in [Pod -> Age] /\ UNCHANGED <<lease, timer, halt, view, wrote, spent>>
          /\ StartLeading(p, "starting")
      BY <1>10, AgeBounds DEF Reply
    <2> QED BY <1>0, <2>1, StartLeadingType DEF TickType
  <1>11. ASSUME NEW p \in Pod, Started(p) PROVE Types'
    <2>1. leading' \in [Pod -> BOOLEAN] /\ ops' \in [Pod -> {"off", "starting", "on"}]
      BY <1>11 DEF Started
    <2> QED BY <1>11, <2>1, ReturnType DEF Started, TickType
  <1>12. ASSUME NEW p \in Pod, Stop(p) PROVE Types'
    <2>1. CASE Halted(p)
      BY <1>12, <2>1, HaltedType DEF Stop
    <2>2. CASE halt' = [halt EXCEPT ![p] = "reading"] /\ UNCHANGED <<leading, ops>>
      BY <1>12, <2>2 DEF Stop
    <2> QED BY <1>12, <2>1, <2>2 DEF Stop
  <1>13. ASSUME NEW p \in Pod, StopRead(p) PROVE Types'
    <2>0. UNCHANGED <<lease, up, timer, since, tick, wrote>>
      BY <1>13 DEF StopRead
    <2>1. CASE /\ halt' = [halt EXCEPT ![p] = "releasing"]
               /\ view' = [view EXCEPT ![p] = TRUE]
               /\ UNCHANGED <<leading, ops, spent>>
      BY <2>0, <2>1
    <2>2. CASE Halted(p) /\ UNCHANGED <<view, spent>>
      BY <2>0, <2>2, HaltedType
    <2>3. CASE (\E kind \in Faults : Fault(kind)) /\ Halted(p) /\ UNCHANGED view
      BY <2>0, <2>3, HaltedType, FaultType
    <2> QED BY <1>13, <2>1, <2>2, <2>3 DEF StopRead
  <1>14. ASSUME NEW p \in Pod, Release(p) PROVE Types'
    <2>0. Halted(p) /\ UNCHANGED <<up, timer, since>>
      BY <1>14 DEF Release
    <2>1. CASE /\ Store([lease EXCEPT !.holder = NoPod], tick)
               /\ wrote' = [wrote EXCEPT ![p] = Long]
               /\ UNCHANGED spent
      <3>1. [lease EXCEPT !.holder = NoPod] \in [holder : Pod \cup {NoPod}, age : Age]
            /\ tick \in [Pod -> TickType]
        BY DEF TickType
      <3> QED BY <2>0, <2>1, <3>1, StoreType, HaltedType, AgeBounds DEF TickType
    <2>2. CASE UNCHANGED <<lease, tick, view, wrote, spent>>
      BY <2>0, <2>2, HaltedType
    <2>3. CASE (\E kind \in Faults : Fault(kind)) /\ UNCHANGED <<lease, tick, view, wrote>>
      BY <2>0, <2>3, HaltedType, FaultType
    <2> QED BY <1>14, <2>1, <2>2, <2>3 DEF Release
  <1>15. ASSUME NEW p \in Pod, Crash(p) PROVE Types'
    <2>1. tick' \in [Pod -> TickType] /\ since' \in [Pod -> Age]
      BY <1>15, AgeBounds DEF Crash, Quiet, TickSteps, TickType
    <2>2. up' \in [Pod -> {"down", "booting", "serving", "gone"}]
      BY <1>15 DEF Crash
    <2>3. spent' \in [fault : Nat, crash : Nat]
      BY <1>15 DEF Crash
    <2>4. /\ timer' \in [Pod -> BOOLEAN] /\ leading' \in [Pod -> BOOLEAN]
          /\ ops' \in [Pod -> {"off", "starting", "on"}]
          /\ halt' \in [Pod -> {"none", "reading", "releasing", "done"}]
      BY <1>15 DEF Crash
    <2>5. UNCHANGED <<lease, view, wrote>>
      BY <1>15 DEF Crash
    <2> QED BY <2>1, <2>2, <2>3, <2>4, <2>5 DEF TickType
  <1>16. CASE UNCHANGED vars
    BY <1>16 DEF vars
  <1> QED
    BY <1>1, <1>2, <1>3, <1>4, <1>5, <1>6, <1>7, <1>8, <1>9, <1>10, <1>11, <1>12, <1>13,
       <1>14, <1>15, <1>16 DEF Next, TickStep, StopStep

-----------------------------------------------------------------------------
(* The lock. Its inductive invariant says what each write in flight relies   *)
(* on for as long as the lease it was prepared from is the one stored.       *)

FreshWrite == \A p \in Pod : wrote[p] <= Duration => lease.holder = p /\ lease.age = wrote[p]

AcquireView ==
    \A p \in Pod : At(p, "acquiring") /\ tick[p].current => Expired

RenewView ==
    \A p \in Pod : At(p, "renewing") /\ tick[p].current => lease.holder = p

ReleaseView ==
    \A p \in Pod : halt[p] = "releasing" /\ view[p] => lease.holder = p

LockInv == FreshWrite /\ AcquireView /\ RenewView /\ ReleaseView

LEMMA LockInit == Init => LockInv
  BY LongIsLong, LeaderElectionAssumption
     DEF Init, LockInv, FreshWrite, AcquireView, RenewView, ReleaseView, At, Quiet

(* A step that neither writes the lease nor prepares a write of it. *)
Leaves(p) == tick'[p] = tick[p] \/ tick'[p].pc \notin {"acquiring", "renewing"}

LEMMA LeavesLock ==
  ASSUME LockInv, UNCHANGED <<lease, wrote>>, \A p \in Pod : Leaves(p),
         \A p \in Pod : halt'[p] = "releasing" => halt[p] = "releasing" /\ view'[p] = view[p]
  PROVE  LockInv'
  BY DEF LockInv, FreshWrite, AcquireView, RenewView, ReleaseView, At, Leaves, Expired

LEMMA ReturnLeaves ==
  ASSUME Types, NEW p \in Pod, Return(p) PROVE \A q \in Pod : Leaves(q)
  BY DEF Types, Return, Quiet, Leaves

LEMMA GoLeaves ==
  ASSUME Types, NEW p \in Pod, NEW pc, pc \notin {"acquiring", "renewing"}, Go(p, pc)
  PROVE  \A q \in Pod : Leaves(q)
  BY DEF Types, Go, Leaves

LEMMA StartLeadingLeaves ==
  ASSUME Types, NEW p \in Pod, NEW pc, pc \notin {"acquiring", "renewing"}, StartLeading(p, pc)
  PROVE  \A q \in Pod : Leaves(q)
  BY ReturnLeaves, GoLeaves DEF StartLeading

LEMMA ApiErrorLeaves ==
  ASSUME Types, NEW p \in Pod, ApiError(p) PROVE \A q \in Pod : Leaves(q)
  BY ReturnLeaves, StartLeadingLeaves DEF ApiError, Thrown

(* A stored write: no view is current any more. *)
LEMMA StoreLeaves ==
  ASSUME Types, NEW newLease, NEW ticks \in [Pod -> TickType], Store(newLease, ticks)
  PROVE  /\ lease' = newLease
         /\ AcquireView' /\ RenewView' /\ ReleaseView'
  BY DEF Store, TickType, AcquireView, RenewView, ReleaseView, At

LEMMA HaltedLeaves ==
  ASSUME Types, NEW p \in Pod, Halted(p)
  PROVE  \A q \in Pod : halt'[q] = "releasing" => halt[q] = "releasing" /\ q # p
  BY DEF Types, Halted

LEMMA AgesAreNumbers ==
  ASSUME Types
  PROVE  lease.age \in Nat /\ \A p \in Pod : wrote[p] \in Nat /\ tick[p].age \in Nat
  BY AgeBounds DEF Types

LEMMA LockStep == Types /\ LockInv /\ [Next]_vars => LockInv'
  <1> SUFFICES ASSUME Types, LockInv, [Next]_vars PROVE LockInv'
    OBVIOUS
  <1>1. CASE Pass
    <2>1. \A a \in Age : (a > Duration => Older(a) > Duration) /\ (Older(a) <= Duration => a <= Duration)
      BY OlderAges
    <2>2. \A p \in Pod : wrote'[p] = Older(wrote[p]) /\ wrote[p] \in Age
                           /\ tick'[p].pc = tick[p].pc /\ tick'[p].current = tick[p].current
      BY <1>1 DEF Pass, Types
    <2>3. lease'.holder = lease.holder /\ lease'.age = Older(lease.age) /\ lease.age \in Age
      BY <1>1 DEF Pass, Types
    <2>4. FreshWrite'
      BY <2>1, <2>2, <2>3 DEF LockInv, FreshWrite
    <2>5. AcquireView' /\ RenewView'
      BY <2>1, <2>2, <2>3 DEF LockInv, AcquireView, RenewView, At, Expired
    <2>6. ReleaseView'
      BY <1>1, <2>3 DEF Pass, LockInv, ReleaseView
    <2> QED BY <2>4, <2>5, <2>6 DEF LockInv
  <1>2. ASSUME NEW p \in Pod, Start(p) PROVE LockInv'
    <2>1. \A q \in Pod : Leaves(q)
      BY <1>2, GoLeaves DEF Start
    <2> QED BY <1>2, <2>1, LeavesLock DEF Start
  <1>3. ASSUME NEW p \in Pod, Fire(p) PROVE LockInv'
    <2>1. \A q \in Pod : Leaves(q)
      BY <1>3, GoLeaves DEF Fire
    <2> QED BY <1>3, <2>1, LeavesLock DEF Fire
  <1>4. ASSUME NEW p \in Pod, Read(p) PROVE LockInv'
    <2>0. UNCHANGED <<lease, halt, view, wrote, spent>>
      BY <1>4 DEF Read
    <2>1. CASE /\ lease.holder # p /\ Expired
               /\ tick' = [tick EXCEPT ![p] = [pc |-> "acquiring", current |-> TRUE, age |-> 0]]
      BY <2>0, <2>1 DEF Types, LockInv, FreshWrite, AcquireView, RenewView, ReleaseView, At, Expired
    <2>2. CASE /\ lease.holder = p
               /\ tick' = [tick EXCEPT ![p] = [pc |-> "renewing", current |-> TRUE, age |-> 0]]
      BY <2>0, <2>2 DEF Types, LockInv, FreshWrite, AcquireView, RenewView, ReleaseView, At, Expired
    <2>3. CASE Return(p)
      <3>1. \A q \in Pod : Leaves(q)
        BY <2>3, ReturnLeaves
      <3> QED BY <2>0, <3>1, LeavesLock
    <2> QED BY <1>4, <2>1, <2>2, <2>3 DEF Read
  <1>5. ASSUME NEW p \in Pod, ReadFails(p) PROVE LockInv'
    <2>1. \A q \in Pod : Leaves(q)
      BY <1>5, ApiErrorLeaves DEF ReadFails
    <2> QED BY <1>5, <2>1, LeavesLock DEF ReadFails
  <1>6. ASSUME NEW p \in Pod, Land(p) PROVE LockInv'
    <2>0. tick[p].current /\ wrote' = [wrote EXCEPT ![p] = tick[p].age] /\ tick[p].age \in Age
      BY <1>6 DEF Land, Types
    <2>1. tick \in [Pod -> TickType]
      BY DEF Types, TickType
    <2>2. CASE At(p, "acquiring") /\ Store([holder |-> p, age |-> tick[p].age],
                                           [tick EXCEPT ![p].pc = "acquired", ![p].age = 0])
      <3>1. [tick EXCEPT ![p].pc = "acquired", ![p].age = 0] \in [Pod -> TickType]
        BY <2>1, Landed
      <3>2. lease' = [holder |-> p, age |-> tick[p].age] /\ AcquireView' /\ RenewView' /\ ReleaseView'
        BY <2>2, <3>1, StoreLeaves
      <3>3. Expired
        BY <2>0, <2>2 DEF LockInv, AcquireView
      <3>4. ASSUME NEW q \in Pod PROVE ~(wrote[q] <= Duration)
        BY <3>3, LeaderElectionAssumption, AgesAreNumbers DEF LockInv, FreshWrite, Expired
      <3>5. \A q \in Pod : wrote'[q] = IF q = p THEN tick[p].age ELSE wrote[q]
        BY <2>0 DEF Types
      <3>6. FreshWrite'
        BY <3>2, <3>4, <3>5 DEF FreshWrite
      <3> QED BY <3>2, <3>6 DEF LockInv
    <2>3. CASE At(p, "renewing") /\ Store([lease EXCEPT !.age = tick[p].age],
                                          [tick EXCEPT ![p].pc = "renewed", ![p].age = 0])
      <3>1. [tick EXCEPT ![p].pc = "renewed", ![p].age = 0] \in [Pod -> TickType]
        BY <2>1, Landed
      <3>2. lease' = [lease EXCEPT !.age = tick[p].age] /\ AcquireView' /\ RenewView' /\ ReleaseView'
        BY <2>3, <3>1, StoreLeaves
      <3>3. lease.holder = p
        BY <2>0, <2>3 DEF LockInv, RenewView
      <3>4. FreshWrite'
        BY <2>0, <3>2, <3>3, LeaderElectionAssumption, AgeBounds DEF LockInv, FreshWrite, Types
      <3> QED BY <3>2, <3>4 DEF LockInv
    <2> QED BY <1>6, <2>2, <2>3 DEF Land
  <1>7. ASSUME NEW p \in Pod, Conflict(p) PROVE LockInv'
    <2>1. \A q \in Pod : Leaves(q)
      BY <1>7, ReturnLeaves DEF Conflict
    <2> QED BY <1>7, <2>1, LeavesLock DEF Conflict
  <1>8. ASSUME NEW p \in Pod, AcquireFails(p) PROVE LockInv'
    <2>1. \A q \in Pod : Leaves(q)
      BY <1>8, ApiErrorLeaves, ReturnLeaves DEF AcquireFails, Thrown
    <2> QED BY <1>8, <2>1, LeavesLock DEF AcquireFails
  <1>9. ASSUME NEW p \in Pod, RenewFails(p) PROVE LockInv'
    <2>1. \A q \in Pod : Leaves(q)
      BY <1>9, StartLeadingLeaves, ReturnLeaves DEF RenewFails, Thrown
    <2> QED BY <1>9, <2>1, LeavesLock DEF RenewFails
  <1>10. ASSUME NEW p \in Pod, Reply(p) PROVE LockInv'
    <2>1. \A q \in Pod : Leaves(q)
      BY <1>10, StartLeadingLeaves DEF Reply
    <2> QED BY <1>10, <2>1, LeavesLock DEF Reply
  <1>11. ASSUME NEW p \in Pod, Started(p) PROVE LockInv'
    <2>1. \A q \in Pod : Leaves(q)
      BY <1>11, ReturnLeaves DEF Started
    <2> QED BY <1>11, <2>1, LeavesLock DEF Started
  <1>12. ASSUME NEW p \in Pod, Stop(p) PROVE LockInv'
    <2>1. UNCHANGED <<lease, tick, view, wrote>>
      BY <1>12 DEF Stop
    <2>2. \A q \in Pod : halt'[q] = "releasing" => halt[q] = "releasing"
      BY <1>12, HaltedLeaves DEF Stop, Types
    <2> QED BY <2>1, <2>2, LeavesLock DEF Leaves
  <1>13. ASSUME NEW p \in Pod, StopRead(p) PROVE LockInv'
    <2>0. UNCHANGED <<lease, tick, wrote>>
      BY <1>13 DEF StopRead
    <2>1. CASE /\ lease.holder = p
               /\ halt' = [halt EXCEPT ![p] = "releasing"]
               /\ view' = [view EXCEPT ![p] = TRUE]
      BY <2>0, <2>1 DEF Types, LockInv, FreshWrite, AcquireView, RenewView, ReleaseView, At, Expired
    <2>2. CASE Halted(p) /\ UNCHANGED view
      BY <2>0, <2>2, HaltedLeaves, LeavesLock DEF Leaves
    <2> QED BY <1>13, <2>1, <2>2 DEF StopRead
  <1>14. ASSUME NEW p \in Pod, Release(p) PROVE LockInv'
    <2>0. halt[p] = "releasing" /\ Halted(p)
      BY <1>14 DEF Release
    <2>1. CASE /\ view[p]
               /\ Store([lease EXCEPT !.holder = NoPod], tick)
               /\ wrote' = [wrote EXCEPT ![p] = Long]
      <3>1. tick \in [Pod -> TickType]
        BY DEF Types, TickType
      <3>2. AcquireView' /\ RenewView' /\ ReleaseView'
        BY <2>1, <3>1, StoreLeaves
      <3>3. lease.holder = p
        BY <2>0, <2>1 DEF LockInv, ReleaseView
      <3>4. \A q \in Pod : wrote'[q] = IF q = p THEN Long ELSE wrote[q]
        BY <2>1 DEF Types
      <3>5. FreshWrite'
        BY <3>3, <3>4, LongIsLong, LeaderElectionAssumption DEF LockInv, FreshWrite
      <3> QED BY <3>2, <3>5 DEF LockInv
    <2>2. CASE UNCHANGED <<lease, tick, view, wrote>>
      BY <2>0, <2>2, HaltedLeaves, LeavesLock DEF Leaves
    <2> QED BY <1>14, <2>1, <2>2 DEF Release
  <1>15. ASSUME NEW p \in Pod, Crash(p) PROVE LockInv'
    <2>1. \A q \in Pod : Leaves(q)
      BY <1>15 DEF Crash, Types, Quiet, Leaves
    <2>2. \A q \in Pod : halt'[q] = "releasing" => halt[q] = "releasing"
      BY <1>15 DEF Crash, Types
    <2> QED BY <1>15, <2>1, <2>2, LeavesLock DEF Crash
  <1>16. CASE UNCHANGED vars
    BY <1>16, LeavesLock DEF vars, Leaves
  <1> QED
    BY <1>1, <1>2, <1>3, <1>4, <1>5, <1>6, <1>7, <1>8, <1>9, <1>10, <1>11, <1>12, <1>13,
       <1>14, <1>15, <1>16 DEF Next, TickStep, StopStep

(* Whatever happens to the calls, a pod whose last write is no older than    *)
(* the lease duration still holds the lease.                                 *)
THEOREM FreshLeader == Spec => []FreshLeaderHolds
  <1>1. LockInv => FreshLeaderHolds
    BY DEF LockInv, FreshWrite, FreshLeaderHolds
  <1> QED BY <1>1, TypeInit, TypeStep, LockInit, LockStep, PTL DEF Spec

(* One step may change the holder of the lease only by taking an expired     *)
(* lease or by releasing one's own.                                          *)
MayChangeHands ==
    lease.holder # NoPod /\ lease'.holder # lease.holder =>
        \/ lease'.holder # NoPod /\ lease.age > Duration
        \/ lease'.holder = NoPod /\ halt[lease.holder] = "releasing"

LEMMA HandoverStep == Types /\ LockInv /\ [Next]_vars => MayChangeHands
  <1> SUFFICES ASSUME Types, LockInv, [Next]_vars PROVE MayChangeHands
    OBVIOUS
  <1>1. CASE lease'.holder = lease.holder
    BY <1>1 DEF MayChangeHands
  <1>2. ASSUME NEW p \in Pod, Land(p) PROVE MayChangeHands
    <2>1. CASE At(p, "acquiring") /\ Store([holder |-> p, age |-> tick[p].age],
                                           [tick EXCEPT ![p].pc = "acquired", ![p].age = 0])
      <3>1. lease' = [holder |-> p, age |-> tick[p].age]
        BY <2>1 DEF Store
      <3>2. Expired
        BY <1>2, <2>1 DEF Land, LockInv, AcquireView
      <3> QED BY <3>1, <3>2, LeaderElectionAssumption DEF Expired, MayChangeHands
    <2>2. CASE Store([lease EXCEPT !.age = tick[p].age], [tick EXCEPT ![p].pc = "renewed", ![p].age = 0])
      <3>1. lease'.holder = lease.holder
        BY <2>2 DEF Store, Types
      <3> QED BY <3>1, <1>1
    <2> QED BY <1>2, <2>1, <2>2 DEF Land
  <1>3. ASSUME NEW p \in Pod, Release(p) PROVE MayChangeHands
    <2>1. CASE view[p] /\ Store([lease EXCEPT !.holder = NoPod], tick)
      <3>1. lease'.holder = NoPod
        BY <2>1 DEF Store, Types
      <3>2. lease.holder = p /\ halt[p] = "releasing"
        BY <1>3, <2>1 DEF Release, LockInv, ReleaseView
      <3> QED BY <3>1, <3>2 DEF MayChangeHands
    <2>2. CASE UNCHANGED lease
      BY <1>1, <2>2
    <2> QED BY <1>3, <2>1, <2>2 DEF Release
  <1>4. ASSUME NEW p \in Pod,
               Start(p) \/ Fire(p) \/ Read(p) \/ ReadFails(p) \/ Conflict(p) \/ AcquireFails(p)
               \/ RenewFails(p) \/ Reply(p) \/ Started(p) \/ Stop(p) \/ StopRead(p) \/ Crash(p)
        PROVE  MayChangeHands
    <2>1. UNCHANGED lease
      BY <1>4 DEF Start, Fire, Read, ReadFails, Conflict, AcquireFails, RenewFails, Reply,
                  Started, Stop, StopRead, Crash
    <2> QED BY <1>1, <2>1
  <1>5. CASE Pass
    BY <1>1, <1>5 DEF Pass, Types
  <1>6. CASE UNCHANGED vars
    BY <1>1, <1>6 DEF vars
  <1> QED BY <1>2, <1>3, <1>4, <1>5, <1>6 DEF Next, TickStep, StopStep

(* The lease never changes hands under a holder that is neither late nor on  *)
(* its way out.                                                              *)
THEOREM LockIsKept == Spec => LeaseNotStolen
  <1>1. Types /\ LockInv /\ [Next]_vars =>
            [lease.holder # NoPod /\ lease'.holder # lease.holder =>
               \/ lease'.holder # NoPod /\ lease.age > Duration
               \/ lease'.holder = NoPod /\ halt[lease.holder] = "releasing"]_vars
    BY HandoverStep DEF MayChangeHands
  <1> QED
    BY <1>1, TypeInit, TypeStep, LockInit, LockStep, PTL DEF Spec, LeaseNotStolen

-----------------------------------------------------------------------------
(* The operators. While they start nothing can stand them down, so the      *)
(* invariant ties "starting" to the tick that waits for them.               *)

Waiting == {"starting", "fallback"}

OpsInv(p) ==
    /\ ops[p] = "starting" => tick[p].pc \in Waiting
    /\ tick[p].pc \in Waiting => ops[p] = "starting"
    /\ halt[p] = "none" /\ leading[p] => ops[p] # "off"
    /\ halt[p] = "none" /\ ops[p] # "off" => leading[p]

OperatorsInv == \A p \in Pod : OpsInv(p)

LEMMA OperatorsInit == Init => OperatorsInv
  <1> SUFFICES ASSUME Init, NEW p \in Pod PROVE OpsInv(p)
    BY DEF OperatorsInv
  <1>1. ops[p] = "off" /\ leading[p] = FALSE /\ tick[p] = Quiet
    BY DEF Init
  <1>2. Quiet.pc \notin Waiting
    BY DEF Quiet, Waiting
  <1> QED BY <1>1, <1>2 DEF OpsInv

(* A process that is down has no tick in flight. *)
DownIsIdle == \A p \in Pod : up[p] = "down" => At(p, "idle")

LEMMA DownInit == Init => DownIsIdle
  BY DEF Init, DownIsIdle, At, Quiet

LEMMA DownStep == Types /\ DownIsIdle /\ [Next]_vars => DownIsIdle'
  <1> SUFFICES ASSUME Types, DownIsIdle, [Next]_vars, NEW p \in Pod, up'[p] = "down"
               PROVE  tick'[p].pc = "idle"
    BY DEF DownIsIdle, At
  <1>0. ASSUME NEW q \in Pod, Return(q) PROVE tick'[p].pc = "idle"
    BY <1>0 DEF Return, Quiet, Types, DownIsIdle, At
  <1>1. CASE Pass
    BY <1>1 DEF Pass, DownIsIdle, At, Types
  <1>2. ASSUME NEW q \in Pod, Start(q) PROVE tick'[p].pc = "idle"
    BY <1>2 DEF Start, Go, DownIsIdle, At, Types
  <1>3. ASSUME NEW q \in Pod, Crash(q) PROVE tick'[p].pc = "idle"
    BY <1>3 DEF Crash, Quiet, DownIsIdle, At, Types
  <1>4. ASSUME NEW q \in Pod, UNCHANGED up, up[q] # "down", \A r \in Pod \ {q} : tick'[r].pc = tick[r].pc
        PROVE  tick'[p].pc = "idle"
    BY <1>4 DEF DownIsIdle, At
  <1>5. ASSUME NEW q \in Pod, Fire(q) PROVE tick'[p].pc = "idle"
    BY <1>4, <1>5 DEF Fire, Go, process, Types
  <1>6. ASSUME NEW q \in Pod, TickStep(q) PROVE tick'[p].pc = "idle"
    <2>1. up[q] # "down"
      BY <1>6 DEF TickStep, Read, ReadFails, Land, Conflict, AcquireFails, RenewFails, Reply,
                  Started, DownIsIdle, At
    <2>2. CASE \E pc \in {"starting", "fallback"} : StartLeading(q, pc)
      BY <1>0, <1>4, <2>1, <2>2 DEF StartLeading, Go, Types
    <2>3. CASE Read(q)
      <3>1. CASE Return(q)
        BY <1>0, <3>1
      <3>2. CASE /\ \/ tick' = [tick EXCEPT ![q] = [pc |-> "acquiring", current |-> TRUE, age |-> 0]]
                    \/ tick' = [tick EXCEPT ![q] = [pc |-> "renewing", current |-> TRUE, age |-> 0]]
                 /\ UNCHANGED process
        <4>1. UNCHANGED up /\ \A r \in Pod \ {q} : tick'[r].pc = tick[r].pc
          BY <3>2 DEF process, Types
        <4> QED BY <1>4, <2>1, <4>1
      <3> QED BY <2>3, <3>1, <3>2 DEF Read
    <2>4. CASE Land(q)
      <3>1. \A r \in Pod \ {q} : tick'[r].pc = tick[r].pc
        <4>1. CASE tick' = [r \in Pod |-> [[tick EXCEPT ![q].pc = "acquired", ![q].age = 0][r] EXCEPT !.current = FALSE]]
          BY <4>1 DEF Types
        <4>2. CASE tick' = [r \in Pod |-> [[tick EXCEPT ![q].pc = "renewed", ![q].age = 0][r] EXCEPT !.current = FALSE]]
          BY <4>2 DEF Types
        <4> QED BY <2>4, <4>1, <4>2 DEF Land, Store
      <3>2. UNCHANGED up
        BY <2>4 DEF Land, process
      <3> QED BY <1>4, <2>1, <3>1, <3>2
    <2>5. CASE ReadFails(q) \/ AcquireFails(q) \/ RenewFails(q) \/ Reply(q)
      BY <1>0, <2>2, <2>5 DEF ReadFails, AcquireFails, RenewFails, Reply, ApiError, Thrown
    <2>6. CASE Conflict(q) \/ Started(q)
      BY <1>0, <2>6 DEF Conflict, Started
    <2> QED BY <1>6, <2>3, <2>4, <2>5, <2>6 DEF TickStep
  <1>7. ASSUME NEW q \in Pod, Stop(q) \/ StopStep(q) PROVE tick'[p].pc = "idle"
    <2>1. UNCHANGED up /\ \A r \in Pod : tick'[r].pc = tick[r].pc
      BY <1>7 DEF Stop, StopStep, StopRead, Release, Store, Types
    <2> QED BY <2>1 DEF DownIsIdle, At
  <1>8. CASE UNCHANGED vars
    BY <1>8 DEF vars, DownIsIdle, At
  <1> QED BY <1>1, <1>2, <1>3, <1>5, <1>6, <1>7, <1>8 DEF Next

(* A step of one pod leaves the others as they were. *)
LEMMA OthersKeep ==
  ASSUME OperatorsInv, NEW p \in Pod, OpsInv(p)',
         \A q \in Pod \ {p} : /\ ops'[q] = ops[q] /\ tick'[q].pc = tick[q].pc
                             /\ leading'[q] = leading[q] /\ halt'[q] = halt[q]
  PROVE  OperatorsInv'
  BY DEF OperatorsInv, OpsInv

(* Standing down at any point of a tick where the operators are not starting. *)
LEMMA StandDown ==
  ASSUME Types, OperatorsInv, NEW p \in Pod, tick[p].pc \notin Waiting,
         StopLeading(p) \/ FailRenewal(p), Return(p), UNCHANGED halt
  PROVE  OperatorsInv'
  <1>1. \A q \in Pod : tick'[q] = IF q = p THEN Quiet ELSE tick[q]
    BY DEF Types, Return
  <1>2. ops[p] # "starting"
    BY DEF OperatorsInv, OpsInv
  <1>3. CASE UNCHANGED <<leading, ops>>
    BY <1>1, <1>2, <1>3 DEF OperatorsInv, OpsInv, Quiet, Waiting
  <1>4. CASE /\ leading' = [leading EXCEPT ![p] = FALSE]
             /\ ops' = [ops EXCEPT ![p] = IF @ = "on" THEN "off" ELSE @]
    <2>1. ~leading'[p] /\ \A q \in Pod \ {p} : leading'[q] = leading[q]
      BY <1>4 DEF Types
    <2>2. \A q \in Pod : ops'[q] = IF q = p THEN "off" ELSE ops[q]
      BY <1>2, <1>4 DEF Types
    <2>3. OpsInv(p)'
      <3>1. ops'[p] = "off" /\ ~leading'[p] /\ tick'[p].pc \notin Waiting
        BY <1>1, <2>1, <2>2 DEF Quiet, Waiting
      <3> QED BY <3>1 DEF OpsInv
    <2> QED BY <1>1, <2>1, <2>2, <2>3, OthersKeep
  <1> QED BY <1>3, <1>4 DEF StopLeading, FailRenewal

LEMMA StartUp ==
  ASSUME Types, OperatorsInv, NEW p \in Pod, tick[p].pc \notin Waiting, NEW pc \in Waiting,
         StartLeading(p, pc), UNCHANGED halt
  PROVE  OperatorsInv'
  <1>1. ops[p] # "starting"
    BY DEF OperatorsInv, OpsInv
  <1>2. CASE leading[p] /\ Return(p) /\ UNCHANGED <<leading, ops>>
    <2>1. \A q \in Pod : tick'[q] = IF q = p THEN Quiet ELSE tick[q]
      BY <1>2 DEF Types, Return
    <2> QED BY <1>1, <1>2, <2>1 DEF OperatorsInv, OpsInv, Quiet, Waiting
  <1>3. CASE /\ leading' = [leading EXCEPT ![p] = TRUE]
             /\ ops' = [ops EXCEPT ![p] = "starting"]
             /\ Go(p, pc)
    <2>1. \A q \in Pod : leading'[q] = IF q = p THEN TRUE ELSE leading[q]
      BY <1>3 DEF Types
    <2>2. \A q \in Pod : ops'[q] = IF q = p THEN "starting" ELSE ops[q]
      BY <1>3 DEF Types
    <2>3. \A q \in Pod : tick'[q].pc = IF q = p THEN pc ELSE tick[q].pc
      BY <1>3 DEF Types, Go
    <2>4. OpsInv(p)'
      BY <2>1, <2>2, <2>3 DEF OpsInv
    <2> QED BY <2>1, <2>2, <2>3, <2>4, OthersKeep
  <1> QED BY <1>2, <1>3 DEF StartLeading

(* A tick that ends, or moves on, before anything was started or stood down. *)
LEMMA MoveOn ==
  ASSUME OperatorsInv, NEW p \in Pod, tick[p].pc \notin Waiting, tick'[p].pc \notin Waiting,
         \A q \in Pod \ {p} : tick'[q].pc = tick[q].pc,
         UNCHANGED <<leading, ops, halt>>
  PROVE  OperatorsInv'
  BY DEF OperatorsInv, OpsInv

LEMMA ThrownKeeps ==
  ASSUME Types, OperatorsInv, NEW p \in Pod, tick[p].pc \notin Waiting, Thrown(p), UNCHANGED halt
  PROVE  OperatorsInv'
  <1>1. \A q \in Pod : tick'[q] = IF q = p THEN Quiet ELSE tick[q]
    BY DEF Types, Thrown, Return
  <1>2. UNCHANGED <<leading, ops>>
    BY DEF Thrown
  <1> QED BY <1>1, <1>2, MoveOn DEF Quiet, Waiting

LEMMA ApiErrorKeeps ==
  ASSUME Types, OperatorsInv, NEW p \in Pod, tick[p].pc \notin Waiting, ApiError(p), UNCHANGED halt
  PROVE  OperatorsInv'
  BY StartUp, ThrownKeeps DEF ApiError, Waiting

(* Once halt is set, this.leading no longer promises anything. *)
LEMMA HaltedKeeps ==
  ASSUME Types, OperatorsInv, NEW p \in Pod, Halted(p),
         \A q \in Pod : tick'[q].pc = tick[q].pc
  PROVE  OperatorsInv'
  <1>1. /\ \A q \in Pod : halt'[q] = IF q = p THEN "done" ELSE halt[q]
        /\ \A q \in Pod : leading'[q] = IF q = p THEN FALSE ELSE leading[q]
        /\ \A q \in Pod : ops'[q] = IF q = p /\ ops[q] = "on" THEN "off" ELSE ops[q]
    BY DEF Types, Halted
  <1> QED BY <1>1 DEF OperatorsInv, OpsInv

LEMMA OperatorsStep == Types /\ DownIsIdle /\ OperatorsInv /\ [Next]_vars => OperatorsInv'
  <1> SUFFICES ASSUME Types, DownIsIdle, OperatorsInv, [Next]_vars PROVE OperatorsInv'
    OBVIOUS
  <1>1. CASE Pass
    <2>1. \A q \in Pod : tick'[q].pc = tick[q].pc
      BY <1>1 DEF Pass, Types
    <2> QED BY <1>1, <2>1 DEF Pass, OperatorsInv, OpsInv
  <1>2. ASSUME NEW p \in Pod, Start(p) PROVE OperatorsInv'
    <2>1. \A q \in Pod : tick'[q].pc = IF q = p THEN "reading" ELSE tick[q].pc
      BY <1>2 DEF Start, Go, Types
    <2>2. tick[p].pc = "idle" /\ UNCHANGED <<leading, ops, halt>>
      BY <1>2 DEF Start, DownIsIdle, At
    <2> QED BY <2>1, <2>2, MoveOn DEF Waiting
  <1>3. ASSUME NEW p \in Pod, Fire(p) PROVE OperatorsInv'
    <2>1. \A q \in Pod : tick'[q].pc = IF q = p THEN "reading" ELSE tick[q].pc
      BY <1>3 DEF Fire, Go, Types
    <2> QED BY <1>3, <2>1, MoveOn DEF Fire, At, process, Waiting
  <1>4. ASSUME NEW p \in Pod, Read(p) PROVE OperatorsInv'
    <2>0. UNCHANGED halt /\ tick[p].pc \notin Waiting
      BY <1>4 DEF Read, At, Waiting
    <2>1. CASE /\ \/ tick' = [tick EXCEPT ![p] = [pc |-> "acquiring", current |-> TRUE, age |-> 0]]
                  \/ tick' = [tick EXCEPT ![p] = [pc |-> "renewing", current |-> TRUE, age |-> 0]]
               /\ UNCHANGED process
      <3>1. /\ tick'[p].pc \in {"acquiring", "renewing"}
            /\ \A q \in Pod \ {p} : tick'[q].pc = tick[q].pc
        BY <2>1 DEF Types
      <3> QED BY <2>0, <2>1, <3>1, MoveOn DEF process, Waiting
    <2>2. CASE StopLeading(p) /\ Return(p)
      BY <2>0, <2>2, StandDown
    <2> QED BY <1>4, <2>1, <2>2 DEF Read
  <1>5. ASSUME NEW p \in Pod, ReadFails(p) PROVE OperatorsInv'
    BY <1>5, ApiErrorKeeps DEF ReadFails, At, Waiting
  <1>6. ASSUME NEW p \in Pod, Land(p) PROVE OperatorsInv'
    <2>1. UNCHANGED <<leading, ops, halt>> /\ tick[p].pc \notin Waiting
      BY <1>6 DEF Land, process, At, Waiting
    <2>2. /\ tick'[p].pc \in {"acquired", "renewed"}
          /\ \A q \in Pod \ {p} : tick'[q].pc = tick[q].pc
      <3>1. tick \in [Pod -> TickType]
        BY DEF Types, TickType
      <3>2. PICK pc \in {"acquired", "renewed"} :
               tick' = [q \in Pod |-> [[tick EXCEPT ![p].pc = pc, ![p].age = 0][q] EXCEPT !.current = FALSE]]
        BY <1>6 DEF Land, Store
      <3>3. /\ [tick EXCEPT ![p].pc = pc, ![p].age = 0] \in [Pod -> TickType]
            /\ [tick EXCEPT ![p].pc = pc, ![p].age = 0][p].pc = pc
            /\ \A q \in Pod \ {p} : [tick EXCEPT ![p].pc = pc, ![p].age = 0][q].pc = tick[q].pc
        BY <3>1, Landed
      <3>4. \A q \in Pod : tick'[q].pc = [tick EXCEPT ![p].pc = pc, ![p].age = 0][q].pc
        BY <3>2, <3>3 DEF TickType
      <3> QED BY <3>3, <3>4
    <2> QED BY <2>1, <2>2, MoveOn DEF Waiting
  <1>7. ASSUME NEW p \in Pod, Conflict(p) PROVE OperatorsInv'
    BY <1>7, StandDown DEF Conflict, At, Waiting
  <1>8. ASSUME NEW p \in Pod, AcquireFails(p) PROVE OperatorsInv'
    BY <1>8, ApiErrorKeeps, ThrownKeeps DEF AcquireFails, At, Waiting
  <1>9. ASSUME NEW p \in Pod, RenewFails(p) PROVE OperatorsInv'
    BY <1>9, StandDown, StartUp, ThrownKeeps DEF RenewFails, At, Waiting
  <1>10. ASSUME NEW p \in Pod, Reply(p) PROVE OperatorsInv'
    BY <1>10, StartUp DEF Reply, At, Waiting
  <1>11. ASSUME NEW p \in Pod, Started(p) PROVE OperatorsInv'
    <2>0. UNCHANGED halt /\ ops[p] = "starting"
      BY <1>11 DEF Started, At, Waiting, OperatorsInv, OpsInv
    <2>1. \A q \in Pod : tick'[q] = IF q = p THEN Quiet ELSE tick[q]
      BY <1>11 DEF Started, Return, Types
    <2>2. CASE ops' = [ops EXCEPT ![p] = "on"] /\ UNCHANGED leading
      <3>1. \A q \in Pod : ops'[q] = IF q = p THEN "on" ELSE ops[q]
        BY <2>2 DEF Types
      <3> QED BY <2>0, <2>1, <2>2, <3>1 DEF OperatorsInv, OpsInv, Quiet, Waiting
    <2>3. CASE LET stands == leading[p] /\ PastDeadline(p) IN
               /\ leading' = [leading EXCEPT ![p] = @ /\ ~stands]
               /\ ops' = [ops EXCEPT ![p] = IF stands THEN "off" ELSE "on"]
      <3> DEFINE stands == leading[p] /\ PastDeadline(p)
      <3>1. \A q \in Pod : ops'[q] = IF q = p THEN (IF stands THEN "off" ELSE "on") ELSE ops[q]
        BY <2>3 DEF Types
      <3>2. \A q \in Pod : leading'[q] <=> IF q = p THEN leading[p] /\ ~stands ELSE leading[q]
        BY <2>3 DEF Types
      <3>3. halt[p] = "none" => leading[p]
        BY <2>0 DEF OperatorsInv, OpsInv
      <3> QED BY <2>0, <2>1, <3>1, <3>2, <3>3 DEF OperatorsInv, OpsInv, Quiet, Waiting
    <2> QED BY <1>11, <2>2, <2>3 DEF Started
  <1>12. ASSUME NEW p \in Pod, Stop(p) PROVE OperatorsInv'
    <2>1. CASE Halted(p)
      BY <1>12, <2>1, HaltedKeeps DEF Stop
    <2>2. CASE halt' = [halt EXCEPT ![p] = "reading"] /\ UNCHANGED <<leading, ops>>
      <3>1. UNCHANGED tick /\ \A q \in Pod : halt'[q] = "none" => halt[q] = "none"
        BY <1>12, <2>2 DEF Stop, Types
      <3> QED BY <2>2, <3>1 DEF OperatorsInv, OpsInv
    <2> QED BY <1>12, <2>1, <2>2 DEF Stop
  <1>13. ASSUME NEW p \in Pod, StopRead(p) PROVE OperatorsInv'
    <2>1. CASE Halted(p)
      BY <1>13, <2>1, HaltedKeeps DEF StopRead
    <2>2. CASE halt' = [halt EXCEPT ![p] = "releasing"] /\ UNCHANGED <<leading, ops>>
      <3>1. UNCHANGED tick /\ \A q \in Pod : halt'[q] = "none" => halt[q] = "none"
        BY <1>13, <2>2 DEF StopRead, Types
      <3> QED BY <2>2, <3>1 DEF OperatorsInv, OpsInv
    <2> QED BY <1>13, <2>1, <2>2 DEF StopRead
  <1>14. ASSUME NEW p \in Pod, Release(p) PROVE OperatorsInv'
    <2>1. \A q \in Pod : tick'[q].pc = tick[q].pc
      BY <1>14 DEF Release, Store, Types
    <2> QED BY <1>14, <2>1, HaltedKeeps DEF Release
  <1>15. ASSUME NEW p \in Pod, Crash(p) PROVE OperatorsInv'
    <2>1. /\ \A q \in Pod : ops'[q] = IF q = p THEN "off" ELSE ops[q]
          /\ \A q \in Pod : tick'[q] = IF q = p THEN Quiet ELSE tick[q]
      BY <1>15 DEF Crash, Types
    <2>2. /\ ~leading'[p] /\ \A q \in Pod \ {p} : leading'[q] = leading[q]
          /\ \A q \in Pod \ {p} : halt'[q] = halt[q]
      BY <1>15 DEF Crash, Types
    <2>3. OpsInv(p)'
      <3>1. ops'[p] = "off" /\ ~leading'[p] /\ tick'[p].pc \notin Waiting
        BY <2>1, <2>2 DEF Quiet, Waiting
      <3> QED BY <3>1 DEF OpsInv
    <2> QED BY <2>1, <2>2, <2>3, OthersKeep
  <1>16. CASE UNCHANGED vars
    BY <1>16 DEF vars, OperatorsInv, OpsInv
  <1> QED
    BY <1>1, <1>2, <1>3, <1>4, <1>5, <1>6, <1>7, <1>8, <1>9, <1>10, <1>11, <1>12, <1>13,
       <1>14, <1>15, <1>16 DEF Next, TickStep, StopStep

(* Between ticks the operators run exactly where this.leading says so.       *)
THEOREM OperatorsFollowLeading == Spec => []OperatorsFollow
  <1>1. Types /\ OperatorsInv => OperatorsFollow
    BY DEF Types, OperatorsInv, OpsInv, OperatorsFollow, At, Waiting
  <1> QED BY <1>1, TypeInit, TypeStep, DownInit, DownStep, OperatorsInit, OperatorsStep, PTL DEF Spec


(* Every variable keeps its type, and the operators of a pod are starting    *)
(* exactly while a tick waits for them, whatever the constants are.          *)
THEOREM TypeCorrect == Spec => []TypeOK
  <1>1. Types /\ OperatorsInv => TypeOK
    BY DEF TypeOK, OperatorsInv, OpsInv, Waiting, At
  <1> QED BY <1>1, TypeInit, TypeStep, DownInit, DownStep, OperatorsInit, OperatorsStep, PTL DEF Spec
=============================================================================
