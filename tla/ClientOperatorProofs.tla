------------------------- MODULE ClientOperatorProofs -------------------------
(***************************************************************************)
(* Proofs about ClientOperator, for every set of processes, every number of *)
(* reconciles in flight and every bound on what the environment does.       *)
(***************************************************************************)
EXTENDS ClientOperator, TLAPS

-----------------------------------------------------------------------------
(* The values a reconcile is made of. *)

Vias == {"none", "added", "modified", "deleted"}

LEMMA Values ==
  /\ NoClient \in Client /\ NoSecret \in Projection /\ NoRecord \in Projection
  /\ Idle \in Job
  BY DEF NoClient, NoSecret, NoRecord, Idle, Client, Projection, Job, Kinds,
         Instances, Readiness, Steps

LEMMA StartJob ==
  ASSUME NEW pc \in Steps, NEW via \in Vias, NEW o \in Client
  PROVE  /\ Start(pc, via, o) \in Job
         /\ Start(pc, via, o).pc = pc /\ Start(pc, via, o).via = via
         /\ Start(pc, via, o).obj = o /\ Start(pc, via, o).cs = 0
  BY Values DEF Start, Idle, Job, Vias, Readiness, Projection, NoSecret

LEMMA GoJob ==
  ASSUME NEW j \in Job, NEW pc \in Steps
  PROVE  /\ [j EXCEPT !.pc = pc] \in Job
         /\ [j EXCEPT !.pc = pc].pc = pc /\ [j EXCEPT !.pc = pc].via = j.via
         /\ [j EXCEPT !.pc = pc].obj = j.obj /\ [j EXCEPT !.pc = pc].cs = j.cs
         /\ [j EXCEPT !.pc = pc].seen = j.seen
  BY DEF Job

LEMMA ReportJob ==
  ASSUME NEW j \in Job, NEW out \in Readiness
  PROVE  /\ Report(j, out) \in Job
         /\ Report(j, out).pc = "report" /\ Report(j, out).obj = j.obj
  BY DEF Report, Job, Steps

LEMMA ThrowJob ==
  ASSUME NEW j \in Job
  PROVE  /\ Throw(j) \in Job
         /\ Throw(j) = Idle \/ (Throw(j).pc = "report" /\ Throw(j).obj = j.obj)
  <1>1. CASE j.via = "deleted"
    BY <1>1, Values DEF Throw
  <1>2. CASE j.via # "deleted"
    BY <1>2, ReportJob DEF Throw, Readiness
  <1> QED BY <1>1, <1>2

LEMMA UpdateJob ==
  ASSUME NEW o \in Client
  PROVE  /\ Update(o) \in Job
         /\ Update(o).obj = o
         /\ Update(o).pc \in {"secret", "destroy", "report"}
         /\ Update(o).pc = "report" => o.kind = "invalid"
  <1> DEFINE j == Start("secret", "modified", o)
  <1>1. /\ j \in Job /\ j.pc = "secret" /\ j.obj = o
    BY StartJob DEF Steps, Vias
  <1>2. Report(j, "Failed") \in Job /\ Report(j, "Failed").pc = "report" /\ Report(j, "Failed").obj = o
    BY <1>1, ReportJob DEF Readiness
  <1>3. [j EXCEPT !.pc = "destroy"] \in Job /\ [j EXCEPT !.pc = "destroy"].pc = "destroy"
        /\ [j EXCEPT !.pc = "destroy"].obj = o
    BY <1>1, GoJob DEF Steps
  <1>4. CASE o.kind = "invalid"
    BY <1>2, <1>4 DEF Update
  <1>5. CASE o.kind = "disabled"
    BY <1>3, <1>5 DEF Update
  <1>6. CASE o.kind \notin {"invalid", "disabled"}
    BY <1>1, <1>6 DEF Update
  <1> QED BY <1>4, <1>5, <1>6

LEMMA AfterSecretJob ==
  ASSUME NEW j \in Job
  PROVE  /\ AfterSecret(j) \in Job
         /\ AfterSecret(j).obj = j.obj
         /\ AfterSecret(j).pc \in {"upsert", "destroy", "report"}
         /\ AfterSecret(j).pc = "upsert" => (AfterSecret(j).cs = j.cs /\ (j.via = "modified" \/ j.cs # 0))
  <1>1. [j EXCEPT !.pc = "upsert"] \in Job /\ [j EXCEPT !.pc = "upsert"].pc = "upsert"
        /\ [j EXCEPT !.pc = "upsert"].obj = j.obj /\ [j EXCEPT !.pc = "upsert"].cs = j.cs
    BY GoJob DEF Steps
  <1>2. [j EXCEPT !.pc = "destroy"] \in Job /\ [j EXCEPT !.pc = "destroy"].pc = "destroy"
        /\ [j EXCEPT !.pc = "destroy"].obj = j.obj
    BY GoJob DEF Steps
  <1>3. Report(j, "Reconciled") \in Job /\ Report(j, "Reconciled").pc = "report"
        /\ Report(j, "Reconciled").obj = j.obj
    BY ReportJob DEF Readiness
  <1>4. CASE j.via = "modified"
    BY <1>1, <1>4 DEF AfterSecret
  <1>5. CASE j.via # "modified" /\ j.obj.kind = "disabled"
    BY <1>2, <1>5 DEF AfterSecret
  <1>6. CASE j.via # "modified" /\ j.obj.kind # "disabled" /\ j.cs # 0
    BY <1>1, <1>6 DEF AfterSecret
  <1>7. CASE j.via # "modified" /\ j.obj.kind # "disabled" /\ j.cs = 0
    BY <1>3, <1>7 DEF AfterSecret
  <1> QED BY <1>4, <1>5, <1>6, <1>7

(* What a watch event makes the operator start: nothing, or a reconcile of  *)
(* the object it carries, which has no client_secret yet.                   *)
Fresh(j, o) ==
  \/ j = Idle
  \/ /\ j.obj = o
     /\ \/ j.pc = "claim" /\ o.instance = "none"
        \/ j.pc = "find" /\ j.via = "added" /\ j.cs = 0 /\ o.instance = "us"
        \/ j.pc \in {"secret", "destroy"} /\ o.instance = "us"
        \/ j.pc = "report" /\ o.kind = "invalid"

LEMMA OnAddedJob ==
  ASSUME NEW o \in Client, NEW replayed \in BOOLEAN
  PROVE  OnAdded(o, replayed) \in Job /\ Fresh(OnAdded(o, replayed), o)
  <1> DEFINE j == Start("secret", "added", o)
  <1>1. j \in Job /\ j.pc = "secret" /\ j.obj = o /\ j.via = "added" /\ j.cs = 0
    BY StartJob DEF Steps, Vias
  <1>2. Report(j, "Failed") \in Job /\ Report(j, "Failed").pc = "report" /\ Report(j, "Failed").obj = o
    BY <1>1, ReportJob DEF Readiness
  <1>3. ASSUME NEW pc \in {"find", "claim"}
        PROVE  /\ [j EXCEPT !.pc = pc] \in Job /\ [j EXCEPT !.pc = pc].pc = pc
               /\ [j EXCEPT !.pc = pc].obj = o /\ [j EXCEPT !.pc = pc].via = "added"
               /\ [j EXCEPT !.pc = pc].cs = 0
    <2>1. pc \in Steps
      BY DEF Steps
    <2> HIDE DEF j
    <2> QED BY <1>1, <2>1, GoJob
  <1>4. CASE o.kind = "invalid"
    BY <1>2, <1>4 DEF OnAdded, Fresh
  <1>5. CASE o.kind # "invalid" /\ o.instance = "us"
    <2>1. CASE replayed
      <3>1. OnAdded(o, replayed) = [j EXCEPT !.pc = "find"]
        BY <1>5, <2>1 DEF OnAdded
      <3> HIDE DEF j
      <3> QED BY <1>3, <1>5, <3>1 DEF Fresh
    <2>2. CASE ~replayed
      <3>1. OnAdded(o, replayed) = j
        BY <1>5, <2>2 DEF OnAdded
      <3> HIDE DEF j
      <3> QED BY <1>1, <1>5, <3>1 DEF Fresh
    <2> QED BY <2>1, <2>2
  <1>6. CASE o.kind # "invalid" /\ o.instance = "none"
    BY <1>3, <1>6 DEF OnAdded, Fresh
  <1>7. CASE o.kind # "invalid" /\ o.instance = "them"
    BY <1>7, Values DEF OnAdded, Fresh
  <1> QED BY <1>4, <1>5, <1>6, <1>7 DEF Client, Instances

LEMMA OnModifiedJob ==
  ASSUME NEW o \in Client, NEW current \in BOOLEAN
  PROVE  OnModified(o, current) \in Job /\ Fresh(OnModified(o, current), o)
  <1>1. CASE current \/ o.instance = "them"
    BY <1>1, Values DEF OnModified, Fresh
  <1>2. CASE ~current /\ o.instance = "us"
    <2>1. OnModified(o, current) = Update(o)
      BY <1>2 DEF OnModified
    <2> QED BY <1>2, <2>1, UpdateJob DEF Fresh
  <1>3. CASE ~current /\ o.instance = "none"
    <2>1. OnModified(o, current) = Start("claim", "modified", o)
      BY <1>3 DEF OnModified
    <2> QED BY <1>3, <2>1, StartJob DEF Fresh, Steps, Vias
  <1> QED BY <1>1, <1>2, <1>3 DEF Client, Instances

LEMMA OnDeletedJob ==
  ASSUME NEW o \in Client
  PROVE  OnDeleted(o) \in Job /\ Fresh(OnDeleted(o), o)
  <1>1. CASE o.instance = "us"
    <2>1. OnDeleted(o) = Start("destroy", "deleted", o)
      BY <1>1 DEF OnDeleted
    <2> QED BY <1>1, <2>1, StartJob DEF Fresh, Steps, Vias
  <1>2. CASE o.instance # "us"
    BY <1>2, Values DEF OnDeleted, Fresh
  <1> QED BY <1>1, <1>2

-----------------------------------------------------------------------------
(* Type correctness: what the parts of an action keep. *)

Queues == [Pod -> Seq(Event)]
Jobs == [Pod -> [Slot -> Job]]
Counters == [uid : Nat, rv : Nat, cs : Nat]
Budget == [touch : Nat, reconnect : Nat, crash : Nat, handover : Nat, wipe : Nat, failure : Nat]
SweepSteps == {"idle", "members", "find", "confirm", "destroy", "srem"}

LEMMA Spending ==
  ASSUME NEW b \in Budget
  PROVE  /\ [b EXCEPT !.touch = @ + 1] \in Budget
         /\ [b EXCEPT !.reconnect = @ + 1] \in Budget
         /\ [b EXCEPT !.crash = @ + 1] \in Budget
         /\ [b EXCEPT !.handover = @ + 1] \in Budget
         /\ [b EXCEPT !.wipe = @ + 1] \in Budget
         /\ [b EXCEPT !.failure = @ + 1] \in Budget
  BY DEF Budget

LEMMA KindsOK == Kind \subseteq Kinds
  BY ClientOperatorAssumption

LEMMA TypeInit == Init => TypeOK
  <1> SUFFICES ASSUME Init PROVE TypeOK
    OBVIOUS
  <1>1. /\ watching \subseteq Pod /\ cr \in Client /\ secret \in Projection /\ rec \in Projection
        /\ listed \in BOOLEAN /\ marker \in BOOLEAN /\ calm \in BOOLEAN
    BY Values DEF Init
  <1>2. queue \in [Pod -> Seq(Event)] /\ pipe \in [Pod -> Seq(Worker)]
    <2>1. \A S : <<>> \in Seq(S)
      OBVIOUS
    <2> QED BY <2>1 DEF Init
  <1>3. fp \in [Pod -> Nat] /\ job \in [Pod -> [Slot -> Job]] /\ sweep \in [Pod -> SweepSteps]
    BY Values DEF Init, SweepSteps
  <1>4. last \in Counters /\ spent \in Budget
    BY DEF Init, Counters, Budget
  <1> QED BY <1>1, <1>2, <1>3, <1>4 DEF TypeOK, SweepSteps, Counters, Budget

LEMMA PublishType ==
  ASSUME TypeOK, NEW type \in {"ADDED", "MODIFIED", "DELETED"}, NEW o \in Client, Publish(type, o)
  PROVE  queue' \in Queues
  <1> DEFINE e == [type |-> type, obj |-> o]
  <1>1. e \in Event
    BY DEF Event
  <1> HIDE DEF e
  <1>2. \A p \in Pod : Append(queue[p], e) \in Seq(Event) /\ <<>> \in Seq(Event)
    BY <1>1 DEF TypeOK
  <1>3. queue' = [p \in Pod |-> IF p \in watching THEN Append(queue[p], e) ELSE <<>>]
    BY DEF Publish, e
  <1> QED BY <1>2, <1>3 DEF Queues

LEMMA StoreType ==
  ASSUME TypeOK, NEW type \in {"ADDED", "MODIFIED", "DELETED"}, NEW o \in Client, Store(type, o)
  PROVE  /\ cr' \in Client /\ last' \in Counters /\ queue' \in Queues
         /\ cr'.uid = o.uid /\ cr'.gen = o.gen /\ cr'.kind = o.kind /\ cr'.instance = o.instance
         /\ cr'.rv = last.rv + 1
         /\ last'.uid = o.uid /\ last'.rv = last.rv + 1 /\ last'.cs = last.cs
  <1>0. last \in Counters /\ last.rv + 1 \in Nat /\ o.uid \in Nat
    BY DEF TypeOK, Counters, Client
  <1>1. cr' \in Client /\ cr' = [o EXCEPT !.rv = last.rv + 1]
    <2>1. cr' = [o EXCEPT !.rv = last.rv + 1]
      BY DEF Store
    <2> QED BY <1>0, <2>1 DEF Client
  <1>2. cr'.uid = o.uid /\ cr'.gen = o.gen /\ cr'.kind = o.kind /\ cr'.instance = o.instance
        /\ cr'.rv = last.rv + 1
    BY <1>1 DEF Client
  <1>3. /\ last' \in Counters
        /\ last'.uid = o.uid /\ last'.rv = last.rv + 1 /\ last'.cs = last.cs
    <2>1. last' = [last EXCEPT !.rv = @ + 1, !.uid = o.uid]
      BY DEF Store
    <2> QED BY <1>0, <2>1 DEF Counters
  <1>4. queue' \in Queues
    BY <1>1, PublishType DEF Store
  <1> QED BY <1>1, <1>2, <1>3, <1>4

LEMMA RelistedType ==
  ASSUME TypeOK
  PROVE  Relisted \in Seq(Event)
  <1>1. [type |-> "ADDED", obj |-> cr] \in Event
    BY DEF TypeOK, Event
  <1> QED BY <1>1 DEF Relisted

LEMMA EventAt ==
  ASSUME TypeOK, NEW q \in Pod, NEW k \in 1 .. Len(queue[q])
  PROVE  queue[q][k] \in Event /\ queue[q][k].obj \in Client
  <1>1. queue[q] \in Seq(Event)
    BY DEF TypeOK
  <1>2. queue[q][k] \in Event
    BY <1>1
  <1> QED BY <1>2 DEF Event

LEMMA BecomeType ==
  ASSUME TypeOK, NEW p \in Pod, NEW s \in Slot, NEW j \in Job, Become(p, s, j)
  PROVE  job' \in Jobs
  BY DEF TypeOK, Become, Jobs

LEMMA JobType ==
  ASSUME TypeOK, NEW p \in Pod, NEW s \in Slot
  PROVE  /\ job[p][s] \in Job /\ job[p][s].obj \in Client /\ job[p][s].seen \in Projection
         /\ job[p][s].cs \in Nat /\ job[p][s].out \in Readiness
  BY DEF TypeOK, Job

LEMMA CallFailsType ==
  ASSUME TypeOK, CallFails
  PROVE  spent' \in Budget /\ calm' \in BOOLEAN
  <1>1. spent \in Budget
    BY DEF TypeOK, Budget
  <1>2. spent' = [spent EXCEPT !.failure = @ + 1] /\ calm' = FALSE
    BY DEF CallFails
  <1>3. spent' \in Budget
    BY <1>1, <1>2, Spending
  <1>4. calm' \in BOOLEAN
    BY <1>2
  <1> QED BY <1>3, <1>4

LEMMA CalmType ==
  ASSUME TypeOK, NoteDisturbance
  PROVE  calm' \in BOOLEAN
  BY DEF TypeOK, NoteDisturbance

LEMMA PipeType ==
  ASSUME TypeOK, NEW p \in Pod
  PROVE  /\ \A w \in Worker : [pipe EXCEPT ![p] = Append(@, w)] \in [Pod -> Seq(Worker)]
         /\ pipe[p] # <<>> => [pipe EXCEPT ![p] = Tail(@)] \in [Pod -> Seq(Worker)]
  BY DEF TypeOK

-----------------------------------------------------------------------------
(* Type correctness, action by action. *)

LEMMA EnvironmentType ==
  ASSUME TypeOK,
         \/ CreateClient \/ EditSpec \/ DeleteClient \/ TouchClient \/ ForeignClaim
         \/ CollectSecret \/ WipeRedis
  PROVE  TypeOK'
  <1>0. last \in Counters /\ last.uid + 1 \in Nat /\ cr.gen + 1 \in Nat /\ spent \in Budget
    BY DEF TypeOK, Counters, Budget, Client
  <1>1. ASSUME NEW type \in {"ADDED", "MODIFIED"}, NEW o \in Client, Store(type, o),
               UNCHANGED <<watching, secret, redis, fp, job, pipe, sweep>>,
               spent' \in Budget, calm' \in BOOLEAN
        PROVE  TypeOK'
    <2>1. cr' \in Client /\ last' \in Counters /\ queue' \in Queues
      BY <1>1, StoreType
    <2> QED BY <1>1, <2>1 DEF TypeOK, redis, Counters, Queues, Budget
  <1>2. CASE CreateClient
    <2>1. PICK k \in Kind : Store("ADDED", [NoClient EXCEPT !.uid = last.uid + 1, !.gen = 1, !.kind = k])
      BY <1>2 DEF CreateClient
    <2>2. [NoClient EXCEPT !.uid = last.uid + 1, !.gen = 1, !.kind = k] \in Client
      BY <1>0, KindsOK, Values DEF Client, NoClient
    <2>3. UNCHANGED <<watching, secret, redis, fp, job, pipe, sweep>> /\ spent' = spent /\ NoteDisturbance
      BY <1>2 DEF CreateClient
    <2> QED BY <1>0, <1>1, <2>1, <2>2, <2>3, CalmType
  <1>3. CASE EditSpec
    <2>1. PICK k \in Kind : Store("MODIFIED", [cr EXCEPT !.gen = @ + 1, !.kind = k])
      BY <1>3 DEF EditSpec
    <2>2. [cr EXCEPT !.gen = @ + 1, !.kind = k] \in Client
      BY <1>0, KindsOK DEF Client, TypeOK
    <2>3. UNCHANGED <<watching, secret, redis, fp, job, pipe, sweep>> /\ spent' = spent /\ NoteDisturbance
      BY <1>3 DEF EditSpec
    <2> QED BY <1>0, <1>1, <2>1, <2>2, <2>3, CalmType
  <1>4. CASE DeleteClient
    <2>1. cr' = NoClient /\ cr \in Client /\ Publish("DELETED", cr) /\ NoteDisturbance
          /\ UNCHANGED <<watching, secret, redis, fp, job, pipe, sweep, last, spent>>
      BY <1>4 DEF DeleteClient, TypeOK
    <2>2. queue' \in Queues /\ calm' \in BOOLEAN
      BY <2>1, PublishType, CalmType
    <2> QED BY <2>1, <2>2, Values DEF TypeOK, redis, Queues
  <1>5. CASE TouchClient
    <2>1. Store("MODIFIED", cr) /\ NoteDisturbance /\ cr \in Client
          /\ UNCHANGED <<watching, secret, redis, fp, job, pipe, sweep>>
      BY <1>5 DEF TouchClient, TypeOK
    <2>2. spent' = [spent EXCEPT !.touch = @ + 1]
      BY <1>5 DEF TouchClient
    <2>3. spent' \in Budget
      BY <1>0, <2>2, Spending
    <2> QED BY <1>1, <2>1, <2>3, CalmType
  <1>6. CASE ForeignClaim
    <2>1. Store("MODIFIED", [cr EXCEPT !.instance = "them"])
          /\ UNCHANGED <<watching, secret, redis, fp, job, pipe, sweep, spent, calm>>
      BY <1>6 DEF ForeignClaim
    <2>2. [cr EXCEPT !.instance = "them"] \in Client
      BY DEF TypeOK, Client, Instances
    <2>3. calm' \in BOOLEAN
      BY <2>1 DEF TypeOK
    <2> QED BY <1>0, <1>1, <2>1, <2>2, <2>3
  <1>7. CASE CollectSecret
    BY <1>7, Values DEF CollectSecret, TypeOK, redis
  <1>8. CASE WipeRedis
    <2>1. spent' = [spent EXCEPT !.wipe = @ + 1]
      BY <1>8 DEF WipeRedis
    <2>2. spent' \in Budget
      BY <1>0, <2>1, Spending
    <2> QED BY <1>8, <2>2, Values DEF WipeRedis, TypeOK, k8s, Budget
  <1> QED BY <1>2, <1>3, <1>4, <1>5, <1>6, <1>7, <1>8

LEMMA ProcessType ==
  ASSUME TypeOK, NEW p \in Pod,
         Reconnect(p) \/ Crash(p) \/ StandDown(p) \/ TakeOver(p) \/ DetectWipe(p)
  PROVE  TypeOK'
  <1>0. spent \in Budget /\ Relisted \in Seq(Event)
    BY RelistedType DEF TypeOK, Budget
  <1>1. ASSUME StartWatches(p)
        PROVE  queue' \in Queues /\ fp' \in [Pod -> Nat] /\ marker' \in BOOLEAN
    <2>1. \A S : <<>> \in Seq(S)
      OBVIOUS
    <2>2. queue' \in Queues
      BY <1>0, <1>1, <2>1 DEF StartWatches, TypeOK, Queues
    <2> QED BY <1>1, <2>2 DEF StartWatches, TypeOK
  <1>2. CASE Reconnect(p)
    <2>1. spent' = [spent EXCEPT !.reconnect = @ + 1]
      BY <1>2 DEF Reconnect
    <2>2. spent' \in Budget
      BY <1>0, <2>1, Spending
    <2>3. queue' \in Queues
      BY <1>0, <1>2 DEF Reconnect, TypeOK, Queues
    <2> QED BY <1>2, <2>2, <2>3 DEF Reconnect, TypeOK, k8s, redis, Budget, Queues
  <1>3. CASE Crash(p)
    <2>1. spent' = [spent EXCEPT !.crash = @ + 1]
      BY <1>3 DEF Crash
    <2>2. spent' \in Budget
      BY <1>0, <2>1, Spending
    <2>3. job' \in Jobs
      BY <1>3, Values DEF Crash, TypeOK, Jobs
    <2>4. pipe' \in [Pod -> Seq(Worker)] /\ sweep' \in [Pod -> SweepSteps]
      BY <1>3 DEF Crash, TypeOK, SweepSteps
    <2> QED BY <1>1, <1>3, <2>2, <2>3, <2>4 DEF Crash, TypeOK, k8s, Jobs, Queues, SweepSteps, Budget
  <1>4. CASE StandDown(p)
    <2>1. spent' = [spent EXCEPT !.handover = @ + 1]
      BY <1>4 DEF StandDown
    <2>2. spent' \in Budget
      BY <1>0, <2>1, Spending
    <2>3. queue' \in Queues
      BY <1>4 DEF StandDown, TypeOK, Queues
    <2> QED BY <1>4, <2>2, <2>3 DEF StandDown, TypeOK, k8s, redis, Queues, Budget
  <1>5. CASE TakeOver(p)
    BY <1>1, <1>5 DEF TakeOver, TypeOK, k8s, Queues
  <1>6. CASE DetectWipe(p)
    BY <1>1, <1>6 DEF DetectWipe, TypeOK, k8s, Queues
  <1> QED BY <1>2, <1>3, <1>4, <1>5, <1>6

LEMMA DeliverType ==
  ASSUME TypeOK, NEW p \in Pod, Deliver(p)
  PROVE  TypeOK'
  <1> DEFINE e == Head(queue[p])
             current == (fp[p] = e.obj.gen)
             j == CASE e.type = "ADDED" -> OnAdded(e.obj, current)
                    [] e.type = "MODIFIED" -> OnModified(e.obj, current)
                    [] e.type = "DELETED" -> OnDeleted(e.obj)
  <1>1. e \in Event /\ e.obj \in Client /\ e.obj.gen \in Nat
    <2>1. queue[p] \in Seq(Event) /\ queue[p] # <<>>
      BY DEF Deliver, TypeOK
    <2>2. e \in Event
      BY <2>1
    <2> QED BY <2>2 DEF Event, Client
  <1>2. j \in Job
    <2>1. CASE e.type = "ADDED"
      BY <1>1, <2>1, OnAddedJob
    <2>2. CASE e.type = "MODIFIED"
      BY <1>1, <2>2, OnModifiedJob
    <2>3. CASE e.type = "DELETED"
      BY <1>1, <2>3, OnDeletedJob
    <2> QED BY <1>1, <2>1, <2>2, <2>3 DEF Event
  <1>3. /\ fp' = [fp EXCEPT ![p] = IF e.type = "DELETED" THEN 0 ELSE e.obj.gen]
        /\ job' = job \/ \E s \in Slot : Become(p, s, j)
        /\ queue' = [queue EXCEPT ![p] = Tail(@)] /\ queue[p] # <<>>
        /\ UNCHANGED <<watching, k8s, redis, pipe, sweep, last, spent, calm>>
    BY DEF Deliver, Become
  <1> HIDE DEF j, current
  <1>4. job' \in Jobs
    BY <1>2, <1>3, BecomeType DEF TypeOK, Jobs
  <1>5. fp' \in [Pod -> Nat]
    BY <1>1, <1>3 DEF TypeOK
  <1>6. queue' \in Queues
    BY <1>3 DEF TypeOK, Queues
  <1> QED BY <1>3, <1>4, <1>5, <1>6 DEF TypeOK, k8s, redis, Jobs, Queues

(* A status replace writes the resource or leaves everything alone. *)
LEMMA StatusType ==
  ASSUME TypeOK, NEW o \in Client, NEW ready \in Readiness, ReplaceClientStatus(o, ready)
  PROVE  /\ cr' \in Client /\ last' \in Counters /\ queue' \in Queues
         /\ \/ Matches(o) /\ Store("MODIFIED", Status(o, ready))
            \/ UNCHANGED <<cr, last, queue>>
  <1>1. Status(o, ready) \in Client
    BY DEF Status, TypeOK, Client, Instances
  <1>2. CASE Matches(o) /\ Store("MODIFIED", Status(o, ready))
    BY <1>1, <1>2, StoreType
  <1>3. CASE UNCHANGED <<cr, last, queue>>
    BY <1>3 DEF TypeOK, Counters, Queues
  <1> QED BY <1>2, <1>3 DEF ReplaceClientStatus

(* A step that is a job's alone: the job, the faults, and nothing else. *)
LEMMA JobOnlyType ==
  ASSUME TypeOK, NEW p \in Pod, NEW s \in Slot, NEW j \in Job, Become(p, s, j),
         UNCHANGED <<spent, calm>> \/ CallFails
  PROVE  job' \in Jobs /\ spent' \in Budget /\ calm' \in BOOLEAN
  <1>1. CASE UNCHANGED <<spent, calm>>
    BY <1>1, BecomeType DEF TypeOK, Budget
  <1>2. CASE CallFails
    BY <1>2, BecomeType, CallFailsType
  <1> QED BY <1>1, <1>2

LEMMA ClaimType ==
  ASSUME TypeOK, NEW p \in Pod, NEW s \in Slot, Claim(p, s)
  PROVE  TypeOK'
  <1> DEFINE o == job[p][s].obj
  <1>0. o \in Client /\ o.ready \in Readiness
    BY JobType DEF Client
  <1>1. UNCHANGED <<watching, secret, redis, fp, pipe, sweep>>
    BY DEF Claim
  <1>2. SUFFICES /\ cr' \in Client /\ last' \in Counters /\ queue' \in Queues
                 /\ job' \in Jobs /\ spent' \in Budget /\ calm' \in BOOLEAN
    BY <1>1 DEF TypeOK, redis, Counters, Queues, Jobs, Budget
  <1>3. CASE /\ Matches(o)
             /\ ReplaceClientStatus(o, o.ready)
             /\ Become(p, s, IF job[p][s].via = "added" THEN Start("secret", "added", cr')
                             ELSE Update(cr'))
             /\ UNCHANGED <<spent, calm>>
    <2>1. cr' \in Client /\ last' \in Counters /\ queue' \in Queues
      BY <1>0, <1>3, StatusType
    <2>2. (IF job[p][s].via = "added" THEN Start("secret", "added", cr') ELSE Update(cr')) \in Job
      BY <2>1, StartJob, UpdateJob DEF Steps, Vias
    <2> QED BY <1>3, <2>1, <2>2, JobOnlyType
  <1>4. CASE Become(p, s, Idle) /\ UNCHANGED <<cr, last, queue>>
             /\ (UNCHANGED <<spent, calm>> \/ CallFails)
    <2>1. job' \in Jobs /\ spent' \in Budget /\ calm' \in BOOLEAN
      BY <1>4, JobOnlyType, Values
    <2> QED BY <1>4, <2>1 DEF TypeOK, Counters, Queues
  <1> QED BY <1>3, <1>4 DEF Claim

LEMMA FindRecordType ==
  ASSUME TypeOK, NEW p \in Pod, NEW s \in Slot, FindRecord(p, s)
  PROVE  TypeOK'
  <1> DEFINE j == job[p][s]
  <1>1. j \in Job
    BY JobType
  <1>2. [j EXCEPT !.pc = "secret"] \in Job /\ AfterSecret(j) \in Job /\ Throw(j) \in Job
    BY <1>1, GoJob, AfterSecretJob, ThrowJob DEF Steps
  <1>3. job' \in Jobs /\ spent' \in Budget /\ calm' \in BOOLEAN
    <2>1. CASE Become(p, s, [j EXCEPT !.pc = "secret"]) /\ UNCHANGED <<spent, calm>>
      BY <1>2, <2>1, JobOnlyType
    <2>2. CASE Become(p, s, AfterSecret(j)) /\ UNCHANGED <<spent, calm>>
      BY <1>2, <2>2, JobOnlyType
    <2>3. CASE CallFails /\ Become(p, s, Throw(j))
      BY <1>2, <2>3, JobOnlyType
    <2> QED BY <2>1, <2>2, <2>3 DEF FindRecord
  <1>4. UNCHANGED <<watching, k8s, redis, queue, fp, pipe, sweep, last>>
    BY DEF FindRecord
  <1> QED BY <1>3, <1>4 DEF TypeOK, k8s, redis, Jobs, Budget

(* What #adoptKubeSecret and a create before it carry. *)
LEMMA AdoptType ==
  ASSUME TypeOK, NEW p \in Pod, NEW s \in Slot, Adopt(p, s) \/ Issue(p, s)
  PROVE  job' \in Jobs /\ last' \in Counters
  <1> DEFINE k == job[p][s]
  <1>1. k \in Job /\ last \in Counters /\ last.cs + 1 \in Nat /\ secret \in Projection /\ secret.cs \in Nat
    BY JobType DEF TypeOK, Counters, Projection
  <1>2. [last EXCEPT !.cs = @ + 1] \in Counters
    BY <1>1 DEF Counters
  <1> DEFINE j == [k EXCEPT !.pc = "patch", !.seen = secret]
  <1>3. j \in Job
    BY <1>1 DEF Job, Steps
  <1>4. [j EXCEPT !.cs = secret.cs] \in Job /\ [j EXCEPT !.cs = last.cs + 1] \in Job
    <2> HIDE DEF j
    <2> QED BY <1>1, <1>3 DEF Job
  <1>5. [k EXCEPT !.pc = "create", !.cs = last.cs + 1] \in Job
    BY <1>1 DEF Job, Steps
  <1>6. CASE Become(p, s, [j EXCEPT !.cs = secret.cs]) /\ UNCHANGED last
    BY <1>1, <1>4, <1>6, BecomeType
  <1>7. CASE last' = [last EXCEPT !.cs = @ + 1] /\ Become(p, s, [j EXCEPT !.cs = last.cs + 1])
    BY <1>2, <1>4, <1>7, BecomeType
  <1>8. CASE Issue(p, s)
    BY <1>2, <1>5, <1>8, BecomeType DEF Issue
  <1> QED BY <1>6, <1>7, <1>8 DEF Adopt

LEMMA GetSecretType ==
  ASSUME TypeOK, NEW p \in Pod, NEW s \in Slot, GetSecret(p, s)
  PROVE  TypeOK'
  <1>1. job' \in Jobs /\ last' \in Counters
    BY AdoptType DEF GetSecret
  <1>2. spent' \in Budget /\ calm' \in BOOLEAN
    <2>1. CASE UNCHANGED <<spent, calm>>
      BY <2>1 DEF TypeOK, Budget
    <2>2. CASE CallFails
      BY <2>2, CallFailsType
    <2> QED BY <2>1, <2>2 DEF GetSecret
  <1>3. UNCHANGED <<watching, k8s, redis, queue, fp, pipe, sweep>>
    BY DEF GetSecret
  <1> QED BY <1>1, <1>2, <1>3 DEF TypeOK, k8s, redis, Jobs, Counters, Budget

LEMMA RereadType ==
  ASSUME TypeOK, NEW p \in Pod, NEW s \in Slot, Reread(p, s)
  PROVE  TypeOK'
  <1>0. Throw(job[p][s]) \in Job /\ last \in Counters
    BY JobType, ThrowJob DEF TypeOK, Counters
  <1>1. job' \in Jobs /\ last' \in Counters
    <2>1. CASE Adopt(p, s)
      BY <2>1, AdoptType
    <2>2. CASE Become(p, s, Throw(job[p][s])) /\ UNCHANGED last
      BY <1>0, <2>2, BecomeType
    <2> QED BY <2>1, <2>2 DEF Reread
  <1>2. spent' \in Budget /\ calm' \in BOOLEAN
    <2>1. CASE UNCHANGED <<spent, calm>>
      BY <2>1 DEF TypeOK, Budget
    <2>2. CASE CallFails
      BY <2>2, CallFailsType
    <2> QED BY <2>1, <2>2 DEF Reread
  <1>3. UNCHANGED <<watching, k8s, redis, queue, fp, pipe, sweep>>
    BY DEF Reread
  <1> QED BY <1>1, <1>2, <1>3 DEF TypeOK, k8s, redis, Jobs, Counters, Budget

LEMMA AfterWriteType ==
  ASSUME TypeOK, NEW p \in Pod, NEW s \in Slot,
         AfterWrite(p, s) \/ (CallFails /\ Become(p, s, Throw(job[p][s])))
  PROVE  job' \in Jobs /\ spent' \in Budget /\ calm' \in BOOLEAN
  <1>1. Throw(job[p][s]) \in Job /\ AfterSecret(job[p][s]) \in Job
    BY JobType, ThrowJob, AfterSecretJob
  <1>2. CASE Become(p, s, AfterSecret(job[p][s])) /\ UNCHANGED <<spent, calm>>
    BY <1>1, <1>2, JobOnlyType
  <1>3. CASE CallFails /\ Become(p, s, Throw(job[p][s]))
    BY <1>1, <1>3, JobOnlyType
  <1> QED BY <1>2, <1>3 DEF AfterWrite

LEMMA WriteSecretType ==
  ASSUME TypeOK, NEW p \in Pod, NEW s \in Slot, CreateSecret(p, s) \/ PatchSecret(p, s)
  PROVE  TypeOK'
  <1> DEFINE j == job[p][s]
  <1>0. /\ j \in Job /\ j.obj.uid \in Nat /\ j.obj.gen \in Nat /\ SecretValue(j) \in Nat
        /\ secret \in Projection /\ secret.cs \in Nat
    <2>1. j \in Job /\ j.obj \in Client /\ j.cs \in Nat /\ secret \in Projection
      BY JobType DEF TypeOK
    <2> QED BY <2>1 DEF Client, Projection, SecretValue
  <1>1. Patched(j) \in Projection /\ [uid |-> j.obj.uid, gen |-> j.obj.gen, cs |-> SecretValue(j)] \in Projection
    <2> HIDE DEF j
    <2> QED BY <1>0 DEF Patched, Projection
  <1>2. UNCHANGED <<watching, cr, redis, queue, fp, pipe, sweep, last>>
    BY DEF CreateSecret, PatchSecret
  <1>3. SUFFICES secret' \in Projection /\ job' \in Jobs /\ spent' \in Budget /\ calm' \in BOOLEAN
    BY <1>2 DEF TypeOK, redis, Jobs, Budget
  <1>4. CASE (secret' = [uid |-> j.obj.uid, gen |-> j.obj.gen, cs |-> SecretValue(j)]
              \/ secret' = Patched(j)) /\ AfterWrite(p, s)
    BY <1>1, <1>4, AfterWriteType
  <1>5. CASE Become(p, s, [j EXCEPT !.pc = "reread"]) /\ UNCHANGED <<secret, spent, calm>>
    <2>1. [j EXCEPT !.pc = "reread"] \in Job
      BY <1>0, GoJob DEF Steps
    <2> QED BY <1>0, <1>5, <2>1, JobOnlyType
  <1>6. CASE Become(p, s, Throw(j)) /\ UNCHANGED <<secret, spent, calm>>
    BY <1>0, <1>6, ThrowJob, JobOnlyType
  <1>7. CASE CallFails /\ Become(p, s, Throw(j)) /\ UNCHANGED secret
    BY <1>0, <1>7, AfterWriteType
  <1> QED BY <1>4, <1>5, <1>6, <1>7 DEF CreateSecret, PatchSecret

LEMMA RedisWriteType ==
  ASSUME TypeOK, NEW p \in Pod, NEW s \in Slot, Upsert(p, s) \/ Destroy(p, s)
  PROVE  TypeOK'
  <1> DEFINE j == job[p][s]
  <1>0. /\ j \in Job /\ [uid |-> j.obj.uid, gen |-> j.obj.gen, cs |-> j.cs] \in Projection
        /\ [j EXCEPT !.pc = "sadd"] \in Job /\ [j EXCEPT !.pc = "srem"] \in Job /\ Throw(j) \in Job
    <2>1. j \in Job /\ j.obj \in Client /\ j.cs \in Nat
      BY JobType
    <2>2. [j EXCEPT !.pc = "sadd"] \in Job /\ [j EXCEPT !.pc = "srem"] \in Job /\ Throw(j) \in Job
      BY <2>1, GoJob, ThrowJob DEF Steps
    <2> QED BY <2>1, <2>2 DEF Client, Projection
  <1>1. UNCHANGED <<watching, k8s, listed, marker, queue, fp, sweep, last>>
    BY DEF Upsert, Destroy
  <1>2. SUFFICES rec' \in Projection /\ pipe' \in [Pod -> Seq(Worker)]
                 /\ job' \in Jobs /\ spent' \in Budget /\ calm' \in BOOLEAN
    BY <1>1 DEF TypeOK, k8s, Jobs, Budget
  <1>3. CASE /\ rec' \in {NoRecord, [uid |-> j.obj.uid, gen |-> j.obj.gen, cs |-> j.cs]}
             /\ pipe' = [pipe EXCEPT ![p] = Append(@, s)]
             /\ \E pc \in {"sadd", "srem"} : Become(p, s, [j EXCEPT !.pc = pc])
             /\ UNCHANGED <<spent, calm>>
    <2>1. pipe' \in [Pod -> Seq(Worker)]
      BY <1>3, PipeType DEF Worker
    <2>2. job' \in Jobs /\ spent' \in Budget /\ calm' \in BOOLEAN
      BY <1>0, <1>3, JobOnlyType
    <2> QED BY <1>0, <1>3, <2>1, <2>2, Values
  <1>4. CASE CallFails /\ Become(p, s, Throw(j)) /\ UNCHANGED <<rec, pipe>>
    BY <1>0, <1>4, JobOnlyType DEF TypeOK
  <1> QED BY <1>3, <1>4 DEF Upsert, Destroy

LEMMA SetMemberType ==
  ASSUME TypeOK, NEW p \in Pod, NEW s \in Slot, SetMember(p, s)
  PROVE  TypeOK'
  <1> DEFINE j == job[p][s]
  <1>0. /\ j \in Job /\ Throw(j) \in Job /\ Idle \in Job
        /\ Report(j, "Reconciled") \in Job /\ Report(j, "Disabled") \in Job
    BY JobType, ThrowJob, ReportJob, Values DEF Readiness
  <1>1. UNCHANGED <<watching, k8s, rec, marker, queue, fp, sweep, last>>
    BY DEF SetMember
  <1>2. pipe' \in [Pod -> Seq(Worker)]
    BY PipeType DEF SetMember
  <1>3. listed' \in BOOLEAN
    BY DEF SetMember, At, TypeOK
  <1>4. job' \in Jobs /\ spent' \in Budget /\ calm' \in BOOLEAN
    <2>1. CASE \E k \in {Report(j, "Reconciled"), Idle, Report(j, "Disabled")} :
                 Become(p, s, k) /\ UNCHANGED <<spent, calm>>
      BY <1>0, <2>1, JobOnlyType
    <2>2. CASE CallFails /\ Become(p, s, Throw(j))
      BY <1>0, <2>2, JobOnlyType
    <2> QED BY <2>1, <2>2 DEF SetMember
  <1> QED BY <1>1, <1>2, <1>3, <1>4 DEF TypeOK, k8s, Jobs, Budget

LEMMA ReportStatusType ==
  ASSUME TypeOK, NEW p \in Pod, NEW s \in Slot, ReportStatus(p, s)
  PROVE  TypeOK'
  <1>1. cr' \in Client /\ last' \in Counters /\ queue' \in Queues
    <2>1. CASE ReplaceClientStatus(job[p][s].obj, job[p][s].out)
      BY <2>1, JobType, StatusType
    <2>2. CASE UNCHANGED <<cr, last, queue>>
      BY <2>2 DEF TypeOK, Counters, Queues
    <2> QED BY <2>1, <2>2 DEF ReportStatus
  <1>2. job' \in Jobs /\ spent' \in Budget /\ calm' \in BOOLEAN
    BY JobOnlyType, Values DEF ReportStatus
  <1>3. UNCHANGED <<watching, secret, redis, fp, pipe, sweep>>
    BY DEF ReportStatus
  <1> QED BY <1>1, <1>2, <1>3 DEF TypeOK, redis, Counters, Queues, Jobs, Budget

LEMMA SweepType ==
  ASSUME TypeOK, NEW p \in Pod, Sweep(p)
  PROVE  TypeOK'
  <1>1. ASSUME NEW pc \in SweepSteps, SweepTo(p, pc)
        PROVE  sweep' \in [Pod -> SweepSteps]
    BY <1>1 DEF SweepTo, TypeOK, SweepSteps
  <1>2. CASE SweepList(p) \/ SweepMembers(p) \/ SweepFind(p) \/ SweepConfirm(p)
    <2>1. sweep' \in [Pod -> SweepSteps]
      BY <1>1, <1>2 DEF SweepList, SweepMembers, SweepFind, SweepConfirm, SweepSteps
    <2>2. UNCHANGED <<watching, k8s, redis, queue, fp, job, pipe, last, spent, calm>>
      BY <1>2 DEF SweepList, SweepMembers, SweepFind, SweepConfirm
    <2> QED BY <2>1, <2>2 DEF TypeOK, k8s, redis, SweepSteps
  <1>3. CASE SweepDestroy(p)
    <2>1. sweep' \in [Pod -> SweepSteps]
      BY <1>1, <1>3 DEF SweepDestroy, SweepSteps
    <2>2. pipe' \in [Pod -> Seq(Worker)]
      BY <1>3, PipeType DEF SweepDestroy, Worker
    <2> QED BY <1>3, <2>1, <2>2, Values DEF SweepDestroy, TypeOK, k8s, SweepSteps
  <1>4. CASE SweepRemove(p)
    <2>1. sweep' \in [Pod -> SweepSteps]
      BY <1>1, <1>4 DEF SweepRemove, SweepSteps
    <2>2. pipe' \in [Pod -> Seq(Worker)]
      BY <1>4, PipeType DEF SweepRemove
    <2>3. spent' \in Budget /\ calm' \in BOOLEAN /\ listed' \in BOOLEAN
      <3>1. CASE listed' = FALSE /\ UNCHANGED <<spent, calm>>
        BY <3>1 DEF TypeOK, Budget
      <3>2. CASE CallFails /\ UNCHANGED listed
        BY <3>2, CallFailsType DEF TypeOK
      <3> QED BY <1>4, <3>1, <3>2 DEF SweepRemove
    <2>4. UNCHANGED <<watching, k8s, rec, marker, queue, fp, job, last>>
      BY <1>4 DEF SweepRemove
    <2> QED BY <2>1, <2>2, <2>3, <2>4 DEF TypeOK, k8s, SweepSteps, Budget
  <1>5. CASE SweepFails(p)
    <2>1. sweep' \in [Pod -> SweepSteps]
      BY <1>1, <1>5 DEF SweepFails, SweepSteps
    <2>2. spent' \in Budget /\ calm' \in BOOLEAN
      BY <1>5, CallFailsType DEF SweepFails
    <2>3. UNCHANGED <<watching, k8s, redis, queue, fp, job, pipe, last>>
      BY <1>5 DEF SweepFails
    <2> QED BY <2>1, <2>2, <2>3 DEF TypeOK, k8s, redis, SweepSteps, Budget
  <1> QED BY <1>2, <1>3, <1>4, <1>5 DEF Sweep

LEMMA TypeStep == TypeOK /\ [Next]_vars => TypeOK'
  <1> SUFFICES ASSUME TypeOK, [Next]_vars PROVE TypeOK'
    OBVIOUS
  <1>1. CASE UNCHANGED vars
    BY <1>1 DEF TypeOK, vars
  <1>2. CASE Environment
    BY <1>2, EnvironmentType, ProcessType DEF Environment
  <1>3. ASSUME NEW p \in Pod, Deliver(p) \/ DetectWipe(p) \/ Sweep(p)
        PROVE  TypeOK'
    BY <1>3, DeliverType, ProcessType, SweepType
  <1>4. ASSUME NEW p \in Pod, NEW s \in Slot, Step(p, s)
        PROVE  TypeOK'
    BY <1>4, ClaimType, FindRecordType, GetSecretType, RereadType, WriteSecretType,
       RedisWriteType, SetMemberType, ReportStatusType DEF Step
  <1> QED BY <1>1, <1>2, <1>3, <1>4 DEF Next

(* Every variable of the client operator keeps its type, through every       *)
(* interleaving of reconciles, crashes, watch gaps and failures.             *)
THEOREM TypeCorrect == Spec => []TypeOK
  BY TypeInit, TypeStep, PTL DEF Spec

-----------------------------------------------------------------------------
(* The objects in flight. A watch event and a reconcile carry the resource  *)
(* as it once was: of a life no later than the present one, of a kind its   *)
(* author may write, and as it is now if its resourceVersion is.            *)

KnownIn(o, c, l) ==
  /\ o.uid \in 1 .. l.uid
  /\ o.kind \in Kind
  /\ o.rv <= l.rv
  /\ (o.uid = c.uid /\ o.rv = c.rv) => o = c

ObjectsInv ==
  /\ Exists => (KnownIn(cr, cr, last) /\ cr.uid = last.uid)
  /\ \A p \in Pod : \A i \in 1 .. Len(queue[p]) : KnownIn(queue[p][i].obj, cr, last)
  /\ \A p \in Pod : \A s \in Slot : Busy(p, s) => KnownIn(job[p][s].obj, cr, last)

LEMMA ObjectsInit == Init => ObjectsInv
  BY DEF Init, ObjectsInv, Exists, Busy, Idle, NoClient

(* How the resource may move in one step: not at all, away, or on, to a      *)
(* resourceVersion nothing has yet.                                          *)
Moved(c, l, c2, l2) ==
  \/ c2 = c /\ l2.uid = l.uid /\ l2.rv = l.rv
  \/ c2 = NoClient /\ l2 = l
  \/ /\ c2.rv = l.rv + 1 /\ l2.rv = l.rv + 1 /\ c2.uid = l2.uid /\ c2.kind \in Kind
     /\ \/ c2.uid = c.uid /\ c.uid = l.uid /\ c.uid # 0
        \/ c2.uid = l.uid + 1 /\ c.uid = 0

LEMMA KnownStays ==
  ASSUME NEW c \in Client, NEW c2 \in Client, NEW l \in Counters, NEW l2 \in Counters,
         Moved(c, l, c2, l2), NEW o \in Client, KnownIn(o, c, l)
  PROVE  KnownIn(o, c2, l2)
  <1>0. /\ o.uid \in Nat /\ o.rv \in Nat /\ l.uid \in Nat /\ l.rv \in Nat /\ c.uid \in Nat
        /\ c2.uid \in Nat /\ c2.rv \in Nat /\ l2.uid \in Nat /\ l2.rv \in Nat
    BY DEF Client, Counters
  <1>1. CASE c2 = c /\ l2.uid = l.uid /\ l2.rv = l.rv
    BY <1>1 DEF KnownIn
  <1>2. CASE c2 = NoClient /\ l2 = l
    <2>1. c2.uid = 0
      BY <1>2 DEF NoClient
    <2> QED BY <1>0, <1>2, <2>1 DEF KnownIn
  <1>3. CASE /\ c2.rv = l.rv + 1 /\ l2.rv = l.rv + 1 /\ c2.uid = l2.uid
             /\ c2.uid \in {l.uid, l.uid + 1}
    BY <1>0, <1>3 DEF KnownIn
  <1> QED BY <1>0, <1>1, <1>2, <1>3 DEF Moved

LEMMA StoreMoves ==
  ASSUME TypeOK, ObjectsInv, NEW type \in {"ADDED", "MODIFIED"}, NEW o \in Client, Store(type, o),
         o.kind \in Kind,
         (o.uid = cr.uid /\ Exists) \/ (o.uid = last.uid + 1 /\ ~Exists)
  PROVE  Moved(cr, last, cr', last') /\ cr'.uid # 0
  <1>1. /\ cr'.uid = o.uid /\ cr'.kind = o.kind
        /\ cr'.rv = last.rv + 1 /\ last'.uid = o.uid /\ last'.rv = last.rv + 1
    BY StoreType
  <1>2. cr.uid \in Nat /\ last.uid \in Nat
    BY DEF TypeOK, Client
  <1>3. CASE o.uid = cr.uid /\ Exists
    BY <1>1, <1>2, <1>3 DEF Moved, ObjectsInv, Exists
  <1>4. CASE o.uid = last.uid + 1 /\ ~Exists
    BY <1>1, <1>2, <1>4 DEF Moved, Exists
  <1> QED BY <1>3, <1>4

(* What a step does to the events waiting: it takes from the front, drops    *)
(* all, or adds the resource as it was or as it has become.                  *)
QueueFlow ==
  \A q \in Pod : \A i \in 1 .. Len(queue'[q]) :
    \/ \E k \in 1 .. Len(queue[q]) : queue'[q][i].obj = queue[q][k].obj
    \/ queue'[q][i].obj = cr /\ cr.uid # 0
    \/ queue'[q][i].obj = cr' /\ cr'.uid # 0

(* And what it does to a reconcile: nothing, its end, its start from a       *)
(* waiting event, its next step, or its claim of the resource.               *)
JobFlow ==
  \A q \in Pod : \A t \in Slot :
    \/ job'[q][t] = job[q][t]
    \/ job'[q][t] = Idle
    \/ \E k \in 1 .. Len(queue[q]) : Fresh(job'[q][t], queue[q][k].obj)
    \/ /\ job[q][t].pc \notin {"idle", "claim"} /\ job'[q][t].pc \notin {"idle", "claim", "find"}
       /\ job'[q][t].obj = job[q][t].obj
    \/ /\ job[q][t].pc = "claim" /\ job'[q][t].pc \in {"secret", "destroy", "report"}
       /\ job'[q][t].obj = cr' /\ cr'.uid # 0 /\ cr'.instance = "us"

LEMMA ObjectsFlow ==
  ASSUME TypeOK, TypeOK', ObjectsInv, Moved(cr, last, cr', last'), QueueFlow, JobFlow
  PROVE  ObjectsInv'
  <1>0. cr \in Client /\ cr' \in Client /\ last \in Counters /\ last' \in Counters
    BY DEF TypeOK, Counters
  <1>1. \A o \in Client : KnownIn(o, cr, last) => KnownIn(o, cr', last')
    BY <1>0, KnownStays
  <1>2. cr'.uid # 0 => (KnownIn(cr', cr', last') /\ cr'.uid = last'.uid)
    <2> SUFFICES ASSUME cr'.uid # 0 PROVE KnownIn(cr', cr', last') /\ cr'.uid = last'.uid
      OBVIOUS
    <2>1. cr'.uid \in Nat /\ last.uid \in Nat /\ last'.uid \in Nat /\ last'.rv \in Nat /\ cr'.rv \in Nat
      BY <1>0 DEF Client, Counters
    <2>2. CASE cr' = cr /\ last'.uid = last.uid /\ last'.rv = last.rv
      BY <2>2 DEF ObjectsInv, Exists, KnownIn
    <2>3. CASE cr' = NoClient
      BY <2>3 DEF NoClient
    <2>4. CASE cr'.rv = last.rv + 1 /\ last'.rv = last.rv + 1 /\ cr'.uid = last'.uid /\ cr'.kind \in Kind
      BY <2>1, <2>4 DEF KnownIn
    <2> QED BY <2>2, <2>3, <2>4 DEF Moved
  <1>3. cr.uid # 0 => KnownIn(cr, cr', last')
    BY <1>0, <1>1 DEF ObjectsInv, Exists
  <1>4. ASSUME NEW q \in Pod, NEW k \in 1 .. Len(queue[q])
        PROVE  queue[q][k].obj \in Client /\ KnownIn(queue[q][k].obj, cr', last')
    BY <1>1, EventAt DEF ObjectsInv
  <1>5. ASSUME NEW q \in Pod, NEW i \in 1 .. Len(queue'[q])
        PROVE  KnownIn(queue'[q][i].obj, cr', last')
    BY <1>2, <1>3, <1>4 DEF QueueFlow
  <1>6. ASSUME NEW q \in Pod, NEW t \in Slot, job'[q][t].pc # "idle"
        PROVE  KnownIn(job'[q][t].obj, cr', last')
    <2>1. job[q][t].obj \in Client /\ (job[q][t].pc # "idle" => KnownIn(job[q][t].obj, cr', last'))
      BY <1>1, JobType DEF ObjectsInv, Busy
    <2>2. Idle.pc = "idle"
      BY DEF Idle
    <2>3. CASE job'[q][t] = job[q][t] \/ job'[q][t] = Idle
      BY <1>6, <2>1, <2>2, <2>3
    <2>4. CASE \E k \in 1 .. Len(queue[q]) : Fresh(job'[q][t], queue[q][k].obj)
      BY <1>4, <1>6, <2>2, <2>4 DEF Fresh
    <2>5. CASE job[q][t].pc \notin {"idle", "claim"} /\ job'[q][t].obj = job[q][t].obj
      BY <2>1, <2>5
    <2>6. CASE job'[q][t].obj = cr' /\ cr'.uid # 0
      BY <1>2, <2>6
    <2> QED BY <2>3, <2>4, <2>5, <2>6 DEF JobFlow
  <1> QED BY <1>2, <1>5, <1>6 DEF ObjectsInv, Exists, Busy

(* Each step moves the resource, the events and the reconciles that way.    *)
Flows == Moved(cr, last, cr', last') /\ QueueFlow /\ JobFlow

LEMMA StillQueue ==
  ASSUME UNCHANGED queue
  PROVE  QueueFlow
  BY DEF QueueFlow

LEMMA StillJobs ==
  ASSUME UNCHANGED job
  PROVE  JobFlow
  BY DEF JobFlow

LEMMA Appended ==
  ASSUME NEW S, NEW q \in Seq(S), NEW e, NEW i \in 1 .. Len(Append(q, e))
  PROVE  (i \in 1 .. Len(q) /\ Append(q, e)[i] = q[i]) \/ Append(q, e)[i] = e
  <1>1. Len(Append(q, e)) = Len(q) + 1 /\ Len(q) \in Nat
    OBVIOUS
  <1>2. CASE i = Len(q) + 1
    BY <1>2
  <1>3. CASE i # Len(q) + 1
    BY <1>1, <1>3
  <1> QED BY <1>2, <1>3

LEMMA PublishFlow ==
  ASSUME TypeOK, NEW type, NEW o, Publish(type, o), NEW q \in Pod, NEW i \in 1 .. Len(queue'[q])
  PROVE  queue'[q][i].obj = o \/ \E k \in 1 .. Len(queue[q]) : queue'[q][i].obj = queue[q][k].obj
  <1> DEFINE e == [type |-> type, obj |-> o]
  <1>1. queue'[q] = IF q \in watching THEN Append(queue[q], e) ELSE <<>>
    BY DEF Publish
  <1>2. queue[q] \in Seq(Event) /\ e.obj = o
    BY DEF TypeOK
  <1> HIDE DEF e
  <1>3. CASE q \in watching
    BY <1>1, <1>2, <1>3, Appended
  <1>4. CASE q \notin watching
    BY <1>1, <1>4
  <1> QED BY <1>3, <1>4

LEMMA StoreFlow ==
  ASSUME TypeOK, NEW type, NEW o, Store(type, o), cr'.uid # 0
  PROVE  QueueFlow
  <1>1. Publish(type, cr')
    BY DEF Store
  <1>2. \A q \in Pod : \A i \in 1 .. Len(queue'[q]) :
          queue'[q][i].obj = cr' \/ \E k \in 1 .. Len(queue[q]) : queue'[q][i].obj = queue[q][k].obj
    BY <1>1, PublishFlow
  <1> QED BY <1>2 DEF QueueFlow

LEMMA EnvironmentFlow ==
  ASSUME TypeOK, ObjectsInv,
         \/ CreateClient \/ EditSpec \/ DeleteClient \/ TouchClient \/ ForeignClaim
         \/ CollectSecret \/ WipeRedis
  PROVE  Flows /\ UNCHANGED job
  <1>0. /\ last.uid + 1 \in Nat /\ cr \in Client /\ cr.gen + 1 \in Nat /\ last.uid \in Nat
        /\ Exists => cr.kind \in Kind
    BY DEF TypeOK, Client, ObjectsInv, KnownIn
  <1>1. UNCHANGED job /\ JobFlow
    BY StillJobs DEF CreateClient, EditSpec, DeleteClient, TouchClient, ForeignClaim, CollectSecret, WipeRedis
  <1>2. ASSUME NEW type \in {"ADDED", "MODIFIED"}, NEW o \in Client, Store(type, o), o.kind \in Kind,
               (o.uid = cr.uid /\ Exists) \/ (o.uid = last.uid + 1 /\ ~Exists)
        PROVE  Flows
    BY <1>1, <1>2, StoreMoves, StoreFlow DEF Flows
  <1>3. CASE CreateClient
    <2>1. PICK k \in Kind : Store("ADDED", [NoClient EXCEPT !.uid = last.uid + 1, !.gen = 1, !.kind = k])
      BY <1>3 DEF CreateClient
    <2> DEFINE o == [NoClient EXCEPT !.uid = last.uid + 1, !.gen = 1, !.kind = k]
    <2>2. o \in Client /\ o.uid = last.uid + 1 /\ o.kind = k
      BY <1>0, KindsOK, Values DEF Client, NoClient
    <2>3. ~Exists /\ Store("ADDED", o)
      BY <1>3, <2>1 DEF CreateClient
    <2> HIDE DEF o
    <2> QED BY <1>1, <1>2, <2>2, <2>3
  <1>4. CASE EditSpec
    <2>1. PICK k \in Kind : Store("MODIFIED", [cr EXCEPT !.gen = @ + 1, !.kind = k])
      BY <1>4 DEF EditSpec
    <2> DEFINE o == [cr EXCEPT !.gen = @ + 1, !.kind = k]
    <2>2. o \in Client /\ o.uid = cr.uid /\ o.kind = k
      BY <1>0, KindsOK DEF Client
    <2>3. Exists /\ Store("MODIFIED", o)
      BY <1>4, <2>1 DEF EditSpec
    <2> HIDE DEF o
    <2> QED BY <1>1, <1>2, <2>2, <2>3
  <1>5. CASE DeleteClient
    <2>1. cr' = NoClient /\ last' = last /\ Publish("DELETED", cr) /\ cr.uid # 0
      BY <1>5 DEF DeleteClient, Exists
    <2>2. \A q \in Pod : \A k \in 1 .. Len(queue'[q]) :
            queue'[q][k].obj = cr \/ \E m \in 1 .. Len(queue[q]) : queue'[q][k].obj = queue[q][m].obj
      BY <2>1, PublishFlow
    <2> QED BY <1>1, <2>1, <2>2 DEF Flows, Moved, QueueFlow
  <1>6. CASE TouchClient
    <2>1. Exists /\ Store("MODIFIED", cr)
      BY <1>6 DEF TouchClient
    <2> QED BY <1>0, <1>1, <1>2, <2>1
  <1>7. CASE ForeignClaim
    <2> DEFINE o == [cr EXCEPT !.instance = "them"]
    <2>1. o \in Client /\ o.uid = cr.uid /\ o.kind = cr.kind
      BY <1>0 DEF Client, Instances
    <2>2. Exists /\ Store("MODIFIED", o)
      BY <1>7 DEF ForeignClaim
    <2> HIDE DEF o
    <2> QED BY <1>0, <1>1, <1>2, <2>1, <2>2
  <1>8. CASE CollectSecret \/ WipeRedis
    BY <1>1, <1>8, StillQueue DEF CollectSecret, WipeRedis, Flows, Moved, k8s
  <1> QED BY <1>3, <1>4, <1>5, <1>6, <1>7, <1>8

LEMMA ProcessFlow ==
  ASSUME TypeOK, ObjectsInv, NEW p \in Pod,
         Reconnect(p) \/ Crash(p) \/ StandDown(p) \/ TakeOver(p) \/ DetectWipe(p)
  PROVE  Flows
  <1>1. Moved(cr, last, cr', last')
    BY DEF Reconnect, Crash, StandDown, TakeOver, DetectWipe, Moved, k8s
  <1>2. QueueFlow
    <2>1. ASSUME NEW q \in Pod
          PROVE  queue'[q] = queue[q] \/ queue'[q] = <<>> \/ queue'[q] = Relisted
      BY DEF Reconnect, Crash, StandDown, TakeOver, DetectWipe, StartWatches, TypeOK
    <2>2. \A i \in 1 .. Len(Relisted) : Relisted[i].obj = cr /\ cr.uid # 0
      BY DEF Relisted, Exists
    <2> QED BY <2>1, <2>2 DEF QueueFlow
  <1>3. JobFlow
    <2>1. ASSUME NEW q \in Pod, NEW t \in Slot
          PROVE  job'[q][t] = job[q][t] \/ job'[q][t] = Idle
      <3>1. job' = job \/ job' = [job EXCEPT ![p] = [s \in Slot |-> Idle]]
        BY DEF Reconnect, Crash, StandDown, TakeOver, DetectWipe
      <3>2. job \in [Pod -> [Slot -> Job]]
        BY DEF TypeOK
      <3> QED BY <3>1, <3>2
    <2> QED BY <2>1 DEF JobFlow
  <1> QED BY <1>1, <1>2, <1>3 DEF Flows

LEMMA DeliverFlow ==
  ASSUME TypeOK, ObjectsInv, NEW p \in Pod, Deliver(p)
  PROVE  /\ Flows /\ UNCHANGED <<cr, secret, rec, last>>
         /\ \A q \in Pod : \A t \in Slot :
              job'[q][t] = job[q][t] \/ \E k \in 1 .. Len(queue[q]) : Fresh(job'[q][t], queue[q][k].obj)
  <1> DEFINE e == Head(queue[p])
             current == (fp[p] = e.obj.gen)
             j == CASE e.type = "ADDED" -> OnAdded(e.obj, current)
                    [] e.type = "MODIFIED" -> OnModified(e.obj, current)
                    [] e.type = "DELETED" -> OnDeleted(e.obj)
  <1>1. /\ job' = job \/ \E s \in Slot : Become(p, s, j)
        /\ queue' = [queue EXCEPT ![p] = Tail(@)] /\ queue[p] # <<>>
        /\ UNCHANGED <<cr, secret, rec, last>>
    BY DEF Deliver, Become, k8s, redis
  <1>2. queue[p] \in Seq(Event) /\ queue \in [Pod -> Seq(Event)]
    BY DEF TypeOK
  <1>3. 1 \in 1 .. Len(queue[p]) /\ e = queue[p][1]
    BY <1>1, <1>2
  <1>4. e \in Event /\ e.obj \in Client
    BY <1>3, EventAt
  <1>5. Fresh(j, e.obj)
    <2>1. CASE e.type = "ADDED"
      BY <1>4, <2>1, OnAddedJob
    <2>2. CASE e.type = "MODIFIED"
      BY <1>4, <2>2, OnModifiedJob
    <2>3. CASE e.type = "DELETED"
      BY <1>4, <2>3, OnDeletedJob
    <2> QED BY <1>4, <2>1, <2>2, <2>3 DEF Event
  <1> HIDE DEF j, current, e
  <1>6. ASSUME NEW q \in Pod, NEW t \in Slot
        PROVE  job'[q][t] = job[q][t] \/ \E k \in 1 .. Len(queue[q]) : Fresh(job'[q][t], queue[q][k].obj)
    <2>1. job'[q][t] = job[q][t] \/ (q = p /\ job'[q][t] = j)
      BY <1>1 DEF Become, TypeOK
    <2> QED BY <1>3, <1>5, <2>1
  <1>7. QueueFlow
    <2>1. ASSUME NEW i \in 1 .. Len(Tail(queue[p]))
          PROVE  i + 1 \in 1 .. Len(queue[p]) /\ Tail(queue[p])[i] = queue[p][i + 1]
      BY <1>1, <1>2
    <2>2. ASSUME NEW q \in Pod
          PROVE  queue'[q] = queue[q] \/ (q = p /\ queue'[q] = Tail(queue[p]))
      BY <1>1, <1>2
    <2> QED BY <2>1, <2>2 DEF QueueFlow
  <1> QED BY <1>1, <1>6, <1>7 DEF Flows, Moved, JobFlow

(* A reconcile past its claim goes on with the object it has, or ends.       *)
GoesOn(j, k) ==
  \/ k = Idle
  \/ j.pc \notin {"idle", "claim"} /\ k.pc \notin {"idle", "claim", "find"} /\ k.obj = j.obj

LEMMA Becoming ==
  ASSUME TypeOK, NEW p \in Pod, NEW s \in Slot, NEW j, Become(p, s, j)
  PROVE  /\ job'[p][s] = j
         /\ \A q \in Pod : \A t \in Slot : job'[q][t] = job[q][t] \/ (q = p /\ t = s)
  <1>1. job \in [Pod -> [Slot -> Job]]
    BY DEF TypeOK
  <1> QED BY <1>1 DEF Become

LEMMA GoingOnFlow ==
  ASSUME TypeOK, NEW p \in Pod, NEW s \in Slot, NEW j, Become(p, s, j), GoesOn(job[p][s], j)
  PROVE  JobFlow
  BY Becoming DEF GoesOn, JobFlow

LEMMA ThrowGoesOn ==
  ASSUME TypeOK, NEW p \in Pod, NEW s \in Slot, job[p][s].pc \notin {"idle", "claim"}
  PROVE  GoesOn(job[p][s], Throw(job[p][s])) /\ GoesOn(job[p][s], AfterSecret(job[p][s]))
  BY JobType, ThrowJob, AfterSecretJob DEF GoesOn

LEMMA ClaimFlow ==
  ASSUME TypeOK, ObjectsInv, NEW p \in Pod, NEW s \in Slot, Claim(p, s)
  PROVE  Flows
  <1> DEFINE o == job[p][s].obj
  <1>0. o \in Client /\ o.ready \in Readiness /\ KnownIn(o, cr, last)
    BY JobType DEF Client, ObjectsInv, Claim, At, Busy
  <1>1. CASE /\ Matches(o)
             /\ ReplaceClientStatus(o, o.ready)
             /\ Become(p, s, IF job[p][s].via = "added" THEN Start("secret", "added", cr')
                             ELSE Update(cr'))
    <2>1. cr' \in Client /\ cr.uid # 0 /\ cr.kind \in Kind /\ cr \in Client
      BY <1>0, <1>1, StatusType DEF Matches, KnownIn, ObjectsInv, Exists, TypeOK
    <2>2. Status(o, o.ready) \in Client /\ Status(o, o.ready).uid = cr.uid
          /\ Status(o, o.ready).kind = cr.kind /\ Status(o, o.ready).instance = "us"
      BY <1>0, <2>1 DEF Status, Client, Instances
    <2>3. Moved(cr, last, cr', last') /\ QueueFlow /\ cr'.uid # 0 /\ cr'.instance = "us"
      <3>1. CASE Store("MODIFIED", Status(o, o.ready))
        <4>1. Moved(cr, last, cr', last') /\ cr'.uid # 0
          BY <2>1, <2>2, <3>1, StoreMoves DEF Exists
        <4>2. QueueFlow
          BY <3>1, <4>1, StoreFlow
        <4>3. cr'.instance = "us"
          BY <2>2, <3>1, StoreType
        <4> QED BY <4>1, <4>2, <4>3
      <3>2. CASE UNCHANGED <<cr, last, queue>> /\ Status(o, o.ready) = cr
        BY <2>1, <2>2, <3>2, StillQueue DEF Moved
      <3> QED BY <1>1, <3>1, <3>2 DEF ReplaceClientStatus
    <2>4. ASSUME NEW j, j = (IF job[p][s].via = "added" THEN Start("secret", "added", cr') ELSE Update(cr'))
          PROVE  j.pc \in {"secret", "destroy", "report"} /\ j.obj = cr'
      BY <2>1, <2>4, StartJob, UpdateJob DEF Steps, Vias
    <2>5. JobFlow
      BY <1>1, <2>3, <2>4, Becoming DEF JobFlow, Claim, At
    <2> QED BY <2>3, <2>5 DEF Flows
  <1>2. CASE Become(p, s, Idle) /\ UNCHANGED <<cr, last, queue>>
    BY <1>2, GoingOnFlow, StillQueue DEF GoesOn, Flows, Moved
  <1> QED BY <1>1, <1>2 DEF Claim

LEMMA FindRecordFlow ==
  ASSUME TypeOK, NEW p \in Pod, NEW s \in Slot, FindRecord(p, s)
  PROVE  Flows
  <1> DEFINE j == job[p][s]
  <1>1. j \in Job /\ j.pc = "find"
    BY JobType DEF FindRecord, At
  <1>2. GoesOn(j, [j EXCEPT !.pc = "secret"]) /\ GoesOn(j, AfterSecret(j)) /\ GoesOn(j, Throw(j))
    BY <1>1, GoJob, ThrowGoesOn DEF GoesOn, Steps
  <1>3. Become(p, s, [j EXCEPT !.pc = "secret"]) \/ Become(p, s, AfterSecret(j)) \/ Become(p, s, Throw(j))
    BY DEF FindRecord
  <1> HIDE DEF j
  <1>4. JobFlow
    BY <1>2, <1>3, GoingOnFlow DEF j
  <1> QED BY <1>4, StillQueue DEF FindRecord, Flows, Moved, k8s

LEMMA AdoptFlow ==
  ASSUME TypeOK, NEW p \in Pod, NEW s \in Slot, job[p][s].pc \notin {"idle", "claim"},
         Adopt(p, s) \/ Issue(p, s)
  PROVE  JobFlow /\ last'.uid = last.uid /\ last'.rv = last.rv
  <1> DEFINE k == job[p][s]
  <1>1. k \in Job /\ last \in Counters
    BY JobType DEF TypeOK, Counters
  <1>2. \A sec \in Projection, n \in Nat :
          /\ [[k EXCEPT !.pc = "patch", !.seen = sec] EXCEPT !.cs = n].pc = "patch"
          /\ [[k EXCEPT !.pc = "patch", !.seen = sec] EXCEPT !.cs = n].obj = k.obj
          /\ [k EXCEPT !.pc = "create", !.cs = n].pc = "create"
          /\ [k EXCEPT !.pc = "create", !.cs = n].obj = k.obj
    <2> HIDE DEF k
    <2> QED BY <1>1 DEF Job
  <1>3. secret \in Projection /\ secret.cs \in Nat /\ last.cs + 1 \in Nat
    BY <1>1 DEF TypeOK, Projection, Counters
  <1>4. last' = last \/ last' = [last EXCEPT !.cs = @ + 1]
    BY DEF Adopt, Issue
  <1>5. last'.uid = last.uid /\ last'.rv = last.rv
    BY <1>1, <1>4 DEF Counters
  <1>6. \/ Become(p, s, [[k EXCEPT !.pc = "patch", !.seen = secret] EXCEPT !.cs = secret.cs])
        \/ Become(p, s, [[k EXCEPT !.pc = "patch", !.seen = secret] EXCEPT !.cs = last.cs + 1])
        \/ Become(p, s, [k EXCEPT !.pc = "create", !.cs = last.cs + 1])
    BY DEF Adopt, Issue
  <1>7. \A n \in Nat :
          /\ GoesOn(k, [[k EXCEPT !.pc = "patch", !.seen = secret] EXCEPT !.cs = n])
          /\ GoesOn(k, [k EXCEPT !.pc = "create", !.cs = n])
    BY <1>2, <1>3 DEF GoesOn
  <1>8. JobFlow
    BY <1>3, <1>6, <1>7, GoingOnFlow
  <1> QED BY <1>5, <1>8

LEMMA SecretReadFlow ==
  ASSUME TypeOK, NEW p \in Pod, NEW s \in Slot, GetSecret(p, s) \/ Reread(p, s)
  PROVE  Flows
  <1>1. job[p][s].pc \notin {"idle", "claim"}
    BY DEF GetSecret, Reread, At
  <1>2. UNCHANGED <<cr, queue>>
    BY DEF GetSecret, Reread, k8s
  <1>3. CASE Adopt(p, s) \/ Issue(p, s)
    BY <1>1, <1>2, <1>3, AdoptFlow, StillQueue DEF Flows, Moved
  <1>4. CASE Become(p, s, Throw(job[p][s])) /\ UNCHANGED last
    BY <1>1, <1>2, <1>4, ThrowGoesOn, GoingOnFlow, StillQueue DEF Flows, Moved
  <1> QED BY <1>3, <1>4 DEF GetSecret, Reread

LEMMA WriteFlow ==
  ASSUME TypeOK, NEW p \in Pod, NEW s \in Slot,
         CreateSecret(p, s) \/ PatchSecret(p, s) \/ Upsert(p, s) \/ Destroy(p, s) \/ SetMember(p, s)
  PROVE  Flows
  <1> DEFINE j == job[p][s]
  <1>1. j \in Job /\ j.pc \notin {"idle", "claim"}
    BY JobType DEF CreateSecret, PatchSecret, Upsert, Destroy, SetMember, At
  <1>2. \A pc \in {"reread", "sadd", "srem"} : GoesOn(j, [j EXCEPT !.pc = pc])
    <2>1. {"reread", "sadd", "srem"} \subseteq Steps
      BY DEF Steps
    <2> HIDE DEF j
    <2> QED BY <1>1, <2>1, GoJob DEF GoesOn
  <1>3. \A out \in {"Reconciled", "Disabled"} : GoesOn(j, Report(j, out))
    <2> HIDE DEF j
    <2> QED BY <1>1, ReportJob DEF GoesOn, Readiness
  <1>4. GoesOn(j, Throw(j)) /\ GoesOn(j, AfterSecret(j)) /\ GoesOn(j, Idle)
    BY <1>1, ThrowGoesOn DEF GoesOn
  <1>5. \/ \E pc \in {"reread", "sadd", "srem"} : Become(p, s, [j EXCEPT !.pc = pc])
        \/ \E out \in {"Reconciled", "Disabled"} : Become(p, s, Report(j, out))
        \/ Become(p, s, Throw(j)) \/ Become(p, s, AfterSecret(j)) \/ Become(p, s, Idle)
    BY DEF CreateSecret, PatchSecret, Upsert, Destroy, SetMember, AfterWrite
  <1>6. JobFlow
    BY <1>2, <1>3, <1>4, <1>5, GoingOnFlow
  <1>7. UNCHANGED <<cr, last, queue>>
    BY DEF CreateSecret, PatchSecret, Upsert, Destroy, SetMember, k8s
  <1> QED BY <1>6, <1>7, StillQueue DEF Flows, Moved

LEMMA ReportStatusFlow ==
  ASSUME TypeOK, ObjectsInv, NEW p \in Pod, NEW s \in Slot, ReportStatus(p, s)
  PROVE  Flows
  <1> DEFINE o == job[p][s].obj
             ready == job[p][s].out
  <1>0. o \in Client /\ ready \in Readiness /\ KnownIn(o, cr, last) /\ cr \in Client
    BY JobType DEF ObjectsInv, ReportStatus, At, Busy, TypeOK
  <1>1. JobFlow
    BY GoingOnFlow DEF ReportStatus, GoesOn
  <1>2. CASE Matches(o) /\ Store("MODIFIED", Status(o, ready))
    <2>1. cr.uid # 0 /\ cr.kind \in Kind
      BY <1>0, <1>2 DEF Matches, KnownIn, ObjectsInv, Exists
    <2>2. Status(o, ready) \in Client /\ Status(o, ready).uid = cr.uid /\ Status(o, ready).kind = cr.kind
      BY <1>0 DEF Status, Client, Instances
    <2>3. Moved(cr, last, cr', last') /\ cr'.uid # 0
      BY <1>2, <2>1, <2>2, StoreMoves DEF Exists
    <2> QED BY <1>1, <1>2, <2>3, StoreFlow DEF Flows
  <1>3. CASE UNCHANGED <<cr, last, queue>>
    BY <1>1, <1>3, StillQueue DEF Flows, Moved
  <1> QED BY <1>2, <1>3 DEF ReportStatus, ReplaceClientStatus

LEMMA SweepFlow ==
  ASSUME NEW p \in Pod, Sweep(p)
  PROVE  Flows /\ UNCHANGED <<job, cr, last, secret>>
  <1>1. UNCHANGED <<job, queue, cr, last, secret>>
    BY DEF Sweep, SweepList, SweepMembers, SweepFind, SweepConfirm, SweepDestroy, SweepRemove, SweepFails, k8s
  <1> QED BY <1>1, StillJobs, StillQueue DEF Flows, Moved

LEMMA StepFlow ==
  ASSUME TypeOK, ObjectsInv, NEW p \in Pod, NEW s \in Slot, Step(p, s)
  PROVE  Flows
  BY ClaimFlow, FindRecordFlow, SecretReadFlow, WriteFlow, ReportStatusFlow DEF Step

LEMMA NextFlow == TypeOK /\ ObjectsInv /\ [Next]_vars => Flows
  <1> SUFFICES ASSUME TypeOK, ObjectsInv, [Next]_vars PROVE Flows
    OBVIOUS
  <1>1. CASE UNCHANGED vars
    BY <1>1, StillJobs, StillQueue DEF vars, Flows, Moved
  <1>2. CASE Environment
    BY <1>2, EnvironmentFlow, ProcessFlow DEF Environment
  <1>3. ASSUME NEW p \in Pod, Deliver(p) \/ DetectWipe(p) \/ Sweep(p)
        PROVE  Flows
    BY <1>3, DeliverFlow, ProcessFlow, SweepFlow
  <1>4. ASSUME NEW p \in Pod, NEW s \in Slot, Step(p, s)
        PROVE  Flows
    BY <1>4, StepFlow
  <1> QED BY <1>1, <1>2, <1>3, <1>4 DEF Next

LEMMA ObjectsStep == TypeOK /\ ObjectsInv /\ [Next]_vars => ObjectsInv'
  BY TypeStep, NextFlow, ObjectsFlow DEF Flows

-----------------------------------------------------------------------------
(* Whose client it is. A reconcile past its claim, an event that says "us",  *)
(* the record and the Secret are of a client that is ours and stays so. This *)
(* needs the claimMappings of clients to be valid: the failure report of an  *)
(* invalid one takes over whatever client it is.                             *)

OursIn(uid, c) == (uid # 0 /\ uid = c.uid) => c.instance = "us"

OursInv ==
  /\ OursIn(rec.uid, cr) /\ rec.uid <= last.uid
  /\ OursIn(secret.uid, cr) /\ secret.uid <= last.uid
  /\ \A p \in Pod : \A i \in 1 .. Len(queue[p]) :
       queue[p][i].obj.instance = "us" => OursIn(queue[p][i].obj.uid, cr)
  /\ \A p \in Pod : \A s \in Slot :
       /\ job[p][s].pc = "claim" => job[p][s].obj.instance = "none"
       /\ job[p][s].pc \notin {"idle", "claim"} => OursIn(job[p][s].obj.uid, cr)

InstanceKept ==
  Exists /\ cr'.uid = cr.uid /\ cr.instance # "none" => cr'.instance = cr.instance

LEMMA OursInit == Init => OursInv
  BY DEF Init, OursInv, OursIn, NoRecord, NoSecret, NoClient, Idle

LEMMA SameResourceKept ==
  ASSUME cr' = cr \/ cr' = NoClient
  PROVE  InstanceKept
  BY DEF InstanceKept, Exists, NoClient

LEMMA KeptStep ==
  ASSUME TypeOK, ObjectsInv, OursInv, [Next]_vars
  PROVE  InstanceKept
  <1>0. cr \in Client
    BY DEF TypeOK
  <1>1. CASE UNCHANGED cr \/ DeleteClient
    BY <1>1, SameResourceKept DEF DeleteClient
  <1>2. CASE CreateClient
    BY <1>2 DEF CreateClient, InstanceKept
  <1>3. CASE EditSpec \/ TouchClient \/ ForeignClaim
    <2>1. CASE ForeignClaim
      BY <2>1 DEF ForeignClaim, InstanceKept
    <2>2. CASE TouchClient
      BY <1>0, <2>2, StoreType DEF TouchClient, InstanceKept
    <2>3. CASE EditSpec
      <3>1. PICK k \in Kind : Store("MODIFIED", [cr EXCEPT !.gen = @ + 1, !.kind = k])
        BY <2>3 DEF EditSpec
      <3> DEFINE o == [cr EXCEPT !.gen = @ + 1, !.kind = k]
      <3>2. cr.gen + 1 \in Nat /\ k \in Kinds
        BY <1>0, KindsOK DEF Client
      <3>3. o \in Client /\ o.instance = cr.instance
        BY <1>0, <3>2 DEF Client
      <3> HIDE DEF o
      <3>4. Store("MODIFIED", o)
        BY <3>1 DEF o
      <3> QED BY <3>3, <3>4, StoreType DEF InstanceKept
    <2> QED BY <1>3, <2>1, <2>2, <2>3
  <1>4. ASSUME NEW p \in Pod, NEW s \in Slot, Claim(p, s) \/ ReportStatus(p, s), ~ UNCHANGED cr
        PROVE  InstanceKept
    <2> DEFINE o == job[p][s].obj
    <2>1. PICK ready \in Readiness : Matches(o) /\ Store("MODIFIED", Status(o, ready))
      <3>1. o.ready \in Readiness /\ job[p][s].out \in Readiness
        BY JobType DEF Client
      <3> QED BY <1>4, <3>1 DEF Claim, ReportStatus, ReplaceClientStatus
    <2>2. Status(o, ready) \in Client /\ Status(o, ready).instance = "us"
      BY <1>0 DEF Status, Client, Instances
    <2>3. cr'.instance = "us"
      BY <2>1, <2>2, StoreType
    <2>4. CASE Claim(p, s)
      <3>1. job[p][s].pc = "claim" /\ o.instance = "none" /\ KnownIn(o, cr, last)
        BY <2>4 DEF Claim, At, OursInv, ObjectsInv, Busy
      <3>2. o = cr
        BY <2>1, <3>1 DEF KnownIn, Matches
      <3> QED BY <3>1, <3>2 DEF InstanceKept
    <2>5. CASE ReportStatus(p, s)
      <3>1. OursIn(o.uid, cr) /\ KnownIn(o, cr, last)
        BY <2>5 DEF ReportStatus, At, OursInv, ObjectsInv, Busy
      <3>2. Exists => cr.instance = "us"
        BY <2>1, <3>1 DEF OursIn, Matches, Exists
      <3> QED BY <2>3, <3>2 DEF InstanceKept
    <2> QED BY <1>4, <2>4, <2>5
  <1>5. ASSUME NEW p \in Pod, NEW s \in Slot, Step(p, s)
        PROVE  InstanceKept
    <2>1. CASE Claim(p, s) \/ ReportStatus(p, s)
      BY <1>1, <1>4, <2>1
    <2>2. CASE ~(Claim(p, s) \/ ReportStatus(p, s))
      BY <1>1, <1>5, <2>2 DEF Step, FindRecord, GetSecret, CreateSecret, Reread, PatchSecret, Upsert,
                              Destroy, SetMember, k8s
    <2> QED BY <2>1, <2>2
  <1>6. ASSUME NEW p \in Pod,
               \/ Reconnect(p) \/ Crash(p) \/ StandDown(p) \/ TakeOver(p)
               \/ Deliver(p) \/ DetectWipe(p) \/ Sweep(p)
        PROVE  InstanceKept
    <2>1. CASE Sweep(p)
      BY <1>1, <2>1, SweepFlow
    <2>2. CASE ~Sweep(p)
      BY <1>1, <1>6, <2>2 DEF Reconnect, Crash, StandDown, TakeOver, Deliver, DetectWipe, k8s
    <2> QED BY <2>1, <2>2
  <1>7. CASE CollectSecret \/ WipeRedis
    BY <1>1, <1>7 DEF CollectSecret, WipeRedis, k8s
  <1>8. CASE UNCHANGED vars
    BY <1>1, <1>8 DEF vars
  <1> QED BY <1>1, <1>2, <1>3, <1>5, <1>6, <1>7, <1>8 DEF Next, Environment

(* What the record and the Secret become: what they were, nothing, or what a *)
(* reconcile past its claim writes.                                          *)
WrittenBy(x, y) ==
  \/ y \in {x, NoRecord}
  \/ \E p \in Pod, s \in Slot :
       job[p][s].pc \notin {"idle", "claim"} /\ y.uid = job[p][s].obj.uid

LEMMA ProjectionsFlow ==
  ASSUME TypeOK, [Next]_vars
  PROVE  WrittenBy(rec, rec') /\ WrittenBy(secret, secret')
  <1>0. NoSecret = NoRecord
    BY DEF NoRecord, NoSecret
  <1>1. CASE UNCHANGED vars
    BY <1>1 DEF vars, WrittenBy
  <1>2. CASE Environment
    BY <1>0, <1>2 DEF Environment, CreateClient, EditSpec, DeleteClient, TouchClient, ForeignClaim,
                      CollectSecret, WipeRedis, Reconnect, Crash, StandDown, TakeOver, redis, k8s, WrittenBy
  <1>3. ASSUME NEW p \in Pod, Deliver(p) \/ DetectWipe(p)
        PROVE  UNCHANGED <<rec, secret>>
    BY <1>3 DEF Deliver, DetectWipe, k8s, redis
  <1>4. ASSUME NEW p \in Pod, Sweep(p)
        PROVE  rec' \in {rec, NoRecord} /\ secret' = secret
    BY <1>4 DEF Sweep, SweepList, SweepMembers, SweepFind, SweepConfirm, SweepDestroy, SweepRemove,
                SweepFails, k8s, redis
  <1>5. ASSUME NEW p \in Pod, NEW s \in Slot, Step(p, s)
        PROVE  WrittenBy(rec, rec') /\ WrittenBy(secret, secret')
    <2>1. CASE CreateSecret(p, s) \/ PatchSecret(p, s)
      <3>1. job[p][s].pc \notin {"idle", "claim"} /\ rec' = rec
        BY <2>1 DEF CreateSecret, PatchSecret, At, redis
      <3>2. secret' = secret \/ secret'.uid = job[p][s].obj.uid
        BY <2>1 DEF CreateSecret, PatchSecret, Patched
      <3> QED BY <3>1, <3>2 DEF WrittenBy
    <2>2. CASE Upsert(p, s) \/ Destroy(p, s)
      <3>1. job[p][s].pc \notin {"idle", "claim"} /\ secret' = secret
        BY <2>2 DEF Upsert, Destroy, At, k8s
      <3>2. rec' = rec \/ rec' = NoRecord \/ rec'.uid = job[p][s].obj.uid
        BY <2>2 DEF Upsert, Destroy
      <3> QED BY <1>0, <3>1, <3>2 DEF WrittenBy
    <2>3. CASE ~(CreateSecret(p, s) \/ PatchSecret(p, s) \/ Upsert(p, s) \/ Destroy(p, s))
      BY <1>5, <2>3 DEF Step, Claim, FindRecord, GetSecret, Reread, SetMember, ReportStatus, k8s, redis,
                        WrittenBy
    <2> QED BY <2>1, <2>2, <2>3
  <1> QED BY <1>0, <1>1, <1>2, <1>3, <1>4, <1>5 DEF Next, WrittenBy

LEMMA OursStep ==
  ASSUME "invalid" \notin Kind, TypeOK, ObjectsInv, OursInv, [Next]_vars
  PROVE  OursInv'
  <1>0. /\ TypeOK' /\ cr \in Client /\ cr' \in Client /\ last \in Counters /\ last' \in Counters
        /\ cr.uid \in Nat /\ cr'.uid \in Nat /\ last.uid \in Nat /\ last'.uid \in Nat
    <2>1. TypeOK'
      BY TypeStep
    <2> QED BY <2>1 DEF TypeOK, Counters, Client
  <1>1. Moved(cr, last, cr', last') /\ QueueFlow /\ JobFlow /\ InstanceKept
    BY NextFlow, KeptStep DEF Flows
  <1>2. last.uid <= last'.uid
    BY <1>0, <1>1 DEF Moved
  <1>3. ASSUME NEW n \in Nat, n <= last.uid, OursIn(n, cr)
        PROVE  OursIn(n, cr')
    <2>1. CASE cr' = cr
      BY <1>3, <2>1
    <2>2. CASE cr' = NoClient
      BY <2>2 DEF OursIn, NoClient
    <2>3. CASE cr'.uid = cr.uid /\ cr.uid # 0
      BY <1>1, <1>3, <2>3 DEF OursIn, InstanceKept, Exists
    <2>4. CASE cr'.uid = last.uid + 1
      BY <1>0, <1>3, <2>4 DEF OursIn
    <2> QED BY <1>1, <2>1, <2>2, <2>3, <2>4 DEF Moved
  <1>4. ASSUME NEW o \in Client, KnownIn(o, cr, last)
        PROVE  o.uid \in Nat /\ o.uid <= last.uid /\ o.kind # "invalid"
    BY <1>0, <1>4 DEF KnownIn
  <1>5. ASSUME NEW q \in Pod, NEW t \in Slot, job[q][t].pc \notin {"idle", "claim"}
        PROVE  /\ job[q][t].obj.uid \in Nat /\ job[q][t].obj.uid <= last.uid
               /\ OursIn(job[q][t].obj.uid, cr')
    <2>1. job[q][t].obj \in Client /\ KnownIn(job[q][t].obj, cr, last) /\ OursIn(job[q][t].obj.uid, cr)
      BY <1>5, JobType DEF ObjectsInv, Busy, OursInv
    <2> QED BY <1>3, <1>4, <2>1
  <1>6. ASSUME NEW q \in Pod, NEW k \in 1 .. Len(queue[q])
        PROVE  /\ queue[q][k].obj.kind # "invalid"
               /\ queue[q][k].obj.instance = "us" => OursIn(queue[q][k].obj.uid, cr')
    <2>1. queue[q][k].obj \in Client /\ KnownIn(queue[q][k].obj, cr, last)
      BY EventAt DEF ObjectsInv
    <2>2. queue[q][k].obj.instance = "us" => OursIn(queue[q][k].obj.uid, cr)
      BY DEF OursInv
    <2> QED BY <1>3, <1>4, <2>1, <2>2
  <1>7. /\ OursIn(rec'.uid, cr') /\ rec'.uid <= last'.uid
        /\ OursIn(secret'.uid, cr') /\ secret'.uid <= last'.uid
    <2>1. ASSUME NEW x \in Projection, NEW y \in Projection, WrittenBy(x, y),
                 OursIn(x.uid, cr), x.uid <= last.uid
          PROVE  OursIn(y.uid, cr') /\ y.uid <= last'.uid
      <3>1. x.uid \in Nat /\ y.uid \in Nat
        BY DEF Projection
      <3>2. CASE y = x
        BY <1>0, <1>2, <1>3, <2>1, <3>1, <3>2
      <3>3. CASE y = NoRecord
        BY <1>0, <3>3 DEF OursIn, NoRecord
      <3>4. CASE \E p \in Pod, s \in Slot :
                   job[p][s].pc \notin {"idle", "claim"} /\ y.uid = job[p][s].obj.uid
        BY <1>0, <1>2, <1>5, <3>4
      <3> QED BY <2>1, <3>2, <3>3, <3>4 DEF WrittenBy
    <2>2. /\ rec \in Projection /\ rec' \in Projection /\ secret \in Projection /\ secret' \in Projection
          /\ OursIn(rec.uid, cr) /\ rec.uid <= last.uid /\ OursIn(secret.uid, cr) /\ secret.uid <= last.uid
      BY <1>0 DEF TypeOK, OursInv
    <2> QED BY <2>1, <2>2, ProjectionsFlow
  <1>8. ASSUME NEW q \in Pod, NEW i \in 1 .. Len(queue'[q]), queue'[q][i].obj.instance = "us"
        PROVE  OursIn(queue'[q][i].obj.uid, cr')
    <2>1. CASE \E k \in 1 .. Len(queue[q]) : queue'[q][i].obj = queue[q][k].obj
      BY <1>6, <1>8, <2>1
    <2>2. CASE queue'[q][i].obj = cr /\ cr.uid # 0
      <3>1. cr.uid <= last.uid /\ OursIn(cr.uid, cr)
        BY <1>0, <1>8, <2>2 DEF ObjectsInv, Exists, OursIn
      <3> QED BY <1>0, <1>3, <2>2, <3>1
    <2>3. CASE queue'[q][i].obj = cr'
      BY <1>8, <2>3 DEF OursIn
    <2> QED BY <1>1, <2>1, <2>2, <2>3 DEF QueueFlow
  <1>9. ASSUME NEW q \in Pod, NEW t \in Slot
        PROVE  /\ job'[q][t].pc = "claim" => job'[q][t].obj.instance = "none"
               /\ job'[q][t].pc \notin {"idle", "claim"} => OursIn(job'[q][t].obj.uid, cr')
    <2>1. CASE job'[q][t] = job[q][t]
      BY <1>5, <2>1 DEF OursInv
    <2>2. CASE job'[q][t] = Idle
      BY <2>2 DEF Idle
    <2>3. CASE \E k \in 1 .. Len(queue[q]) : Fresh(job'[q][t], queue[q][k].obj)
      <3>1. PICK k \in 1 .. Len(queue[q]) : Fresh(job'[q][t], queue[q][k].obj)
        BY <2>3
      <3>2. Idle.pc = "idle"
        BY DEF Idle
      <3> QED BY <1>6, <3>1, <3>2 DEF Fresh
    <2>4. CASE /\ job[q][t].pc \notin {"idle", "claim"} /\ job'[q][t].pc \notin {"idle", "claim", "find"}
               /\ job'[q][t].obj = job[q][t].obj
      BY <1>5, <2>4
    <2>5. CASE /\ job'[q][t].pc \in {"secret", "destroy", "report"}
               /\ job'[q][t].obj = cr' /\ cr'.instance = "us"
      BY <2>5 DEF OursIn
    <2> QED BY <1>1, <2>1, <2>2, <2>3, <2>4, <2>5 DEF JobFlow
  <1> QED BY <1>7, <1>8, <1>9 DEF OursInv

(* When the claimMappings of clients are valid, a client of another          *)
(* Passmower is neither in our Redis nor given a Secret by us: the claim of   *)
(* #replaceClientStatus decides, even when both claim it at once.            *)
THEOREM OursOnly ==
  ASSUME "invalid" \notin Kind
  PROVE  Spec => []OnlyOursProjected
  <1>1. TypeOK /\ OursInv => OnlyOursProjected
    BY DEF OursInv, OursIn, OnlyOursProjected, Exists, TypeOK, Client, Projection
  <1>2. TypeOK /\ ObjectsInv /\ OursInv /\ [Next]_vars => OursInv'
    BY OursStep
  <1> QED BY <1>1, <1>2, TypeInit, TypeStep, ObjectsInit, ObjectsStep, OursInit, PTL DEF Spec

(* When the claimMappings of clients are valid, a client once claimed stays   *)
(* with whom it is: no reconcile, however late, takes it over.               *)
THEOREM ClaimKept ==
  ASSUME "invalid" \notin Kind
  PROVE  Spec => ClaimStable
  <1>1. TypeOK /\ ObjectsInv /\ OursInv /\ [Next]_vars
          => [Exists /\ cr'.uid = cr.uid /\ cr.instance # "none" => cr'.instance = cr.instance]_vars
    BY KeptStep DEF InstanceKept
  <1>2. TypeOK /\ ObjectsInv /\ OursInv /\ [Next]_vars => OursInv'
    BY OursStep
  <1> QED BY <1>1, <1>2, TypeInit, TypeStep, ObjectsInit, ObjectsStep, OursInit, PTL DEF Spec, ClaimStable

-----------------------------------------------------------------------------
(* The client_secret of a client in its first life, when no client is        *)
(* public: every reconcile that is about to write it, to the Secret or to    *)
(* the record, carries the one the Secret already holds, unless there is no  *)
(* Secret yet, and then there is no record either.                           *)

Carries(j, sec) ==
  CASE j.pc = "create" -> j.cs # 0
    [] j.pc = "patch" -> sec # NoSecret /\ j.seen.cs = sec.cs /\ j.cs = sec.cs
    [] j.pc = "upsert" -> sec # NoSecret /\ j.cs = sec.cs
    [] OTHER -> TRUE

Held ==
  /\ secret # NoSecret => secret.cs # 0
  /\ rec # NoRecord => (secret # NoSecret /\ rec.cs = secret.cs)
  /\ \A p \in Pod : \A s \in Slot : Carries(job[p][s], secret)

SecretInv ==
  /\ secret.uid <= last.uid
  /\ last.uid = 0 => (secret = NoSecret /\ rec = NoRecord)
  /\ \A p \in Pod : \A s \in Slot :
       job[p][s].pc = "find" => (job[p][s].via = "added" /\ job[p][s].cs = 0)
  /\ FirstLife => Held

Writing == {"create", "patch", "upsert"}

LEMMA SecretInit == Init => SecretInv
  BY DEF Init, SecretInv, NoSecret, NoRecord, NoClient, Idle, FirstLife, Exists

LEMMA NotWriting ==
  ASSUME NEW j, j.pc \notin Writing, NEW sec
  PROVE  Carries(j, sec)
  BY DEF Carries, Writing

(* The Secret stays, and no reconcile starts to write anything else.         *)
LEMMA HeldStill ==
  ASSUME Held, secret' = secret, rec' \in {rec, NoRecord},
         \A q \in Pod : \A t \in Slot :
           \/ job'[q][t] = job[q][t]
           \/ job'[q][t].pc \notin Writing
           \/ Carries(job'[q][t], secret)
  PROVE  Held'
  BY NotWriting DEF Held

(* The Secret is written, with the client_secret it holds if there is one.   *)
LEMMA HeldWritten ==
  ASSUME Held, rec' = rec, secret' # NoSecret, secret'.cs # 0,
         secret # NoSecret => secret'.cs = secret.cs,
         \A q \in Pod : \A t \in Slot :
           job'[q][t] = job[q][t] \/ Carries(job'[q][t], secret')
  PROVE  Held'
  <1>1. ASSUME NEW j, Carries(j, secret)
        PROVE  Carries(j, secret')
    BY <1>1 DEF Carries
  <1> QED BY <1>1 DEF Held

LEMMA HeldEnvironment ==
  ASSUME TypeOK, ObjectsInv, SecretInv, FirstLife, Held,
         \/ CreateClient \/ EditSpec \/ DeleteClient \/ TouchClient \/ ForeignClaim
         \/ CollectSecret \/ WipeRedis
  PROVE  Held' /\ secret' = secret
  <1>1. job' = job
    BY EnvironmentFlow
  <1>2. secret' = secret
    <2>1. CASE CollectSecret
      <3>1. secret.uid \in Nat /\ secret.uid <= 1 /\ cr.uid = 1
        BY DEF TypeOK, Projection, SecretInv, FirstLife, ObjectsInv
      <3> QED BY <2>1, <3>1 DEF CollectSecret
    <2>2. CASE ~CollectSecret
      BY <2>2 DEF CreateClient, EditSpec, DeleteClient, TouchClient, ForeignClaim, WipeRedis, k8s
    <2> QED BY <2>1, <2>2
  <1>3. rec' \in {rec, NoRecord}
    BY DEF CreateClient, EditSpec, DeleteClient, TouchClient, ForeignClaim, CollectSecret, WipeRedis, redis
  <1> QED BY <1>1, <1>2, <1>3, HeldStill

LEMMA HeldProcess ==
  ASSUME TypeOK, ObjectsInv, Held, NEW p \in Pod,
         \/ Reconnect(p) \/ Crash(p) \/ StandDown(p) \/ TakeOver(p) \/ DetectWipe(p)
         \/ Deliver(p) \/ Sweep(p)
  PROVE  Held' /\ secret' = secret
  <1>0. Idle.pc \notin Writing
    BY DEF Idle, Writing
  <1>1. CASE Reconnect(p) \/ Crash(p) \/ StandDown(p) \/ TakeOver(p) \/ DetectWipe(p)
    <2>1. UNCHANGED <<secret, rec>>
      BY <1>1 DEF Reconnect, Crash, StandDown, TakeOver, DetectWipe, k8s, redis
    <2>2. job' = job \/ job' = [job EXCEPT ![p] = [s \in Slot |-> Idle]]
      BY <1>1 DEF Reconnect, Crash, StandDown, TakeOver, DetectWipe
    <2>3. job \in [Pod -> [Slot -> Job]]
      BY DEF TypeOK
    <2>4. \A q \in Pod : \A t \in Slot : job'[q][t] = job[q][t] \/ job'[q][t] = Idle
      BY <2>2, <2>3
    <2> QED BY <1>0, <2>1, <2>4, HeldStill
  <1>2. CASE Deliver(p)
    <2>1. ASSUME NEW q \in Pod, NEW t \in Slot
          PROVE  job'[q][t] = job[q][t] \/ job'[q][t].pc \notin Writing
      <3>1. job'[q][t] = job[q][t] \/ \E k \in 1 .. Len(queue[q]) : Fresh(job'[q][t], queue[q][k].obj)
        BY <1>2, DeliverFlow
      <3> QED BY <1>0, <3>1 DEF Fresh, Writing
    <2>2. UNCHANGED <<secret, rec>>
      BY <1>2, DeliverFlow
    <2> QED BY <2>1, <2>2, HeldStill
  <1>3. CASE Sweep(p)
    <2>1. UNCHANGED <<job, secret>>
      BY <1>3, SweepFlow
    <2>2. rec' \in {rec, NoRecord}
      BY <1>3 DEF Sweep, SweepList, SweepMembers, SweepFind, SweepConfirm, SweepDestroy, SweepRemove,
                  SweepFails, redis
    <2> QED BY <2>1, <2>2, HeldStill
  <1> QED BY <1>1, <1>2, <1>3

(* A step of one reconcile that leaves the Secret alone.                     *)
LEMMA HeldBecomes ==
  ASSUME TypeOK, Held, NEW p \in Pod, NEW s \in Slot, NEW j, Become(p, s, j),
         j.pc \notin Writing \/ Carries(j, secret),
         secret' = secret, rec' \in {rec, NoRecord}
  PROVE  Held' /\ secret' = secret
  BY Becoming, HeldStill

LEMMA ThrowsNothing ==
  ASSUME NEW j \in Job
  PROVE  /\ Throw(j).pc \notin Writing /\ Idle.pc \notin Writing
         /\ \A out \in Readiness : Report(j, out).pc \notin Writing
         /\ \A pc \in Steps \ Writing : [j EXCEPT !.pc = pc].pc \notin Writing
  <1>1. Idle.pc \notin Writing
    BY DEF Idle, Writing
  <1>2. Throw(j).pc \notin Writing
    BY <1>1, ThrowJob DEF Writing
  <1>3. \A out \in Readiness : Report(j, out).pc \notin Writing
    BY ReportJob DEF Writing
  <1>4. \A pc \in Steps \ Writing : [j EXCEPT !.pc = pc].pc \notin Writing
    BY GoJob
  <1> QED BY <1>1, <1>2, <1>3, <1>4

(* Steps that write neither the Secret nor the record, nor choose a          *)
(* client_secret, and those that remove the record.                          *)
LEMMA HeldAside ==
  ASSUME TypeOK, ObjectsInv, SecretInv, Held, NEW p \in Pod, NEW s \in Slot,
         \/ Claim(p, s) \/ FindRecord(p, s) \/ Destroy(p, s) \/ SetMember(p, s) \/ ReportStatus(p, s)
  PROVE  Held' /\ secret' = secret
  <1> DEFINE j == job[p][s]
  <1>1. j \in Job /\ Throw(j).pc \notin Writing /\ Idle.pc \notin Writing
        /\ Report(j, "Reconciled").pc \notin Writing /\ Report(j, "Disabled").pc \notin Writing
        /\ [j EXCEPT !.pc = "srem"].pc \notin Writing /\ [j EXCEPT !.pc = "secret"].pc \notin Writing
    <2>1. j \in Job /\ "Reconciled" \in Readiness /\ "Disabled" \in Readiness
          /\ "srem" \in Steps \ Writing /\ "secret" \in Steps \ Writing
      BY JobType DEF Readiness, Steps, Writing
    <2> HIDE DEF j
    <2> QED BY <2>1, ThrowsNothing
  <1>2. secret' = secret
    BY DEF Claim, FindRecord, Destroy, SetMember, ReportStatus, k8s
  <1>3. rec' \in {rec, NoRecord}
    BY DEF Claim, FindRecord, Destroy, SetMember, ReportStatus, redis
  <1>4. CASE Claim(p, s)
    <2>1. job'[p][s].pc \in {"idle", "secret", "destroy", "report"}
      <3>1. CASE /\ Matches(j.obj) /\ ReplaceClientStatus(j.obj, j.obj.ready)
                 /\ Become(p, s, IF j.via = "added" THEN Start("secret", "added", cr') ELSE Update(cr'))
        <4>1. cr' \in Client
          BY <3>1, JobType, StatusType DEF Client
        <4>2. Start("secret", "added", cr').pc = "secret" /\ Update(cr').pc \in {"secret", "destroy", "report"}
          BY <4>1, StartJob, UpdateJob DEF Steps, Vias
        <4> QED BY <3>1, <4>2, Becoming
      <3>2. CASE Become(p, s, Idle)
        BY <3>2, Becoming DEF Idle
      <3> QED BY <1>4, <3>1, <3>2 DEF Claim
    <2>2. PICK k : Become(p, s, k)
      BY <1>4 DEF Claim
    <2>3. k.pc \notin Writing
      BY <2>1, <2>2, Becoming DEF Writing
    <2> QED BY <1>2, <1>3, <2>2, <2>3, HeldBecomes
  <1>5. CASE FindRecord(p, s)
    <2>1. j.via = "added" /\ j.cs = 0
      BY <1>5 DEF FindRecord, At, SecretInv
    <2>2. AfterSecret(j).pc \notin Writing
      BY <1>1, <2>1, AfterSecretJob DEF Writing
    <2>3. \E k \in {[j EXCEPT !.pc = "secret"], AfterSecret(j), Throw(j)} : Become(p, s, k)
      BY <1>5 DEF FindRecord
    <2> HIDE DEF j
    <2> QED BY <1>1, <1>2, <1>3, <2>2, <2>3, HeldBecomes
  <1>6. CASE Destroy(p, s) \/ SetMember(p, s) \/ ReportStatus(p, s)
    <2>1. \E k \in {[j EXCEPT !.pc = "srem"], Throw(j), Idle, Report(j, "Reconciled"), Report(j, "Disabled")} :
            Become(p, s, k)
      BY <1>6 DEF Destroy, SetMember, ReportStatus
    <2> HIDE DEF j
    <2> QED BY <1>1, <1>2, <1>3, <2>1, HeldBecomes
  <1> QED BY <1>4, <1>5, <1>6

(* A reconcile that reads the Secret adopts what is in it, and one that      *)
(* finds none, or fails to read, may only create it.                         *)
LEMMA HeldRead ==
  ASSUME TypeOK, Held, NEW p \in Pod, NEW s \in Slot, GetSecret(p, s) \/ Reread(p, s)
  PROVE  Held' /\ secret' = secret
  <1> DEFINE j == job[p][s]
  <1>1. j \in Job /\ last.cs \in Nat /\ last.cs + 1 # 0 /\ Throw(j).pc \notin Writing
        /\ secret \in Projection /\ secret.cs \in Nat
    <2>1. secret \in Projection /\ last.cs \in Nat
      BY DEF TypeOK
    <2>2. last.cs + 1 # 0
      BY <2>1
    <2>3. secret.cs \in Nat
      BY <2>1 DEF Projection
    <2>4. j \in Job
      BY JobType
    <2> HIDE DEF j
    <2>5. Throw(j).pc \notin Writing
      BY <2>4, ThrowsNothing
    <2> QED BY <2>1, <2>2, <2>3, <2>4, <2>5
  <1>2. secret' = secret /\ rec' = rec
    BY DEF GetSecret, Reread, k8s, redis
  <1>3. CASE secret # NoSecret /\ Adopt(p, s)
    <2> DEFINE k == [[j EXCEPT !.pc = "patch", !.seen = secret] EXCEPT !.cs = secret.cs]
    <2>1. secret.cs # 0 /\ Become(p, s, k)
      BY <1>3 DEF Adopt, Held
    <2>2. k.pc = "patch" /\ k.seen = secret /\ k.cs = secret.cs
      <3> HIDE DEF j
      <3> QED BY <1>1 DEF Job
    <2>3. Carries(k, secret)
      BY <1>3, <2>2 DEF Carries
    <2> HIDE DEF k
    <2> QED BY <1>2, <2>1, <2>3, HeldBecomes
  <1>4. CASE Issue(p, s)
    <2> DEFINE k == [j EXCEPT !.pc = "create", !.cs = last.cs + 1]
    <2>1. Become(p, s, k)
      BY <1>4 DEF Issue
    <2>2. k.pc = "create" /\ k.cs = last.cs + 1
      <3> HIDE DEF j
      <3> QED BY <1>1 DEF Job
    <2>3. Carries(k, secret)
      BY <1>1, <2>2 DEF Carries
    <2> HIDE DEF k
    <2> QED BY <1>2, <2>1, <2>3, HeldBecomes
  <1>5. CASE Become(p, s, Throw(j))
    BY <1>1, <1>2, <1>5, HeldBecomes
  <1> QED BY <1>3, <1>4, <1>5 DEF GetSecret, Reread

(* What follows a write of the Secret takes the client_secret written.       *)
LEMMA HeldAfterWrite ==
  ASSUME TypeOK, Held, NEW p \in Pod, NEW s \in Slot, AfterWrite(p, s), rec' = rec,
         secret' # NoSecret, secret'.cs # 0, secret'.cs = job[p][s].cs,
         secret # NoSecret => secret'.cs = secret.cs
  PROVE  Held'
  <1> DEFINE j == job[p][s]
  <1>1. j \in Job /\ Throw(j).pc \notin Writing
    BY JobType, ThrowsNothing
  <1>2. Carries(AfterSecret(j), secret')
    <2>1. AfterSecret(j).pc \in {"upsert", "destroy", "report"}
          /\ (AfterSecret(j).pc = "upsert" => AfterSecret(j).cs = j.cs)
      BY <1>1, AfterSecretJob
    <2> QED BY <2>1 DEF Carries
  <1>3. Carries(Throw(j), secret')
    BY <1>1, NotWriting
  <1>4. Become(p, s, AfterSecret(j)) \/ Become(p, s, Throw(j))
    BY DEF AfterWrite
  <1> HIDE DEF j
  <1>5. \A q \in Pod : \A t \in Slot : job'[q][t] = job[q][t] \/ Carries(job'[q][t], secret')
    BY <1>2, <1>3, <1>4, Becoming
  <1> QED BY <1>5, HeldWritten

(* The writes: the first creation decides, a patch writes what is there, and *)
(* the record takes what the Secret holds.                                   *)
LEMMA HeldWrite ==
  ASSUME "public" \notin Kind, TypeOK, ObjectsInv, Held, NEW p \in Pod, NEW s \in Slot,
         CreateSecret(p, s) \/ PatchSecret(p, s) \/ Upsert(p, s)
  PROVE  /\ Held'
         /\ (secret # NoSecret /\ secret'.cs # 0) => secret'.cs = secret.cs
  <1> DEFINE j == job[p][s]
  <1>1. /\ j \in Job /\ Throw(j).pc \notin Writing
        /\ [j EXCEPT !.pc = "reread"].pc \notin Writing /\ [j EXCEPT !.pc = "sadd"].pc \notin Writing
    <2>1. j \in Job /\ "reread" \in Steps \ Writing /\ "sadd" \in Steps \ Writing
      BY JobType DEF Steps, Writing
    <2> HIDE DEF j
    <2> QED BY <2>1, ThrowsNothing
  <1>2. j.obj.uid # 0 /\ SecretValue(j) = j.cs /\ NoSecret.uid = 0
    <2>1. KnownIn(j.obj, cr, last)
      BY DEF CreateSecret, PatchSecret, Upsert, At, ObjectsInv, Busy
    <2> QED BY <2>1 DEF KnownIn, SecretValue, NoSecret
  <1>3. Carries(j, secret)
    BY DEF Held
  <1>4. CASE CreateSecret(p, s)
    <2>1. j.cs # 0 /\ rec' = rec
      BY <1>3, <1>4 DEF Carries, CreateSecret, At, redis
    <2>2. CASE /\ secret = NoSecret /\ AfterWrite(p, s)
               /\ secret' = [uid |-> j.obj.uid, gen |-> j.obj.gen, cs |-> SecretValue(j)]
      <3>1. secret' # NoSecret /\ secret'.cs = j.cs
        BY <1>2, <2>2
      <3> QED BY <2>1, <2>2, <3>1, HeldAfterWrite
    <2>3. CASE \E k \in {[j EXCEPT !.pc = "reread"], Throw(j)} : Become(p, s, k) /\ secret' = secret
      <3> HIDE DEF j
      <3> QED BY <1>1, <2>1, <2>3, HeldBecomes
    <2> QED BY <1>4, <2>2, <2>3 DEF CreateSecret
  <1>5. CASE PatchSecret(p, s)
    <2>1. secret # NoSecret /\ j.seen.cs = secret.cs /\ j.cs = secret.cs /\ secret.cs # 0 /\ rec' = rec
      BY <1>3, <1>5 DEF Carries, PatchSecret, At, redis, Held
    <2>2. CASE AfterWrite(p, s) /\ secret' = Patched(j)
      <3>1. secret'.uid = j.obj.uid /\ secret'.cs = j.cs
        BY <1>2, <2>1, <2>2 DEF Patched
      <3> QED BY <1>2, <2>1, <2>2, <3>1, HeldAfterWrite
    <2>3. CASE Become(p, s, Throw(j)) /\ secret' = secret
      BY <1>1, <2>1, <2>3, HeldBecomes
    <2> QED BY <1>5, <2>2, <2>3 DEF PatchSecret
  <1>6. CASE Upsert(p, s)
    <2>1. secret # NoSecret /\ j.cs = secret.cs /\ secret' = secret
      BY <1>3, <1>6 DEF Carries, Upsert, At, k8s
    <2>2. CASE /\ rec' = [uid |-> j.obj.uid, gen |-> j.obj.gen, cs |-> j.cs]
               /\ Become(p, s, [j EXCEPT !.pc = "sadd"])
      <3>1. rec'.cs = secret.cs
        BY <2>1, <2>2
      <3>2. \A q \in Pod : \A t \in Slot : job'[q][t] = job[q][t] \/ job'[q][t].pc \notin Writing
        <4> DEFINE k == [j EXCEPT !.pc = "sadd"]
        <4>1. k.pc \notin Writing /\ Become(p, s, k)
          BY <1>1, <2>2
        <4> HIDE DEF k
        <4> QED BY <4>1, Becoming
      <3> QED BY <2>1, <3>1, <3>2, NotWriting DEF Held
    <2>3. CASE Become(p, s, Throw(j)) /\ rec' = rec
      BY <1>1, <2>1, <2>3, HeldBecomes
    <2> QED BY <1>6, <2>1, <2>2, <2>3 DEF Upsert
  <1> QED BY <1>4, <1>5, <1>6

LEMMA HeldStep ==
  ASSUME "public" \notin Kind, TypeOK, ObjectsInv, SecretInv, FirstLife, [Next]_vars
  PROVE  /\ Held'
         /\ (secret.cs # 0 /\ secret'.cs # 0) => secret'.cs = secret.cs
  <1>0. Held
    BY DEF SecretInv
  <1>1. CASE UNCHANGED vars
    BY <1>0, <1>1, HeldStill DEF vars
  <1>2. CASE Environment
    BY <1>0, <1>2, HeldEnvironment, HeldProcess DEF Environment
  <1>3. ASSUME NEW p \in Pod, Deliver(p) \/ DetectWipe(p) \/ Sweep(p)
        PROVE  Held' /\ secret' = secret
    BY <1>0, <1>3, HeldProcess
  <1>4. ASSUME NEW p \in Pod, NEW s \in Slot, Step(p, s)
        PROVE  /\ Held'
               /\ (secret.cs # 0 /\ secret'.cs # 0) => secret'.cs = secret.cs
    <2>1. secret.cs # 0 => secret # NoSecret
      BY DEF NoSecret
    <2> QED BY <1>0, <1>4, <2>1, HeldAside, HeldRead, HeldWrite DEF Step
  <1> QED BY <1>1, <1>2, <1>3, <1>4 DEF Next

LEMMA SecretStep ==
  ASSUME "public" \notin Kind, TypeOK, ObjectsInv, SecretInv, [Next]_vars
  PROVE  SecretInv'
  <1>0. /\ cr \in Client /\ cr' \in Client /\ last.uid \in Nat /\ last'.uid \in Nat
        /\ cr.uid \in Nat /\ cr'.uid \in Nat /\ secret.uid \in Nat
    <2>1. TypeOK'
      BY TypeStep
    <2> QED BY <2>1 DEF TypeOK, Client, Projection
  <1>1. Moved(cr, last, cr', last') /\ QueueFlow /\ JobFlow
    BY NextFlow DEF Flows
  <1>2. last.uid <= last'.uid
    BY <1>0, <1>1 DEF Moved
  <1>3. ASSUME NEW q \in Pod, NEW t \in Slot, job[q][t].pc # "idle"
        PROVE  job[q][t].obj.uid \in 1 .. last.uid
    BY <1>3 DEF ObjectsInv, Busy, KnownIn
  <1>4. NoSecret = NoRecord /\ NoRecord.uid = 0
    BY DEF NoSecret, NoRecord
  <1>5. WrittenBy(rec, rec') /\ WrittenBy(secret, secret')
    BY ProjectionsFlow
  <1>6. secret'.uid <= last'.uid
    BY <1>0, <1>2, <1>3, <1>4, <1>5 DEF WrittenBy, SecretInv
  <1>7. CASE last.uid = 0
    <2>1. \A q \in Pod : \A t \in Slot : job[q][t].pc = "idle"
      BY <1>3, <1>7
    <2>2. secret = NoSecret /\ rec = NoRecord /\ secret' = NoSecret /\ rec' = NoRecord
      BY <1>4, <1>5, <1>7, <2>1 DEF WrittenBy, SecretInv
    <2>3. \A q \in Pod : \A k \in 1 .. Len(queue[q]) : FALSE
      BY <1>7 DEF ObjectsInv, KnownIn
    <2>4. \A q \in Pod : \A t \in Slot : job'[q][t].pc = "idle"
      BY <1>1, <2>1, <2>3 DEF JobFlow, Idle
    <2>5. Held'
      BY <2>2, <2>4, NotWriting DEF Held, Writing
    <2> QED BY <1>6, <2>2, <2>4, <2>5 DEF SecretInv
  <1>8. CASE last.uid # 0
    <2>1. last'.uid # 0
      BY <1>0, <1>2, <1>8
    <2>2. ASSUME FirstLife'
          PROVE  FirstLife
      BY <1>0, <1>1, <1>8, <2>2 DEF FirstLife, Exists, Moved, ObjectsInv, NoClient
    <2>3. ASSUME NEW q \in Pod, NEW t \in Slot, job'[q][t].pc = "find"
          PROVE  job'[q][t].via = "added" /\ job'[q][t].cs = 0
      BY <1>1, <2>3 DEF JobFlow, Fresh, Idle, SecretInv
    <2> QED BY <1>6, <2>1, <2>2, <2>3, HeldStep DEF SecretInv
  <1> QED BY <1>7, <1>8

(* When no client is public, the client_secret Redis checks logins against    *)
(* is at every moment the one in the Secret the application mounts: whoever   *)
(* creates the Secret decides, and no reconcile can write another (#236).     *)
THEOREM SecretsAgree ==
  ASSUME "public" \notin Kind
  PROVE  Spec => []SecretAgrees
  <1>1. SecretInv => SecretAgrees
    BY DEF SecretInv, Held, SecretAgrees
  <1>2. TypeOK /\ ObjectsInv /\ SecretInv /\ [Next]_vars => SecretInv'
    BY SecretStep
  <1> QED BY <1>1, <1>2, TypeInit, TypeStep, ObjectsInit, ObjectsStep, SecretInit, PTL DEF Spec

(* When no client is public, a client keeps the client_secret it was first    *)
(* given for as long as it lives, however many reconciles overlap.           *)
THEOREM NeverRotated ==
  ASSUME "public" \notin Kind
  PROVE  Spec => NoRotation
  <1>1. TypeOK /\ ObjectsInv /\ SecretInv /\ [Next]_vars
          => [FirstLife /\ secret.cs # 0 /\ secret'.cs # 0 => secret'.cs = secret.cs]_vars
    BY HeldStep
  <1>2. TypeOK /\ ObjectsInv /\ SecretInv /\ [Next]_vars => SecretInv'
    BY SecretStep
  <1> QED BY <1>1, <1>2, TypeInit, TypeStep, ObjectsInit, ObjectsStep, SecretInit, PTL DEF Spec, NoRotation

-----------------------------------------------------------------------------
(* Convergence, in a calm run and when no client is public. As long as the  *)
(* record and the Secret do not show the client, something is on its way     *)
(* that will make them: a reconcile at work, or a watch event its operator   *)
(* will not take for one it knows.                                           *)

(* Whose events can be counted on: each pod's, if a pod that stops watching  *)
(* leaves none behind that does; or those that all watching pods still have, *)
(* if no pod dies and Redis keeps its data.                                  *)
Alone == MaxHandover = 0 \/ \E p : Pod = {p}
Unhurt == MaxCrash = 0 /\ MaxWipe = 0
Replayed == Alone \/ Unhurt

IsOf(o, c) ==
  /\ o.uid = c.uid /\ o.gen = c.gen /\ o.kind = c.kind
  /\ o.instance = "us" => c.instance = "us"

Timely(e, c) == e.type # "DELETED" /\ IsOf(e.obj, c)

(* What a reconcile of the client c works on, with the Secret sec.           *)
OnCourse(j, c, sec) ==
  /\ IsOf(j.obj, c) /\ j.via \in {"added", "modified"}
  /\ j.pc # "claim" => (c.kind = "invalid" \/ c.instance = "us")
  /\ (c.kind = "invalid" /\ j.pc # "report") => (j.pc = "claim" /\ j.via = "modified")
  /\ j.pc \in {"upsert", "sadd"} => c.kind = "confidential"
  /\ j.pc \in {"destroy", "srem"} => c.kind = "disabled"
  /\ (j.pc \in {"secret", "create", "reread", "patch"} /\ c.kind = "disabled") => j.via = "added"
  /\ j.pc = "find" => (j.via = "added" /\ j.cs = 0)
  /\ j.pc \in {"reread", "sadd"} => sec # NoSecret
  /\ j.pc \in {"upsert", "sadd"} => sec.gen = c.gen
  /\ Carries(j, sec)

Right(r, c, sec) == r = [uid |-> c.uid, gen |-> c.gen, cs |-> sec.cs]

(* The record and the Secret show the client.                                *)
Shows(c, sec, r, l) ==
  /\ c.kind = "confidential" =>
       (Right(r, c, sec) /\ sec.uid = c.uid /\ sec.gen = c.gen /\ sec.cs # 0 /\ l)
  /\ c.kind = "disabled" => r = NoRecord

(* A reconcile will make them.                                               *)
Working(j, c, sec, r) ==
  \/ j.pc \in {"secret", "create", "reread", "patch", "upsert", "destroy"}
  \/ j.pc = "sadd" /\ Right(r, c, sec)

(* Events that start one: the operator has not seen this generation.         *)
Awaits(q, f, c) == q # <<>> /\ f # c.gen /\ Head(q).obj.instance = "us"

Events == \A p \in Pod : \A i \in 1 .. Len(queue[p]) : Timely(queue[p][i], cr)
Reconciles == \A p \in Pod : \A s \in Slot : Busy(p, s) => OnCourse(job[p][s], cr, secret)
Registered == \A p \in watching : queue[p] # <<>> \/ fp[p] = cr.gen
AtWork == \E p \in Pod : \E s \in Slot : Working(job[p][s], cr, secret, rec)
Announced ==
  \/ Alone /\ \E p \in watching : Awaits(queue[p], fp[p], cr)
  \/ Unhurt /\ \A p \in watching : Awaits(queue[p], fp[p], cr)
Provided ==
  (marker /\ watching # {} /\ cr.instance = "us")
    => (Shows(cr, secret, rec, listed) \/ AtWork \/ Announced)

Steady ==
  /\ \A p \in Pod : sweep[p] = "idle"
  /\ Events /\ Reconciles /\ Registered
  /\ secret = NoSecret \/ (secret.uid = cr.uid /\ secret.cs # 0)
  /\ Provided

WatchInv ==
  /\ Alone => (watching = Pod \/ (watching = {} /\ \E p : Pod = {p}))
  /\ MaxWipe = 0 => marker

CalmInv ==
  /\ WatchInv
  /\ secret.uid = 0 => secret = NoSecret
  /\ Exists => cr.gen # 0
  /\ (calm /\ Exists) => Steady

LEMMA CalmInit == Init => CalmInv
  BY DEF Init, CalmInv, WatchInv, Alone, NoSecret, NoClient, Exists

-----------------------------------------------------------------------------
(* How the client, its Secret, its record and its membership move on while    *)
(* nobody edits it.                                                          *)

Onward(c, c2) ==
  /\ c2.uid = c.uid /\ c2.gen = c.gen /\ c2.kind = c.kind
  /\ c.instance = "us" => c2.instance = "us"
SecretOn(sec, sec2, c) ==
  \/ sec2 = sec
  \/ /\ sec2 # NoSecret /\ sec2.uid = c.uid /\ sec2.gen = c.gen /\ sec2.cs # 0
     /\ sec # NoSecret => sec2.cs = sec.cs
RecordOn(r, r2, c, sec) ==
  \/ r2 = r
  \/ c.kind = "confidential" /\ Right(r2, c, sec)
  \/ c.kind # "confidential" /\ r2 = NoRecord
ListOn(l, l2, c) == c.kind = "confidential" => (l => l2)

LEMMA CourseKept ==
  ASSUME NEW j, NEW c, NEW c2, NEW sec, NEW sec2,
         OnCourse(j, c, sec), Onward(c, c2), SecretOn(sec, sec2, c)
  PROVE  OnCourse(j, c2, sec2)
  <1>1. IsOf(j.obj, c2)
    BY DEF OnCourse, IsOf, Onward
  <1>2. Carries(j, sec2)
    BY DEF OnCourse, Carries, SecretOn
  <1>3. sec # NoSecret => (sec2 # NoSecret)
    BY DEF SecretOn
  <1>4. sec.gen = c.gen => sec2.gen = c2.gen
    BY DEF SecretOn, Onward
  <1> QED BY <1>1, <1>2, <1>3, <1>4 DEF OnCourse, Onward

LEMMA WorkKept ==
  ASSUME NEW j, NEW c, NEW c2, NEW sec, NEW sec2, NEW r, NEW r2,
         OnCourse(j, c, sec), Working(j, c, sec, r), Onward(c, c2), SecretOn(sec, sec2, c),
         RecordOn(r, r2, c2, sec2)
  PROVE  Working(j, c2, sec2, r2)
  <1>1. CASE j.pc = "sadd"
    <2>1. c2.kind = "confidential" /\ sec # NoSecret /\ sec2.cs = sec.cs
      BY <1>1 DEF OnCourse, Onward, SecretOn
    <2>2. Right(r, c, sec)
      BY <1>1 DEF Working
    <2>3. Right(r2, c2, sec2)
      BY <2>1, <2>2 DEF RecordOn, Right, Onward
    <2> QED BY <1>1, <2>3 DEF Working
  <1>2. CASE j.pc # "sadd"
    BY <1>2 DEF Working
  <1> QED BY <1>1, <1>2

LEMMA ShowsKept ==
  ASSUME NEW c, NEW c2, NEW sec, NEW sec2, NEW r, NEW r2, NEW l, NEW l2,
         Shows(c, sec, r, l), Onward(c, c2), SecretOn(sec, sec2, c),
         RecordOn(r, r2, c2, sec2), ListOn(l, l2, c2)
  PROVE  Shows(c2, sec2, r2, l2)
  <1>1. CASE c.kind = "confidential"
    <2>1. c2.kind = "confidential" /\ sec.cs # 0 /\ Right(r, c, sec) /\ sec.uid = c.uid /\ sec.gen = c.gen /\ l
      BY <1>1 DEF Shows, Onward
    <2>2. sec # NoSecret
      BY <2>1 DEF NoSecret
    <2>3. sec2.cs = sec.cs /\ sec2.uid = c2.uid /\ sec2.gen = c2.gen
      BY <2>1, <2>2 DEF SecretOn, Onward
    <2>4. Right(r2, c2, sec2) /\ l2
      BY <2>1, <2>3 DEF RecordOn, Right, Onward, ListOn
    <2> QED BY <2>1, <2>3, <2>4 DEF Shows
  <1>2. CASE c.kind # "confidential"
    BY <1>2 DEF Shows, Onward, RecordOn
  <1> QED BY <1>1, <1>2

(* The events move on: nothing, or the client as it has become is announced  *)
(* to all who watch.                                                         *)
Grows ==
  \/ UNCHANGED queue
  \/ \E e : /\ Timely(e, cr')
            /\ queue' = [p \in Pod |-> IF p \in watching THEN Append(queue[p], e) ELSE <<>>]

LEMMA GrownQueue ==
  ASSUME TypeOK, Grows, NEW q \in watching, queue[q] # <<>>
  PROVE  queue'[q] # <<>> /\ Head(queue'[q]) = Head(queue[q])
  <1>1. queue[q] \in Seq(Event) /\ q \in Pod
    BY DEF TypeOK
  <1>2. CASE UNCHANGED queue
    BY <1>2
  <1>3. ASSUME NEW e, queue'[q] = Append(queue[q], e)
        PROVE  queue'[q] # <<>> /\ Head(queue'[q]) = Head(queue[q])
    <2>1. Len(queue[q]) \in Nat /\ Len(queue[q]) # 0 /\ Len(queue'[q]) = Len(queue[q]) + 1
      BY <1>1, <1>3
    <2>2. queue'[q][1] = queue[q][1]
      BY <1>1, <1>3, <2>1
    <2> QED BY <1>3, <2>1, <2>2
  <1>4. UNCHANGED queue \/ \E e : queue'[q] = Append(queue[q], e)
    BY <1>1 DEF Grows
  <1> QED BY <1>2, <1>3, <1>4

LEMMA GrownEvents ==
  ASSUME TypeOK, Grows, Events, Onward(cr, cr')
  PROVE  Events'
  <1>1. ASSUME NEW e, Timely(e, cr)
        PROVE  Timely(e, cr')
    BY <1>1 DEF Timely, IsOf, Onward
  <1>2. CASE UNCHANGED queue
    BY <1>1, <1>2 DEF Events
  <1>3. ASSUME NEW e, Timely(e, cr'), NEW q \in Pod,
               queue'[q] = IF q \in watching THEN Append(queue[q], e) ELSE <<>>,
               NEW i \in 1 .. Len(queue'[q])
        PROVE  Timely(queue'[q][i], cr')
    <2>1. queue[q] \in Seq(Event)
      BY DEF TypeOK
    <2>2. CASE q \in watching
      <3>1. (i \in 1 .. Len(queue[q]) /\ queue'[q][i] = queue[q][i]) \/ queue'[q][i] = e
        BY <1>3, <2>1, <2>2, Appended
      <3> QED BY <1>1, <1>3, <3>1 DEF Events
    <2>3. CASE q \notin watching
      BY <1>3, <2>3
    <2> QED BY <2>2, <2>3
  <1>4. CASE ~UNCHANGED queue
    <2>1. PICK e : /\ Timely(e, cr')
                   /\ queue' = [p \in Pod |-> IF p \in watching THEN Append(queue[p], e) ELSE <<>>]
      BY <1>4 DEF Grows
    <2> QED BY <1>3, <2>1 DEF Events
  <1> QED BY <1>2, <1>4

(* Nobody's events become known by others arriving behind them.              *)
LEMMA GrownAnnounced ==
  ASSUME TypeOK, Grows, Onward(cr, cr'), UNCHANGED <<watching, fp>>
  PROVE  /\ Announced => Announced'
         /\ Registered => Registered'
  <1>1. ASSUME NEW q \in watching, Awaits(queue[q], fp[q], cr)
        PROVE  Awaits(queue'[q], fp'[q], cr')
    BY <1>1, GrownQueue DEF Awaits, Onward
  <1>2. Announced => Announced'
    BY <1>1 DEF Announced, Alone, Unhurt
  <1>3. Registered => Registered'
    BY GrownQueue DEF Registered, Onward
  <1> QED BY <1>2, <1>3

(* One reconcile takes a step; no other, nor its operator, sees any of it.   *)
LEMMA ReconcileMoves ==
  ASSUME TypeOK, Steady, Exists, NEW p \in Pod, NEW s \in Slot, NEW k, Busy(p, s), Become(p, s, k),
         UNCHANGED <<watching, marker, fp, sweep>>, Onward(cr, cr'), Grows,
         SecretOn(secret, secret', cr), RecordOn(rec, rec', cr', secret'), ListOn(listed, listed', cr'),
         k.pc # "idle" => OnCourse(k, cr', secret'),
         (Working(job[p][s], cr, secret, rec) \/ cr.instance # "us") =>
           (cr'.instance = "us" => (Working(k, cr', secret', rec') \/ Shows(cr', secret', rec', listed')))
  PROVE  Steady'
  <1>1. job'[p][s] = k /\ \A q \in Pod : \A t \in Slot : job'[q][t] = job[q][t] \/ (q = p /\ t = s)
    BY Becoming
  <1>2. Events' /\ Registered' /\ (Announced => Announced')
    BY GrownEvents, GrownAnnounced DEF Steady
  <1>3. \A q \in Pod : sweep'[q] = "idle"
    BY DEF Steady
  <1>4. Reconciles'
    <2>1. ASSUME NEW q \in Pod, NEW t \in Slot, job'[q][t].pc # "idle"
          PROVE  OnCourse(job'[q][t], cr', secret')
      <3>1. CASE q = p /\ t = s
        BY <1>1, <2>1, <3>1
      <3>2. CASE job'[q][t] = job[q][t]
        <4>1. OnCourse(job[q][t], cr, secret)
          BY <2>1, <3>2 DEF Steady, Reconciles, Busy
        <4> QED BY <3>2, <4>1, CourseKept
      <3> QED BY <1>1, <3>1, <3>2
    <2> QED BY <2>1 DEF Reconciles, Busy
  <1>5. secret' = NoSecret \/ (secret'.uid = cr'.uid /\ secret'.cs # 0)
    BY DEF Steady, SecretOn, Onward
  <1>6. ASSUME Shows(cr, secret, rec, listed)
        PROVE  Shows(cr', secret', rec', listed')
    BY <1>6, ShowsKept
  <1>7. ASSUME NEW q \in Pod, NEW t \in Slot, Working(job[q][t], cr, secret, rec), job'[q][t] = job[q][t]
        PROVE  AtWork'
    <2>1. OnCourse(job[q][t], cr, secret)
      BY <1>7 DEF Steady, Reconciles, Busy, Working
    <2>2. Working(job'[q][t], cr', secret', rec')
      BY <1>7, <2>1, WorkKept
    <2> QED BY <2>2 DEF AtWork
  <1>8. ASSUME Working(k, cr', secret', rec')
        PROVE  AtWork'
    BY <1>1, <1>8 DEF AtWork
  <1>9. Provided'
    <2> SUFFICES ASSUME marker', watching' # {}, cr'.instance = "us"
                 PROVE  Shows(cr', secret', rec', listed') \/ AtWork' \/ Announced'
      BY DEF Provided
    <2>1. CASE cr.instance # "us"
      BY <1>8, <2>1
    <2>2. CASE cr.instance = "us"
      <3>1. Shows(cr, secret, rec, listed) \/ AtWork \/ Announced
        BY <2>2 DEF Steady, Provided
      <3>2. CASE AtWork
        <4>1. PICK q \in Pod, t \in Slot : Working(job[q][t], cr, secret, rec)
          BY <3>2 DEF AtWork
        <4> QED BY <1>1, <1>7, <1>8, <4>1
      <3> QED BY <1>2, <1>6, <3>1, <3>2
    <2> QED BY <2>1, <2>2
  <1> QED BY <1>2, <1>3, <1>4, <1>5, <1>9 DEF Steady

-----------------------------------------------------------------------------
(* Steps of a reconcile past its claim and before its report.                *)

(* In a calm run no call fails.                                              *)
LEMMA CalmCalls == CallFails => ~calm'
  BY DEF CallFails

LEMMA CourseIs ==
  ASSUME NEW j, NEW c, NEW sec, j.pc \in {"secret", "destroy", "report", "find", "srem"},
         IsOf(j.obj, c), j.via \in {"added", "modified"},
         c.kind = "invalid" \/ c.instance = "us",
         j.pc # "report" => c.kind # "invalid",
         j.pc \in {"destroy", "srem"} => c.kind = "disabled",
         (j.pc = "secret" /\ c.kind = "disabled") => j.via = "added",
         j.pc = "find" => (j.via = "added" /\ j.cs = 0)
  PROVE  OnCourse(j, c, sec)
  BY DEF OnCourse, Carries

LEMMA ReportCourse ==
  ASSUME NEW j \in Job, NEW out \in Readiness, NEW c, NEW sec, OnCourse(j, c, sec), j.pc # "claim"
  PROVE  OnCourse(Report(j, out), c, sec)
  <1>1. Report(j, out).pc = "report" /\ Report(j, out).obj = j.obj /\ Report(j, out).via = j.via
    BY DEF Report, Job
  <1> HIDE DEF Report
  <1>2. IsOf(j.obj, c) /\ j.via \in {"added", "modified"} /\ (c.kind = "invalid" \/ c.instance = "us")
    BY DEF OnCourse
  <1> QED BY <1>1, <1>2, CourseIs

(* What follows a write of the Secret.                                       *)
LEMMA AfterWriteCourse ==
  ASSUME NEW j \in Job, NEW c \in Client, NEW sec, NEW sec2, NEW r, OnCourse(j, c, sec),
         j.pc \in {"create", "patch"}, c.kind # "public",
         sec2 # NoSecret, sec2.gen = c.gen, sec2.cs = j.cs, sec2.cs # 0
  PROVE  /\ OnCourse(AfterSecret(j), c, sec2)
         /\ Working(AfterSecret(j), c, sec2, r)
  <1>0. /\ IsOf(j.obj, c) /\ j.via \in {"added", "modified"} /\ c.kind # "invalid" /\ c.instance = "us"
        /\ c.kind = "disabled" => j.via = "added"
        /\ c.kind \in {"confidential", "disabled"} /\ j.obj.kind = c.kind
    BY DEF OnCourse, IsOf, Client, Kinds
  <1>1. CASE c.kind = "disabled"
    <2> DEFINE k == [j EXCEPT !.pc = "destroy"]
    <2>1. AfterSecret(j) = k
      BY <1>0, <1>1 DEF AfterSecret
    <2>2. k.pc = "destroy" /\ k.obj = j.obj /\ k.via = j.via
      BY DEF Job
    <2> HIDE DEF k
    <2>3. OnCourse(k, c, sec2)
      BY <1>0, <1>1, <2>2, CourseIs
    <2> QED BY <2>1, <2>2, <2>3 DEF Working
  <1>2. CASE c.kind = "confidential"
    <2> DEFINE k == [j EXCEPT !.pc = "upsert"]
    <2>1. AfterSecret(j) = k
      BY <1>0, <1>2 DEF AfterSecret
    <2>2. k.pc = "upsert" /\ k.obj = j.obj /\ k.via = j.via /\ k.cs = j.cs
      BY DEF Job
    <2> HIDE DEF k
    <2>3. OnCourse(k, c, sec2)
      BY <1>0, <1>2, <2>2 DEF OnCourse, Carries
    <2> QED BY <2>1, <2>2, <2>3 DEF Working
  <1> QED BY <1>0, <1>1, <1>2

LEMMA FindSteady ==
  ASSUME "public" \notin Kind, TypeOK, ObjectsInv, Exists, Steady, calm',
         NEW p \in Pod, NEW s \in Slot, FindRecord(p, s)
  PROVE  Steady'
  <1> DEFINE j == job[p][s]
  <1>1. /\ j \in Job /\ j.pc = "find" /\ OnCourse(j, cr, secret) /\ Busy(p, s) /\ cr \in Client
        /\ cr.kind # "public"
    BY JobType DEF FindRecord, At, Steady, Reconciles, Busy, TypeOK, ObjectsInv, KnownIn
  <1>2. /\ IsOf(j.obj, cr) /\ j.via = "added" /\ j.cs = 0 /\ cr.kind # "invalid" /\ cr.instance = "us"
        /\ j.obj.kind = cr.kind
    BY <1>1 DEF OnCourse, IsOf
  <1>3. UNCHANGED <<watching, marker, fp, sweep, cr, secret, rec, listed, queue>>
    BY DEF FindRecord, k8s, redis
  <1>4. PICK k \in {[j EXCEPT !.pc = "secret"], AfterSecret(j)} : Become(p, s, k)
    BY CalmCalls DEF FindRecord
  <1>5. OnCourse(k, cr, secret)
    <2>1. CASE k = [j EXCEPT !.pc = "secret"]
      <3>1. k.pc = "secret" /\ k.obj = j.obj /\ k.via = j.via
        BY <1>1, <2>1 DEF Job
      <3> QED BY <1>2, <3>1, CourseIs
    <2>2. CASE k = AfterSecret(j) /\ cr.kind = "disabled"
      <3>0. k = [j EXCEPT !.pc = "destroy"]
        BY <1>2, <2>2 DEF AfterSecret
      <3>1. k.pc = "destroy" /\ k.obj = j.obj /\ k.via = j.via
        BY <1>1, <3>0 DEF Job
      <3> QED BY <1>2, <2>2, <3>1, CourseIs
    <2>3. CASE k = AfterSecret(j) /\ cr.kind # "disabled"
      <3>0. k = Report(j, "Reconciled") /\ "Reconciled" \in Readiness
        BY <1>2, <2>3 DEF AfterSecret, Readiness
      <3> QED BY <1>1, <3>0, ReportCourse
    <2> QED BY <1>4, <2>1, <2>2, <2>3
  <1>6. /\ Onward(cr, cr') /\ Grows /\ SecretOn(secret, secret', cr)
        /\ RecordOn(rec, rec', cr', secret') /\ ListOn(listed, listed', cr')
    BY <1>3 DEF Onward, Grows, SecretOn, RecordOn, ListOn
  <1>7. ~(Working(j, cr, secret, rec) \/ cr.instance # "us")
    BY <1>1, <1>2 DEF Working
  <1> QED BY <1>1, <1>3, <1>4, <1>5, <1>6, <1>7, ReconcileMoves

(* A reconcile that reads the Secret: it adopts what is in it, or is to       *)
(* create it.                                                                *)
LEMMA ReadSteady ==
  ASSUME "public" \notin Kind, TypeOK, ObjectsInv, Exists, Steady, calm',
         NEW p \in Pod, NEW s \in Slot, GetSecret(p, s) \/ Reread(p, s)
  PROVE  Steady'
  <1> DEFINE j == job[p][s]
  <1>1. /\ j \in Job /\ j.pc \in {"secret", "reread"} /\ OnCourse(j, cr, secret) /\ Busy(p, s)
    BY JobType DEF GetSecret, Reread, At, Steady, Reconciles, Busy
  <1>2. /\ IsOf(j.obj, cr) /\ j.via \in {"added", "modified"} /\ cr.kind # "invalid" /\ cr.instance = "us"
        /\ cr.kind = "disabled" => j.via = "added"
        /\ j.pc = "reread" => secret # NoSecret
    BY <1>1 DEF OnCourse
  <1>3. UNCHANGED <<watching, marker, fp, sweep, cr, secret, rec, listed, queue>>
    BY DEF GetSecret, Reread, k8s, redis
  <1>4. secret # NoSecret => secret.cs # 0
    BY DEF Steady
  <1>5. last.cs \in Nat /\ last.cs + 1 # 0 /\ secret \in Projection
    BY DEF TypeOK
  <1>6. /\ Onward(cr, cr') /\ Grows /\ SecretOn(secret, secret', cr)
        /\ RecordOn(rec, rec', cr', secret') /\ ListOn(listed, listed', cr')
    BY <1>3 DEF Onward, Grows, SecretOn, RecordOn, ListOn
  <1>7. ASSUME NEW k, Become(p, s, k), k.pc \in {"create", "patch"}, OnCourse(k, cr, secret)
        PROVE  Steady'
    BY <1>1, <1>3, <1>6, <1>7, ReconcileMoves DEF Working
  <1>8. CASE secret # NoSecret /\ Adopt(p, s)
    <2> DEFINE k == [[j EXCEPT !.pc = "patch", !.seen = secret] EXCEPT !.cs = secret.cs]
    <2>1. Become(p, s, k)
      BY <1>4, <1>8 DEF Adopt
    <2>2. k.pc = "patch" /\ k.seen = secret /\ k.cs = secret.cs /\ k.obj = j.obj /\ k.via = j.via
      <3> HIDE DEF j
      <3> QED BY <1>1, <1>5 DEF Job
    <2> HIDE DEF k
    <2>3. OnCourse(k, cr, secret)
      BY <1>2, <1>8, <2>2 DEF OnCourse, Carries
    <2> QED BY <1>7, <2>1, <2>2, <2>3
  <1>9. CASE Issue(p, s)
    <2> DEFINE k == [j EXCEPT !.pc = "create", !.cs = last.cs + 1]
    <2>1. Become(p, s, k)
      BY <1>9 DEF Issue
    <2>2. k.pc = "create" /\ k.cs = last.cs + 1 /\ k.obj = j.obj /\ k.via = j.via
      <3> HIDE DEF j
      <3> QED BY <1>1 DEF Job
    <2> HIDE DEF k
    <2>3. OnCourse(k, cr, secret)
      BY <1>2, <1>5, <2>2 DEF OnCourse, Carries
    <2> QED BY <1>7, <2>1, <2>2, <2>3
  <1>10. ~(secret = NoSecret /\ Reread(p, s))
    BY <1>2 DEF Reread, At
  <1> QED BY <1>8, <1>9, <1>10, CalmCalls DEF GetSecret, Reread

(* A reconcile that writes the Secret.                                       *)
LEMMA WriteSteady ==
  ASSUME "public" \notin Kind, TypeOK, ObjectsInv, Exists, Steady, calm',
         NEW p \in Pod, NEW s \in Slot, CreateSecret(p, s) \/ PatchSecret(p, s)
  PROVE  Steady'
  <1> DEFINE j == job[p][s]
  <1>1. /\ j \in Job /\ j.pc \in {"create", "patch"} /\ OnCourse(j, cr, secret) /\ Busy(p, s)
        /\ cr \in Client /\ cr.kind # "public" /\ cr.uid # 0
    BY JobType DEF CreateSecret, PatchSecret, At, Steady, Reconciles, Busy, TypeOK, ObjectsInv, KnownIn, Exists
  <1>2. /\ IsOf(j.obj, cr) /\ j.via \in {"added", "modified"} /\ cr.kind # "invalid" /\ cr.instance = "us"
        /\ cr.kind = "disabled" => j.via = "added"
        /\ Carries(j, secret)
    BY <1>1 DEF OnCourse
  <1>3. UNCHANGED <<watching, marker, fp, sweep, cr, rec, listed, queue>>
    BY DEF CreateSecret, PatchSecret, redis
  <1>4. Onward(cr, cr') /\ Grows /\ RecordOn(rec, rec', cr', secret') /\ ListOn(listed, listed', cr')
    BY <1>3 DEF Onward, Grows, RecordOn, ListOn
  <1>5. SecretValue(j) = j.cs /\ j.obj.uid = cr.uid /\ j.obj.gen = cr.gen
    BY <1>1, <1>2 DEF SecretValue, IsOf
  <1>6. CASE /\ AfterWrite(p, s) /\ j.cs # 0
             /\ secret' = [uid |-> cr.uid, gen |-> cr.gen, cs |-> j.cs]
             /\ secret # NoSecret => secret.cs = j.cs
    <2>1. Become(p, s, AfterSecret(j))
      BY <1>6, CalmCalls DEF AfterWrite
    <2>2. /\ secret' # NoSecret /\ secret'.uid = cr.uid /\ secret'.gen = cr.gen
          /\ secret'.cs = j.cs
      BY <1>1, <1>6 DEF NoSecret
    <2>3. SecretOn(secret, secret', cr)
      BY <1>6, <2>2 DEF SecretOn
    <2>4. OnCourse(AfterSecret(j), cr, secret') /\ Working(AfterSecret(j), cr, secret', rec')
      <3> HIDE DEF j
      <3> QED BY <1>1, <1>6, <2>2, AfterWriteCourse
    <2> HIDE DEF j
    <2> QED BY <1>1, <1>3, <1>4, <2>1, <2>3, <2>4, ReconcileMoves DEF j
  <1>7. CASE CreateSecret(p, s) /\ secret # NoSecret
    <2> DEFINE k == [j EXCEPT !.pc = "reread"]
    <2>1. Become(p, s, k) /\ secret' = secret
      BY <1>7, CalmCalls DEF CreateSecret
    <2>2. k.pc = "reread" /\ k.obj = j.obj /\ k.via = j.via
      <3> HIDE DEF j
      <3> QED BY <1>1 DEF Job
    <2> HIDE DEF k
    <2>3. OnCourse(k, cr, secret')
      BY <1>2, <1>7, <2>1, <2>2 DEF OnCourse, Carries
    <2>4. SecretOn(secret, secret', cr)
      BY <2>1 DEF SecretOn
    <2>5. Working(k, cr', secret', rec')
      BY <2>2 DEF Working
    <2> QED BY <1>1, <1>3, <1>4, <2>1, <2>3, <2>4, <2>5, ReconcileMoves
  <1>8. CASE CreateSecret(p, s) /\ secret = NoSecret
    <2>1. j.cs # 0
      BY <1>2, <1>8 DEF Carries, CreateSecret, At
    <2>2. AfterWrite(p, s) /\ secret' = [uid |-> j.obj.uid, gen |-> j.obj.gen, cs |-> SecretValue(j)]
      BY <1>8, CalmCalls DEF CreateSecret
    <2> QED BY <1>5, <1>6, <1>8, <2>1, <2>2
  <1>9. CASE PatchSecret(p, s)
    <2>1. secret # NoSecret /\ j.seen.cs = secret.cs /\ j.cs = secret.cs /\ secret.cs # 0
      BY <1>2, <1>9 DEF Carries, PatchSecret, At, Steady
    <2>2. PatchApplies(j)
      BY <2>1 DEF PatchApplies
    <2>3. AfterWrite(p, s) /\ secret' = Patched(j)
      BY <1>9, <2>2, CalmCalls DEF PatchSecret
    <2>4. Patched(j) = [uid |-> cr.uid, gen |-> cr.gen, cs |-> j.cs]
      BY <1>5, <2>1 DEF Patched
    <2> QED BY <1>6, <2>1, <2>3, <2>4
  <1> QED BY <1>7, <1>8, <1>9

(* A reconcile that writes the record, or takes it away.                     *)
LEMMA RecordSteady ==
  ASSUME TypeOK, ObjectsInv, Exists, Steady, calm',
         NEW p \in Pod, NEW s \in Slot, Upsert(p, s) \/ Destroy(p, s)
  PROVE  Steady'
  <1> DEFINE j == job[p][s]
  <1>1. /\ j \in Job /\ j.pc \in {"upsert", "destroy"} /\ OnCourse(j, cr, secret) /\ Busy(p, s)
    BY JobType DEF Upsert, Destroy, At, Steady, Reconciles, Busy
  <1>2. /\ IsOf(j.obj, cr) /\ j.via \in {"added", "modified"} /\ cr.kind # "invalid" /\ cr.instance = "us"
        /\ j.pc = "upsert" => (cr.kind = "confidential" /\ secret.gen = cr.gen
                               /\ secret # NoSecret /\ j.cs = secret.cs)
        /\ j.pc = "destroy" => cr.kind = "disabled"
    BY <1>1 DEF OnCourse, Carries
  <1>3. UNCHANGED <<watching, marker, fp, sweep, cr, secret, listed, queue>>
    BY DEF Upsert, Destroy, k8s
  <1>4. Onward(cr, cr') /\ Grows /\ SecretOn(secret, secret', cr) /\ ListOn(listed, listed', cr')
    BY <1>3 DEF Onward, Grows, SecretOn, ListOn
  <1>5. CASE Upsert(p, s)
    <2> DEFINE k == [j EXCEPT !.pc = "sadd"]
    <2>1. Become(p, s, k) /\ rec' = [uid |-> j.obj.uid, gen |-> j.obj.gen, cs |-> j.cs] /\ j.pc = "upsert"
      BY <1>5, CalmCalls DEF Upsert, At
    <2>2. k.pc = "sadd" /\ k.obj = j.obj /\ k.via = j.via
      <3> HIDE DEF j
      <3> QED BY <1>1 DEF Job
    <2>3. Right(rec', cr, secret)
      BY <1>2, <2>1 DEF Right, IsOf
    <2> HIDE DEF k
    <2>4. OnCourse(k, cr, secret)
      BY <1>2, <2>1, <2>2 DEF OnCourse, Carries
    <2>5. Working(k, cr, secret, rec') /\ RecordOn(rec, rec', cr, secret)
      BY <1>2, <2>1, <2>2, <2>3 DEF Working, RecordOn
    <2> QED BY <1>1, <1>3, <1>4, <2>1, <2>4, <2>5, ReconcileMoves
  <1>6. CASE Destroy(p, s)
    <2> DEFINE k == [j EXCEPT !.pc = "srem"]
    <2>1. Become(p, s, k) /\ rec' = NoRecord /\ j.pc = "destroy"
      BY <1>6, CalmCalls DEF Destroy, At
    <2>2. k.pc = "srem" /\ k.obj = j.obj /\ k.via = j.via
      <3> HIDE DEF j
      <3> QED BY <1>1 DEF Job
    <2> HIDE DEF k
    <2>3. OnCourse(k, cr, secret)
      BY <1>2, <2>1, <2>2, CourseIs
    <2>4. Shows(cr, secret, rec', listed') /\ RecordOn(rec, rec', cr, secret)
      BY <1>2, <2>1 DEF Shows, RecordOn
    <2> QED BY <1>1, <1>3, <1>4, <2>1, <2>3, <2>4, ReconcileMoves
  <1> QED BY <1>5, <1>6

(* A reconcile whose set member arrives.                                     *)
LEMMA MemberSteady ==
  ASSUME TypeOK, ObjectsInv, Exists, Steady, calm', NEW p \in Pod, NEW s \in Slot, SetMember(p, s)
  PROVE  Steady'
  <1> DEFINE j == job[p][s]
  <1>1. /\ j \in Job /\ j.pc \in {"sadd", "srem"} /\ OnCourse(j, cr, secret) /\ Busy(p, s)
    BY JobType DEF SetMember, At, Steady, Reconciles, Busy
  <1>2. /\ cr.instance = "us" /\ j.via # "deleted"
        /\ j.pc = "sadd" => (cr.kind = "confidential" /\ secret.gen = cr.gen /\ secret # NoSecret)
        /\ j.pc = "srem" => cr.kind = "disabled"
    BY <1>1 DEF OnCourse
  <1>3. UNCHANGED <<watching, marker, fp, sweep, cr, secret, rec, queue>>
    BY DEF SetMember, k8s
  <1>4. listed' = (j.pc = "sadd")
    BY CalmCalls DEF SetMember, At
  <1>5. PICK out \in {"Reconciled", "Disabled"} : Become(p, s, Report(j, out))
    BY <1>2, CalmCalls DEF SetMember
  <1>6. out \in Readiness
    BY DEF Readiness
  <1>7. /\ Onward(cr, cr') /\ Grows /\ SecretOn(secret, secret', cr)
        /\ RecordOn(rec, rec', cr', secret') /\ ListOn(listed, listed', cr')
    BY <1>1, <1>2, <1>3, <1>4 DEF Onward, Grows, SecretOn, RecordOn, ListOn
  <1>8. OnCourse(Report(j, out), cr, secret)
    <2> HIDE DEF j
    <2> QED BY <1>1, <1>6, ReportCourse
  <1>9. ASSUME Working(j, cr, secret, rec)
        PROVE  Shows(cr, secret, rec, listed')
    <2>1. j.pc = "sadd" /\ Right(rec, cr, secret)
      BY <1>1, <1>9 DEF Working
    <2>2. secret.uid = cr.uid /\ secret.cs # 0
      BY <1>2, <2>1 DEF Steady
    <2> QED BY <1>2, <1>4, <2>1, <2>2 DEF Shows
  <1> HIDE DEF j
  <1> QED BY <1>1, <1>2, <1>3, <1>5, <1>7, <1>8, <1>9, ReconcileMoves DEF j

-----------------------------------------------------------------------------
(* Steps that write the resource.                                            *)

(* The API server takes a write and announces it.                            *)
LEMMA StoreGrows ==
  ASSUME TypeOK, NEW o \in Client, Store("MODIFIED", o),
         o.uid = cr.uid, o.gen = cr.gen, o.kind = cr.kind, cr.instance = "us" => o.instance = "us"
  PROVE  Onward(cr, cr') /\ Grows /\ cr'.instance = o.instance
  <1>1. cr'.uid = o.uid /\ cr'.gen = o.gen /\ cr'.kind = o.kind /\ cr'.instance = o.instance
    BY StoreType
  <1>2. Timely([type |-> "MODIFIED", obj |-> cr'], cr')
    BY DEF Timely, IsOf
  <1>3. Publish("MODIFIED", cr')
    BY DEF Store
  <1>4. Grows
    BY <1>2, <1>3 DEF Publish, Grows
  <1> QED BY <1>1, <1>4 DEF Onward

LEMMA StatusGrows ==
  ASSUME TypeOK, NEW o \in Client, NEW ready \in Readiness, ReplaceClientStatus(o, ready)
  PROVE  /\ Onward(cr, cr') /\ Grows
         /\ cr'.instance = "us" \/ cr'.instance = cr.instance
         /\ Matches(o) => cr'.instance = "us"
  <1>0. cr \in Client
    BY DEF TypeOK
  <1>1. /\ Status(o, ready) \in Client /\ Status(o, ready).uid = cr.uid /\ Status(o, ready).gen = cr.gen
        /\ Status(o, ready).kind = cr.kind /\ Status(o, ready).instance = "us"
    BY <1>0 DEF Status, Client, Instances
  <1>2. CASE Matches(o) /\ Store("MODIFIED", Status(o, ready))
    BY <1>1, <1>2, StoreGrows
  <1>3. CASE UNCHANGED <<cr, last, queue>> /\ (Matches(o) => Status(o, ready) = cr)
    BY <1>1, <1>3 DEF Onward, Grows
  <1> QED BY <1>2, <1>3 DEF ReplaceClientStatus

LEMMA UpdateCourse ==
  ASSUME NEW o \in Client, NEW sec, NEW r, o.instance = "us", o.kind # "public"
  PROVE  /\ OnCourse(Update(o), o, sec)
         /\ o.kind # "invalid" => Working(Update(o), o, sec, r)
  <1>0. IsOf(o, o)
    BY DEF IsOf
  <1> DEFINE j == Start("secret", "modified", o)
  <1>1. j.pc = "secret" /\ j.via = "modified" /\ j.obj = o /\ j \in Job
    BY StartJob DEF Steps, Vias
  <1>2. CASE o.kind = "invalid"
    <2>1. Update(o) = Report(j, "Failed")
      BY <1>2 DEF Update
    <2> HIDE DEF j
    <2>2. Report(j, "Failed").pc = "report" /\ Report(j, "Failed").obj = o
          /\ Report(j, "Failed").via = "modified"
      BY <1>1 DEF Report, Job
    <2> QED BY <1>0, <1>2, <2>1, <2>2, CourseIs
  <1>3. CASE o.kind = "disabled"
    <2> DEFINE k == [j EXCEPT !.pc = "destroy"]
    <2>1. Update(o) = k
      BY <1>3 DEF Update
    <2> HIDE DEF j
    <2>2. k.pc = "destroy" /\ k.obj = o /\ k.via = "modified"
      BY <1>1 DEF Job
    <2> HIDE DEF k
    <2> QED BY <1>0, <1>3, <2>1, <2>2, CourseIs DEF Working
  <1>4. CASE o.kind \notin {"invalid", "disabled"}
    <2>1. Update(o) = j
      BY <1>4 DEF Update
    <2> HIDE DEF j
    <2> QED BY <1>0, <1>1, <1>4, <2>1, CourseIs DEF Working
  <1> QED BY <1>2, <1>3, <1>4

LEMMA ClaimSteady ==
  ASSUME "public" \notin Kind, TypeOK, ObjectsInv, Exists, Steady, calm',
         NEW p \in Pod, NEW s \in Slot, Claim(p, s)
  PROVE  Steady'
  <1> DEFINE o == job[p][s].obj
  <1>0. o \in Client /\ o.ready \in Readiness /\ Busy(p, s) /\ OnCourse(job[p][s], cr, secret)
        /\ job[p][s].pc = "claim"
    BY JobType DEF Client, Claim, At, Busy, Steady, Reconciles
  <1>1. UNCHANGED <<watching, marker, fp, sweep, secret, rec, listed>>
    BY DEF Claim, redis
  <1>2. SecretOn(secret, secret', cr) /\ RecordOn(rec, rec', cr', secret') /\ ListOn(listed, listed', cr')
    BY <1>1 DEF SecretOn, RecordOn, ListOn
  <1>3. ~Working(job[p][s], cr, secret, rec)
    BY <1>0 DEF Working
  <1>4. CASE ~Matches(o)
    <2>1. Become(p, s, Idle) /\ UNCHANGED <<cr, queue>>
      BY <1>4 DEF Claim
    <2>2. Onward(cr, cr') /\ Grows
      BY <2>1 DEF Onward, Grows
    <2>3. Idle.pc = "idle"
      BY DEF Idle
    <2> QED BY <1>0, <1>1, <1>2, <1>3, <2>1, <2>2, <2>3, ReconcileMoves
  <1>5. CASE Matches(o)
    <2>1. /\ ReplaceClientStatus(o, o.ready)
          /\ Become(p, s, IF job[p][s].via = "added" THEN Start("secret", "added", cr') ELSE Update(cr'))
      BY <1>5, CalmCalls DEF Claim
    <2>2. Onward(cr, cr') /\ Grows /\ cr'.instance = "us" /\ cr' \in Client
      BY <1>0, <1>5, <2>1, StatusGrows, StatusType
    <2>3. cr'.kind # "public" /\ (cr'.kind = "invalid" => job[p][s].via = "modified")
          /\ job[p][s].via \in {"added", "modified"}
      BY <1>0, <2>2 DEF OnCourse, Onward, ObjectsInv, KnownIn
    <2>4. CASE job[p][s].via = "added"
      <3> DEFINE k == Start("secret", "added", cr')
      <3>1. k.pc = "secret" /\ k.obj = cr' /\ k.via = "added" /\ Become(p, s, k)
        BY <2>1, <2>2, <2>4, StartJob DEF Steps, Vias
      <3> HIDE DEF k
      <3>2. OnCourse(k, cr', secret')
        BY <2>2, <2>3, <2>4, <3>1, CourseIs DEF IsOf
      <3>3. Working(k, cr', secret', rec')
        BY <3>1 DEF Working
      <3> QED BY <1>0, <1>1, <1>2, <2>2, <3>1, <3>2, <3>3, ReconcileMoves
    <2>5. CASE job[p][s].via # "added"
      <3>1. Become(p, s, Update(cr'))
        BY <2>1, <2>5
      <3>2. OnCourse(Update(cr'), cr', secret')
            /\ (cr'.kind # "invalid" => Working(Update(cr'), cr', secret', rec'))
        BY <2>2, <2>3, UpdateCourse
      <3>3. cr'.kind = "invalid" => Shows(cr', secret', rec', listed')
        BY DEF Shows
      <3> QED BY <1>0, <1>1, <1>2, <2>2, <3>1, <3>2, <3>3, ReconcileMoves
    <2> QED BY <2>4, <2>5
  <1> QED BY <1>4, <1>5

(* A report of a client that is not yet ours is of one that is invalid.      *)
LEMMA ReportSteady ==
  ASSUME TypeOK, ObjectsInv, Exists, Steady, calm', NEW p \in Pod, NEW s \in Slot, ReportStatus(p, s)
  PROVE  Steady'
  <1> DEFINE o == job[p][s].obj
             ready == job[p][s].out
  <1>0. o \in Client /\ ready \in Readiness /\ Busy(p, s) /\ OnCourse(job[p][s], cr, secret)
        /\ job[p][s].pc = "report"
    BY JobType DEF ReportStatus, At, Busy, Steady, Reconciles
  <1>1. UNCHANGED <<watching, marker, fp, sweep, secret, rec, listed>> /\ Become(p, s, Idle)
    BY DEF ReportStatus, redis
  <1>2. SecretOn(secret, secret', cr) /\ RecordOn(rec, rec', cr', secret') /\ ListOn(listed, listed', cr')
    BY <1>1 DEF SecretOn, RecordOn, ListOn
  <1>3. ReplaceClientStatus(o, ready)
    BY CalmCalls DEF ReportStatus
  <1>4. Onward(cr, cr') /\ Grows
    BY <1>0, <1>3, StatusGrows
  <1>5. ~Working(job[p][s], cr, secret, rec) /\ Idle.pc = "idle"
    BY <1>0 DEF Working, Idle
  <1>6. cr.instance # "us" => Shows(cr', secret', rec', listed')
    BY <1>0, <1>4 DEF OnCourse, Onward, Shows
  <1> QED BY <1>0, <1>1, <1>2, <1>4, <1>5, <1>6, ReconcileMoves

LEMMA StepSteady ==
  ASSUME "public" \notin Kind, TypeOK, ObjectsInv, Exists, Steady, calm',
         NEW p \in Pod, NEW s \in Slot, Step(p, s)
  PROVE  Steady'
  BY FindSteady, ReadSteady, WriteSteady, RecordSteady, MemberSteady, ClaimSteady, ReportSteady DEF Step

-----------------------------------------------------------------------------
(* A watch event reaches its operator.                                       *)

LEMMA AddedCourse ==
  ASSUME NEW o \in Client, NEW replayed \in BOOLEAN, NEW c \in Client, NEW sec, NEW r,
         IsOf(o, c), c.kind # "public"
  PROVE  /\ OnAdded(o, replayed).pc # "idle" => OnCourse(OnAdded(o, replayed), c, sec)
         /\ (~replayed /\ o.instance = "us" /\ c.kind # "invalid") =>
              Working(OnAdded(o, replayed), c, sec, r)
  <1> DEFINE j == Start("secret", "added", o)
  <1>1. j \in Job /\ j.pc = "secret" /\ j.obj = o /\ j.via = "added" /\ j.cs = 0
    BY StartJob DEF Steps, Vias
  <1>2. o.kind = c.kind /\ (o.instance = "us" => c.instance = "us")
    BY DEF IsOf
  <1>3. CASE o.kind = "invalid"
    <2> DEFINE k == Report(j, "Failed")
    <2>1. OnAdded(o, replayed) = k
      BY <1>3 DEF OnAdded
    <2> HIDE DEF j
    <2>2. k.pc = "report" /\ k.obj = o /\ k.via = "added"
      BY <1>1 DEF Report, Job
    <2> HIDE DEF k
    <2>3. c.kind = "invalid" /\ IsOf(k.obj, c)
      BY <1>2, <1>3, <2>2
    <2>4. OnCourse(k, c, sec)
      BY <2>2, <2>3, CourseIs
    <2> QED BY <2>1, <2>3, <2>4
  <1>4. CASE o.kind # "invalid" /\ o.instance = "us" /\ replayed
    <2>1. OnAdded(o, replayed) = [j EXCEPT !.pc = "find"]
      BY <1>4 DEF OnAdded
    <2> DEFINE k == [j EXCEPT !.pc = "find"]
    <2> HIDE DEF j
    <2>2. k.pc = "find" /\ k.obj = o /\ k.via = "added" /\ k.cs = 0
      BY <1>1 DEF Job
    <2> HIDE DEF k
    <2>3. OnAdded(o, replayed) = k
      BY <2>1 DEF k
    <2>4. c.kind # "invalid" /\ c.instance = "us" /\ IsOf(k.obj, c)
      BY <1>2, <1>4, <2>2
    <2>5. OnCourse(k, c, sec)
      BY <2>2, <2>4, CourseIs
    <2> QED BY <1>4, <2>3, <2>5
  <1>5. CASE o.kind # "invalid" /\ o.instance = "us" /\ ~replayed
    <2>1. OnAdded(o, replayed) = j
      BY <1>5 DEF OnAdded
    <2> HIDE DEF j
    <2> QED BY <1>1, <1>2, <1>5, <2>1, CourseIs DEF Working
  <1>6. CASE o.kind # "invalid" /\ o.instance = "none"
    <2>1. OnAdded(o, replayed) = [j EXCEPT !.pc = "claim"]
      BY <1>6 DEF OnAdded
    <2> DEFINE k == [j EXCEPT !.pc = "claim"]
    <2> HIDE DEF j
    <2>2. k.pc = "claim" /\ k.obj = o /\ k.via = "added"
      BY <1>1 DEF Job
    <2> HIDE DEF k
    <2>3. OnCourse(k, c, sec) /\ OnAdded(o, replayed) = k
      BY <1>2, <1>6, <2>1, <2>2 DEF OnCourse, Carries, k
    <2> QED BY <1>6, <2>3
  <1>7. CASE o.kind # "invalid" /\ o.instance = "them"
    <2>1. OnAdded(o, replayed) = Idle /\ Idle.pc = "idle"
      BY <1>7 DEF OnAdded, Idle
    <2> QED BY <1>7, <2>1
  <1> QED BY <1>3, <1>4, <1>5, <1>6, <1>7 DEF Client, Instances

LEMMA ModifiedCourse ==
  ASSUME NEW o \in Client, NEW current \in BOOLEAN, NEW c \in Client, NEW sec, NEW r,
         IsOf(o, c), c.kind # "public"
  PROVE  /\ OnModified(o, current).pc # "idle" => OnCourse(OnModified(o, current), c, sec)
         /\ (~current /\ o.instance = "us" /\ c.kind # "invalid") =>
              Working(OnModified(o, current), c, sec, r)
  <1>0. o.kind = c.kind /\ (o.instance = "us" => c.instance = "us")
    BY DEF IsOf
  <1>1. CASE current \/ o.instance = "them"
    <2>1. OnModified(o, current) = Idle /\ Idle.pc = "idle"
      BY <1>1 DEF OnModified, Idle
    <2> QED BY <1>1, <2>1
  <1>2. CASE ~current /\ o.instance = "us"
    <2>1. OnModified(o, current) = Update(o)
      BY <1>2 DEF OnModified
    <2>2. OnCourse(Update(o), o, sec) /\ (o.kind # "invalid" => Working(Update(o), o, sec, r))
      BY <1>0, <1>2, UpdateCourse
    <2>3. Onward(o, c) /\ SecretOn(sec, sec, o)
      BY DEF Onward, IsOf, SecretOn
    <2>4. OnCourse(Update(o), c, sec)
      BY <2>2, <2>3, CourseKept
    <2>5. Update(o).pc \in {"secret", "destroy", "report"}
      BY UpdateJob
    <2>6. c.kind # "invalid" => Working(Update(o), c, sec, r)
      BY <1>0, <2>2, <2>5 DEF Working
    <2> QED BY <2>1, <2>4, <2>6
  <1>3. CASE ~current /\ o.instance = "none"
    <2> DEFINE k == Start("claim", "modified", o)
    <2>1. OnModified(o, current) = k
      BY <1>3 DEF OnModified
    <2>2. k.pc = "claim" /\ k.obj = o /\ k.via = "modified"
      BY StartJob DEF Steps, Vias
    <2> HIDE DEF k
    <2>3. OnCourse(k, c, sec)
      BY <2>2 DEF OnCourse, Carries
    <2> QED BY <1>3, <2>1, <2>3
  <1> QED BY <1>1, <1>2, <1>3 DEF Client, Instances

LEMMA DeliverSteady ==
  ASSUME "public" \notin Kind, TypeOK, ObjectsInv, Exists, Steady, NEW p \in Pod, Deliver(p)
  PROVE  Steady'
  <1> DEFINE e == Head(queue[p])
             current == (fp[p] = e.obj.gen)
             j == CASE e.type = "ADDED" -> OnAdded(e.obj, current)
                    [] e.type = "MODIFIED" -> OnModified(e.obj, current)
                    [] e.type = "DELETED" -> OnDeleted(e.obj)
  <1>1. /\ queue[p] # <<>> /\ queue' = [queue EXCEPT ![p] = Tail(@)]
        /\ fp' = [fp EXCEPT ![p] = IF e.type = "DELETED" THEN 0 ELSE e.obj.gen]
        /\ (j = Idle /\ UNCHANGED job) \/ (\E s \in Slot : ~Busy(p, s) /\ Become(p, s, j))
        /\ UNCHANGED <<watching, cr, secret, rec, listed, marker, sweep>>
    BY DEF Deliver, k8s, redis, Become
  <1>2. queue[p] \in Seq(Event) /\ 1 \in 1 .. Len(queue[p]) /\ e = queue[p][1]
    BY <1>1 DEF TypeOK
  <1>3. e \in Event /\ e.obj \in Client /\ Timely(e, cr) /\ e.obj.gen = cr.gen
    BY <1>2, EventAt DEF Steady, Events, Timely, IsOf
  <1>4. cr \in Client /\ cr.kind # "public" /\ current \in BOOLEAN
    BY DEF TypeOK, ObjectsInv, KnownIn
  <1>5. /\ j.pc # "idle" => OnCourse(j, cr, secret)
        /\ (fp[p] # cr.gen /\ e.obj.instance = "us" /\ cr.kind # "invalid") => Working(j, cr, secret, rec)
    <2>1. CASE e.type = "ADDED"
      <3>1. j = OnAdded(e.obj, current)
        BY <2>1
      <3> HIDE DEF j, e
      <3> QED BY <1>3, <1>4, <3>1, AddedCourse DEF Timely
    <2>2. CASE e.type = "MODIFIED"
      <3>1. j = OnModified(e.obj, current)
        BY <2>2
      <3> HIDE DEF j, e
      <3> QED BY <1>3, <1>4, <3>1, ModifiedCourse DEF Timely
    <2> HIDE DEF j, e
    <2> QED BY <1>3, <2>1, <2>2 DEF Timely, Event
  <1>6. fp' = [fp EXCEPT ![p] = cr.gen]
    BY <1>1, <1>3 DEF Timely
  <1>7. /\ \A q \in Pod : q # p => (queue'[q] = queue[q] /\ fp'[q] = fp[q])
        /\ queue'[p] = Tail(queue[p]) /\ fp'[p] = cr.gen
    BY <1>1, <1>6 DEF TypeOK
  <1> HIDE DEF j, e, current
  <1>8. Events'
    <2>1. ASSUME NEW q \in Pod, NEW i \in 1 .. Len(queue'[q])
          PROVE  Timely(queue'[q][i], cr)
      <3>1. CASE q # p
        BY <1>7, <3>1 DEF Steady, Events
      <3>2. CASE q = p
        <4>1. ASSUME NEW m \in 1 .. Len(Tail(queue[p]))
              PROVE  m + 1 \in 1 .. Len(queue[p]) /\ Tail(queue[p])[m] = queue[p][m + 1]
          BY <1>1, <1>2
        <4>2. \A m \in 1 .. Len(Tail(queue[p])) : Timely(Tail(queue[p])[m], cr)
          BY <4>1 DEF Steady, Events
        <4> QED BY <1>7, <3>2, <4>2
      <3> QED BY <3>1, <3>2
    <2> QED BY <1>1, <2>1 DEF Events
  <1>9. ASSUME NEW q \in Pod, NEW t \in Slot
        PROVE  job'[q][t] = job[q][t] \/ (~Busy(q, t) /\ job'[q][t] = j)
    BY <1>1, Becoming
  <1>10. Reconciles'
    BY <1>1, <1>5, <1>9 DEF Steady, Reconciles, Busy
  <1>11. Registered'
    BY <1>1, <1>7 DEF Steady, Registered, TypeOK
  <1>12. (\A q \in Pod : sweep'[q] = "idle") /\ (secret' = NoSecret \/ (secret'.uid = cr'.uid /\ secret'.cs # 0))
    BY <1>1 DEF Steady
  <1>13. ASSUME AtWork
         PROVE  AtWork'
    <2>1. PICK q \in Pod, t \in Slot : Working(job[q][t], cr, secret, rec)
      BY <1>13 DEF AtWork
    <2>2. job'[q][t] = job[q][t]
      BY <1>9, <2>1 DEF Working, Busy
    <2> QED BY <1>1, <2>1, <2>2 DEF AtWork
  <1>14. ASSUME Awaits(queue[p], fp[p], cr), cr.kind # "invalid"
         PROVE  AtWork'
    <2>1. Working(j, cr, secret, rec)
      BY <1>5, <1>14 DEF Awaits, e
    <2>2. j # Idle
      BY <2>1 DEF Working, Idle
    <2>3. PICK s \in Slot : Become(p, s, j)
      BY <1>1, <2>2
    <2>4. job'[p][s] = j
      BY <2>3, Becoming
    <2> QED BY <1>1, <2>1, <2>4 DEF AtWork
  <1>15. ASSUME Announced, ~Awaits(queue[p], fp[p], cr)
         PROVE  Announced'
    <2>1. \A q \in Pod : q # p => (Awaits(queue[q], fp[q], cr) => Awaits(queue'[q], fp'[q], cr'))
      BY <1>1, <1>7
    <2> QED BY <1>1, <1>15, <2>1 DEF Announced, Alone, Unhurt, TypeOK
  <1>16. Provided'
    <2> SUFFICES ASSUME marker', watching' # {}, cr'.instance = "us"
                 PROVE  Shows(cr', secret', rec', listed') \/ AtWork' \/ Announced'
      BY DEF Provided
    <2>1. Shows(cr, secret, rec, listed) \/ AtWork \/ Announced
      BY <1>1 DEF Steady, Provided
    <2>2. CASE cr.kind = "invalid"
      BY <1>1, <2>2 DEF Shows
    <2> QED BY <1>1, <1>13, <1>14, <1>15, <2>1, <2>2
  <1> QED BY <1>8, <1>10, <1>11, <1>12, <1>16 DEF Steady

-----------------------------------------------------------------------------
(* Processes. *)

LEMMA RelistedTimely ==
  ASSUME TypeOK, Exists
  PROVE  /\ Relisted # <<>> /\ Head(Relisted).obj = cr
         /\ \A i \in 1 .. Len(Relisted) : Timely(Relisted[i], cr)
  BY DEF Relisted, Timely, IsOf

(* A pod whose watch starts over is told of the client again.                *)
LEMMA ProcessSteady ==
  ASSUME Replayed, TypeOK, TypeOK', WatchInv, WatchInv', Exists, cr.gen # 0, Steady, NEW p \in Pod,
         Reconnect(p) \/ Crash(p) \/ StandDown(p) \/ TakeOver(p) \/ DetectWipe(p)
  PROVE  Steady'
  <1>1. UNCHANGED <<cr, secret, rec, listed>>
    BY DEF Reconnect, Crash, StandDown, TakeOver, DetectWipe, k8s, redis
  <1>2. (\A q \in Pod : sweep'[q] = "idle") /\ (secret' = NoSecret \/ (secret'.uid = cr'.uid /\ secret'.cs # 0))
    BY <1>1 DEF Steady, Reconnect, Crash, StandDown, TakeOver, DetectWipe, TypeOK
  <1>3. ASSUME NEW q \in Pod
        PROVE  /\ q # p => (queue'[q] = queue[q] /\ fp'[q] = fp[q] /\ (q \in watching' <=> q \in watching))
               /\ queue'[p] \in {<<>>, Relisted}
               /\ p \in watching' => queue'[p] = Relisted
    BY DEF Reconnect, Crash, StandDown, TakeOver, DetectWipe, StartWatches, TypeOK
  <1>4. ASSUME NEW q \in Pod, NEW t \in Slot
        PROVE  job'[q][t] = job[q][t] \/ (job'[q][t] = Idle /\ q = p /\ Crash(p))
    <2>1. job' = job \/ (Crash(p) /\ job' = [job EXCEPT ![p] = [s \in Slot |-> Idle]])
      BY DEF Reconnect, Crash, StandDown, TakeOver, DetectWipe
    <2>2. job \in [Pod -> [Slot -> Job]]
      BY DEF TypeOK
    <2> QED BY <2>1, <2>2
  <1>5. Events'
    <2>1. ASSUME NEW q \in Pod, NEW i \in 1 .. Len(queue'[q])
          PROVE  Timely(queue'[q][i], cr)
      <3>1. CASE q # p
        BY <1>3, <3>1 DEF Steady, Events
      <3>2. CASE q = p /\ queue'[q] = <<>>
        BY <3>2
      <3>3. CASE q = p /\ queue'[q] = Relisted
        BY <3>3, RelistedTimely
      <3> QED BY <1>3, <3>1, <3>2, <3>3
    <2> QED BY <1>1, <2>1 DEF Events
  <1>6. Reconciles'
    BY <1>1, <1>4 DEF Steady, Reconciles, Busy, Idle
  <1>7. Registered'
    <2>1. Relisted # <<>>
      BY RelistedTimely
    <2> QED BY <1>1, <1>3, <2>1 DEF Steady, Registered, TypeOK
  <1>8. ASSUME p \in watching', fp'[p] # cr.gen, cr.instance = "us"
        PROVE  Awaits(queue'[p], fp'[p], cr')
    BY <1>1, <1>3, <1>8, RelistedTimely DEF Awaits
  <1>9. StartWatches(p) => fp'[p] # cr.gen
    BY DEF StartWatches, TypeOK
  <1>10. Provided'
    <2> SUFFICES ASSUME marker', watching' # {}, cr'.instance = "us"
                 PROVE  Shows(cr', secret', rec', listed') \/ AtWork' \/ Announced'
      BY DEF Provided
    <2>1. ASSUME marker, watching # {}
          PROVE  Shows(cr, secret, rec, listed) \/ AtWork \/ Announced
      BY <1>1, <2>1 DEF Steady, Provided
    <2>2. /\ Shows(cr, secret, rec, listed) => Shows(cr', secret', rec', listed')
          /\ UNCHANGED job => (AtWork => AtWork')
      BY <1>1 DEF AtWork
    <2>3. ASSUME NEW q \in watching', q # p, Awaits(queue[q], fp[q], cr)
          PROVE  q \in watching /\ Awaits(queue'[q], fp'[q], cr')
      BY <1>1, <1>3, <2>3 DEF TypeOK
    <2>4. CASE Alone /\ StartWatches(p)
      <3>1. p \in watching'
        BY <2>4 DEF WatchInv, Alone
      <3> QED BY <1>1, <1>8, <1>9, <2>4, <3>1 DEF Announced, Alone
    <2>5. CASE Reconnect(p)
      <3>1. p \in watching /\ UNCHANGED <<watching, marker, fp, job>>
        BY <2>5 DEF Reconnect, redis
      <3>2. \A q \in watching : Awaits(queue[q], fp[q], cr) => Awaits(queue'[q], fp'[q], cr')
        BY <1>1, <1>8, <2>3, <3>1 DEF Awaits
      <3>3. Announced => Announced'
        BY <3>1, <3>2 DEF Announced, Alone, Unhurt
      <3> QED BY <2>1, <2>2, <3>1, <3>3
    <2>6. CASE StandDown(p)
      <3>1. p \in watching /\ watching' = watching \ {p} /\ UNCHANGED <<marker, fp, job>>
        BY <2>6 DEF StandDown, redis
      <3>2. ~Alone
        BY <3>1 DEF WatchInv, Alone
      <3>3. Announced => Announced'
        BY <2>3, <3>1, <3>2 DEF Announced, Alone, Unhurt
      <3> QED BY <2>1, <2>2, <3>1, <3>3
    <2>7. CASE ~Alone /\ Unhurt /\ TakeOver(p)
      <3>1. watching' = watching \cup {p} /\ StartWatches(p) /\ UNCHANGED job /\ marker
        BY <2>7 DEF TakeOver, WatchInv, Unhurt
      <3>2. Awaits(queue'[p], fp'[p], cr')
        BY <1>1, <1>8, <1>9, <3>1
      <3>3. Announced => Announced'
        BY <2>3, <2>7, <3>1, <3>2 DEF Announced, Alone, Unhurt
      <3>4. CASE watching = {}
        BY <2>7, <3>1, <3>2, <3>4 DEF Announced, Unhurt
      <3> QED BY <2>1, <2>2, <3>1, <3>3, <3>4
    <2>8. Unhurt => ~(Crash(p) \/ DetectWipe(p))
      BY DEF Unhurt, Crash, DetectWipe, WatchInv, TypeOK
    <2> QED BY <2>4, <2>5, <2>6, <2>7, <2>8 DEF Replayed, Crash, TakeOver, DetectWipe
  <1> QED BY <1>2, <1>5, <1>6, <1>7, <1>10 DEF Steady

-----------------------------------------------------------------------------
(* The environment. *)

LEMMA CalmSettled == NoteDisturbance /\ calm' => calm /\ Settled
  BY DEF NoteDisturbance

(* The resource is touched, or claimed by the other Passmower.               *)
LEMMA ClientSteady ==
  ASSUME TypeOK, Exists, Steady, Onward(cr, cr'), Grows, cr'.instance = "us" => cr.instance = "us",
         UNCHANGED <<watching, secret, rec, listed, marker, fp, job, sweep>>
  PROVE  Steady'
  <1>1. SecretOn(secret, secret, cr) /\ RecordOn(rec, rec, cr', secret) /\ ListOn(listed, listed, cr')
    BY DEF SecretOn, RecordOn, ListOn
  <1>2. Events' /\ Registered' /\ (Announced => Announced')
    BY GrownEvents, GrownAnnounced DEF Steady
  <1>3. Reconciles'
    BY <1>1, CourseKept DEF Steady, Reconciles, Busy
  <1>4. AtWork => AtWork'
    <2> SUFFICES ASSUME NEW q \in Pod, NEW t \in Slot, Working(job[q][t], cr, secret, rec)
                 PROVE  AtWork'
      BY DEF AtWork
    <2>1. OnCourse(job[q][t], cr, secret)
      BY DEF Steady, Reconciles, Busy, Working
    <2>2. Working(job'[q][t], cr', secret', rec')
      BY <1>1, <2>1, WorkKept
    <2> QED BY <2>2 DEF AtWork
  <1>5. Shows(cr, secret, rec, listed) => Shows(cr', secret', rec', listed')
    BY <1>1, ShowsKept
  <1> QED BY <1>2, <1>3, <1>4, <1>5 DEF Steady, Provided, Onward

(* What is announced to an idle system is the first event of every watch.    *)
LEMMA FirstEvent ==
  ASSUME TypeOK, \A q \in Pod : queue[q] = <<>>, NEW type, NEW o, Publish(type, o),
         type # "DELETED", IsOf(o, cr')
  PROVE  /\ Events'
         /\ \A q \in watching : queue'[q] # <<>> /\ Head(queue'[q]).obj = o
  <1> DEFINE e == [type |-> type, obj |-> o]
  <1>0. Timely(e, cr') /\ e.obj = o /\ watching \subseteq Pod
    BY DEF Timely, TypeOK
  <1>1. queue' = [q \in Pod |-> IF q \in watching THEN Append(queue[q], e) ELSE <<>>]
    BY DEF Publish
  <1> HIDE DEF e
  <1>2. \A q \in Pod : queue'[q] = IF q \in watching THEN <<e>> ELSE <<>>
    <2>1. Append(<<>>, e) = <<e>>
      OBVIOUS
    <2> QED BY <1>1, <2>1
  <1>3. ASSUME NEW q \in Pod, NEW i \in 1 .. Len(queue'[q])
        PROVE  Timely(queue'[q][i], cr')
    <2>1. CASE queue'[q] = <<e>>
      BY <1>0, <2>1
    <2>2. CASE queue'[q] = <<>>
      BY <2>2
    <2> QED BY <1>2, <2>1, <2>2
  <1>4. <<e>> # <<>> /\ Head(<<e>>) = e
    OBVIOUS
  <1> QED BY <1>0, <1>2, <1>3, <1>4 DEF Events

(* The client is created, or its spec is edited, when nothing is in flight.  *)
LEMMA NewSteady ==
  ASSUME Replayed, TypeOK, TypeOK', ObjectsInv, Settled, NEW type, NEW o \in Client, type # "DELETED",
         Store(type, o),
         UNCHANGED <<watching, secret, rec, listed, marker, fp, job, sweep>>,
         secret = NoSecret \/ (secret.uid = o.uid /\ secret.cs # 0),
         o.instance = "us" => \A p \in watching : fp[p] # o.gen
  PROVE  Steady'
  <1>1. /\ cr'.uid = o.uid /\ cr'.gen = o.gen /\ cr'.instance = o.instance
    <2>1. cr' = [o EXCEPT !.rv = last.rv + 1]
      BY DEF Store
    <2> QED BY <2>1 DEF Client
  <1>2. \A q \in Pod : queue[q] = <<>> /\ sweep[q] = "idle" /\ \A t \in Slot : ~Busy(q, t)
    BY DEF Settled
  <1>3. Publish(type, cr') /\ IsOf(cr', cr')
    BY DEF Store, IsOf
  <1>4. Events' /\ \A q \in watching : queue'[q] # <<>> /\ Head(queue'[q]).obj = cr'
    BY <1>2, <1>3, FirstEvent
  <1>5. Registered' /\ Reconciles' /\ (\A q \in Pod : sweep'[q] = "idle")
    BY <1>2, <1>4 DEF Registered, Reconciles, Busy
  <1>6. cr'.instance = "us" => Announced'
    <2> SUFFICES ASSUME cr'.instance = "us" PROVE Announced'
      OBVIOUS
    <2>1. \A q \in watching : Awaits(queue'[q], fp'[q], cr')
      BY <1>1, <1>4 DEF Awaits
    <2>2. watching # {} /\ watching' = watching
      BY DEF Settled
    <2> QED BY <2>1, <2>2 DEF Announced, Replayed, Alone, Unhurt
  <1> QED BY <1>1, <1>4, <1>5, <1>6 DEF Steady, Provided

LEMMA EnvironmentSteady ==
  ASSUME Replayed, TypeOK, TypeOK', ObjectsInv, CalmInv, calm', Exists',
         \/ CreateClient \/ EditSpec \/ DeleteClient \/ TouchClient \/ ForeignClaim
         \/ CollectSecret \/ WipeRedis
  PROVE  Steady'
  <1>0. cr \in Client /\ cr.gen \in Nat /\ cr.gen + 1 \in Nat /\ last.uid + 1 \in Nat
    <2>1. cr \in Client /\ last \in Counters
      BY DEF TypeOK, Counters
    <2> QED BY <2>1 DEF Client, Counters
  <1>1. CASE CreateClient
    <2>1. PICK kind \in Kind : Store("ADDED", [NoClient EXCEPT !.uid = last.uid + 1, !.gen = 1, !.kind = kind])
      BY <1>1 DEF CreateClient
    <2> DEFINE o == [NoClient EXCEPT !.uid = last.uid + 1, !.gen = 1, !.kind = kind]
    <2>2. o \in Client /\ o.instance = "none"
      BY <1>0, KindsOK, Values DEF Client, NoClient
    <2>3. Settled /\ UNCHANGED <<watching, secret, rec, listed, marker, fp, job, sweep>> /\ ~Exists
      BY <1>1, CalmSettled DEF CreateClient, redis
    <2>4. secret = NoSecret
      BY <2>3 DEF Settled, Exists, CalmInv
    <2>5. Store("ADDED", o)
      BY <2>1
    <2> HIDE DEF o
    <2> QED BY <2>2, <2>3, <2>4, <2>5, NewSteady
  <1>2. CASE EditSpec
    <2>1. PICK kind \in Kind : Store("MODIFIED", [cr EXCEPT !.gen = @ + 1, !.kind = kind])
      BY <1>2 DEF EditSpec
    <2> DEFINE o == [cr EXCEPT !.gen = @ + 1, !.kind = kind]
    <2>2. o \in Client /\ o.gen = cr.gen + 1 /\ o.uid = cr.uid
      BY <1>0, KindsOK DEF Client
    <2>3. Settled /\ UNCHANGED <<watching, secret, rec, listed, marker, fp, job, sweep>> /\ Exists /\ Steady
      BY <1>2, CalmSettled DEF EditSpec, redis, CalmInv
    <2>4. \A p \in watching : fp[p] = cr.gen
      BY <2>3 DEF Settled, Steady, Registered, TypeOK
    <2>5. Store("MODIFIED", o)
      BY <2>1
    <2> HIDE DEF o
    <2>6. \A p \in watching : fp[p] # o.gen
      BY <1>0, <2>2, <2>4
    <2>7. secret = NoSecret \/ (secret.uid = o.uid /\ secret.cs # 0)
      BY <2>2, <2>3 DEF Steady
    <2> QED BY <2>2, <2>3, <2>5, <2>6, <2>7, NewSteady
  <1>3. ~DeleteClient
    BY DEF DeleteClient, Exists, NoClient
  <1>4. CASE TouchClient
    <2>1. Store("MODIFIED", cr) /\ UNCHANGED <<watching, secret, rec, listed, marker, fp, job, sweep>>
          /\ Exists /\ Steady
      BY <1>4, CalmSettled DEF TouchClient, redis, CalmInv
    <2>2. Onward(cr, cr') /\ Grows /\ cr'.instance = cr.instance
      BY <1>0, <2>1, StoreGrows
    <2> QED BY <2>1, <2>2, ClientSteady
  <1>5. CASE ForeignClaim
    <2> DEFINE o == [cr EXCEPT !.instance = "them"]
    <2>1. Store("MODIFIED", o) /\ UNCHANGED <<watching, secret, rec, listed, marker, fp, job, sweep>>
          /\ Exists /\ Steady /\ cr.instance = "none"
      BY <1>5 DEF ForeignClaim, redis, CalmInv
    <2>2. o \in Client /\ o.uid = cr.uid /\ o.gen = cr.gen /\ o.kind = cr.kind /\ o.instance = "them"
      BY <1>0 DEF Client, Instances
    <2> HIDE DEF o
    <2>3. Onward(cr, cr') /\ Grows /\ cr'.instance = "them"
      BY <2>1, <2>2, StoreGrows
    <2> QED BY <2>1, <2>3, ClientSteady
  <1>6. CASE CollectSecret
    <2>1. Exists /\ calm
      BY <1>6 DEF CollectSecret, Exists
    <2> QED BY <1>6, <2>1 DEF CollectSecret, CalmInv, Steady, NoSecret
  <1>7. CASE WipeRedis
    <2>1. Exists /\ Steady /\ ~marker'
          /\ UNCHANGED <<watching, cr, secret, queue, fp, job, sweep>>
      BY <1>7 DEF WipeRedis, k8s, Exists, CalmInv
    <2> QED BY <2>1 DEF Steady, Events, Reconciles, Registered, Provided, Busy
  <1> QED BY <1>1, <1>2, <1>3, <1>4, <1>5, <1>6, <1>7

-----------------------------------------------------------------------------
(* All steps. *)

LEMMA WatchStep ==
  ASSUME TypeOK, WatchInv, [Next]_vars
  PROVE  WatchInv'
  <1>0. CASE UNCHANGED vars
    BY <1>0 DEF vars, WatchInv
  <1>1. CASE \/ CreateClient \/ EditSpec \/ DeleteClient \/ TouchClient \/ ForeignClaim \/ CollectSecret
    BY <1>1 DEF CreateClient, EditSpec, DeleteClient, TouchClient, ForeignClaim, CollectSecret, redis, WatchInv
  <1>2. CASE WipeRedis
    <2>1. MaxWipe # 0
      BY <1>2 DEF WipeRedis, TypeOK
    <2> QED BY <1>2, <2>1 DEF WipeRedis, WatchInv
  <1>3. ASSUME Alone, NEW p \in Pod, StandDown(p)
        PROVE  watching' = {} /\ \E q : Pod = {q}
    <2>1. MaxHandover # 0
      BY <1>3 DEF StandDown, TypeOK
    <2> QED BY <1>3, <2>1 DEF Alone, StandDown, TypeOK
  <1>4. ASSUME Alone, NEW p \in Pod, TakeOver(p)
        PROVE  watching' = Pod
    BY <1>4 DEF WatchInv, TakeOver
  <1>5. ASSUME NEW p \in Pod, Reconnect(p) \/ Crash(p) \/ StandDown(p) \/ TakeOver(p) \/ DetectWipe(p)
        PROVE  WatchInv'
    <2>1. marker => marker'
      BY <1>5 DEF Reconnect, Crash, StandDown, TakeOver, DetectWipe, StartWatches, redis
    <2>2. StandDown(p) \/ TakeOver(p) \/ watching' = watching
      BY <1>5 DEF Reconnect, Crash, DetectWipe
    <2> QED BY <1>3, <1>4, <2>1, <2>2 DEF WatchInv, Alone
  <1>6. ASSUME NEW p \in Pod, Deliver(p) \/ Sweep(p)
        PROVE  WatchInv'
    <2>1. UNCHANGED <<watching, marker>>
      BY <1>6 DEF Deliver, Sweep, SweepList, SweepMembers, SweepFind, SweepConfirm, SweepDestroy, SweepRemove,
                  SweepFails, redis
    <2> QED BY <2>1 DEF WatchInv
  <1>7. ASSUME NEW p \in Pod, NEW s \in Slot, Step(p, s)
        PROVE  WatchInv'
    <2>1. UNCHANGED <<watching, marker>>
      BY <1>7 DEF Step, Claim, FindRecord, GetSecret, CreateSecret, Reread, PatchSecret, Upsert, Destroy,
                  SetMember, ReportStatus, redis
    <2> QED BY <2>1 DEF WatchInv
  <1> QED BY <1>0, <1>1, <1>2, <1>5, <1>6, <1>7 DEF Next, Environment

(* Only a creation brings a client about; only a creation and an edit give it *)
(* a generation, and what is disturbed once stays so.                        *)
LEMMA CalmFrame ==
  ASSUME TypeOK, ObjectsInv, Exists => cr.gen # 0, [Next]_vars
  PROVE  /\ Exists' => (Exists \/ CreateClient)
         /\ Exists' => cr'.gen # 0
         /\ calm' => calm
  <1>0. /\ cr \in Client /\ last \in Counters
        /\ cr.gen \in Nat /\ cr.gen + 1 \in Nat /\ cr.gen + 1 # 0 /\ last.uid + 1 \in Nat
    <2>1. cr \in Client /\ last \in Counters
      BY DEF TypeOK, Counters
    <2> QED BY <2>1 DEF Client, Counters
  <1>1. CASE UNCHANGED <<cr, calm>>
    BY <1>0, <1>1 DEF Exists
  <1>2. ASSUME Onward(cr, cr')
        PROVE  (Exists' => Exists) /\ (Exists' => cr'.gen # 0)
    BY <1>2 DEF Exists, Onward
  <1>3. CASE CreateClient
    <2>1. PICK kind \in Kind : Store("ADDED", [NoClient EXCEPT !.uid = last.uid + 1, !.gen = 1, !.kind = kind])
      BY <1>3 DEF CreateClient
    <2> DEFINE o == [NoClient EXCEPT !.uid = last.uid + 1, !.gen = 1, !.kind = kind]
    <2>2. o \in Client /\ o.gen = 1
      BY <1>0, KindsOK, Values DEF Client, NoClient
    <2>3. Store("ADDED", o)
      BY <2>1
    <2> HIDE DEF o
    <2>4. cr'.gen # 0
      <3>1. cr'.gen = 1
        BY <2>2, <2>3, StoreType
      <3> QED BY <3>1
    <2>5. calm' => calm
      BY <1>3, CalmSettled DEF CreateClient
    <2> QED BY <1>3, <2>4, <2>5
  <1>4. CASE EditSpec
    <2>1. PICK kind \in Kind : Store("MODIFIED", [cr EXCEPT !.gen = @ + 1, !.kind = kind])
      BY <1>4 DEF EditSpec
    <2> DEFINE o == [cr EXCEPT !.gen = @ + 1, !.kind = kind]
    <2>2. o \in Client /\ o.gen # 0
      BY <1>0, KindsOK DEF Client
    <2>3. Store("MODIFIED", o)
      BY <2>1
    <2> HIDE DEF o
    <2>4. cr'.gen # 0
      BY <2>2, <2>3, StoreType
    <2>5. (calm' => calm) /\ Exists
      BY <1>4, CalmSettled DEF EditSpec
    <2> QED BY <2>4, <2>5
  <1>5. CASE DeleteClient
    BY <1>5, CalmSettled DEF DeleteClient, Exists, NoClient
  <1>6. CASE TouchClient
    <2>1. Onward(cr, cr')
      BY <1>0, <1>6, StoreGrows DEF TouchClient
    <2> QED BY <1>2, <1>6, <2>1, CalmSettled DEF TouchClient
  <1>7. CASE ForeignClaim
    <2> DEFINE o == [cr EXCEPT !.instance = "them"]
    <2>1. Store("MODIFIED", o) /\ calm' = calm /\ cr.instance # "us"
      BY <1>7 DEF ForeignClaim
    <2>2. o \in Client /\ o.uid = cr.uid /\ o.gen = cr.gen /\ o.kind = cr.kind
      BY <1>0 DEF Client, Instances
    <2> HIDE DEF o
    <2>3. Onward(cr, cr')
      BY <2>1, <2>2, StoreGrows
    <2> QED BY <1>2, <2>1, <2>3
  <1>8. CASE CollectSecret \/ WipeRedis
    BY <1>1, <1>8 DEF CollectSecret, WipeRedis, k8s
  <1>9. ASSUME NEW p \in Pod, \/ Reconnect(p) \/ Crash(p) \/ StandDown(p) \/ TakeOver(p) \/ DetectWipe(p)
                              \/ Deliver(p) \/ Sweep(p)
        PROVE  UNCHANGED cr /\ (calm' => calm)
    BY <1>9 DEF Reconnect, Crash, StandDown, TakeOver, DetectWipe, Deliver, Sweep, SweepList, SweepMembers,
                SweepFind, SweepConfirm, SweepDestroy, SweepRemove, SweepFails, CallFails, k8s
  <1>10. ASSUME NEW p \in Pod, NEW s \in Slot, Step(p, s)
         PROVE  Onward(cr, cr') /\ (calm' => calm)
    <2>0. ASSUME UNCHANGED cr PROVE Onward(cr, cr')
      BY <2>0 DEF Onward
    <2>1. CASE Claim(p, s) \/ ReportStatus(p, s)
      <3>1. job[p][s].obj \in Client /\ job[p][s].obj.ready \in Readiness /\ job[p][s].out \in Readiness
        BY JobType DEF Client
      <3>2. \/ UNCHANGED cr
            \/ ReplaceClientStatus(job[p][s].obj, job[p][s].obj.ready)
            \/ ReplaceClientStatus(job[p][s].obj, job[p][s].out)
        BY <2>1 DEF Claim, ReportStatus
      <3>3. calm' => calm
        BY <2>1 DEF Claim, ReportStatus, CallFails
      <3> QED BY <2>0, <3>1, <3>2, <3>3, StatusGrows
    <2>2. CASE \/ FindRecord(p, s) \/ GetSecret(p, s) \/ CreateSecret(p, s) \/ Reread(p, s) \/ PatchSecret(p, s)
               \/ Upsert(p, s) \/ Destroy(p, s) \/ SetMember(p, s)
      <3>1. UNCHANGED cr /\ (calm' => calm)
        BY <2>2 DEF FindRecord, GetSecret, CreateSecret, Reread, PatchSecret, Upsert, Destroy, SetMember,
                    AfterWrite, CallFails, k8s
      <3> QED BY <2>0, <3>1
    <2> QED BY <1>10, <2>1, <2>2 DEF Step
  <1>11. CASE UNCHANGED vars
    BY <1>1, <1>11 DEF vars
  <1>12. ASSUME UNCHANGED cr
         PROVE  Onward(cr, cr')
    BY <1>12 DEF Onward
  <1> QED BY <1>2, <1>3, <1>4, <1>5, <1>6, <1>7, <1>8, <1>9, <1>10, <1>11, <1>12 DEF Next, Environment

LEMMA CalmStep ==
  ASSUME "public" \notin Kind, Replayed, TypeOK, ObjectsInv, CalmInv, [Next]_vars
  PROVE  CalmInv'
  <1>0. TypeOK' /\ WatchInv'
    BY TypeStep, WatchStep DEF CalmInv
  <1>1. /\ Exists' => (Exists \/ CreateClient)
        /\ Exists' => cr'.gen # 0
        /\ calm' => calm
    BY CalmFrame DEF CalmInv
  <1>2. secret'.uid = 0 => secret' = NoSecret
    <2>1. WrittenBy(secret, secret') /\ NoRecord = NoSecret
      BY ProjectionsFlow DEF NoRecord, NoSecret
    <2>2. ASSUME NEW p \in Pod, NEW s \in Slot, job[p][s].pc \notin {"idle", "claim"}
          PROVE  job[p][s].obj.uid # 0
      BY <2>2 DEF ObjectsInv, Busy, KnownIn
    <2> QED BY <2>1, <2>2 DEF WrittenBy, CalmInv
  <1>3. ASSUME calm', Exists'
        PROVE  Steady'
    <2>1. CASE \/ CreateClient \/ EditSpec \/ DeleteClient \/ TouchClient \/ ForeignClaim
               \/ CollectSecret \/ WipeRedis
      BY <1>0, <1>3, <2>1, EnvironmentSteady
    <2>2. CASE ~CreateClient
      <3>1. Exists /\ Steady /\ cr.gen # 0 /\ WatchInv
        BY <1>1, <1>3, <2>2 DEF CalmInv
      <3>2. CASE UNCHANGED vars
        BY <3>1, <3>2 DEF vars, Steady, Events, Reconciles, Registered, Provided, AtWork, Announced, Busy
      <3>3. ASSUME NEW p \in Pod, Reconnect(p) \/ Crash(p) \/ StandDown(p) \/ TakeOver(p) \/ DetectWipe(p)
            PROVE  Steady'
        BY <1>0, <3>1, <3>3, ProcessSteady
      <3>4. ASSUME NEW p \in Pod, Deliver(p)
            PROVE  Steady'
        BY <3>1, <3>4, DeliverSteady
      <3>5. ASSUME NEW p \in Pod, NEW s \in Slot, Step(p, s)
            PROVE  Steady'
        BY <1>3, <3>1, <3>5, StepSteady
      <3>6. ASSUME NEW p \in Pod
            PROVE  ~Sweep(p)
        <4>1. sweep[p] = "idle"
          BY <3>1 DEF Steady
        <4> QED BY <3>1, <4>1 DEF Sweep, SweepList, SweepMembers, SweepFind, SweepConfirm, SweepDestroy,
                                  SweepRemove, SweepFails
      <3> QED BY <2>1, <3>2, <3>3, <3>4, <3>5, <3>6 DEF Next, Environment
    <2> QED BY <2>1, <2>2
  <1> QED BY <1>0, <1>1, <1>2, <1>3 DEF CalmInv

LEMMA SteadyConverged ==
  ASSUME "public" \notin Kind, TypeOK, ObjectsInv, CalmInv
  PROVE  Converged
  <1> SUFFICES ASSUME Settled, calm, Exists, cr.instance = "us"
               PROVE  CASE cr.kind = "confidential" ->
                               /\ rec = [uid |-> cr.uid, gen |-> cr.gen, cs |-> secret.cs]
                               /\ secret.uid = cr.uid /\ secret.gen = cr.gen /\ secret.cs # 0
                               /\ listed
                        [] cr.kind = "disabled" -> rec = NoRecord
                        [] OTHER -> TRUE
    BY DEF Converged
  <1>1. Steady /\ marker /\ watching # {} /\ watching \subseteq Pod
    BY DEF CalmInv, Settled, TypeOK
  <1>2. \A p \in Pod : queue[p] = <<>> /\ \A s \in Slot : job[p][s].pc = "idle"
    BY DEF Settled, Busy
  <1>3. ~AtWork
    BY <1>2 DEF AtWork, Working
  <1>4. ~Announced
    BY <1>1, <1>2 DEF Announced, Awaits
  <1>5. Shows(cr, secret, rec, listed)
    BY <1>1, <1>3, <1>4 DEF Steady, Provided
  <1> QED BY <1>5 DEF Shows, Right

(* When nothing is in flight, the record and the Secret show the client as   *)
(* its resource is, through crashes, watch gaps, wiped Redis and overlapping *)
(* leaders, when no change of the resource met a reconcile in flight and no  *)
(* call failed. No client may be public; and if pods hand the lease to each  *)
(* other, none of them may die and Redis may not lose its data.              *)
THEOREM Converges ==
  ASSUME "public" \notin Kind,
         \/ MaxHandover = 0
         \/ \E p : Pod = {p}
         \/ MaxCrash = 0 /\ MaxWipe = 0
  PROVE  Spec => []Converged
  <1>0. Replayed
    BY DEF Replayed, Alone, Unhurt
  <1>1. TypeOK /\ ObjectsInv /\ CalmInv => Converged
    BY SteadyConverged
  <1>2. TypeOK /\ ObjectsInv /\ CalmInv /\ [Next]_vars => CalmInv'
    BY <1>0, CalmStep
  <1> QED BY <1>1, <1>2, CalmInit, TypeInit, TypeStep, ObjectsInit, ObjectsStep, PTL DEF Spec

=============================================================================
