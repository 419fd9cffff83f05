------------------------ MODULE IngressDiscoveryProofs ------------------------
(***************************************************************************)
(* What IngressDiscovery keeps, for any hosts, handlers and bounds: its    *)
(* types, that a hand-written client is left alone, and that the           *)
(* referencing and the generated client follow the Ingress.                *)
(***************************************************************************)
EXTENDS IngressDiscovery, TLAPS

(***************************************************************************)
(* Types.  A handler about to register the referencing client has resolved *)
(* a host for it.                                                          *)
(***************************************************************************)

TypeInv ==
    /\ TypeOK
    /\ ref \in [host : Hosts, ready : BOOLEAN]
    /\ \A j \in Slot : job[j].step = "register" => job[j].host \in Host

(* Every record is of its type where nothing happens yet. *)
LEMMA NullTypes == Idle \in Job /\ NoClient \in Client /\ NoIngress \in Ingress
BY DiscoveryAssumption DEF Idle, Job, NoClient, Client, NoIngress, Ingress, Hosts

LEMMA TypeInit == Init => TypeInv
BY DiscoveryAssumption, NullTypes DEF Init, TypeInv, TypeOK, Hosts, Idle

(* The watch hands over Ingresses. *)
LEMMA ReplayedType == ASSUME TypeInv PROVE Replayed \in Seq(Ingress)
BY DEF TypeInv, TypeOK, Replayed

Step == {"idle", "clients", "resolve", "register", "find", "delete", "patch", "create"}

(* A handler that goes on to a step other than "register" keeps the types. *)
LEMMA GoType ==
    ASSUME TypeInv, NEW j \in Slot, NEW s \in Step \ {"register"}, Go(j, s)
    PROVE  /\ job' \in [Slot -> Job]
           /\ \A i \in Slot : job'[i].step = "register" => job'[i].host \in Host
<1>1. job[j] \in Job
  BY DEF TypeInv, TypeOK
<1>2. [job[j] EXCEPT !.step = s] \in Job
  BY <1>1 DEF Job, Step
<1>3. job' = [job EXCEPT ![j] = [job[j] EXCEPT !.step = s]]
  BY DEF Go
<1>4. job'[j].step = s /\ \A i \in Slot \ {j} : job'[i] = job[i]
  BY <1>1, <1>3 DEF TypeInv, TypeOK, Job
<1> QED BY <1>2, <1>3, <1>4 DEF TypeInv, TypeOK, Step

(* So does one that is done. *)
LEMMA ReleaseType ==
    ASSUME TypeInv, NEW j \in Slot, job' = Release(j)
    PROVE  /\ job' \in [Slot -> Job]
           /\ \A i \in Slot : job'[i].step = "register" => job'[i].host \in Host
<1>1. Idle \in Job /\ Idle.step = "idle"
  BY NullTypes DEF Idle
<1> QED BY <1>1 DEF Release, TypeInv, TypeOK

(* A handler's step keeps the types, whichever action it is. *)
LEMMA HandleType == ASSUME TypeInv, NEW j \in Slot, Handle(j) PROVE TypeInv'
<1> USE DiscoveryAssumption
<1>0. job[j] \in Job
  BY DEF TypeInv, TypeOK
<1>1. CASE ListClients(j)
  <2>1. Go(j, "resolve") \/ Go(j, "find")
    BY <1>1 DEF ListClients, Forced
  <2> QED BY <1>1, <2>1, GoType DEF ListClients, Same, TypeInv, TypeOK, Step
<1>2. CASE Resolve(j)
  <2>1. CASE Go(j, "find") /\ ref' = [ref EXCEPT !.ready = FALSE]
    BY <1>2, <2>1, GoType DEF Resolve, Same, TypeInv, TypeOK, Step
  <2>2. CASE /\ Resolvable(ingress) /\ UNCHANGED ref
             /\ job' = [job EXCEPT ![j].step = "register", ![j].host = ingress.host]
    <3>1. ingress.host \in Host
      BY <2>2 DEF Resolvable, TypeInv, TypeOK, Ingress, Hosts
    <3> QED BY <1>0, <1>2, <2>2, <3>1 DEF Resolve, Same, TypeInv, TypeOK, Job, Hosts
  <2> QED BY <1>2, <2>1, <2>2 DEF Resolve
<1>3. CASE Register(j)
  BY <1>3 DEF TypeInv, TypeOK, Register, Same, Job, Hosts
<1>4. CASE FindClient(j)
  <2>1. PICK read \in {client, NoClient} :
           LET todo == Todo(read, job[j].ing) IN
           job' = IF todo = "idle" THEN Release(j)
                  ELSE [job EXCEPT ![j].step = todo, ![j].read = read]
    BY <1>4 DEF FindClient
  <2>2. read \in Client /\ Todo(read, job[j].ing) \in Step \ {"register"}
    BY NullTypes DEF TypeInv, TypeOK, Todo, Step
  <2>3. [job[j] EXCEPT !.step = Todo(read, job[j].ing), !.read = read] \in Job
    BY <1>0, <2>2 DEF Job, Step
  <2>4. CASE Todo(read, job[j].ing) = "idle"
    BY <1>4, <2>1, <2>4, ReleaseType DEF FindClient, Same, TypeInv, TypeOK
  <2>5. CASE Todo(read, job[j].ing) # "idle"
    <3>1. job' = [job EXCEPT ![j] =
                    [job[j] EXCEPT !.step = Todo(read, job[j].ing), !.read = read]]
      BY <1>0, <2>1, <2>5 DEF Job, TypeInv, TypeOK
    <3>2. job'[j].step = Todo(read, job[j].ing)
      BY <1>0, <3>1 DEF Job, TypeInv, TypeOK
    <3> QED BY <1>4, <2>2, <2>3, <3>1, <3>2 DEF FindClient, Same, TypeInv, TypeOK
  <2> QED BY <2>4, <2>5
<1>5. CASE Create(j)
  <2>1. Desired([NoClient EXCEPT !.kind = "found", !.owner = job[j].ing.uid], job[j].ing) \in Client
    BY <1>0 DEF Desired, NoClient, Client, Job, Ingress, Hosts
  <2>2. client' \in Client
    BY <1>5, <2>1 DEF Create, TypeInv, TypeOK
  <2> QED BY <1>5, <2>2, ReleaseType DEF Create, Same, TypeInv, TypeOK
<1>6. CASE Patch(j)
  <2>1. Desired(job[j].read, job[j].ing) \in Client
    BY <1>0 DEF Desired, Client, Job, Ingress
  <2>2. Patched(client, job[j].read, Desired(job[j].read, job[j].ing)) \in Client
    BY <2>1 DEF Patched, TypeInv, TypeOK, Client
  <2>3. client' \in Client
    BY <1>6, <2>2 DEF Patch, TypeInv, TypeOK
  <2> QED BY <1>6, <2>3, ReleaseType DEF Patch, Same, TypeInv, TypeOK
<1>7. CASE Delete(j)
  BY <1>7, NullTypes, ReleaseType DEF TypeInv, TypeOK, Delete, Same
<1> QED BY <1>1, <1>2, <1>3, <1>4, <1>5, <1>6, <1>7 DEF Handle

(* No step of any kind leaves the types. *)
LEMMA TypeStep == TypeInv /\ [Next]_vars => TypeInv'
<1> SUFFICES ASSUME TypeInv, [Next]_vars PROVE TypeInv'
  OBVIOUS
<1> USE DiscoveryAssumption, NullTypes
<1>1. CASE \E j \in Slot : Deliver(j)
  <2>1. PICK j \in Slot : Deliver(j)
    BY <1>1
  <2>2. Head(events) \in Ingress /\ Tail(events) \in Seq(Ingress)
    BY <2>1 DEF Deliver, TypeInv, TypeOK
  <2>3. [Idle EXCEPT !.step = "clients", !.ing = Head(events)] \in Job
    BY <2>2 DEF Idle, Job, NoIngress
  <2> QED BY <2>1, <2>2, <2>3 DEF Deliver, TypeInv, TypeOK, Idle
<1>2. CASE \E j \in Slot : Handle(j)
  BY <1>2, HandleType
<1>3. CASE Reopen
  BY <1>3, ReplayedType DEF Reopen, TypeInv, TypeOK
<1>4. CASE Crash
  BY <1>4, ReplayedType DEF Crash, TypeInv, TypeOK, Idle
<1>5. CASE EditIngress
  BY <1>5 DEF EditIngress, TypeInv, TypeOK
<1>6. CASE CreateIngress
  BY <1>6 DEF CreateIngress, TypeInv, TypeOK
<1>7. CASE DeleteIngress
  BY <1>7 DEF DeleteIngress, TypeInv, TypeOK
<1>8. CASE Collect
  BY <1>8 DEF Collect, TypeInv, TypeOK
<1>9. CASE UserClient
  BY <1>9 DEF UserClient, TypeInv, TypeOK, Client, Hosts, NoClient
<1>10. CASE UNCHANGED vars
  BY <1>10 DEF vars, TypeInv, TypeOK
<1> QED
  BY <1>1, <1>2, <1>3, <1>4, <1>5, <1>6, <1>7, <1>8, <1>9, <1>10 DEF Next

(* The types of all that the operator and its users keep, TypeOK, hold in   *)
(* every behaviour.                                                         *)
THEOREM TypeCorrect == FairSpec => []TypeOK
<1>1. TypeInv => TypeOK
  BY DEF TypeInv
<1> QED BY <1>1, TypeInit, TypeStep, PTL DEF FairSpec

(***************************************************************************)
(* Frames.                                                                 *)
(***************************************************************************)

(* A handler's step is its own, leaves what the watch has alone, and is     *)
(* recorded when it fails.                                                 *)
LEMMA HandleFrame ==
    ASSUME TypeInv, NEW j \in Slot, Handle(j)
    PROVE  /\ Busy(j) /\ \A i \in Slot \ {j} : job'[i] = job[i]
           /\ job'[j].ing = job[j].ing \/ ~Busy(j)'
           /\ UNCHANGED <<ingress, events, born, lapped, crossed, reused, withdrawn>>
<1>0. job[j] \in Job
  BY DEF TypeInv, TypeOK
<1>1. UNCHANGED <<ingress, events, born, lapped, crossed, reused, withdrawn>>
  BY DEF Handle, ListClients, Resolve, Register, FindClient, Create, Patch, Delete, Same
<1>2. Busy(j)
  BY DEF Handle, ListClients, Resolve, Register, FindClient, Create, Patch, Delete, Busy
<1>3. \A i \in Slot \ {j} : job'[i] = job[i]
  BY DEF Handle, ListClients, Resolve, Register, FindClient, Create, Patch, Delete, Go, Release,
         TypeInv, TypeOK
<1>4. job'[j].ing = job[j].ing \/ ~Busy(j)'
  <2>1. CASE ListClients(j)
    BY <1>0, <2>1 DEF ListClients, Go, TypeInv, TypeOK, Job
  <2>2. CASE Resolve(j)
    BY <1>0, <2>2 DEF Resolve, Go, TypeInv, TypeOK, Job
  <2>3. CASE Register(j)
    BY <1>0, <2>3 DEF Register, TypeInv, TypeOK, Job
  <2>4. CASE FindClient(j)
    BY <1>0, <2>4 DEF FindClient, Release, Idle, Busy, TypeInv, TypeOK, Job
  <2>5. CASE Create(j) \/ Patch(j) \/ Delete(j)
    BY <2>5 DEF Create, Patch, Delete, Release, Idle, Busy, TypeInv, TypeOK
  <2> QED BY <2>1, <2>2, <2>3, <2>4, <2>5 DEF Handle
<1> QED BY <1>1, <1>2, <1>3, <1>4

(* An event that is delivered occupies one handler, with that event. *)
LEMMA DeliverFrame ==
    ASSUME TypeInv, NEW j \in Slot, Deliver(j)
    PROVE  /\ events # <<>> /\ job'[j].step = "clients" /\ job'[j].ing = Head(events)
           /\ \A i \in Slot \ {j} : job'[i] = job[i]
           /\ ~lapped' => ~lapped /\ Calm
           /\ UNCHANGED <<ingress, client, ref, born, failed, crossed, reused, withdrawn>>
BY DEF Deliver, TypeInv, TypeOK, Idle

(***************************************************************************)
(* The hand-written client.                                                *)
(***************************************************************************)

(* A handler about to write over a client has seen a generated one. *)
HandInv ==
    ~crossed /\ client.kind = "hand" => \A j \in Slot : job[j].step \notin {"delete", "patch"}

LEMMA HandHandle ==
    ASSUME TypeInv, HandInv, NEW j \in Slot, Handle(j), ~crossed, client.kind = "hand"
    PROVE  HandInv' /\ client' = client
<1>0. job[j] \in Job /\ job[j].step \notin {"delete", "patch"}
  BY DEF TypeInv, TypeOK, HandInv
<1>1. job'[j].step \notin {"delete", "patch"} /\ client' = client
  <2>1. CASE ListClients(j)
    BY <1>0, <2>1 DEF ListClients, Go, Forced, TypeInv, TypeOK, Job
  <2>2. CASE Resolve(j)
    BY <1>0, <2>2 DEF Resolve, Go, TypeInv, TypeOK, Job
  <2>3. CASE Register(j)
    BY <1>0, <2>3 DEF Register, TypeInv, TypeOK, Job
  <2>4. CASE FindClient(j)
    <3>1. PICK read \in {client, NoClient} :
             LET todo == Todo(read, job[j].ing) IN
             job' = IF todo = "idle" THEN Release(j)
                    ELSE [job EXCEPT ![j].step = todo, ![j].read = read]
      BY <2>4 DEF FindClient
    <3>2. Todo(read, job[j].ing) \in {"idle", "create"}
      BY DEF Todo, IsDiscovered, NoClient
    <3> QED BY <1>0, <2>4, <3>1, <3>2 DEF FindClient, Release, Idle, TypeInv, TypeOK, Job
  <2>5. CASE Create(j)
    BY <2>5 DEF Create, Release, Idle, TypeInv, TypeOK
  <2> QED BY <1>0, <2>1, <2>2, <2>3, <2>4, <2>5 DEF Handle, Patch, Delete
<1> QED BY <1>1, HandleFrame DEF HandInv

(* No handler makes a hand-written client. *)
LEMMA HandNotMade ==
    ASSUME TypeInv, NEW j \in Slot, Handle(j), client'.kind = "hand" PROVE client.kind = "hand"
<1>1. CASE Create(j)
  BY <1>1 DEF Create, Desired, NoClient
<1>2. CASE Patch(j)
  BY <1>2 DEF Patch, Patched, TypeInv, TypeOK, Client
<1>3. CASE Delete(j)
  BY <1>3 DEF Delete, NoClient
<1>4. CASE ListClients(j) \/ Resolve(j) \/ Register(j) \/ FindClient(j)
  BY <1>4 DEF ListClients, Resolve, Register, FindClient
<1> QED BY <1>1, <1>2, <1>3, <1>4 DEF Handle

LEMMA HandStep ==
    TypeInv /\ HandInv /\ [Next]_vars
        => HandInv' /\ (~crossed /\ client.kind = "hand" => client' = client \/ crossed')
<1> SUFFICES ASSUME TypeInv, HandInv, [Next]_vars
             PROVE  HandInv' /\ (~crossed /\ client.kind = "hand" => client' = client \/ crossed')
  OBVIOUS
<1>1. CASE \E j \in Slot : Deliver(j)
  BY <1>1, DeliverFrame DEF HandInv
<1>2. CASE \E j \in Slot : Handle(j)
  <2>1. PICK j \in Slot : Handle(j)
    BY <1>2
  <2>2. CASE ~crossed /\ client.kind = "hand"
    BY <2>1, <2>2, HandHandle
  <2>3. CASE crossed \/ client.kind # "hand"
    BY <2>1, <2>3, HandleFrame, HandNotMade DEF HandInv
  <2> QED BY <2>2, <2>3
<1>3. CASE Reopen
  BY <1>3 DEF Reopen, HandInv
<1>4. CASE Crash
  BY <1>4 DEF Crash, HandInv, Idle
<1>5. CASE EditIngress \/ CreateIngress \/ DeleteIngress
  BY <1>5 DEF EditIngress, CreateIngress, DeleteIngress, HandInv
<1>6. CASE Collect
  BY <1>6 DEF Collect, HandInv, NoClient
<1>7. CASE UserClient
  BY <1>7 DEF UserClient, HandInv, Calm, Busy, NoClient
<1>8. CASE UNCHANGED vars
  BY <1>8 DEF vars, HandInv
<1> QED BY <1>1, <1>2, <1>3, <1>4, <1>5, <1>6, <1>7, <1>8 DEF Next

(* HandKept: whatever overlaps, fails or crashes, no handler changes or     *)
(* deletes an OIDCClient that was there by hand when it began.              *)
THEOREM HandWrittenKept == FairSpec => HandKept
<1>1. Init => HandInv
  BY DEF Init, HandInv, NoClient
<1>2. TypeInv /\ HandInv /\ [Next]_vars
        => [~crossed /\ client.kind = "hand" => client' = client \/ crossed']_vars
  BY HandStep DEF vars
<1> QED BY <1>1, <1>2, TypeInit, TypeStep, HandStep, PTL DEF FairSpec, HandKept

(***************************************************************************)
(* The referencing client.                                                 *)
(***************************************************************************)

RefRight == (ref.ready <=> ingress.host # NoHost) /\ (ref.ready => ref.host = ingress.host)

(* With one handler at a time, the last event has been taken for the        *)
(* referencing client as long as no handler is on its way to it, and what   *)
(* a handler has resolved is the host of the Ingress if no event is left.   *)
RefInv ==
    ~lapped /\ ~failed =>
        /\ \A i, j \in Slot : Busy(i) /\ Busy(j) => i = j
        /\ ingress.uid # 0 /\ events = <<>> =>
              /\ \A j \in Slot : job[j].step = "register" =>
                    job[j].host = ingress.host /\ ingress.host # NoHost
              /\ (\A j \in Slot : job[j].step \notin {"clients", "resolve", "register"}) => RefRight

LEMMA RefHandle ==
    ASSUME TypeInv, RefInv, NEW j \in Slot, Handle(j), ~lapped, ~failed'
    PROVE  RefInv'
<1>0. /\ job[j] \in Job /\ ref \in [host : Hosts, ready : BOOLEAN] /\ ingress \in Ingress
      /\ ~failed /\ UNCHANGED <<ingress, events, lapped>>
      /\ Busy(j) /\ \A i \in Slot \ {j} : ~Busy(i) /\ job'[i] = job[i]
  <2>1. ~failed
    BY DEF Handle, ListClients, Resolve, Register, FindClient, Create, Patch, Delete, Sound, Fault
  <2> QED BY <2>1, HandleFrame DEF RefInv, TypeInv, TypeOK
<1>1. \A i, k \in Slot : Busy(i)' /\ Busy(k)' => i = k
  BY <1>0 DEF Busy
<1>2. SUFFICES ASSUME ingress.uid # 0, events = <<>>
               PROVE  /\ job'[j].step = "register" =>
                            job'[j].host = ingress.host /\ ingress.host # NoHost
                      /\ job'[j].step \notin {"clients", "resolve", "register"} => RefRight'
  BY <1>0, <1>1 DEF RefInv, Busy
<1>3. CASE ListClients(j)
  BY <1>0, <1>3 DEF ListClients, Forced, Fault, Go, TypeInv, TypeOK, Job
<1>4. CASE Resolve(j)
  <2>1. CASE /\ Resolvable(ingress)
             /\ job' = [job EXCEPT ![j].step = "register", ![j].host = ingress.host]
    BY <1>0, <2>1 DEF Resolvable, TypeInv, TypeOK, Job
  <2>2. CASE ~Resolvable(ingress) /\ ref' = [ref EXCEPT !.ready = FALSE] /\ Go(j, "find")
    <3>1. ingress.host = NoHost /\ ~ref'.ready
      BY <1>0, <1>2, <2>2 DEF Resolvable
    <3>2. job'[j].step = "find"
      BY <1>0, <2>2 DEF Go, TypeInv, TypeOK, Job
    <3> QED BY <1>0, <3>1, <3>2 DEF RefRight
  <2> QED BY <1>4, <2>1, <2>2 DEF Resolve, Fault
<1>5. CASE Register(j)
  <2>1. ref' = [host |-> job[j].host, ready |-> TRUE]
    BY <1>5 DEF Register, Fault
  <2>2. job'[j].step = "find"
    BY <1>0, <1>5 DEF Register, TypeInv, TypeOK, Job
  <2>3. job[j].host = ingress.host /\ ingress.host # NoHost
    BY <1>0, <1>2, <1>5 DEF Register, RefInv
  <2> QED BY <1>0, <2>1, <2>2, <2>3 DEF RefRight
<1>6. CASE FindClient(j) \/ Create(j) \/ Patch(j) \/ Delete(j)
  <2>1. job[j].step \notin {"clients", "resolve", "register"} /\ ref' = ref
    BY <1>6 DEF FindClient, Create, Patch, Delete
  <2>2. RefRight
    BY <1>0, <1>2, <2>1 DEF RefInv, Busy
  <2>3. job'[j].step # "register"
    <3>1. CASE FindClient(j)
      BY <1>0, <3>1 DEF FindClient, Todo, Release, Idle, TypeInv, TypeOK, Job
    <3>2. CASE Create(j) \/ Patch(j) \/ Delete(j)
      BY <1>0, <3>2 DEF Create, Patch, Delete, Release, Idle, TypeInv, TypeOK
    <3> QED BY <1>6, <3>1, <3>2
  <2> QED BY <1>0, <2>1, <2>2, <2>3 DEF RefRight
<1> QED BY <1>3, <1>4, <1>5, <1>6 DEF Handle

LEMMA RefStep == TypeInv /\ RefInv /\ [Next]_vars => RefInv'
<1> SUFFICES ASSUME TypeInv, RefInv, [Next]_vars, ~lapped', ~failed' PROVE RefInv'
  BY DEF RefInv
<1>1. CASE \E j \in Slot : Deliver(j)
  BY <1>1, DeliverFrame DEF RefInv, RefRight, Calm, Busy
<1>2. CASE \E j \in Slot : Handle(j)
  BY <1>2, HandleFrame, RefHandle
<1>3. CASE Reopen
  <2>1. ingress.uid # 0 => events' # <<>>
    BY <1>3 DEF Reopen, Replayed
  <2> QED BY <1>3, <2>1 DEF Reopen, RefInv, Busy
<1>4. CASE Crash
  BY <1>4 DEF Crash, Fault
<1>5. CASE EditIngress
  <2>1. events' # <<>>
    BY <1>5 DEF EditIngress, TypeInv, TypeOK
  <2> QED BY <1>5, <2>1 DEF EditIngress, RefInv, Busy
<1>6. CASE CreateIngress
  <2>1. events' # <<>>
    BY <1>6 DEF CreateIngress, TypeInv, TypeOK
  <2> QED BY <1>6, <2>1 DEF CreateIngress, RefInv, Busy
<1>7. CASE DeleteIngress
  BY <1>7 DEF DeleteIngress, NoIngress, RefInv, Busy
<1>8. CASE Collect
  BY <1>8 DEF Collect, RefInv, RefRight, Busy
<1>9. CASE UserClient
  BY <1>9 DEF UserClient, RefInv, RefRight, Busy
<1>10. CASE UNCHANGED vars
  BY <1>10 DEF vars, RefInv, RefRight, Busy
<1> QED
  BY <1>1, <1>2, <1>3, <1>4, <1>5, <1>6, <1>7, <1>8, <1>9, <1>10 DEF Next

(* RefFollows: when every event of the Ingress is handled, a client that    *)
(* refers to it is registered with the host it has, or not Ready.           *)
THEOREM ReferencingFollows == FairSpec => []RefFollows
<1>1. Init => RefInv
  BY DEF Init, RefInv, NoIngress, Busy, Idle
<1>2. TypeInv /\ RefInv => RefFollows
  BY DEF RefInv, RefFollows, RefRight, Calm, Busy
<1> QED BY <1>1, <1>2, TypeInit, TypeStep, RefStep, PTL DEF FairSpec

(***************************************************************************)
(* The generated client.                                                   *)
(***************************************************************************)

Undisturbed == ~lapped /\ ~failed /\ ~crossed /\ ~reused

(* Of this life of the Ingress, and limited only if it is or has been; or of *)
(* the last life if it is deleted.                                          *)
Recent(uid, limited) ==
    /\ uid # 0 /\ ingress.uid \in {0, uid}
    /\ limited /\ ingress.uid # 0 => ingress.limited \/ withdrawn

(* What a handler is about to do is right for the Ingress that it has, and  *)
(* nobody else has touched the client since it looked; only the collector   *)
(* has, if the Ingress is gone.                                             *)
Deciding(j) ==
    LET i == job[j].ing IN
    /\ job[j].step = "create" => Asks(i) /\ client.kind = "none"
    /\ job[j].step = "patch" =>
          /\ Asks(i) /\ job[j].read.kind = "found"
          /\ client = job[j].read \/ (client.kind = "none" /\ ingress.uid = 0)
    /\ job[j].step = "delete" => ~i.asks

EnrollInv ==
    /\ born \in 0 .. MaxUid /\ (ingress.uid = 0 => ingress = NoIngress)
    /\ Undisturbed =>
          /\ \A i, j \in Slot : Busy(i) /\ Busy(j) => i = j
          /\ client.kind = "found" => Recent(client.owner, client.limited)
          /\ \A k \in 1 .. Len(events) : Recent(events[k].uid, events[k].limited)
          /\ ingress.uid # 0 /\ events # <<>> => events[Len(events)] = ingress
          /\ \A j \in Slot : Busy(j) => Recent(job[j].ing.uid, job[j].ing.limited) /\ Deciding(j)
          /\ ingress.uid # 0 /\ events = <<>> =>
                /\ \A j \in Slot : Busy(j) => job[j].ing = ingress
                /\ Calm => InStep

(* What a handler decides in "find" is right. *)
LEMMA FindDecides ==
    ASSUME TypeInv, NEW j \in Slot, FindClient(j), ~failed'
    PROVE  /\ UNCHANGED client
           /\ job'[j].step = Todo(client, job[j].ing)
           /\ job'[j].step # "idle" => job'[j].read = client /\ job'[j].ing = job[j].ing
<1>0. job[j] \in Job
  BY DEF TypeInv, TypeOK
<1>1. job' = IF Todo(client, job[j].ing) = "idle" THEN Release(j)
             ELSE [job EXCEPT ![j].step = Todo(client, job[j].ing), ![j].read = client]
  BY DEF FindClient, Fault
<1> QED BY <1>0, <1>1 DEF FindClient, Release, Idle, TypeInv, TypeOK, Job

(* A step of a handler that leaves the client and does not end it. *)
LEMMA EarlySteps ==
    ASSUME TypeInv, NEW j \in Slot, ListClients(j) \/ Resolve(j) \/ Register(j)
    PROVE  UNCHANGED client /\ job'[j].step \in {"resolve", "register", "find"}
<1>0. job[j] \in Job
  BY DEF TypeInv, TypeOK
<1>1. CASE ListClients(j)
  BY <1>0, <1>1 DEF ListClients, Forced, Go, TypeInv, TypeOK, Job
<1>2. CASE Resolve(j)
  BY <1>0, <1>2 DEF Resolve, Go, TypeInv, TypeOK, Job
<1>3. CASE Register(j)
  BY <1>0, <1>3 DEF Register, TypeInv, TypeOK, Job
<1> QED BY <1>1, <1>2, <1>3

LEMMA EnrollHandle ==
    ASSUME TypeInv, EnrollInv, NEW j \in Slot, Handle(j), Undisturbed'
    PROVE  EnrollInv'
<1>0. /\ Undisturbed /\ UNCHANGED <<ingress, events, born, withdrawn>>
      /\ job[j] \in Job /\ client \in Client /\ ingress \in Ingress
      /\ Busy(j) /\ \A i \in Slot \ {j} : ~Busy(i) /\ job'[i] = job[i]
      /\ Recent(job[j].ing.uid, job[j].ing.limited) /\ Deciding(j)
      /\ client.kind = "found" => Recent(client.owner, client.limited)
      /\ job'[j].ing = job[j].ing \/ ~Busy(j)'
  <2>1. ~failed
    BY DEF Handle, ListClients, Resolve, Register, FindClient, Create, Patch, Delete, Sound, Fault,
           Undisturbed
  <2> QED BY <2>1, HandleFrame DEF EnrollInv, TypeInv, TypeOK, Undisturbed
<1>1. SUFFICES
        /\ (client.kind = "found" => Recent(client.owner, client.limited))'
        /\ Busy(j)' => Deciding(j)'
        /\ ingress.uid # 0 /\ events = <<>> /\ ~Busy(j)' => InStep'
  BY <1>0 DEF EnrollInv, Recent, Busy, Calm
<1>2. ingress.uid # 0 /\ events = <<>> => job[j].ing = ingress
  BY <1>0 DEF EnrollInv
<1>3. CASE ListClients(j) \/ Resolve(j) \/ Register(j)
  BY <1>0, <1>3, EarlySteps DEF Deciding, Busy, Recent
<1>4. CASE FindClient(j)
  <2>1. /\ UNCHANGED client /\ job'[j].step = Todo(client, job[j].ing)
        /\ job'[j].step # "idle" => job'[j].read = client /\ job'[j].ing = job[j].ing
    BY <1>4, FindDecides DEF Undisturbed
  <2>2. Busy(j)' => Deciding(j)'
    BY <2>1 DEF Deciding, Todo, Asks, IsDiscovered, Busy
  <2>3. ASSUME ingress.uid # 0, events = <<>>, ~Busy(j)' PROVE InStep'
    <3>1. job[j].ing = ingress /\ Todo(client, ingress) = "idle"
      BY <1>2, <2>1, <2>3 DEF Busy
    <3>2. CASE ~ingress.asks
      BY <1>0, <2>1, <3>1, <3>2 DEF InStep, Asks, Todo, IsDiscovered, Client
    <3>3. CASE ingress.asks /\ ingress.host = NoHost
      BY <1>0, <2>1, <3>3 DEF InStep, Asks
    <3>4. CASE ingress.asks /\ ingress.host # NoHost
      <4>1. client.kind = "hand" \/ (client.kind = "found" /\ Desired(client, ingress) = client)
        BY <1>0, <3>1, <3>4 DEF Todo, IsDiscovered, Client
      <4>2. client.kind = "found" => client.host = ingress.host /\ client.owner = ingress.uid
        BY <1>0, <2>3, <4>1 DEF Desired, Client, Recent
      <4>3. client.kind = "found" => Desired(client, ingress).limited = (client.limited \/ ingress.limited)
        BY <1>0 DEF Desired, Client
      <4>4. client.kind = "found" /\ ingress.limited => client.limited
        BY <4>1, <4>3
      <4> QED BY <1>0, <2>1, <3>4, <4>1, <4>2, <4>4 DEF InStep, Asks, Describes
    <3> QED BY <3>2, <3>3, <3>4
  <2> QED BY <1>0, <2>1, <2>2, <2>3 DEF Recent
<1>5. CASE Create(j)
  <2>1. /\ client.kind = "none" /\ Asks(job[j].ing) /\ ~Busy(j)'
        /\ client' = Desired([NoClient EXCEPT !.kind = "found", !.owner = job[j].ing.uid], job[j].ing)
    BY <1>0, <1>5 DEF Create, Deciding, Undisturbed, Fault, Release, Idle, Busy, TypeInv, TypeOK
  <2>2. /\ client'.kind = "found" /\ client'.owner = job[j].ing.uid
        /\ client'.host = job[j].ing.host /\ client'.limited = job[j].ing.limited
    BY <1>0, <2>1 DEF Desired, NoClient, Job, Ingress
  <2> QED BY <1>0, <1>2, <2>1, <2>2 DEF InStep, Asks, Describes, Recent
<1>6. CASE Patch(j)
  <2> DEFINE new == Desired(job[j].read, job[j].ing)
  <2>1. /\ Asks(job[j].ing) /\ ~Busy(j)' /\ job[j].read \in Client /\ job[j].ing \in Ingress
        /\ client = job[j].read \/ (client.kind = "none" /\ ingress.uid = 0)
        /\ client' = IF client.kind = "none" THEN client ELSE Patched(client, job[j].read, new)
    BY <1>0, <1>6 DEF Patch, Deciding, Undisturbed, Fault, Release, Idle, Busy, Job, TypeInv, TypeOK
  <2>2. new.host = job[j].ing.host /\ new.limited = (job[j].read.limited \/ job[j].ing.limited)
    BY <2>1 DEF Desired, Client
  <2>3. client.kind = "none" => client' = client /\ ingress.uid = 0
    BY <1>0, <1>6, <2>1 DEF Deciding, Patch
  <2>4. ASSUME client.kind # "none"
        PROVE  /\ client'.kind = "found" /\ client.kind = "found" /\ client'.owner = client.owner
               /\ client'.host = job[j].ing.host
               /\ client'.limited = (client.limited \/ job[j].ing.limited)
    <3>1. client = job[j].read /\ client.kind = "found" /\ client' = Patched(client, client, new)
      BY <1>0, <1>6, <2>1, <2>4 DEF Deciding, Patch
    <3>2. Patched(client, client, new) \in Client
      BY <2>1, <2>2, <3>1 DEF Patched, Client, Ingress
    <3>3. /\ client'.kind = client.kind /\ client'.owner = client.owner
          /\ client'.host = IF new.host # client.host THEN new.host ELSE client.host
          /\ client'.limited = (client.limited \/ (new.limited /\ ~client.limited))
      BY <1>0, <3>1 DEF Patched, Client
    <3> QED BY <1>0, <2>1, <2>2, <3>1, <3>3 DEF Client, Ingress
  <2> HIDE DEF new
  <2>5. (client.kind = "found" => Recent(client.owner, client.limited))'
    BY <1>0, <2>3, <2>4 DEF Recent
  <2>6. ASSUME ingress.uid # 0, events = <<>> PROVE InStep'
    BY <1>0, <1>2, <2>1, <2>3, <2>4, <2>6 DEF InStep, Asks, Describes, Recent
  <2> QED BY <2>1, <2>5, <2>6
<1>7. CASE Delete(j)
  <2>1. client' = NoClient /\ ~Busy(j)' /\ ~job[j].ing.asks
    BY <1>0, <1>7 DEF Delete, Deciding, Undisturbed, Fault, Release, Idle, Busy, TypeInv, TypeOK
  <2> QED BY <1>0, <1>2, <2>1 DEF InStep, Asks, NoClient
<1> QED BY <1>3, <1>4, <1>5, <1>6, <1>7 DEF Handle

(* Taking the head away leaves the last event the last. *)
LEMMA LastOfTail ==
    ASSUME NEW s \in Seq(Ingress), s # <<>>
    PROVE  /\ Tail(s) = <<>> => Head(s) = s[Len(s)]
           /\ Tail(s) # <<>> => Tail(s)[Len(Tail(s))] = s[Len(s)]
<1>1. Len(s) \in Nat /\ Len(s) >= 1 /\ Len(Tail(s)) = Len(s) - 1 /\ Tail(s) \in Seq(Ingress)
  OBVIOUS
<1>2. CASE Tail(s) = <<>>
  <2>1. Len(<<>>) = 0
    OBVIOUS
  <2>2. Len(Tail(s)) = Len(<<>>)
    BY <1>2, Zenon
  <2>3. Len(s) - 1 = 0 /\ \A n \in Nat : n - 1 = 0 => n = 1
    <3>1. Len(s) - 1 = 0
      BY <1>1, <2>1, <2>2, Zenon
    <3> QED BY <3>1
  <2>4. Len(s) = 1
    BY <1>1, <2>3, Zenon
  <2>5. Head(s) = s[1]
    OBVIOUS
  <2> QED BY <1>2, <2>4, <2>5
<1>3. CASE Tail(s) # <<>>
  <2>1. Len(Tail(s)) \in 1 .. Len(Tail(s))
    BY <1>1, <1>3
  <2>2. Tail(s)[Len(Tail(s))] = s[Len(Tail(s)) + 1]
    BY <1>1, <2>1
  <2> QED BY <1>1, <1>3, <2>2
<1> QED BY <1>2, <1>3

LEMMA EnrollDeliver ==
    ASSUME TypeInv, EnrollInv, NEW j \in Slot, Deliver(j), Undisturbed' PROVE EnrollInv'
<1>1. /\ Undisturbed /\ Calm /\ events \in Seq(Ingress) /\ events # <<>>
      /\ job'[j].step = "clients" /\ job'[j].ing = Head(events)
      /\ \A i \in Slot \ {j} : job'[i] = job[i]
      /\ UNCHANGED <<ingress, client, born, withdrawn>> /\ events' = Tail(events)
  BY DeliverFrame DEF Deliver, Undisturbed, TypeInv, TypeOK
<1>2. /\ Recent(Head(events).uid, Head(events).limited)
      /\ \A k \in 1 .. Len(Tail(events)) : Recent(Tail(events)[k].uid, Tail(events)[k].limited)
  BY <1>1 DEF EnrollInv
<1>3. ingress.uid # 0 =>
         /\ Tail(events) = <<>> => Head(events) = ingress
         /\ Tail(events) # <<>> => Tail(events)[Len(Tail(events))] = ingress
  BY <1>1, LastOfTail DEF EnrollInv
<1>4. \A i, k \in Slot : Busy(i)' /\ Busy(k)' => i = k
  BY <1>1 DEF Calm, Busy
<1>5. \A i \in Slot : Busy(i)' => i = j
  BY <1>1 DEF Calm, Busy
<1>6. Busy(j)' /\ Deciding(j)'
  BY <1>1 DEF Busy, Deciding
<1> QED BY <1>1, <1>2, <1>3, <1>4, <1>5, <1>6 DEF EnrollInv, Recent, Calm

(* A new event is of the Ingress as it is. *)
LEMMA Announced ==
    ASSUME TypeInv, ingress' \in Ingress, events' = Append(events, ingress'),
           \A k \in 1 .. Len(events) : ingress'.uid = events[k].uid
    PROVE  /\ events' # <<>> /\ events'[Len(events')] = ingress'
           /\ \A k \in 1 .. Len(events') : events'[k].uid = ingress'.uid
           /\ \A k \in 1 .. Len(events') :
                 events'[k] = ingress' \/ (k \in 1 .. Len(events) /\ events'[k] = events[k])
BY DEF TypeInv, TypeOK

LEMMA EnrollEdit == ASSUME TypeInv, EnrollInv, EditIngress, Undisturbed' PROVE EnrollInv'
<1>1. /\ ingress.uid # 0 /\ ingress' \in Ingress /\ ingress'.uid = ingress.uid
      /\ events' = Append(events, ingress')
      /\ ingress.limited \/ withdrawn => ingress'.limited \/ withdrawn'
      /\ UNCHANGED <<client, ref, job, born, lapped, failed, crossed, reused>>
  BY DEF EditIngress
<1>2. Undisturbed /\ \A k \in 1 .. Len(events) : ingress'.uid = events[k].uid
  BY <1>1 DEF EnrollInv, Undisturbed, Recent
<1>3. /\ events' # <<>> /\ events'[Len(events')] = ingress'
      /\ \A k \in 1 .. Len(events') : events'[k].uid = ingress'.uid
      /\ \A k \in 1 .. Len(events') :
            events'[k] = ingress' \/ (k \in 1 .. Len(events) /\ events'[k] = events[k])
  BY <1>1, <1>2, Announced
<1>4. Recent(ingress.uid, ingress.limited)'
  BY <1>1 DEF Recent
<1>5. \A k \in 1 .. Len(events') : Recent(events[k].uid, events[k].limited)'
  <2> SUFFICES ASSUME NEW k \in 1 .. Len(events') PROVE Recent(events[k].uid, events[k].limited)'
    OBVIOUS
  <2>1. CASE events'[k] = ingress'
    BY <1>4, <2>1 DEF Recent
  <2>2. CASE k \in 1 .. Len(events) /\ events'[k] = events[k]
    <3>1. Recent(events[k].uid, events[k].limited)
      BY <1>2, <2>2 DEF EnrollInv
    <3> QED BY <1>1, <2>2, <3>1 DEF Recent
  <2> QED BY <1>3, <2>1, <2>2
<1>6. client.kind = "found" => Recent(client.owner, client.limited)'
  BY <1>1, <1>2 DEF EnrollInv, Recent
<1>7. \A j \in Slot : Busy(j) => Recent(job[j].ing.uid, job[j].ing.limited)'
  BY <1>1, <1>2 DEF EnrollInv, Recent
<1>8. \A j \in Slot : Busy(j) => Deciding(j)'
  BY <1>1, <1>2 DEF EnrollInv, Deciding
<1> QED BY <1>1, <1>2, <1>3, <1>5, <1>6, <1>7, <1>8 DEF EnrollInv, Busy

LEMMA EnrollCreate == ASSUME TypeInv, EnrollInv, CreateIngress, Undisturbed' PROVE EnrollInv'
<1>0. Undisturbed /\ client.kind # "found" /\ events = <<>> /\ Calm
  BY DEF CreateIngress, Undisturbed
<1>1. /\ born \in Nat /\ born < MaxUid /\ born' = born + 1
      /\ ingress' \in Ingress /\ ingress'.uid = born + 1 /\ events' = Append(events, ingress')
      /\ Undisturbed /\ client.kind # "found" /\ events = <<>> /\ Calm
      /\ UNCHANGED <<client, ref, job>>
  BY <1>0, DiscoveryAssumption DEF CreateIngress, EnrollInv
<1>2. \A k \in 1 .. Len(events) : ingress'.uid = events[k].uid
  BY <1>1
<1>3. /\ events' # <<>> /\ events'[Len(events')] = ingress'
      /\ \A k \in 1 .. Len(events') : events'[k] = ingress'
  BY <1>1, <1>2, Announced
<1>4. born' \in 0 .. MaxUid /\ ingress'.uid # 0
  BY <1>1, DiscoveryAssumption
<1>5. \A k \in 1 .. Len(events') : Recent(events[k].uid, events[k].limited)'
  BY <1>3, <1>4 DEF Recent
<1>6. \A j \in Slot : ~Busy(j)'
  BY <1>1 DEF Calm, Busy
<1> QED BY <1>1, <1>3, <1>4, <1>5, <1>6 DEF EnrollInv

LEMMA EnrollStep == TypeInv /\ EnrollInv /\ [Next]_vars => EnrollInv'
<1> SUFFICES ASSUME TypeInv, EnrollInv, [Next]_vars PROVE EnrollInv'
  OBVIOUS
<1>0. born' \in 0 .. MaxUid /\ (ingress'.uid = 0 => ingress' = NoIngress)
  <2>1. CASE \E j \in Slot : Handle(j)
    BY <2>1, HandleFrame DEF EnrollInv
  <2>2. CASE CreateIngress
    BY <2>2, DiscoveryAssumption DEF CreateIngress, EnrollInv
  <2>3. CASE EditIngress \/ DeleteIngress
    BY <2>3 DEF EditIngress, DeleteIngress, EnrollInv
  <2>4. CASE (\E j \in Slot : Deliver(j)) \/ Reopen \/ Crash \/ Collect \/ UserClient \/ UNCHANGED vars
    BY <2>4 DEF Deliver, Reopen, Crash, Collect, UserClient, vars, EnrollInv
  <2> QED BY <2>1, <2>2, <2>3, <2>4 DEF Next
<1> SUFFICES ASSUME Undisturbed' PROVE EnrollInv'
  BY <1>0 DEF EnrollInv
<1>1. CASE \E j \in Slot : Deliver(j)
  BY <1>1, EnrollDeliver
<1>2. CASE \E j \in Slot : Handle(j)
  BY <1>2, EnrollHandle
<1>3. CASE Reopen
  <2>1. /\ UNCHANGED <<ingress, client, job, born, lapped, failed, crossed, reused, withdrawn>> /\ Undisturbed
        /\ events' = Replayed
    BY <1>3 DEF Reopen, Undisturbed
  <2>2. /\ ingress.uid = 0 => events' = <<>>
        /\ ingress.uid # 0 => /\ events' # <<>> /\ events'[Len(events')] = ingress
                              /\ \A k \in 1 .. Len(events') : events'[k] = ingress
    BY <2>1 DEF Replayed
  <2>3. \A k \in 1 .. Len(events') : Recent(events[k].uid, events[k].limited)'
    BY <2>1, <2>2 DEF Recent
  <2> QED BY <2>1, <2>2, <2>3 DEF EnrollInv, Recent, Busy, Deciding
<1>4. CASE Crash
  BY <1>4 DEF Crash, Fault, Undisturbed
<1>5. CASE EditIngress
  BY <1>5, EnrollEdit
<1>6. CASE CreateIngress
  BY <1>6, EnrollCreate
<1>7. CASE DeleteIngress
  BY <1>0, <1>7 DEF DeleteIngress, NoIngress, EnrollInv, Undisturbed, Recent, Busy, Deciding
<1>8. CASE Collect
  <2>1. /\ Undisturbed /\ client.kind = "found" /\ client' = NoClient /\ ingress.uid = 0
        /\ UNCHANGED <<ingress, events, job, born>>
    BY <1>8 DEF Collect, EnrollInv, Undisturbed, Recent
  <2> QED BY <2>1 DEF EnrollInv, Recent, Busy, Deciding, NoClient
<1>9. CASE UserClient
  <2>1. /\ Undisturbed /\ Calm /\ client.kind = "none" /\ client'.kind = "hand"
        /\ UNCHANGED <<ingress, events, job, born, withdrawn>>
    BY <1>9 DEF UserClient, Undisturbed, NoClient
  <2> QED BY <2>1 DEF EnrollInv, Recent, Busy, Calm, InStep
<1>10. CASE UNCHANGED vars
  BY <1>10 DEF vars, EnrollInv, Undisturbed, Recent, Busy, Calm, Deciding, InStep, Describes
<1> QED
  BY <1>1, <1>2, <1>3, <1>4, <1>5, <1>6, <1>7, <1>8, <1>9, <1>10 DEF Next

(* Enrolled: edits that are handled one at a time, none failing, leave the  *)
(* generated client as the annotations describe it, and none without them.  *)
THEOREM GeneratedFollows == FairSpec => []Enrolled
<1>1. Init => EnrollInv
  BY DiscoveryAssumption DEF Init, EnrollInv, NoClient, NoIngress, Busy, Idle, Recent
<1>2. TypeInv /\ EnrollInv => Enrolled
  <2> SUFFICES ASSUME EnrollInv, Undisturbed, Calm, events = <<>> PROVE InStep
    BY DEF Enrolled, AtRest, Undisturbed, EnrollInv, Recent
  <2>1. CASE ingress.uid # 0
    BY <2>1 DEF EnrollInv
  <2>2. CASE ingress.uid = 0
    BY <2>2 DEF EnrollInv, InStep, Asks, NoIngress, Recent
  <2> QED BY <2>1, <2>2
<1> QED BY <1>1, <1>2, TypeInit, TypeStep, EnrollStep, PTL DEF FairSpec
=============================================================================
