---------------------------- MODULE ClientOperator ----------------------------
(***************************************************************************)
(* One OIDCClient resource, projected by the client operator of every      *)
(* replica that believes it leads: from the custom resource to a           *)
(* Kubernetes Secret and to the Redis record that serves logins.           *)
(*                                                                         *)
(* The watch callback is not awaited between events, so several reconciles *)
(* of the client are in flight at once, in one process and in several;     *)
(* every await of a reconcile is a step of its own here.  Names follow     *)
(* src/src/operators/kube-oidc-client-operator.js.                         *)
(***************************************************************************)
EXTENDS Integers, Sequences, FiniteSets

CONSTANTS
    Pod,          \* processes (more than one: overlapping leaders, or no election)
    Slot,         \* bound: reconciles one process has in flight at once
    Kind,         \* the kinds of spec the resource's author writes
    MaxUid,       \* bound: times the resource is created
    MaxGen,       \* bound: metadata.generation of one incarnation
    MaxTouch,     \* bound: writes of the resource by others (labels, activity)
    MaxReconnect, \* bound: watches that end and reconnect
    MaxCrash,     \* bound: processes that die
    MaxHandover,  \* bound: processes that lose the operator lease
    MaxWipe,      \* bound: losses of the Redis data
    MaxFailure,   \* bound: failed API and Redis calls
    Foreign       \* whether a second Passmower claims clients in this cluster

Kinds == {"confidential", "public", "disabled", "invalid"}

ASSUME ClientOperatorAssumption ==
    /\ Kind \subseteq Kinds
    /\ Foreign \in BOOLEAN
    /\ {MaxUid, MaxGen, MaxTouch, MaxReconnect, MaxCrash, MaxHandover, MaxWipe, MaxFailure} \subseteq Nat

VARIABLES
    watching,  \* processes whose operators run
    cr,        \* the OIDCClient in the API server; uid 0 when it does not exist
    secret,    \* its Kubernetes Secret; uid 0 when it does not exist
    rec,       \* its record in Redis; uid 0 when it does not exist
    listed,    \* whether the Clients set in Redis names it
    marker,    \* whether the wipe marker is in Redis
    queue,     \* watch events not yet delivered, per process
    fp,        \* ClientReconcileState.fingerprints, per process; 0 when absent
    job,       \* the reconciles in flight
    pipe,      \* reconciles whose second Redis command is on the wire, per process
    sweep,     \* where the ClientRedisReconciler sweep of a process is
    last,      \* counters: last uid, resourceVersion and client_secret given out
    spent,     \* how much of each bound is used
    calm       \* history: every outside change so far met an idle system

vars == <<watching, cr, secret, rec, listed, marker, queue, fp, job, pipe, sweep, last, spent, calm>>
k8s == <<cr, secret>>
redis == <<rec, listed, marker>>

-----------------------------------------------------------------------------
(* Data. A client's spec is its kind and its generation: the fingerprint    *)
(* {generation, description} is the generation.                             *)

NoClient == [uid |-> 0, gen |-> 0, kind |-> "disabled", instance |-> "none",
             ready |-> "none", rv |-> 0]
NoSecret == [uid |-> 0, gen |-> 0, cs |-> 0]
NoRecord == [uid |-> 0, gen |-> 0, cs |-> 0]
Idle == [pc |-> "idle", via |-> "none", obj |-> NoClient, seen |-> NoSecret,
         cs |-> 0, out |-> "none"]

Instances == {"none", "us", "them"}
Readiness == {"none", "Reconciled", "Disabled", "Failed"}
Client == [uid : Nat, gen : Nat, kind : Kinds, instance : Instances,
           ready : Readiness, rv : Nat]
Projection == [uid : Nat, gen : Nat, cs : Nat]
Event == [type : {"ADDED", "MODIFIED", "DELETED"}, obj : Client]
Steps == {"idle", "find", "claim", "secret", "create", "reread", "patch",
          "upsert", "sadd", "destroy", "srem", "report"}
Job == [pc : Steps, via : {"none", "added", "modified", "deleted"}, obj : Client,
        seen : Projection, cs : Nat, out : Readiness]
Worker == Slot \cup {"sweep"}

Exists == cr.uid # 0
Busy(p, s) == job[p][s].pc # "idle"

(* Nothing is in flight, queued or waiting to be noticed. *)
Settled ==
    /\ \A p \in Pod : queue[p] = <<>> /\ sweep[p] = "idle" /\ \A s \in Slot : ~Busy(p, s)
    /\ watching # {}
    /\ marker
    /\ secret.uid \in {0, cr.uid}

Init ==
    /\ watching = Pod
    /\ cr = NoClient
    /\ secret = NoSecret
    /\ rec = NoRecord
    /\ listed = FALSE
    /\ marker = TRUE
    /\ queue = [p \in Pod |-> <<>>]
    /\ fp = [p \in Pod |-> 0]
    /\ job = [p \in Pod |-> [s \in Slot |-> Idle]]
    /\ pipe = [p \in Pod |-> <<>>]
    /\ sweep = [p \in Pod |-> "idle"]
    /\ last = [uid |-> 0, rv |-> 0, cs |-> 0]
    /\ spent = [touch |-> 0, reconnect |-> 0, crash |-> 0, handover |-> 0, wipe |-> 0, failure |-> 0]
    /\ calm = TRUE

-----------------------------------------------------------------------------
(* The API server: every change of the resource gets a new resourceVersion  *)
(* and reaches every watch as an event, in order.                           *)

Publish(type, obj) ==
    queue' = [p \in Pod |->
                 IF p \in watching THEN Append(queue[p], [type |-> type, obj |-> obj]) ELSE <<>>]

Relisted == IF Exists THEN <<[type |-> "ADDED", obj |-> cr]>> ELSE <<>>

Store(type, obj) ==
    /\ cr' = [obj EXCEPT !.rv = last.rv + 1]
    /\ last' = [last EXCEPT !.rv = @ + 1, !.uid = obj.uid]
    /\ Publish(type, cr')

NoteDisturbance == calm' = (calm /\ Settled)

CreateClient ==
    /\ ~Exists /\ last.uid < MaxUid
    /\ \E k \in Kind :
         Store("ADDED", [NoClient EXCEPT !.uid = last.uid + 1, !.gen = 1, !.kind = k])
    /\ NoteDisturbance
    /\ UNCHANGED <<watching, secret, redis, fp, job, pipe, sweep, spent>>

EditSpec ==
    /\ Exists /\ cr.gen < MaxGen
    /\ \E k \in Kind : Store("MODIFIED", [cr EXCEPT !.gen = @ + 1, !.kind = k])
    /\ NoteDisturbance
    /\ UNCHANGED <<watching, secret, redis, fp, job, pipe, sweep, spent>>

DeleteClient ==
    /\ Exists
    /\ cr' = NoClient
    /\ Publish("DELETED", cr)
    /\ NoteDisturbance
    /\ UNCHANGED <<watching, secret, redis, fp, job, pipe, sweep, last, spent>>

(* A write that moves resourceVersion and not generation: a label, or the   *)
(* activity an ActivityTracker projects onto status.                        *)
TouchClient ==
    /\ Exists /\ spent.touch < MaxTouch
    /\ Store("MODIFIED", cr)
    /\ spent' = [spent EXCEPT !.touch = @ + 1]
    /\ NoteDisturbance
    /\ UNCHANGED <<watching, secret, redis, fp, job, pipe, sweep>>

(* Another Passmower's operator claims the client. *)
ForeignClaim ==
    /\ Foreign /\ Exists /\ cr.instance = "none"
    /\ Store("MODIFIED", [cr EXCEPT !.instance = "them"])
    /\ UNCHANGED <<watching, secret, redis, fp, job, pipe, sweep, spent, calm>>

(* Kubernetes collects a Secret whose owner is gone. *)
CollectSecret ==
    /\ secret.uid \notin {0, cr.uid}
    /\ secret' = NoSecret
    /\ UNCHANGED <<watching, cr, redis, queue, fp, job, pipe, sweep, last, spent, calm>>

-----------------------------------------------------------------------------
(* Processes. *)

(* The watch ends and reconnects: what was not delivered is lost, and the   *)
(* LIST the new watch opens with reports the resource as ADDED.             *)
Reconnect(p) ==
    /\ p \in watching
    /\ spent.reconnect < MaxReconnect
    /\ spent' = [spent EXCEPT !.reconnect = @ + 1]
    /\ queue' = [queue EXCEPT ![p] = Relisted]
    /\ UNCHANGED <<watching, k8s, redis, fp, job, pipe, sweep, last, calm>>

(* restartOnRedisWipe and startWatches: new operators, so no fingerprints,   *)
(* whose watches open with a LIST, and the wipe marker is written.           *)
(* Reconciles of the operators they replace go on.                           *)
StartWatches(p) ==
    /\ queue' = [queue EXCEPT ![p] = IF p \in watching' THEN Relisted ELSE <<>>]
    /\ fp' = [fp EXCEPT ![p] = 0]
    /\ marker' = (marker \/ p \in watching')

(* The process dies and another takes its place. *)
Crash(p) ==
    /\ spent.crash < MaxCrash
    /\ spent' = [spent EXCEPT !.crash = @ + 1]
    /\ UNCHANGED watching
    /\ StartWatches(p)
    /\ job' = [job EXCEPT ![p] = [s \in Slot |-> Idle]]
    /\ pipe' = [pipe EXCEPT ![p] = <<>>]
    /\ sweep' = [sweep EXCEPT ![p] = "idle"]
    /\ UNCHANGED <<k8s, rec, listed, last, calm>>

(* onStoppedLeading: the watch, the sweep and the wipe check are stopped,    *)
(* what is in flight goes on.                                                *)
StandDown(p) ==
    /\ p \in watching /\ spent.handover < MaxHandover
    /\ spent' = [spent EXCEPT !.handover = @ + 1]
    /\ watching' = watching \ {p}
    /\ queue' = [queue EXCEPT ![p] = <<>>]
    /\ UNCHANGED <<k8s, redis, fp, job, pipe, sweep, last, calm>>

(* onStartedLeading. *)
TakeOver(p) ==
    /\ p \notin watching
    /\ watching' = watching \cup {p}
    /\ StartWatches(p)
    /\ UNCHANGED <<k8s, rec, listed, job, pipe, sweep, last, spent, calm>>

WipeRedis ==
    /\ spent.wipe < MaxWipe
    /\ spent' = [spent EXCEPT !.wipe = @ + 1]
    /\ rec' = NoRecord
    /\ listed' = FALSE
    /\ marker' = FALSE
    /\ UNCHANGED <<watching, k8s, queue, fp, job, pipe, sweep, last, calm>>

(* Mutant: the marker is written again and nothing is replayed. *)
DetectWipeOnlyMarks(p) ==
    /\ p \in watching /\ ~marker
    /\ marker' = TRUE
    /\ UNCHANGED <<watching, k8s, rec, listed, queue, fp, job, pipe, sweep, last, spent, calm>>

(* RedisWipeDetector.check: mark first, then stop and start the watches. *)
DetectWipe(p) ==
    /\ p \in watching /\ ~marker
    /\ UNCHANGED watching
    /\ StartWatches(p)
    /\ UNCHANGED <<k8s, rec, listed, job, pipe, sweep, last, spent, calm>>

-----------------------------------------------------------------------------
(* The start of a reconcile: the synchronous part of the watch callback.    *)

(* Mutant: two arguments swapped. *)
StartSwapped(pc, via, obj) == [Idle EXCEPT !.pc = via, !.via = pc, !.obj = obj]

Start(pc, via, obj) == [Idle EXCEPT !.pc = pc, !.via = via, !.obj = obj]

Report(j, out) == [j EXCEPT !.pc = "report", !.out = out]

(* #createOIDCClient up to its first await. The claimMappings of a client   *)
(* are checked before whose client it is.                                   *)
OnAdded(o, replayed) ==
    LET j == Start("secret", "added", o) IN
    IF o.kind = "invalid" THEN Report(j, "Failed")
    ELSE CASE o.instance = "us" -> IF replayed THEN [j EXCEPT !.pc = "find"] ELSE j
           [] o.instance = "none" -> [j EXCEPT !.pc = "claim"]
           [] o.instance = "them" -> Idle

(* Mutant: the disabled flag is not looked at. *)
UpdateAlways(o) == Start("secret", "modified", o)

(* #updateOIDCClient once the client is known to be ours. The one-second    *)
(* debounce is how long the reconcile may sit in "secret".                  *)
Update(o) ==
    LET j == Start("secret", "modified", o) IN
    CASE o.kind = "invalid" -> Report(j, "Failed")
      [] o.kind = "disabled" -> [j EXCEPT !.pc = "destroy"]
      [] OTHER -> j

(* Mutant: whose client it is is not looked at. *)
OnModifiedOfAnyone(o, current) == IF current THEN Idle ELSE Update(o)

OnModified(o, current) ==
    IF current \/ o.instance = "them" THEN Idle
    ELSE IF o.instance = "us" THEN Update(o)
    ELSE Start("claim", "modified", o)

OnDeleted(o) == IF o.instance = "us" THEN Start("destroy", "deleted", o) ELSE Idle

Deliver(p) ==
    /\ queue[p] # <<>>
    /\ LET e == Head(queue[p])
           current == (fp[p] = e.obj.gen)
           j == CASE e.type = "ADDED" -> OnAdded(e.obj, current)
                  [] e.type = "MODIFIED" -> OnModified(e.obj, current)
                  [] e.type = "DELETED" -> OnDeleted(e.obj)
       IN  /\ fp' = [fp EXCEPT ![p] = IF e.type = "DELETED" THEN 0 ELSE e.obj.gen]
           /\ \/ j = Idle /\ UNCHANGED job
              \/ j # Idle /\ \E s \in Slot : ~Busy(p, s) /\ job' = [job EXCEPT ![p][s] = j]
    /\ queue' = [queue EXCEPT ![p] = Tail(@)]
    /\ UNCHANGED <<watching, k8s, redis, pipe, sweep, last, spent, calm>>

-----------------------------------------------------------------------------
(* The awaits of a reconcile.                                               *)

Become(p, s, j) == job' = [job EXCEPT ![p][s] = j]
At(p, s, pc) == job[p][s].pc = pc

(* A call fails: the throw ends in reportFailure, or for a delete, which has *)
(* no resource to report on, in a log line.                                  *)
Throw(j) == IF j.via = "deleted" THEN Idle ELSE Report(j, "Failed")

CallFails ==
    /\ spent.failure < MaxFailure
    /\ spent' = [spent EXCEPT !.failure = @ + 1]
    /\ calm' = FALSE

(* What follows once the Secret is settled. *)
AfterSecret(j) ==
    IF j.via = "modified" THEN [j EXCEPT !.pc = "upsert"]
    ELSE IF j.obj.kind = "disabled" THEN [j EXCEPT !.pc = "destroy"]
    ELSE IF j.cs # 0 THEN [j EXCEPT !.pc = "upsert"]
    ELSE Report(j, "Reconciled")

(* Mutant: a status write without a resourceVersion. *)
MatchesAnyVersion(o) == cr.uid = o.uid

(* #replaceClientStatus: the write lands only on the resourceVersion the    *)
(* reconcile read; a write that changes nothing moves nothing.              *)
Matches(o) == cr.uid = o.uid /\ cr.rv = o.rv
Status(o, ready) == [cr EXCEPT !.instance = "us", !.ready = ready]

ReplaceClientStatus(o, ready) ==
    IF Matches(o) /\ Status(o, ready) # cr
    THEN Store("MODIFIED", Status(o, ready))
    ELSE UNCHANGED <<cr, last, queue>>

(* Mutant: the reconcile goes on whether or not its claim won. *)
ClaimUnchecked(p, s) ==
    LET o == job[p][s].obj IN
    /\ At(p, s, "claim")
    /\ ReplaceClientStatus(o, o.ready)
    /\ Become(p, s, IF job[p][s].via = "added" THEN Start("secret", "added", o) ELSE Update(o))
    /\ UNCHANGED <<watching, secret, redis, fp, pipe, sweep, spent, calm>>

Claim(p, s) ==
    LET o == job[p][s].obj IN
    /\ At(p, s, "claim")
    /\ \/ /\ Matches(o)
          /\ ReplaceClientStatus(o, o.ready)
          /\ LET claimed == cr' IN
             Become(p, s, IF job[p][s].via = "added" THEN Start("secret", "added", claimed)
                          ELSE Update(claimed))
          /\ UNCHANGED <<spent, calm>>
       \/ /\ ~Matches(o)
          /\ Become(p, s, Idle)
          /\ UNCHANGED <<cr, last, queue, spent, calm>>
       \/ /\ CallFails
          /\ Become(p, s, Idle)
          /\ UNCHANGED <<cr, last, queue>>
    /\ UNCHANGED <<watching, secret, redis, fp, pipe, sweep>>

(* redisAdapter.find of a replayed client. *)
FindRecord(p, s) ==
    /\ At(p, s, "find")
    /\ \/ /\ Become(p, s, IF rec = NoRecord THEN [job[p][s] EXCEPT !.pc = "secret"]
                          ELSE AfterSecret(job[p][s]))
          /\ UNCHANGED <<spent, calm>>
       \/ CallFails /\ Become(p, s, Throw(job[p][s]))
    /\ UNCHANGED <<watching, k8s, redis, queue, fp, pipe, sweep, last>>

(* Mutant: every reconcile installs its own secret, as before #236. *)
AdoptNothing(p, s) ==
    /\ last' = [last EXCEPT !.cs = @ + 1]
    /\ Become(p, s, [job[p][s] EXCEPT !.pc = "patch", !.seen = secret, !.cs = last.cs + 1])

(* #adoptKubeSecret up to its patch. *)
Adopt(p, s) ==
    LET j == [job[p][s] EXCEPT !.pc = "patch", !.seen = secret] IN
    IF secret.cs # 0 \/ j.obj.kind = "public"
    THEN Become(p, s, [j EXCEPT !.cs = secret.cs]) /\ UNCHANGED last
    ELSE /\ last' = [last EXCEPT !.cs = @ + 1]
         /\ Become(p, s, [j EXCEPT !.cs = last.cs + 1])

(* generateSecret before a create. *)
Issue(p, s) ==
    /\ last' = [last EXCEPT !.cs = @ + 1]
    /\ Become(p, s, [job[p][s] EXCEPT !.pc = "create", !.cs = last.cs + 1])

(* getSecret reports a failed read as it does an absent Secret. *)
GetSecret(p, s) ==
    /\ At(p, s, "secret")
    /\ \/ secret # NoSecret /\ Adopt(p, s) /\ UNCHANGED <<spent, calm>>
       \/ secret = NoSecret /\ Issue(p, s) /\ UNCHANGED <<spent, calm>>
       \/ secret # NoSecret /\ CallFails /\ Issue(p, s)
    /\ UNCHANGED <<watching, k8s, redis, queue, fp, pipe, sweep>>

(* What toClientSecret holds under OIDC_CLIENT_SECRET. *)
SecretValue(j) == IF j.obj.kind = "public" THEN 0 ELSE j.cs

(* The outcomes once the Secret is written: the refresh Job may fail. *)
AfterWrite(p, s) ==
    \/ Become(p, s, AfterSecret(job[p][s])) /\ UNCHANGED <<spent, calm>>
    \/ CallFails /\ Become(p, s, Throw(job[p][s]))

CreateSecret(p, s) ==
    LET j == job[p][s] IN
    /\ At(p, s, "create")
    /\ \/ /\ secret = NoSecret
          /\ secret' = [uid |-> j.obj.uid, gen |-> j.obj.gen, cs |-> SecretValue(j)]
          /\ AfterWrite(p, s)
       \/ /\ secret # NoSecret
          /\ Become(p, s, [j EXCEPT !.pc = "reread"])
          /\ UNCHANGED <<secret, spent, calm>>
       \/ CallFails /\ Become(p, s, Throw(j)) /\ UNCHANGED secret
    /\ UNCHANGED <<watching, cr, redis, queue, fp, pipe, sweep, last>>

(* Lost the race: take the winner's secret. *)
Reread(p, s) ==
    /\ At(p, s, "reread")
    /\ \/ secret # NoSecret /\ Adopt(p, s) /\ UNCHANGED <<spent, calm>>
       \/ /\ secret = NoSecret
          /\ Become(p, s, Throw(job[p][s]))
          /\ UNCHANGED <<last, spent, calm>>
       \/ CallFails /\ Become(p, s, Throw(job[p][s])) /\ UNCHANGED last
    /\ UNCHANGED <<watching, k8s, redis, queue, fp, pipe, sweep>>

(* A JSON patch without a resourceVersion test. It is a diff of the decoded *)
(* Secret that was read against the encoded one that is wanted, so every    *)
(* key is written whether or not it changed; replacing or removing a key    *)
(* that is gone fails the patch.                                            *)
Patched(j) ==
    [uid |-> j.obj.uid, gen |-> j.obj.gen,
     cs |-> IF j.seen.cs = 0 /\ SecretValue(j) = 0 THEN secret.cs ELSE SecretValue(j)]

PatchApplies(j) == secret # NoSecret /\ (j.seen.cs # 0 => secret.cs # 0)

PatchSecret(p, s) ==
    LET j == job[p][s] IN
    /\ At(p, s, "patch")
    /\ \/ /\ PatchApplies(j)
          /\ secret' = Patched(j)
          /\ AfterWrite(p, s)
       \/ /\ ~PatchApplies(j)
          /\ Become(p, s, Throw(j))
          /\ UNCHANGED <<secret, spent, calm>>
       \/ CallFails /\ Become(p, s, Throw(j)) /\ UNCHANGED secret
    /\ UNCHANGED <<watching, cr, redis, queue, fp, pipe, sweep, last>>

-----------------------------------------------------------------------------
(* Redis. upsert is SET then SADD, destroy is DEL then SREM; a process has   *)
(* one connection, so its second commands are served in the order of the    *)
(* first ones.                                                              *)

Upsert(p, s) ==
    LET j == job[p][s] IN
    /\ At(p, s, "upsert")
    /\ \/ /\ rec' = [uid |-> j.obj.uid, gen |-> j.obj.gen, cs |-> j.cs]
          /\ pipe' = [pipe EXCEPT ![p] = Append(@, s)]
          /\ Become(p, s, [j EXCEPT !.pc = "sadd"])
          /\ UNCHANGED <<spent, calm>>
       \/ CallFails /\ Become(p, s, Throw(j)) /\ UNCHANGED <<rec, pipe>>
    /\ UNCHANGED <<watching, k8s, listed, marker, queue, fp, sweep, last>>

Destroy(p, s) ==
    LET j == job[p][s] IN
    /\ At(p, s, "destroy")
    /\ \/ /\ rec' = NoRecord
          /\ pipe' = [pipe EXCEPT ![p] = Append(@, s)]
          /\ Become(p, s, [j EXCEPT !.pc = "srem"])
          /\ UNCHANGED <<spent, calm>>
       \/ CallFails /\ Become(p, s, Throw(j)) /\ UNCHANGED <<rec, pipe>>
    /\ UNCHANGED <<watching, k8s, listed, marker, queue, fp, sweep, last>>

SetMember(p, s) ==
    LET j == job[p][s] IN
    /\ At(p, s, "sadd") \/ At(p, s, "srem")
    /\ pipe[p] # <<>> /\ Head(pipe[p]) = s
    /\ pipe' = [pipe EXCEPT ![p] = Tail(@)]
    /\ \/ /\ listed' = At(p, s, "sadd")
          /\ Become(p, s, IF At(p, s, "sadd") THEN Report(j, "Reconciled")
                          ELSE IF j.via = "deleted" THEN Idle ELSE Report(j, "Disabled"))
          /\ UNCHANGED <<spent, calm>>
       \/ CallFails /\ Become(p, s, Throw(j)) /\ UNCHANGED listed
    /\ UNCHANGED <<watching, k8s, rec, marker, queue, fp, sweep, last>>

(* reportReady and reportFailure: a status write that conflicts is dropped. *)
ReportStatus(p, s) ==
    /\ At(p, s, "report")
    /\ \/ ReplaceClientStatus(job[p][s].obj, job[p][s].out) /\ UNCHANGED <<spent, calm>>
       \/ CallFails /\ UNCHANGED <<cr, last, queue>>
    /\ Become(p, s, Idle)
    /\ UNCHANGED <<watching, secret, redis, fp, pipe, sweep>>

-----------------------------------------------------------------------------
(* ClientRedisReconciler.sweep, as far as it concerns this client.          *)

SweepTo(p, pc) == sweep' = [sweep EXCEPT ![p] = pc]

(* The LIST: a resource that exists is not an orphan, a failed LIST proves   *)
(* nothing.                                                                  *)
SweepList(p) ==
    /\ p \in watching /\ sweep[p] = "idle" /\ ~Exists
    /\ SweepTo(p, "members")
    /\ UNCHANGED <<watching, k8s, redis, queue, fp, job, pipe, last, spent, calm>>

SweepMembers(p) ==
    /\ sweep[p] = "members"
    /\ SweepTo(p, IF listed THEN "find" ELSE "idle")
    /\ UNCHANGED <<watching, k8s, redis, queue, fp, job, pipe, last, spent, calm>>

SweepFind(p) ==
    /\ sweep[p] = "find"
    /\ SweepTo(p, IF rec = NoRecord THEN "destroy" ELSE "confirm")
    /\ UNCHANGED <<watching, k8s, redis, queue, fp, job, pipe, last, spent, calm>>

(* Mutant: a 404 is taken for a failed request. *)
SweepConfirmNothing(p) ==
    /\ sweep[p] = "confirm"
    /\ SweepTo(p, "idle")
    /\ UNCHANGED <<watching, k8s, redis, queue, fp, job, pipe, last, spent, calm>>

SweepConfirm(p) ==
    /\ sweep[p] = "confirm"
    /\ SweepTo(p, IF Exists THEN "idle" ELSE "destroy")
    /\ UNCHANGED <<watching, k8s, redis, queue, fp, job, pipe, last, spent, calm>>

SweepDestroy(p) ==
    /\ sweep[p] = "destroy"
    /\ rec' = NoRecord
    /\ pipe' = [pipe EXCEPT ![p] = Append(@, "sweep")]
    /\ SweepTo(p, "srem")
    /\ UNCHANGED <<watching, k8s, listed, marker, queue, fp, job, last, spent, calm>>

SweepRemove(p) ==
    /\ sweep[p] = "srem"
    /\ pipe[p] # <<>> /\ Head(pipe[p]) = "sweep"
    /\ pipe' = [pipe EXCEPT ![p] = Tail(@)]
    /\ \/ listed' = FALSE /\ UNCHANGED <<spent, calm>>
       \/ CallFails /\ UNCHANGED listed
    /\ SweepTo(p, "idle")
    /\ UNCHANGED <<watching, k8s, rec, marker, queue, fp, job, last>>

(* Any other call of the sweep fails: the round ends. *)
SweepFails(p) ==
    /\ sweep[p] \notin {"idle", "srem"}
    /\ CallFails
    /\ SweepTo(p, "idle")
    /\ UNCHANGED <<watching, k8s, redis, queue, fp, job, pipe, last>>

-----------------------------------------------------------------------------
Environment ==
    \/ CreateClient \/ EditSpec \/ DeleteClient \/ TouchClient \/ ForeignClaim
    \/ CollectSecret \/ WipeRedis
    \/ \E p \in Pod : Reconnect(p) \/ Crash(p) \/ StandDown(p) \/ TakeOver(p)

Step(p, s) ==
    \/ Claim(p, s) \/ FindRecord(p, s) \/ GetSecret(p, s) \/ CreateSecret(p, s)
    \/ Reread(p, s) \/ PatchSecret(p, s) \/ Upsert(p, s) \/ Destroy(p, s)
    \/ SetMember(p, s) \/ ReportStatus(p, s)

Sweep(p) ==
    \/ SweepList(p) \/ SweepMembers(p) \/ SweepFind(p) \/ SweepConfirm(p)
    \/ SweepDestroy(p) \/ SweepRemove(p) \/ SweepFails(p)

Next ==
    \/ Environment
    \/ \E p \in Pod :
         \/ Deliver(p) \/ DetectWipe(p) \/ Sweep(p)
         \/ \E s \in Slot : Step(p, s)

Spec == Init /\ [][Next]_vars

(* Timers keep firing and calls return: the watch, the wipe check, the       *)
(* sweep and every reconcile in flight make progress.                        *)
Fairness ==
    \A p \in Pod :
        /\ WF_vars(Deliver(p))
        /\ WF_vars(DetectWipe(p))
        /\ WF_vars(Sweep(p))
        /\ \A s \in Slot : WF_vars(Step(p, s))

FairSpec == Spec /\ Fairness

-----------------------------------------------------------------------------
(* Properties. *)

TypeOK ==
    /\ watching \subseteq Pod
    /\ cr \in Client
    /\ secret \in Projection
    /\ rec \in Projection
    /\ listed \in BOOLEAN
    /\ marker \in BOOLEAN
    /\ queue \in [Pod -> Seq(Event)]
    /\ fp \in [Pod -> Nat]
    /\ job \in [Pod -> [Slot -> Job]]
    /\ pipe \in [Pod -> Seq(Worker)]
    /\ sweep \in [Pod -> {"idle", "members", "find", "confirm", "destroy", "srem"}]
    /\ last \in [uid : Nat, rv : Nat, cs : Nat]
    /\ spent \in [touch : Nat, reconnect : Nat, crash : Nat, handover : Nat, wipe : Nat, failure : Nat]
    /\ calm \in BOOLEAN

(* The client has not been deleted since it was first created. *)
FirstLife == Exists /\ last.uid = 1

(* A reconcile never rotates the client_secret of a live client: whoever     *)
(* creates the Secret first wins and everyone else adopts it                 *)
(* (#reconcileClientSecret), however many reconciles overlap.                *)
NoRotation ==
    [][FirstLife /\ secret.cs # 0 /\ secret'.cs # 0 => secret'.cs = secret.cs]_vars

(* The client_secret Redis checks logins against is the one in the Secret    *)
(* the application mounts: at no moment, however reconciles overlap, does    *)
(* the application hold a secret the provider has already replaced (#236).   *)
SecretAgrees ==
    FirstLife /\ rec # NoRecord => secret # NoSecret /\ rec.cs = secret.cs

(* Two Passmowers in one cluster: status.instance, once claimed, decides     *)
(* whose client it is. #replaceClientStatus never takes a client over.       *)
ClaimStable ==
    [][Exists /\ cr'.uid = cr.uid /\ cr.instance # "none"
         => cr'.instance = cr.instance]_vars

(* A client of another Passmower is neither in our Redis nor given a Secret  *)
(* by us, even when both claimed it in the same instant.                     *)
OnlyOursProjected ==
    Exists /\ cr.uid \in {rec.uid, secret.uid} => cr.instance = "us"

(* Once nothing is left to do, Redis and the Secret show the resource as it  *)
(* is, through any crash, watch gap, wiped Redis or overlap of leaders, when *)
(* no change of the resource met a reconcile in flight and no call failed.   *)
Converged ==
    Settled /\ calm /\ Exists /\ cr.instance = "us" =>
        CASE cr.kind = "confidential" ->
                 /\ rec = [uid |-> cr.uid, gen |-> cr.gen, cs |-> secret.cs]
                 /\ secret.uid = cr.uid /\ secret.gen = cr.gen /\ secret.cs # 0
                 /\ listed
          [] cr.kind = "disabled" -> rec = NoRecord
          [] OTHER -> TRUE

(* A client whose resource is gone for good leaves Redis for good, through   *)
(* lost DELETED events: ClientRedisReconciler repairs what the watch missed. *)
OrphansSwept == <>[]~Exists => <>[](rec = NoRecord /\ ~listed)

(* A client that stays wanted is eventually served, through crashes, watch   *)
(* gaps and wipes, when no change met a reconcile and no call failed.        *)
Served ==
    <>[](calm /\ Exists /\ cr.kind = "confidential" /\ cr.instance # "them")
        => <>[](rec.uid = cr.uid /\ rec.gen = cr.gen /\ listed)

=============================================================================
