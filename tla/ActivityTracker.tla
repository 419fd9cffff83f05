---------------------------- MODULE ActivityTracker ----------------------------
(***************************************************************************)
(* The activity buffers of several replicas and their flushes onto the     *)
(* status of the OIDCUsers and OIDCClients.  A flush writes every status   *)
(* by read-modify-write with three attempts; sign-ins, the flushes of      *)
(* other replicas and other writers of the same status interleave with     *)
(* it.  Names follow src/src/services/activity-tracker.js.                 *)
(***************************************************************************)
EXTENDS Integers, FiniteSets

CONSTANTS
    Pod,         \* replicas; each flushes what it served itself
    Slot,        \* bound: flushes one replica has in flight at once
    User,
    Client,
    NoResource,  \* what a flush is at between two resources
    Limit,       \* ACTIVITY_RECENT_APPLICATION_LIMIT
    InactiveAfter, \* CLIENT_INACTIVE_AFTER_DAYS, in ticks
    MaxClock,    \* bound: the clock
    MaxUse,      \* bound: sign-ins and token exchanges
    MaxFailure,  \* bound: failed API calls
    MaxTouch,    \* bound: status writes by others
    MaxCrash,    \* bound: replicas that terminate
    MaxDelete    \* bound: resources deleted

Resource == User \cup Client
Time == 1 .. MaxClock

ASSUME ActivityTrackerAssumption ==
    /\ User \cap Client = {} /\ NoResource \notin Resource
    /\ IsFiniteSet(Client)
    /\ {Limit, InactiveAfter, MaxClock} \subseteq Nat \ {0}
    /\ {MaxUse, MaxFailure, MaxTouch, MaxCrash, MaxDelete} \subseteq Nat

VARIABLES
    clock,
    status,  \* the resources in the API server
    pending, \* pendingUsers and pendingClients of each replica
    known,   \* knownClients of each replica
    flush,   \* the flushes in flight
    spent,   \* how much of each bound is used
    served,  \* history: the latest use a running replica served, per resource
    uses     \* history: the times each client was used at

vars == <<clock, status, pending, known, flush, spent, served, uses>>

-----------------------------------------------------------------------------
(* Data. Activity maps a client to the time of its last use, 0 when absent: *)
(* all of recentApplications for a user; for a client, its own lastUsedAt.  *)

Activity == [Client -> 0 .. MaxClock]
None == [c \in Client |-> 0]
Only(c, t) == [None EXCEPT ![c] = t]

Conditions == {"none", "True", "False"}
Status == [live : BOOLEAN, at : Activity, born : 0 .. MaxClock, inactive : Conditions]
Absent == [live |-> FALSE, at |-> None, born |-> 0, inactive |-> "none"]

Flush == [step : {"idle", "next", "reread", "put"}, phase : {"users", "clients"},
          took : [Resource -> Activity], todo : SUBSET Resource,
          on : Resource \cup {NoResource}, try : 1 .. 3,
          fresh : BOOLEAN, want : Status]
NoFlush == [step |-> "idle", phase |-> "users", took |-> [r \in Resource |-> None],
            todo |-> {}, on |-> NoResource, try |-> 1, fresh |-> FALSE, want |-> Absent]

Newer(t, u) == IF t >= u THEN t ELSE u
(* Mutant: what is merged in replaces what was there. *)
NewestIsLast(a, b) == [c \in Client |-> IF b[c] > 0 THEN b[c] ELSE a[c]]

Newest(a, b) == [c \in Client |-> Newer(a[c], b[c])]

(* Mutant: the list is not cut. *)
RecentUncut(a) == {a}

(* The newest Limit entries; of equally old ones any may stay. *)
Recent(a) ==
    {[c \in Client |-> IF c \in keep THEN a[c] ELSE 0] :
        keep \in {k \in SUBSET {c \in Client : a[c] > 0} :
                    /\ Cardinality(k) <= Limit
                    /\ \A c \in Client \ k :
                         a[c] > 0 => Cardinality(k) = Limit /\ \A d \in k : a[d] >= a[c]}}

(* ClientActivityState.updateActivityCondition: counted from lastUsedAt, or *)
(* from the creation of a client that was never used.                       *)
InactiveAt(now, at, born) ==
    now - (IF at > 0 THEN at ELSE born) >= InactiveAfter

(* Mutant: the condition is computed before lastUsedAt is set. *)
ProjectedConditionFirst(r, copy, activity) ==
    IF r \in User
    THEN {[copy EXCEPT !.at = a] : a \in Recent(Newest(copy.at, activity))}
    ELSE {[copy EXCEPT
            !.at = Only(r, Newer(copy.at[r], activity[r])),
            !.inactive = IF InactiveAt(clock, copy.at[r], copy.born) THEN "True" ELSE "False"]}

(* The status a flush computes from the copy it read. *)
Projected(r, copy, activity) ==
    IF r \in User
    THEN {[copy EXCEPT !.at = a] : a \in Recent(Newest(copy.at, activity))}
    ELSE LET at == Newer(copy.at[r], activity[r])
         IN  {[copy EXCEPT !.at = Only(r, at),
                           !.inactive = IF InactiveAt(clock, at, copy.born) THEN "True" ELSE "False"]}

Init ==
    /\ clock = 1
    /\ status = [r \in Resource |-> [Absent EXCEPT !.live = TRUE, !.born = 1]]
    /\ pending = [p \in Pod |-> [r \in Resource |-> None]]
    /\ known = [p \in Pod |-> {}]
    /\ flush = [p \in Pod |-> [s \in Slot |-> NoFlush]]
    /\ spent = [use |-> 0, failure |-> 0, touch |-> 0, crash |-> 0, delete |-> 0]
    /\ served = [p \in Pod |-> [r \in Resource |-> None]]
    /\ uses = [c \in Client |-> {}]

Spend(what) == spent' = [spent EXCEPT ![what] = @ + 1]

-----------------------------------------------------------------------------
(* The buffers. *)

Note(buffers, p, resources, c) ==
    [buffers EXCEPT ![p] =
        [r \in Resource |-> IF r \in resources THEN Newest(@[r], Only(c, clock)) ELSE @[r]]]

(* An authorization of a user, or a token exchange, which names no user. *)
Record(p, c) ==
    /\ spent.use < MaxUse
    /\ Spend("use")
    /\ \E signedIn \in {{}} \cup {{u} : u \in User} :
         /\ pending' = Note(pending, p, signedIn \cup {c}, c)
         /\ served' = Note(served, p, signedIn \cup {c}, c)
    /\ uses' = [uses EXCEPT ![c] = @ \cup {clock}]
    /\ UNCHANGED <<clock, status, known, flush>>

(* The client operator of the leading replica sees the client. *)
RegisterClient(p, c) ==
    /\ c \notin known[p]
    /\ status[c].live
    /\ known' = [known EXCEPT ![p] = @ \cup {c}]
    /\ UNCHANGED <<clock, status, pending, flush, spent, served, uses>>

UnregisterClient(p, c) ==
    /\ c \in known[p]
    /\ ~status[c].live
    /\ known' = [known EXCEPT ![p] = @ \ {c}]
    /\ UNCHANGED <<clock, status, pending, flush, spent, served, uses>>

-----------------------------------------------------------------------------
(* A flush: the buffers are swapped for empty ones, then the users and      *)
(* after them the clients are written one by one. Which clients those are   *)
(* is decided when the users are done.                                      *)

Todo(activity, resources) == {r \in resources : activity[r] # None}

(* Mutant: only the clients the watch has shown are written. *)
ClientsToDoKnown(p, job) == known[p]

ClientsToDo(p, job) == known[p] \cup Todo(job.took, Client)

Continue(p, job) ==
    IF job.todo # {} THEN job
    ELSE IF job.phase = "users" /\ ClientsToDo(p, job) # {}
    THEN [job EXCEPT !.phase = "clients", !.todo = ClientsToDo(p, job)]
    ELSE NoFlush

Begin(p, s) ==
    /\ flush[p][s].step = "idle"
    /\ flush' = [flush EXCEPT ![p][s] =
         Continue(p, [NoFlush EXCEPT !.step = "next", !.took = pending[p],
                                     !.todo = Todo(pending[p], User)])]
    /\ pending' = [pending EXCEPT ![p] = [r \in Resource |-> None]]
    /\ UNCHANGED <<clock, status, known, spent, served, uses>>

(* Whatever came of r, the loop goes on with the next resource. *)
Done(p, job, r) ==
    Continue(p, [NoFlush EXCEPT !.step = "next", !.phase = job.phase,
                                !.took = [job.took EXCEPT ![r] = None],
                                !.todo = job.todo \ {r}])

Settle(p, s, r) ==
    /\ flush' = [flush EXCEPT ![p][s] = Done(p, @, r)]
    /\ UNCHANGED pending

(* The write came to nothing: the activity goes back to what is pending. *)
PutBack(p, s, r) ==
    /\ flush' = [flush EXCEPT ![p][s] = Done(p, @, r)]
    /\ pending' = [pending EXCEPT ![p][r] = Newest(@, flush[p][s].took[r])]

At(p, s, r) ==
    \/ flush[p][s].step = "next" /\ r \in flush[p][s].todo
    \/ flush[p][s].step = "reread" /\ r = flush[p][s].on

(* A client that was unregistered since the loop began, without activity. *)
Forgotten(p, s, r) ==
    flush[p][s].step = "next" /\ r \in Client \ known[p] /\ flush[p][s].took[r] = None

Skip(p, s, r) ==
    /\ At(p, s, r)
    /\ Forgotten(p, s, r)
    /\ Settle(p, s, r)
    /\ UNCHANGED <<clock, status, known, spent, served, uses>>

(* The GET of an attempt: a resource that is gone is dropped, one that is   *)
(* up to date is left alone.                                                *)
Read(p, s, r) ==
    /\ At(p, s, r)
    /\ ~Forgotten(p, s, r)
    /\ \/ /\ ~status[r].live
          /\ Settle(p, s, r)
       \/ /\ status[r].live
          /\ \E want \in Projected(r, status[r], flush[p][s].took[r]) :
               IF want = status[r]
               THEN Settle(p, s, r)
               ELSE /\ flush' = [flush EXCEPT ![p][s] =
                         [@ EXCEPT !.step = "put", !.on = r, !.fresh = TRUE, !.want = want]]
                    /\ UNCHANGED pending
    /\ UNCHANGED <<clock, status, known, spent, served, uses>>

ReadFails(p, s, r) ==
    /\ At(p, s, r)
    /\ ~Forgotten(p, s, r)
    /\ spent.failure < MaxFailure
    /\ Spend("failure")
    /\ PutBack(p, s, r)
    /\ UNCHANGED <<clock, status, known, served, uses>>

(* The API server takes a write against the current resourceVersion only:   *)
(* every write of a resource outdates the copies the flushes hold of it.    *)
Outdate(flushes, r) ==
    [p \in Pod |-> [s \in Slot |->
        IF flushes[p][s].on = r THEN [flushes[p][s] EXCEPT !.fresh = FALSE] ELSE flushes[p][s]]]

Putting(p, s, r) == flush[p][s].step = "put" /\ flush[p][s].on = r

(* Mutant: a status replace without a resourceVersion. *)
AcceptedAnyVersion(p, s, r) == status[r].live

Accepted(p, s, r) == status[r].live /\ flush[p][s].fresh

Write(p, s, r) ==
    /\ Putting(p, s, r)
    /\ Accepted(p, s, r)
    /\ status' = [status EXCEPT ![r] = flush[p][s].want]
    /\ flush' = Outdate([flush EXCEPT ![p][s] = Done(p, @, r)], r)
    /\ UNCHANGED <<clock, pending, known, spent, served, uses>>

(* Mutant: the third 409 is taken for a success. *)
RefusedForGood(p, s, r) ==
    /\ Putting(p, s, r)
    /\ ~Accepted(p, s, r)
    /\ \/ (~status[r].live \/ flush[p][s].try = 3) /\ Settle(p, s, r)
       \/ /\ status[r].live /\ flush[p][s].try < 3
          /\ flush' = [flush EXCEPT ![p][s] =
                         [@ EXCEPT !.step = "reread", !.try = flush[p][s].try + 1, !.want = Absent]]
          /\ UNCHANGED pending
    /\ UNCHANGED <<clock, status, known, spent, served, uses>>

(* A 409 recomputes from a new copy, twice; a 404 drops the activity. *)
Refused(p, s, r) ==
    /\ Putting(p, s, r)
    /\ ~Accepted(p, s, r)
    /\ \/ ~status[r].live /\ Settle(p, s, r)
       \/ status[r].live /\ flush[p][s].try = 3 /\ PutBack(p, s, r)
       \/ /\ status[r].live /\ flush[p][s].try < 3
          /\ flush' = [flush EXCEPT ![p][s] =
                         [@ EXCEPT !.step = "reread", !.try = flush[p][s].try + 1, !.want = Absent]]
          /\ UNCHANGED pending
    /\ UNCHANGED <<clock, status, known, spent, served, uses>>

(* A failed write may have been applied all the same. *)
WriteFails(p, s, r) ==
    /\ Putting(p, s, r)
    /\ spent.failure < MaxFailure
    /\ Spend("failure")
    /\ \/ /\ PutBack(p, s, r)
          /\ UNCHANGED status
       \/ /\ Accepted(p, s, r)
          /\ status' = [status EXCEPT ![r] = flush[p][s].want]
          /\ flush' = Outdate([flush EXCEPT ![p][s] = Done(p, @, r)], r)
          /\ pending' = [pending EXCEPT ![p][r] = Newest(@, flush[p][s].took[r])]
    /\ UNCHANGED <<clock, known, served, uses>>

-----------------------------------------------------------------------------
(* The world. *)

Tick ==
    /\ clock < MaxClock
    /\ clock' = clock + 1
    /\ UNCHANGED <<status, pending, known, flush, spent, served, uses>>

(* Reconciles write other fields of the status, and keep these. *)
Touch(r) ==
    /\ status[r].live
    /\ spent.touch < MaxTouch
    /\ Spend("touch")
    /\ flush' = Outdate(flush, r)
    /\ UNCHANGED <<clock, status, pending, known, served, uses>>

Served(r, activity) == [p \in Pod |-> [served[p] EXCEPT ![r] = activity]]

Delete(r) ==
    /\ status[r].live
    /\ spent.delete < MaxDelete
    /\ Spend("delete")
    /\ status' = [status EXCEPT ![r] = Absent]
    /\ flush' = Outdate(flush, r)
    /\ served' = Served(r, None)
    /\ UNCHANGED <<clock, pending, known, uses>>

Create(r) ==
    /\ ~status[r].live
    /\ status' = [status EXCEPT ![r] = [Absent EXCEPT !.live = TRUE, !.born = clock]]
    /\ served' = Served(r, None)
    /\ UNCHANGED <<clock, pending, known, flush, spent, uses>>

(* A replica terminates, gracefully or not, and another takes its place:    *)
(* the shutdown hook does not flush.                                        *)
Terminate(p) ==
    /\ spent.crash < MaxCrash
    /\ Spend("crash")
    /\ pending' = [pending EXCEPT ![p] = [r \in Resource |-> None]]
    /\ known' = [known EXCEPT ![p] = {}]
    /\ flush' = [flush EXCEPT ![p] = [s \in Slot |-> NoFlush]]
    /\ served' = [served EXCEPT ![p] = [r \in Resource |-> None]]
    /\ UNCHANGED <<clock, status, uses>>

Step(p, s, r) == Skip(p, s, r) \/ Read(p, s, r) \/ Write(p, s, r) \/ Refused(p, s, r)

Flushing ==
    \E p \in Pod, s \in Slot :
        \/ Begin(p, s)
        \/ \E r \in Resource : Step(p, s, r) \/ ReadFails(p, s, r) \/ WriteFails(p, s, r)

Next ==
    \/ Flushing
    \/ \E p \in Pod, c \in Client : Record(p, c) \/ RegisterClient(p, c) \/ UnregisterClient(p, c)
    \/ \E r \in Resource : Touch(r) \/ Delete(r) \/ Create(r)
    \/ \E p \in Pod : Terminate(p)
    \/ Tick

Spec == Init /\ [][Next]_vars

(* setInterval keeps starting flushes; every API call is answered. *)
Fairness ==
    \A p \in Pod, s \in Slot :
        /\ WF_vars(Begin(p, s))
        /\ WF_vars(\E r \in Resource : Step(p, s, r))

FairSpec == Spec /\ Fairness

-----------------------------------------------------------------------------
(* The variables and the messages have their types; a user lists at most    *)
(* Limit applications.                                                      *)
TypeOK ==
    /\ clock \in Time
    /\ status \in [Resource -> Status]
    /\ \A u \in User : Cardinality({c \in Client : status[u].at[c] > 0}) <= Limit
    /\ pending \in [Pod -> [Resource -> Activity]]
    /\ known \in [Pod -> SUBSET Client]
    /\ flush \in [Pod -> [Slot -> Flush]]
    /\ spent \in [{"use", "failure", "touch", "crash", "delete"} -> Nat]
    /\ served \in [Pod -> [Resource -> Activity]]
    /\ uses \in [Client -> SUBSET Time]

(* The activity a lists c as used at t or later, or, for a user, leaves it  *)
(* out because Limit others were used no earlier than t.                    *)
Lists(r, a, c, t) ==
    \/ a[c] >= t
    \/ r \in User /\ Cardinality({d \in Client \ {c} : a[d] >= t}) >= Limit

Shown(r, c, t) == Lists(r, status[r].at, c, t)

(* What a running replica served is never lost while its resource exists:   *)
(* it is published, pending, or held by a flush in flight (flush,           *)
(* activity-tracker.js:82-114).                                             *)
NothingLost ==
    \A p \in Pod, r \in Resource, c \in Client :
        status[r].live =>
            \/ Shown(r, c, served[p][r][c])
            \/ pending[p][r][c] >= served[p][r][c]
            \/ \E s \in Slot : flush[p][s].took[r][c] >= served[p][r][c]

(* An Inactive condition is true of the lastUsedAt beside it, whichever     *)
(* replica wrote the one and the other (client-activity-state.js:19-37).    *)
InactiveHonest ==
    \A c \in Client :
        status[c].inactive = "True" => InactiveAt(clock, status[c].at[c], status[c].born)

(* What a user's status shows it keeps showing while the user exists: no    *)
(* application goes back to an older use, and one leaves the list only for  *)
(* Limit others used no earlier, whichever replicas flush onto the user at  *)
(* once (#flushUser, activity-tracker.js:116-135).                          *)
RecentNeverBack ==
    [][\A u \in User, c \in Client, t \in Time :
         status[u].live /\ status'[u].live /\ Shown(u, c, t) => Shown(u, c, t)']_vars

(* lastUsedAt is a register that only takes real uses and never goes back.  *)
Register == INSTANCE ActivityRegister WITH shown <- [c \in Client |-> status[c].at[c]]

RegisterSpec == Register!Spec

(* What a replica served is shown in the end, unless the replica terminates *)
(* or the resource is deleted first.                                        *)
Published ==
    \A p \in Pod, c \in Client, t \in Time : \A r \in User \cup {c} :
        (served[p][r][c] >= t) ~> (Shown(r, c, t) \/ served[p][r][c] < t \/ ~status[r].live)

=============================================================================
