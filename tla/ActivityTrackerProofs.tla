------------------------- MODULE ActivityTrackerProofs -------------------------
(***************************************************************************)
(* Theorems about ActivityTracker: types, the refinement of                *)
(* ActivityRegister, the truth of the Inactive condition, and that what a  *)
(* running replica served is neither lost nor taken back.                  *)
(***************************************************************************)
EXTENDS ActivityTracker, TLAPS, FiniteSetTheorems

-----------------------------------------------------------------------------
(* The data: activities, their merge, and the cut to the newest entries. *)

LEMMA Constants ==
  /\ MaxClock \in Nat /\ Limit \in Nat /\ InactiveAfter \in Nat /\ Time \subseteq Nat
  /\ 1 \in Time /\ 0 \in 0 .. MaxClock /\ Time \subseteq 0 .. MaxClock
  /\ User \cap Client = {} /\ User \subseteq Resource /\ Client \subseteq Resource
  /\ Resource = User \cup Client /\ NoResource \notin Resource
BY ActivityTrackerAssumption DEF Time, Resource

LEMMA ActivityType ==
  /\ None \in Activity
  /\ \A c \in Client, t \in 0 .. MaxClock : Only(c, t) \in Activity /\ Only(c, t)[c] = t
BY Constants DEF None, Only, Activity

LEMMA NewestType ==
  ASSUME NEW a \in Activity, NEW b \in Activity
  PROVE  /\ Newest(a, b) \in Activity
         /\ \A c \in Client : /\ Newest(a, b)[c] \in {a[c], b[c]}
                              /\ Newest(a, b)[c] >= a[c]
                              /\ Newest(a, b)[c] >= b[c]
<1>1. \A c \in Client : a[c] \in 0 .. MaxClock /\ b[c] \in 0 .. MaxClock
  BY DEF Activity
<1>2. \A c \in Client : Newest(a, b)[c] = Newer(a[c], b[c])
  BY DEF Newest
<1>3. Newest(a, b) \in Activity
  BY <1>1 DEF Newest, Newer, Activity
<1> QED
  BY <1>1, <1>2, <1>3, Constants DEF Newer

(* How many of the activity's clients were used at t or later, c aside. *)
Others(a, c, t) == {d \in Client \ {c} : a[d] >= t}

LEMMA FiniteClients ==
  ASSUME NEW S \in SUBSET Client, NEW T \in SUBSET S
  PROVE  /\ Cardinality(S) \in Nat /\ Cardinality(T) \in Nat
         /\ Cardinality(T) <= Cardinality(S)
<1>1. IsFiniteSet(S)
  BY ActivityTrackerAssumption, FS_Subset
<1>2. IsFiniteSet(T) /\ Cardinality(T) <= Cardinality(S)
  BY <1>1, FS_Subset
<1> QED
  BY <1>1, <1>2, FS_CardinalityType

(* A user lists no more than Limit applications. *)
Few(a) == Cardinality({c \in Client : a[c] > 0}) <= Limit

LEMMA RecentCut ==
  ASSUME NEW a \in Activity, NEW b \in Recent(a)
  PROVE  \E k \in SUBSET Client :
           /\ b = [c \in Client |-> IF c \in k THEN a[c] ELSE 0]
           /\ \A c \in k : a[c] > 0
           /\ Cardinality(k) <= Limit
           /\ \A c \in Client \ k :
                a[c] > 0 => Cardinality(k) = Limit /\ \A d \in k : a[d] >= a[c]
BY DEF Recent

LEMMA RecentType ==
  ASSUME NEW a \in Activity, NEW b \in Recent(a)
  PROVE  /\ b \in Activity
         /\ Few(b)
         /\ \A c \in Client : b[c] \in {0, a[c]}
<1>1. PICK k \in SUBSET Client :
        /\ b = [c \in Client |-> IF c \in k THEN a[c] ELSE 0]
        /\ \A c \in k : a[c] > 0
        /\ Cardinality(k) <= Limit
  BY RecentCut
<1>2. {c \in Client : b[c] > 0} = k
  BY <1>1
<1> QED
  BY <1>1, <1>2, Constants DEF Few, Activity

(* The cut takes nothing back: what the whole activity lists, the cut one   *)
(* lists too, or has Limit entries that are no older.                       *)
LEMMA RecentLists ==
  ASSUME NEW a \in Activity, NEW b \in Recent(a), NEW r \in User,
         NEW c \in Client, NEW t \in Nat, Lists(r, a, c, t)
  PROVE  Lists(r, b, c, t)
<1>1. PICK k \in SUBSET Client :
        /\ b = [d \in Client |-> IF d \in k THEN a[d] ELSE 0]
        /\ \A d \in k : a[d] > 0
        /\ Cardinality(k) <= Limit
        /\ \A e \in Client \ k :
             a[e] > 0 => Cardinality(k) = Limit /\ \A d \in k : a[d] >= a[e]
  BY RecentCut
<1>2. \A d \in Client : a[d] \in Nat
  BY Constants DEF Activity
<1>3. ASSUME NEW S \in SUBSET Client, c \notin S, Cardinality(S) >= Limit,
             \A d \in S : b[d] >= t
      PROVE  Lists(r, b, c, t)
  <2>1. S \subseteq Others(b, c, t) /\ Others(b, c, t) \subseteq Client
    BY <1>3 DEF Others
  <2>2. /\ Cardinality(Others(b, c, t)) \in Nat /\ Cardinality(S) \in Nat
        /\ Cardinality(S) <= Cardinality(Others(b, c, t))
    BY <2>1, FiniteClients
  <2>3. Cardinality(Others(b, c, t)) >= Limit
    BY <2>2, <1>3, Constants
  <2> QED
    BY <2>3 DEF Lists, Others
<1>4. CASE t = 0
  BY <1>4, <1>1, <1>2 DEF Lists
<1>5. CASE t > 0 /\ c \in k /\ a[c] >= t
  BY <1>5, <1>1 DEF Lists
<1>6. CASE t > 0 /\ c \notin k /\ a[c] >= t
  <2>1. a[c] > 0
    BY <1>6, <1>2
  <2>2. Cardinality(k) = Limit /\ \A d \in k : a[d] >= a[c]
    BY <2>1, <1>1, <1>6
  <2>3. \A d \in k : b[d] >= t
    BY <2>2, <1>1, <1>2, <1>6
  <2>4. Cardinality(k) >= Limit
    BY <2>2, Constants
  <2> QED
    BY <2>3, <2>4, <1>3, <1>6
<1>7. CASE t > 0 /\ ~(a[c] >= t)
  <2> DEFINE S == Others(a, c, t)
  <2>1. S \in SUBSET Client /\ c \notin S /\ Cardinality(S) >= Limit /\ \A d \in S : a[d] >= t
    BY <1>7 DEF Lists, Others
  <2>2. CASE S \subseteq k
    <3>1. \A d \in S : b[d] >= t
      BY <2>1, <2>2, <1>1
    <3> QED
      BY <3>1, <2>1, <1>3
  <2>3. CASE ~(S \subseteq k)
    <3>1. PICK e \in S : e \notin k
      BY <2>3
    <3>2. a[e] >= t /\ a[e] > 0 /\ e \in Client
      BY <3>1, <2>1, <1>2, <1>7
    <3>3. Cardinality(k) = Limit /\ \A d \in k : a[d] >= a[e]
      BY <3>1, <3>2, <1>1
    <3>4. \A d \in k : a[d] >= t
      BY <3>2, <3>3, <1>2
    <3>5. c \notin k
      BY <3>4, <1>7
    <3>6. (\A d \in k : b[d] >= t) /\ Cardinality(k) >= Limit
      BY <3>3, <3>4, <1>1, Constants
    <3> QED
      BY <3>5, <3>6, <1>3
  <2> QED
    BY <2>2, <2>3
<1> QED
  BY <1>2, <1>4, <1>5, <1>6, <1>7

(* Newer entries list at least what older ones do. *)
LEMMA ListsGrows ==
  ASSUME NEW a \in Activity, NEW b \in Activity, \A d \in Client : b[d] >= a[d],
         NEW r \in Resource, NEW c \in Client, NEW t \in Nat, Lists(r, a, c, t)
  PROVE  Lists(r, b, c, t)
<1>1. \A d \in Client : a[d] \in Nat /\ b[d] \in Nat
  BY Constants DEF Activity
<1>2. CASE a[c] >= t
  BY <1>1, <1>2 DEF Lists
<1>3. CASE r \in User /\ Cardinality(Others(a, c, t)) >= Limit
  <2>1. Others(a, c, t) \subseteq Others(b, c, t) /\ Others(b, c, t) \subseteq Client
    BY <1>1 DEF Others
  <2>2. /\ Cardinality(Others(a, c, t)) \in Nat /\ Cardinality(Others(b, c, t)) \in Nat
        /\ Cardinality(Others(a, c, t)) <= Cardinality(Others(b, c, t))
    BY <2>1, FiniteClients
  <2>3. Cardinality(Others(b, c, t)) >= Limit
    BY <2>2, <1>3, Constants
  <2> QED
    BY <2>3, <1>3 DEF Lists, Others
<1> QED
  BY <1>2, <1>3 DEF Lists, Others

-----------------------------------------------------------------------------
(* What a flush wants to write, and where it goes when it is done. *)

(* The entries that matter: a client's status only has its own. *)
Pair(r, c) == r \in User \/ r = c

LEMMA ProjectedType ==
  ASSUME clock \in Time, NEW copy \in Status, NEW activity \in Activity,
         NEW r \in Resource, NEW want \in Projected(r, copy, activity)
  PROVE  /\ want \in Status /\ want.live = copy.live /\ want.born = copy.born
         /\ r \in User => Few(want.at) /\ want.inactive = copy.inactive
         /\ r \in Client => /\ want.at[r] \in {copy.at[r], activity[r]}
                            /\ want.inactive = "True" => InactiveAt(clock, want.at[r], want.born)
<1>1. copy.at \in Activity /\ copy.born \in 0 .. MaxClock /\ copy.live \in BOOLEAN
      /\ copy.inactive \in Conditions
  BY DEF Status
<1>2. CASE r \in User
  <2>1. PICK a \in Recent(Newest(copy.at, activity)) : want = [copy EXCEPT !.at = a]
    BY <1>2 DEF Projected
  <2>2. a \in Activity /\ Few(a)
    BY <2>1, <1>1, NewestType, RecentType
  <2>3. want \in Status /\ want.live = copy.live /\ want.born = copy.born
        /\ want.at = a /\ want.inactive = copy.inactive
    BY <2>1, <2>2 DEF Status
  <2> QED
    BY <2>2, <2>3, <1>2, Constants
<1>3. CASE r \in Client
  <2> DEFINE at == Newer(copy.at[r], activity[r])
             inactive == IF InactiveAt(clock, at, copy.born) THEN "True" ELSE "False"
  <2>1. r \notin User
    BY <1>3, Constants
  <2>2. want = [copy EXCEPT !.at = Only(r, at), !.inactive = inactive]
    BY <2>1 DEF Projected
  <2>3. at \in 0 .. MaxClock /\ at \in {copy.at[r], activity[r]}
    BY <1>1, <1>3 DEF Newer, Activity
  <2>4. Only(r, at) \in Activity /\ Only(r, at)[r] = at
    BY <2>3, <1>3, ActivityType
  <2>5. inactive \in Conditions
    BY DEF Conditions
  <2> HIDE DEF at, inactive
  <2>6. want \in Status /\ want.live = copy.live /\ want.born = copy.born
        /\ want.at = Only(r, at) /\ want.inactive = inactive
    BY <2>2, <2>4, <2>5 DEF Status
  <2>7. inactive = "True" => InactiveAt(clock, at, copy.born)
    BY DEF inactive
  <2> QED
    BY <2>1, <2>3, <2>4, <2>6, <2>7
<1> QED
  BY <1>2, <1>3, Constants

(* Neither the copy nor the activity is lost in it. *)
LEMMA ProjectedLists ==
  ASSUME clock \in Time, NEW copy \in Status, NEW activity \in Activity,
         NEW r \in Resource, NEW want \in Projected(r, copy, activity),
         NEW c \in Client, Pair(r, c), NEW t \in Nat
  PROVE  /\ Lists(r, copy.at, c, t) => Lists(r, want.at, c, t)
         /\ activity[c] >= t => Lists(r, want.at, c, t)
<1>1. copy.at \in Activity
  BY DEF Status
<1> DEFINE all == Newest(copy.at, activity)
<1>2. /\ all \in Activity
      /\ \A d \in Client : all[d] >= copy.at[d] /\ all[d] >= activity[d]
  BY <1>1, NewestType
<1> HIDE DEF all
<1>3. CASE r \in User
  <2>1. PICK a \in Recent(all) : want = [copy EXCEPT !.at = a]
    BY <1>3 DEF Projected, all
  <2>2. want.at = a
    BY <2>1 DEF Status
  <2>3. Lists(r, all, c, t) => Lists(r, want.at, c, t)
    BY <2>1, <2>2, <1>2, <1>3, RecentLists
  <2>4. Lists(r, copy.at, c, t) => Lists(r, all, c, t)
    BY <1>1, <1>2, ListsGrows
  <2>5. activity[c] >= t => Lists(r, all, c, t)
    BY ListsGrows, <1>2 DEF Lists
  <2> QED
    BY <2>3, <2>4, <2>5
<1>4. CASE r \in Client
  <2>1. r \notin User /\ c = r
    BY <1>4, Constants DEF Pair
  <2>2. copy.at[r] \in 0 .. MaxClock /\ activity[r] \in 0 .. MaxClock
    BY <1>1, <1>4 DEF Activity
  <2> DEFINE at == Newer(copy.at[r], activity[r])
  <2>3. at \in 0 .. MaxClock /\ at >= copy.at[r] /\ at >= activity[r]
    BY <2>2, Constants DEF Newer
  <2>4. want.at = Only(r, at)
    BY <2>1 DEF Projected, Status
  <2>5. want.at[r] = at
    BY <2>3, <2>4, <1>4, ActivityType
  <2>6. at >= t => Lists(r, want.at, c, t)
    BY <2>1, <2>5 DEF Lists
  <2> HIDE DEF at
  <2>7. (copy.at[r] >= t => at >= t) /\ (activity[r] >= t => at >= t)
    BY <2>2, <2>3, Constants
  <2>8. Lists(r, copy.at, c, t) => copy.at[r] >= t
    BY <2>1 DEF Lists
  <2> QED
    BY <2>1, <2>6, <2>7, <2>8
<1> QED
  BY <1>3, <1>4, Constants

(* What a flush holds of r is still to be written. *)
Held(job) ==
    \A r \in Resource : job.took[r] # None =>
        job.step # "idle" /\ (r \in job.todo \/ (job.phase = "users" /\ r \in Client))

LEMMA NoFlushType ==
  NoFlush \in Flush /\ Held(NoFlush) /\ NoFlush.on = NoResource /\ NoFlush.step = "idle"
  /\ Absent \in Status
<1>1. Absent \in Status
  BY ActivityType, Constants DEF Absent, Status, Conditions
<1> QED
  BY <1>1, ActivityType, Constants DEF NoFlush, Flush, Held

LEMMA ContinueType ==
  ASSUME NEW p \in Pod, known[p] \subseteq Client, NEW job \in Flush, job.step = "next"
  PROVE  /\ Continue(p, job) \in Flush
         /\ job.on = NoResource => Continue(p, job).on = NoResource
         /\ Continue(p, job).step \in {"idle", "next"}
         /\ Held(job) => /\ Held(Continue(p, job))
                         /\ \A r \in Resource : Continue(p, job).took[r] = job.took[r]
<1>1. CASE job.todo # {}
  BY <1>1 DEF Continue
<1>2. CASE job.todo = {} /\ job.phase = "users" /\ ClientsToDo(p, job) # {}
  <2>1. Continue(p, job) = [job EXCEPT !.phase = "clients", !.todo = ClientsToDo(p, job)]
    BY <1>2 DEF Continue
  <2>2. ClientsToDo(p, job) \subseteq Resource
    BY Constants DEF ClientsToDo, Todo
  <2>3. /\ Continue(p, job) \in Flush
        /\ Continue(p, job).on = job.on /\ Continue(p, job).step = "next"
        /\ Continue(p, job).took = job.took /\ Continue(p, job).todo = ClientsToDo(p, job)
    BY <2>1, <2>2 DEF Flush
  <2>4. ASSUME Held(job) PROVE Held(Continue(p, job))
    BY <2>3, <2>4, <1>2 DEF Held, ClientsToDo, Todo
  <2> QED
    BY <2>3, <2>4
<1>3. CASE job.todo = {} /\ ~(job.phase = "users" /\ ClientsToDo(p, job) # {})
  <2>1. Continue(p, job) = NoFlush
    BY <1>3 DEF Continue
  <2>2. ASSUME Held(job), NEW r \in Resource PROVE job.took[r] = None
    BY <2>2, <1>3 DEF Held, ClientsToDo, Todo
  <2>3. \A r \in Resource : NoFlush.took[r] = None
    BY DEF NoFlush
  <2> QED
    BY <2>1, <2>2, <2>3, NoFlushType
<1> QED
  BY <1>1, <1>2, <1>3

(* Done with r, the flush holds the rest as before and nothing of r. *)
LEMMA DoneType ==
  ASSUME NEW p \in Pod, known[p] \subseteq Client, NEW job \in Flush, NEW r \in Resource,
         job.step # "idle"
  PROVE  /\ Done(p, job, r) \in Flush
         /\ Done(p, job, r).on = NoResource
         /\ Done(p, job, r).step \in {"idle", "next"}
         /\ Held(job) => /\ Held(Done(p, job, r))
                         /\ \A o \in Resource : Done(p, job, r).took[o] =
                                                  IF o = r THEN None ELSE job.took[o]
<1> DEFINE took == [job.took EXCEPT ![r] = None]
           todo == job.todo \ {r}
           next == [NoFlush EXCEPT !.step = "next", !.phase = job.phase, !.took = took, !.todo = todo]
<1>0. /\ took \in [Resource -> Activity] /\ todo \in SUBSET Resource
      /\ job.phase \in {"users", "clients"} /\ Absent \in Status
  BY ActivityType, NoFlushType DEF Flush
<1>4. Done(p, job, r) = Continue(p, next)
  BY DEF Done
<1> HIDE DEF took, todo
<1>1. /\ next \in Flush /\ next.step = "next" /\ next.on = NoResource
      /\ next.took = took /\ next.todo = todo /\ next.phase = job.phase
  BY <1>0, NoFlushType DEF Flush
<1> USE DEF took, todo
<1>2. \A o \in Resource : next.took[o] = IF o = r THEN None ELSE job.took[o]
  BY <1>1 DEF Flush
<1>3. Held(job) => Held(next)
  BY <1>1, <1>2 DEF Held
<1> HIDE DEF next
<1>5. /\ Continue(p, next) \in Flush
      /\ Continue(p, next).on = NoResource
      /\ Continue(p, next).step \in {"idle", "next"}
      /\ Held(next) => /\ Held(Continue(p, next))
                       /\ \A o \in Resource : Continue(p, next).took[o] = next.took[o]
  BY <1>1, ContinueType
<1> QED
  BY <1>2, <1>3, <1>4, <1>5

-----------------------------------------------------------------------------
(* Types. *)

(* A flush that is between two resources is at none, and what it wants to   *)
(* write onto a user is cut.                                                *)
GoodJob(job) ==
    /\ Held(job)
    /\ job.step \in {"idle", "next"} => job.on = NoResource
    /\ \A u \in User : job.step = "put" /\ job.on = u => Few(job.want.at)

GoodFlushes(flushes) ==
    /\ flushes \in [Pod -> [Slot -> Flush]]
    /\ \A p \in Pod, s \in Slot : GoodJob(flushes[p][s])

TypeInv == TypeOK /\ GoodFlushes(flush)

(* Between two resources nothing else has to be shown of a flush. *)
LEMMA BetweenGood ==
  ASSUME NEW job \in Flush, Held(job), job.step \in {"idle", "next"}, job.on = NoResource
  PROVE  GoodJob(job)
BY DEF GoodJob

LEMMA SetGood ==
  ASSUME NEW flushes, GoodFlushes(flushes), NEW p \in Pod, NEW s \in Slot,
         NEW job \in Flush, GoodJob(job)
  PROVE  GoodFlushes([flushes EXCEPT ![p][s] = job])
<1> DEFINE new == [flushes EXCEPT ![p][s] = job]
<1>1. /\ new \in [Pod -> [Slot -> Flush]]
      /\ \A q \in Pod, z \in Slot : new[q][z] = IF q = p /\ z = s THEN job ELSE flushes[q][z]
  BY DEF GoodFlushes
<1> QED
  BY <1>1 DEF GoodFlushes

(* Each flush keeps everything but freshness. *)
LEMMA OutdateIs ==
  ASSUME NEW flushes \in [Pod -> [Slot -> Flush]], NEW r, NEW p \in Pod, NEW s \in Slot
  PROVE  LET old == flushes[p][s]
             new == Outdate(flushes, r)[p][s]
         IN  /\ new \in Flush
             /\ new.step = old.step /\ new.phase = old.phase /\ new.took = old.took
             /\ new.todo = old.todo /\ new.on = old.on /\ new.want = old.want
             /\ new.fresh = (old.fresh /\ old.on # r)
<1> DEFINE old == flushes[p][s]
<1>1. Outdate(flushes, r)[p][s] = IF old.on = r THEN [old EXCEPT !.fresh = FALSE] ELSE old
  BY DEF Outdate
<1>2. old \in Flush /\ old.fresh \in BOOLEAN
  BY DEF Flush
<1> HIDE DEF old
<1>3. [old EXCEPT !.fresh = FALSE] \in Flush
  BY <1>2 DEF Flush
<1>4. /\ [old EXCEPT !.fresh = FALSE].step = old.step
      /\ [old EXCEPT !.fresh = FALSE].phase = old.phase
      /\ [old EXCEPT !.fresh = FALSE].took = old.took
      /\ [old EXCEPT !.fresh = FALSE].todo = old.todo
      /\ [old EXCEPT !.fresh = FALSE].on = old.on
      /\ [old EXCEPT !.fresh = FALSE].want = old.want
      /\ [old EXCEPT !.fresh = FALSE].fresh = FALSE
  BY <1>2 DEF Flush
<1>5. CASE old.on = r
  BY <1>1, <1>3, <1>4, <1>5 DEF old
<1>6. CASE old.on # r
  BY <1>1, <1>2, <1>6 DEF old
<1> QED
  BY <1>5, <1>6

LEMMA OutdateGood ==
  ASSUME NEW flushes, GoodFlushes(flushes), NEW r
  PROVE  GoodFlushes(Outdate(flushes, r))
<1>1. \A p \in Pod, s \in Slot :
        /\ Outdate(flushes, r)[p][s] \in Flush
        /\ GoodJob(Outdate(flushes, r)[p][s])
  <2> SUFFICES ASSUME NEW p \in Pod, NEW s \in Slot
               PROVE  /\ Outdate(flushes, r)[p][s] \in Flush
                      /\ GoodJob(Outdate(flushes, r)[p][s])
    OBVIOUS
  <2>1. flushes \in [Pod -> [Slot -> Flush]] /\ GoodJob(flushes[p][s])
    BY DEF GoodFlushes
  <2> QED
    BY <2>1, OutdateIs DEF GoodJob, Held
<1>2. Outdate(flushes, r) = [p \in Pod |-> [s \in Slot |-> Outdate(flushes, r)[p][s]]]
  BY DEF Outdate
<1> HIDE DEF Outdate
<1> DEFINE out == Outdate(flushes, r)
<1> HIDE DEF out
<1>3. out \in [Pod -> [Slot -> Flush]]
  BY <1>1, <1>2 DEF out
<1> QED
  BY <1>1, <1>3 DEF GoodFlushes, out

(* The three ways a flush leaves a resource. *)
LEMMA DoneGood ==
  ASSUME TypeInv, NEW p \in Pod, NEW s \in Slot, NEW r \in Resource, flush[p][s].step # "idle"
  PROVE  LET done == [flush EXCEPT ![p][s] = Done(p, @, r)]
         IN  /\ GoodFlushes(done)
             /\ \A q \in Pod, z \in Slot :
                  q # p \/ z # s => done[q][z] = flush[q][z]
             /\ done[p][s].step \in {"idle", "next"}
             /\ \A o \in Resource :
                  done[p][s].took[o] = IF o = r THEN None ELSE flush[p][s].took[o]
<1> DEFINE job == Done(p, flush[p][s], r)
<1>1. flush[p][s] \in Flush /\ Held(flush[p][s]) /\ known[p] \subseteq Client
  BY DEF TypeInv, TypeOK, GoodFlushes, GoodJob
<1>2. /\ job \in Flush /\ Held(job) /\ job.on = NoResource /\ job.step \in {"idle", "next"}
      /\ \A o \in Resource : job.took[o] = IF o = r THEN None ELSE flush[p][s].took[o]
  BY <1>1, DoneType
<1>3. GoodJob(job)
  BY <1>2, BetweenGood
<1>4. GoodFlushes([flush EXCEPT ![p][s] = job])
  BY <1>2, <1>3, SetGood DEF TypeInv
<1>5. \A q \in Pod, z \in Slot :
        [flush EXCEPT ![p][s] = job][q][z] = IF q = p /\ z = s THEN job ELSE flush[q][z]
  BY DEF TypeInv, GoodFlushes
<1> HIDE DEF job
<1> QED
  BY <1>2, <1>4, <1>5 DEF job

LEMMA PendingType ==
  ASSUME TypeInv, NEW p \in Pod, NEW s \in Slot, NEW r \in Resource
  PROVE  LET back == [pending EXCEPT ![p][r] = Newest(@, flush[p][s].took[r])]
         IN  /\ back \in [Pod -> [Resource -> Activity]]
             /\ \A q \in Pod, o \in Resource, c \in Client :
                  back[q][o][c] >= pending[q][o][c]
             /\ \A c \in Client : back[p][r][c] >= flush[p][s].took[r][c]
             /\ \A q \in Pod, o \in Resource, c \in Client :
                  \/ back[q][o][c] = pending[q][o][c]
                  \/ q = p /\ o = r /\ back[q][o][c] = flush[p][s].took[r][c]
<1> DEFINE both == Newest(pending[p][r], flush[p][s].took[r])
           back == [pending EXCEPT ![p][r] = both]
<1>1. pending \in [Pod -> [Resource -> Activity]] /\ flush[p][s].took[r] \in Activity
  BY DEF TypeInv, TypeOK, Flush
<1>2. /\ both \in Activity
      /\ \A c \in Client : /\ both[c] \in {pending[p][r][c], flush[p][s].took[r][c]}
                           /\ both[c] >= pending[p][r][c]
                           /\ both[c] >= flush[p][s].took[r][c]
  BY <1>1, NewestType
<1> HIDE DEF both
<1>3. /\ back \in [Pod -> [Resource -> Activity]]
      /\ \A q \in Pod, o \in Resource :
           back[q][o] = IF q = p /\ o = r THEN both ELSE pending[q][o]
  BY <1>1, <1>2
<1>4. \A q \in Pod, o \in Resource, c \in Client : pending[q][o][c] >= pending[q][o][c]
  BY <1>1, Constants DEF Activity
<1> HIDE DEF back
<1> QED
  BY <1>2, <1>3, <1>4 DEF back, both

LEMMA NoteType ==
  ASSUME clock \in Time, NEW buffers \in [Pod -> [Resource -> Activity]], NEW p \in Pod,
         NEW resources \in SUBSET Resource, NEW c \in Client
  PROVE  LET noted == Note(buffers, p, resources, c)
         IN  /\ noted \in [Pod -> [Resource -> Activity]]
             /\ \A q \in Pod, o \in Resource :
                  noted[q][o] = IF q = p /\ o \in resources
                                THEN Newest(buffers[q][o], Only(c, clock)) ELSE buffers[q][o]
<1>1. Only(c, clock) \in Activity
  BY ActivityType, Constants
<1>2. \A o \in Resource : Newest(buffers[p][o], Only(c, clock)) \in Activity
  BY <1>1, NewestType
<1> QED
  BY <1>2 DEF Note

LEMMA TypeInit == Init => TypeInv
<1> SUFFICES ASSUME Init PROVE TypeInv
  OBVIOUS
<1>1. clock \in Time /\ spent \in [{"use", "failure", "touch", "crash", "delete"} -> Nat]
      /\ uses \in [Client -> SUBSET Time] /\ known \in [Pod -> SUBSET Client]
  BY Constants DEF Init
<1>2. pending \in [Pod -> [Resource -> Activity]] /\ served \in [Pod -> [Resource -> Activity]]
  BY ActivityType DEF Init
<1>3. status \in [Resource -> Status] /\ \A r \in Resource : status[r].at = None
  <2>1. [Absent EXCEPT !.live = TRUE, !.born = 1] \in Status
        /\ [Absent EXCEPT !.live = TRUE, !.born = 1].at = None
    BY ActivityType, Constants DEF Absent, Status, Conditions
  <2> QED
    BY <2>1 DEF Init
<1>4. Few(None)
  <2>1. {c \in Client : None[c] > 0} = {}
    BY DEF None
  <2> QED
    BY <2>1, FS_EmptySet, Constants DEF Few
<1>5. GoodFlushes(flush)
  BY NoFlushType, BetweenGood DEF Init, GoodFlushes
<1> QED
  BY <1>1, <1>2, <1>3, <1>4, <1>5, Constants DEF TypeInv, TypeOK, GoodFlushes, Few

LEMMA SpendType ==
  ASSUME TypeInv, NEW what \in {"use", "failure", "touch", "crash", "delete"}, Spend(what)
  PROVE  spent' \in [{"use", "failure", "touch", "crash", "delete"} -> Nat]
BY DEF TypeInv, TypeOK, Spend

(* What writes neither status nor clock keeps their types. *)
LEMMA StatusType ==
  ASSUME TypeInv, UNCHANGED <<clock, status>>, GoodFlushes(flush'),
         pending' \in [Pod -> [Resource -> Activity]], served' \in [Pod -> [Resource -> Activity]],
         known' \in [Pod -> SUBSET Client], uses' \in [Client -> SUBSET Time],
         spent' \in [{"use", "failure", "touch", "crash", "delete"} -> Nat]
  PROVE  TypeInv'
BY DEF TypeInv, TypeOK, GoodFlushes

LEMMA SettleGood ==
  ASSUME TypeInv, NEW p \in Pod, NEW s \in Slot, NEW r \in Resource,
         flush[p][s].step # "idle", Settle(p, s, r) \/ PutBack(p, s, r)
  PROVE  GoodFlushes(flush') /\ pending' \in [Pod -> [Resource -> Activity]]
<1>1. flush' = [flush EXCEPT ![p][s] = Done(p, @, r)]
  BY DEF Settle, PutBack
<1>2. GoodFlushes(flush')
  BY <1>1, DoneGood
<1>3. CASE Settle(p, s, r)
  BY <1>2, <1>3 DEF Settle, TypeInv, TypeOK
<1>4. CASE PutBack(p, s, r)
  BY <1>2, <1>4, PendingType DEF PutBack
<1> QED
  BY <1>3, <1>4

(* The copy a flush wants to write onto r. *)
LEMMA WriteType ==
  ASSUME TypeInv, NEW p \in Pod, NEW s \in Slot, NEW r \in Resource, Putting(p, s, r),
         status' = [status EXCEPT ![r] = flush[p][s].want]
  PROVE  /\ status' \in [Resource -> Status]
         /\ \A u \in User : Cardinality({c \in Client : status'[u].at[c] > 0}) <= Limit
<1>1. flush[p][s].want \in Status
  BY DEF TypeInv, TypeOK, Flush
<1>2. r \in User => Few(flush[p][s].want.at)
  BY DEF TypeInv, GoodFlushes, GoodJob, Putting
<1>3. \A u \in User : Few(status[u].at) /\ u \in Resource
  BY Constants DEF TypeInv, TypeOK, Few
<1>4. \A o \in Resource : status'[o] = IF o = r THEN flush[p][s].want ELSE status[o]
  BY DEF TypeInv, TypeOK
<1>5. \A u \in User : Few(status'[u].at)
  BY <1>2, <1>3, <1>4
<1> QED
  BY <1>1, <1>5 DEF TypeInv, TypeOK, Few

LEMMA AbsentFew == Few(Absent.at)
<1>1. {c \in Client : Absent.at[c] > 0} = {}
  BY DEF Absent, None
<1> QED
  BY <1>1, FS_EmptySet, Constants DEF Few

LEMMA ReadType ==
  ASSUME TypeInv, NEW p \in Pod, NEW s \in Slot, NEW r \in Resource,
         At(p, s, r), status[r].live,
         NEW want \in Projected(r, status[r], flush[p][s].took[r]), NEW job,
         job = [flush[p][s] EXCEPT !.step = "put", !.on = r, !.fresh = TRUE, !.want = want]
  PROVE  /\ job \in Flush /\ job.step = "put" /\ job.on = r /\ job.fresh = TRUE
         /\ job.want = want /\ job.took = flush[p][s].took
         /\ GoodJob(job)
<1> DEFINE old == flush[p][s]
<1>1. old \in Flush /\ Held(old) /\ old.step # "idle"
  BY DEF TypeInv, TypeOK, GoodFlushes, GoodJob, At
<1>2. clock \in Time /\ status[r] \in Status /\ old.took[r] \in Activity
  BY <1>1 DEF TypeInv, TypeOK, Flush
<1>3. want \in Status /\ (r \in User => Few(want.at))
  BY <1>2, ProjectedType
<1>6. job = [old EXCEPT !.step = "put", !.on = r, !.fresh = TRUE, !.want = want]
  OBVIOUS
<1> HIDE DEF old
<1>4. /\ job \in Flush /\ job.step = "put" /\ job.on = r /\ job.fresh = TRUE
      /\ job.want = want /\ job.took = old.took /\ job.todo = old.todo /\ job.phase = old.phase
  BY <1>1, <1>3, <1>6 DEF Flush
<1>5. GoodJob(job)
  BY <1>1, <1>3, <1>4 DEF GoodJob, Held
<1> QED
  BY <1>4, <1>5 DEF old

LEMMA RereadType ==
  ASSUME TypeInv, NEW p \in Pod, NEW s \in Slot, NEW r \in Resource,
         Putting(p, s, r), flush[p][s].try < 3
  PROVE  LET job == [flush[p][s] EXCEPT !.step = "reread", !.try = flush[p][s].try + 1, !.want = Absent]
         IN  /\ job \in Flush /\ job.step = "reread" /\ job.took = flush[p][s].took
             /\ GoodJob(job)
<1> DEFINE old == flush[p][s]
           job == [old EXCEPT !.step = "reread", !.try = old.try + 1, !.want = Absent]
<1>1. old \in Flush /\ Held(old) /\ old.step # "idle" /\ old.try + 1 \in 1 .. 3
  <2>1. old \in Flush /\ Held(old) /\ old.step # "idle" /\ old.try < 3
    BY DEF TypeInv, TypeOK, GoodFlushes, GoodJob, Putting
  <2> QED
    BY <2>1 DEF Flush
<1> HIDE DEF old
<1>2. /\ job \in Flush /\ job.step = "reread" /\ job.took = old.took
      /\ job.todo = old.todo /\ job.phase = old.phase
  BY <1>1, NoFlushType DEF Flush
<1> HIDE DEF job
<1>3. GoodJob(job)
  BY <1>1, <1>2 DEF GoodJob, Held
<1> QED
  BY <1>2, <1>3 DEF job, old

LEMMA BeginType ==
  ASSUME TypeInv, NEW p \in Pod, NEW s \in Slot, Begin(p, s)
  PROVE  /\ GoodFlushes(flush')
         /\ flush'[p][s].step \in {"idle", "next"}
         /\ \A r \in Resource : flush'[p][s].took[r] = pending[p][r]
         /\ \A q \in Pod, z \in Slot : q # p \/ z # s => flush'[q][z] = flush[q][z]
<1> DEFINE took == pending[p]
           todo == Todo(took, User)
           first == [NoFlush EXCEPT !.step = "next", !.took = took, !.todo = todo]
           job == Continue(p, first)
<1>1. took \in [Resource -> Activity] /\ todo \subseteq Resource /\ known[p] \subseteq Client
  BY Constants DEF TypeInv, TypeOK, Todo
<1>2. \A r \in Resource : took[r] # None => r \in todo \/ r \in Client
  BY Constants DEF Todo
<1>3. NoFlush.phase = "users"
  BY DEF NoFlush
<1>4. flush' = [flush EXCEPT ![p][s] = job]
  BY DEF Begin
<1> HIDE DEF took, todo
<1>5. /\ first \in Flush /\ first.step = "next" /\ first.on = NoResource
      /\ first.took = took /\ first.todo = todo /\ first.phase = "users"
  BY <1>1, <1>3, NoFlushType DEF Flush
<1> HIDE DEF first
<1>6. Held(first)
  BY <1>2, <1>5 DEF Held
<1>7. /\ job \in Flush /\ job.on = NoResource /\ job.step \in {"idle", "next"} /\ Held(job)
      /\ \A r \in Resource : job.took[r] = first.took[r]
  BY <1>1, <1>5, <1>6, ContinueType
<1> HIDE DEF job
<1>8. GoodFlushes(flush')
  BY <1>4, <1>7, BetweenGood, SetGood DEF TypeInv
<1>9. \A q \in Pod, z \in Slot :
        flush'[q][z] = IF q = p /\ z = s THEN job ELSE flush[q][z]
  BY <1>4 DEF TypeInv, GoodFlushes
<1> QED
  BY <1>5, <1>7, <1>8, <1>9 DEF took

LEMMA TypeStep == TypeInv /\ [Next]_vars => TypeInv'
<1> SUFFICES ASSUME TypeInv, [Next]_vars PROVE TypeInv'
  OBVIOUS
<1> USE DEF TypeInv
<1>0. /\ clock \in Time /\ status \in [Resource -> Status] /\ known \in [Pod -> SUBSET Client]
      /\ pending \in [Pod -> [Resource -> Activity]] /\ served \in [Pod -> [Resource -> Activity]]
      /\ spent \in [{"use", "failure", "touch", "crash", "delete"} -> Nat]
      /\ uses \in [Client -> SUBSET Time] /\ GoodFlushes(flush)
  BY DEF TypeOK
<1>1. CASE UNCHANGED vars
  BY <1>1 DEF vars, TypeOK, GoodFlushes
<1>2. ASSUME NEW p \in Pod, NEW c \in Client, Record(p, c) PROVE TypeInv'
  <2>1. PICK signedIn \in {{}} \cup {{u} : u \in User} :
          /\ pending' = Note(pending, p, signedIn \cup {c}, c)
          /\ served' = Note(served, p, signedIn \cup {c}, c)
    BY <1>2 DEF Record
  <2>2. signedIn \cup {c} \in SUBSET Resource
    BY Constants
  <2>3. /\ pending' \in [Pod -> [Resource -> Activity]]
        /\ served' \in [Pod -> [Resource -> Activity]]
    <3> DEFINE resources == signedIn \cup {c}
    <3>1. /\ pending' = Note(pending, p, resources, c) /\ served' = Note(served, p, resources, c)
          /\ resources \in SUBSET Resource
      BY <2>1, <2>2
    <3> HIDE DEF resources
    <3>2. /\ Note(pending, p, resources, c) \in [Pod -> [Resource -> Activity]]
          /\ Note(served, p, resources, c) \in [Pod -> [Resource -> Activity]]
      BY <3>1, <1>0, NoteType
    <3> QED
      BY <3>1, <3>2
  <2>4. spent' \in [{"use", "failure", "touch", "crash", "delete"} -> Nat]
    BY <1>2, SpendType DEF Record
  <2>5. uses' \in [Client -> SUBSET Time]
    BY <1>0, <1>2 DEF Record
  <2> QED
    BY <1>0, <1>2, <2>3, <2>4, <2>5, StatusType DEF Record
<1>3. ASSUME NEW p \in Pod, NEW c \in Client, RegisterClient(p, c) \/ UnregisterClient(p, c)
      PROVE  TypeInv'
  <2>1. known' \in [Pod -> SUBSET Client]
    BY <1>0, <1>3 DEF RegisterClient, UnregisterClient
  <2> QED
    BY <1>0, <1>3, <2>1, StatusType DEF RegisterClient, UnregisterClient
<1>4. ASSUME NEW p \in Pod, NEW s \in Slot, Begin(p, s) PROVE TypeInv'
  <2>1. pending' \in [Pod -> [Resource -> Activity]]
    BY <1>0, <1>4, ActivityType DEF Begin
  <2> QED
    BY <1>0, <1>4, <2>1, BeginType, StatusType DEF Begin
<1>5. ASSUME NEW p \in Pod, NEW s \in Slot, NEW r \in Resource, Skip(p, s, r) PROVE TypeInv'
  BY <1>0, <1>5, SettleGood, StatusType DEF Skip, At
<1>6. ASSUME NEW p \in Pod, NEW s \in Slot, NEW r \in Resource, Read(p, s, r) PROVE TypeInv'
  <2>1. CASE Settle(p, s, r)
    BY <1>0, <1>6, <2>1, SettleGood, StatusType DEF Read, At
  <2>2. CASE ~Settle(p, s, r)
    <3>1. status[r].live /\ At(p, s, r)
      BY <1>6, <2>2 DEF Read
    <3>2. PICK want \in Projected(r, status[r], flush[p][s].took[r]) :
            /\ flush' = [flush EXCEPT ![p][s] =
                 [flush[p][s] EXCEPT !.step = "put", !.on = r, !.fresh = TRUE, !.want = want]]
            /\ UNCHANGED pending
      BY <1>6, <2>2 DEF Read
    <3> DEFINE job == [flush[p][s] EXCEPT !.step = "put", !.on = r, !.fresh = TRUE, !.want = want]
    <3>4. flush' = [flush EXCEPT ![p][s] = job]
      BY <3>2
    <3> HIDE DEF job
    <3>5. job \in Flush /\ GoodJob(job)
      BY <3>1, <3>2, ReadType DEF job
    <3>3. GoodFlushes(flush')
      BY <3>4, <3>5, <1>0, SetGood
    <3> QED
      BY <3>2, <3>3, <1>0, <1>6, StatusType DEF Read
  <2> QED
    BY <2>1, <2>2
<1>7. ASSUME NEW p \in Pod, NEW s \in Slot, NEW r \in Resource, ReadFails(p, s, r) PROVE TypeInv'
  <2>1. spent' \in [{"use", "failure", "touch", "crash", "delete"} -> Nat]
    BY <1>7, SpendType DEF ReadFails
  <2> QED
    BY <1>0, <1>7, <2>1, SettleGood, StatusType DEF ReadFails, At
<1>8. ASSUME NEW p \in Pod, NEW s \in Slot, NEW r \in Resource, Write(p, s, r) PROVE TypeInv'
  <2>1. /\ status' \in [Resource -> Status]
        /\ \A u \in User : Cardinality({c \in Client : status'[u].at[c] > 0}) <= Limit
    BY <1>8, WriteType DEF Write
  <2>2. GoodFlushes(flush')
    BY <1>8, DoneGood, OutdateGood DEF Write, Putting
  <2> QED
    BY <1>0, <1>8, <2>1, <2>2 DEF Write, TypeOK, GoodFlushes
<1>9. ASSUME NEW p \in Pod, NEW s \in Slot, NEW r \in Resource, Refused(p, s, r) PROVE TypeInv'
  <2>0. Putting(p, s, r) /\ UNCHANGED <<clock, status, known, spent, served, uses>>
    BY <1>9 DEF Refused
  <2>1. CASE Settle(p, s, r) \/ PutBack(p, s, r)
    BY <1>0, <2>0, <2>1, SettleGood, StatusType DEF Putting
  <2>2. CASE /\ flush[p][s].try < 3 /\ UNCHANGED pending
             /\ flush' = [flush EXCEPT ![p][s] =
                  [@ EXCEPT !.step = "reread", !.try = flush[p][s].try + 1, !.want = Absent]]
    <3> DEFINE job == [flush[p][s] EXCEPT !.step = "reread", !.try = flush[p][s].try + 1, !.want = Absent]
    <3>2. flush' = [flush EXCEPT ![p][s] = job]
      BY <2>2
    <3>3. job \in Flush /\ GoodJob(job)
      BY <2>0, <2>2, RereadType
    <3> HIDE DEF job
    <3>1. GoodFlushes(flush')
      BY <3>2, <3>3, <1>0, SetGood
    <3> QED
      BY <2>0, <2>2, <3>1, <1>0, StatusType
  <2> QED
    BY <1>9, <2>1, <2>2 DEF Refused
<1>10. ASSUME NEW p \in Pod, NEW s \in Slot, NEW r \in Resource, WriteFails(p, s, r)
       PROVE  TypeInv'
  <2>1. spent' \in [{"use", "failure", "touch", "crash", "delete"} -> Nat]
    BY <1>10, SpendType DEF WriteFails
  <2>2. CASE PutBack(p, s, r) /\ UNCHANGED status
    BY <1>0, <1>10, <2>1, <2>2, SettleGood, StatusType DEF WriteFails, Putting
  <2>3. CASE /\ status' = [status EXCEPT ![r] = flush[p][s].want]
             /\ flush' = Outdate([flush EXCEPT ![p][s] = Done(p, @, r)], r)
             /\ pending' = [pending EXCEPT ![p][r] = Newest(@, flush[p][s].took[r])]
    <3>1. /\ status' \in [Resource -> Status]
          /\ \A u \in User : Cardinality({c \in Client : status'[u].at[c] > 0}) <= Limit
      BY <1>10, <2>3, WriteType DEF WriteFails
    <3>2. GoodFlushes(flush')
      BY <1>10, <2>3, DoneGood, OutdateGood DEF WriteFails, Putting
    <3>3. pending' \in [Pod -> [Resource -> Activity]]
      BY <2>3, PendingType
    <3> QED
      BY <1>0, <1>10, <2>1, <3>1, <3>2, <3>3 DEF WriteFails, TypeOK, GoodFlushes
  <2> QED
    BY <1>10, <2>2, <2>3 DEF WriteFails
<1>11. CASE Tick
  <2>1. clock' \in Time
    BY <1>0, <1>11, Constants DEF Tick, Time
  <2> QED
    BY <1>0, <1>11, <2>1 DEF Tick, TypeOK, GoodFlushes
<1>12. ASSUME NEW r \in Resource, Touch(r) PROVE TypeInv'
  <2>1. spent' \in [{"use", "failure", "touch", "crash", "delete"} -> Nat]
    BY <1>12, SpendType DEF Touch
  <2>2. GoodFlushes(flush')
    BY <1>0, <1>12, OutdateGood DEF Touch
  <2> QED
    BY <1>0, <1>12, <2>1, <2>2, StatusType DEF Touch
<1>13. ASSUME NEW r \in Resource PROVE Served(r, None) \in [Pod -> [Resource -> Activity]]
  BY <1>0, ActivityType DEF Served
<1>14. ASSUME NEW r \in Resource, NEW new \in Status, Few(new.at),
              status' = [status EXCEPT ![r] = new]
       PROVE  /\ status' \in [Resource -> Status]
              /\ \A u \in User : Cardinality({c \in Client : status'[u].at[c] > 0}) <= Limit
  <2>1. \A u \in User : u \in Resource /\ Few(status[u].at)
    BY Constants DEF TypeOK, Few
  <2>2. \A o \in Resource : status'[o] = IF o = r THEN new ELSE status[o]
    BY <1>0, <1>14
  <2>3. \A u \in User : Few(status'[u].at)
    BY <2>1, <2>2, <1>14
  <2> QED
    BY <2>3, <1>0, <1>14 DEF Few
<1>15. ASSUME NEW r \in Resource, Delete(r) PROVE TypeInv'
  <2>1. spent' \in [{"use", "failure", "touch", "crash", "delete"} -> Nat]
    BY <1>15, SpendType DEF Delete
  <2>2. GoodFlushes(flush')
    BY <1>0, <1>15, OutdateGood DEF Delete
  <2>3. /\ status' \in [Resource -> Status]
        /\ \A u \in User : Cardinality({c \in Client : status'[u].at[c] > 0}) <= Limit
    BY <1>14, <1>15, AbsentFew, NoFlushType DEF Delete
  <2> QED
    BY <1>0, <1>13, <1>15, <2>1, <2>2, <2>3 DEF Delete, TypeOK, GoodFlushes
<1>16. ASSUME NEW r \in Resource, Create(r) PROVE TypeInv'
  <2> DEFINE new == [Absent EXCEPT !.live = TRUE, !.born = clock]
  <2>1. new \in Status /\ new.at = Absent.at
    BY <1>0, NoFlushType, Constants DEF Status
  <2>2. /\ status' \in [Resource -> Status]
        /\ \A u \in User : Cardinality({c \in Client : status'[u].at[c] > 0}) <= Limit
    BY <1>14, <1>16, <2>1, AbsentFew DEF Create
  <2> QED
    BY <1>0, <1>13, <1>16, <2>2 DEF Create, TypeOK, GoodFlushes
<1>17. ASSUME NEW p \in Pod, Terminate(p) PROVE TypeInv'
  <2>1. spent' \in [{"use", "failure", "touch", "crash", "delete"} -> Nat]
    BY <1>17, SpendType DEF Terminate
  <2>2. GoodFlushes(flush')
    <3>1. flush' = [flush EXCEPT ![p] = [s \in Slot |-> NoFlush]]
      BY <1>17 DEF Terminate
    <3>2. GoodJob(NoFlush)
      BY NoFlushType, BetweenGood
    <3>3. \A q \in Pod, z \in Slot :
            flush'[q][z] = IF q = p THEN NoFlush ELSE flush[q][z]
      BY <1>0, <3>1 DEF GoodFlushes
    <3>4. flush' \in [Pod -> [Slot -> Flush]]
      BY <1>0, <3>1, NoFlushType DEF GoodFlushes
    <3> QED
      BY <1>0, <3>2, <3>3, <3>4 DEF GoodFlushes
  <2>3. known' \in [Pod -> SUBSET Client]
    BY <1>0, <1>17 DEF Terminate
  <2>4. [r \in Resource |-> None] \in [Resource -> Activity]
    BY ActivityType
  <2>5. pending' \in [Pod -> [Resource -> Activity]]
    BY <1>0, <1>17, <2>4 DEF Terminate
  <2>6. served' \in [Pod -> [Resource -> Activity]]
    BY <1>0, <1>17, <2>4 DEF Terminate
  <2> QED
    BY <1>0, <1>17, <2>1, <2>2, <2>3, <2>5, <2>6, StatusType DEF Terminate
<1> QED
  BY <1>1, <1>2, <1>3, <1>4, <1>5, <1>6, <1>7, <1>8, <1>9, <1>10, <1>11, <1>12, <1>15, <1>16, <1>17
     DEF Next, Flushing, Step

LEMMA TypeAlways == Spec => []TypeInv
BY TypeInit, TypeStep, PTL DEF Spec

(* Every variable keeps its type, and a user lists at most Limit            *)
(* applications, for any replicas, flushes, resources and bounds.           *)
THEOREM TypeCorrect == Spec => []TypeOK
<1>1. TypeInv => TypeOK
  BY DEF TypeInv
<1> QED
  BY <1>1, TypeAlways, PTL

-----------------------------------------------------------------------------
(* What one step does to a flush and to a status. *)

Kept(p, s) ==
    /\ flush'[p][s].step = flush[p][s].step /\ flush'[p][s].on = flush[p][s].on
    /\ flush'[p][s].want = flush[p][s].want /\ flush'[p][s].took = flush[p][s].took
    /\ flush'[p][s].fresh => flush[p][s].fresh

Copied(p, s) ==
    \E r \in Resource : \E want \in Projected(r, status[r], flush[p][s].took[r]) :
        /\ status[r].live /\ UNCHANGED <<clock, status>>
        /\ flush'[p][s].step = "put" /\ flush'[p][s].on = r
        /\ flush'[p][s].want = want /\ flush'[p][s].took = flush[p][s].took

JobStep(p, s) == Kept(p, s) \/ Copied(p, s) \/ flush'[p][s].step # "put"

Outdated(r) == \A p \in Pod, s \in Slot : flush'[p][s].on = r => ~flush'[p][s].fresh

StatusStep(r) ==
    \/ status'[r] = status[r]
    \/ status'[r] = Absent /\ Outdated(r)
    \/ /\ ~status[r].live
       /\ status'[r] = [Absent EXCEPT !.live = TRUE, !.born = clock]
    \/ /\ Outdated(r)
       /\ \E p \in Pod, s \in Slot :
            /\ Putting(p, s, r) /\ Accepted(p, s, r)
            /\ status'[r] = flush[p][s].want

LEMMA OutdateSteps ==
  ASSUME TypeInv, NEW flushes, GoodFlushes(flushes), NEW r \in Resource,
         flush' = Outdate(flushes, r)
  PROVE  /\ Outdated(r)
         /\ \A p \in Pod, s \in Slot : flushes[p][s] = flush[p][s] => Kept(p, s)
         /\ \A p \in Pod, s \in Slot : flushes[p][s].step # "put" => flush'[p][s].step # "put"
<1>1. flushes \in [Pod -> [Slot -> Flush]]
  BY DEF GoodFlushes
<1>2. ASSUME NEW p \in Pod, NEW s \in Slot
      PROVE  /\ flush'[p][s].step = flushes[p][s].step /\ flush'[p][s].on = flushes[p][s].on
             /\ flush'[p][s].want = flushes[p][s].want /\ flush'[p][s].took = flushes[p][s].took
             /\ flush'[p][s].fresh = (flushes[p][s].fresh /\ flushes[p][s].on # r)
  BY <1>1, OutdateIs
<1>3. ASSUME NEW p \in Pod, NEW s \in Slot, flush'[p][s].on = r
      PROVE  ~flush'[p][s].fresh
  <2>1. flushes[p][s].on = r
    BY <1>2, <1>3
  <2>2. flush'[p][s].fresh = (flushes[p][s].fresh /\ flushes[p][s].on # r)
    BY <1>2
  <2> QED
    BY ONLY <2>1, <2>2
<1>4. ASSUME NEW p \in Pod, NEW s \in Slot, flushes[p][s] = flush[p][s]
      PROVE  Kept(p, s)
  <2> DEFINE old == flush[p][s]
             new == flush'[p][s]
  <2>1. /\ new.step = old.step /\ new.on = old.on /\ new.want = old.want
        /\ new.took = old.took /\ new.fresh = (old.fresh /\ old.on # r)
    BY <1>2, <1>4
  <2>2. Kept(p, s) <=> /\ new.step = old.step /\ new.on = old.on
                       /\ new.want = old.want /\ new.took = old.took
                       /\ (new.fresh => old.fresh)
    BY ONLY DEF Kept
  <2> HIDE DEF old, new
  <2> QED
    BY ONLY <2>1, <2>2
<1>5. \A p \in Pod, s \in Slot : flushes[p][s].step # "put" => flush'[p][s].step # "put"
  BY <1>2
<1>6. Outdated(r)
  BY ONLY <1>3 DEF Outdated
<1> QED
  BY ONLY <1>4, <1>5, <1>6

(* A flush that leaves its resource is at none, and the others stay. *)
LEMMA DoneSteps ==
  ASSUME TypeInv, NEW p \in Pod, NEW s \in Slot, NEW r \in Resource, flush[p][s].step # "idle",
         flush' = [flush EXCEPT ![p][s] = Done(p, @, r)]
  PROVE  \A q \in Pod, z \in Slot : JobStep(q, z)
<1> DEFINE done == [flush EXCEPT ![p][s] = Done(p, @, r)]
<1>1. /\ \A q \in Pod, z \in Slot : q # p \/ z # s => done[q][z] = flush[q][z]
      /\ done[p][s].step # "put"
  BY DoneGood
<1>2. flush' = done
  OBVIOUS
<1> HIDE DEF done
<1>3. ASSUME NEW q \in Pod, NEW z \in Slot PROVE JobStep(q, z)
  <2>1. CASE q = p /\ z = s
    BY <1>1, <1>2, <2>1 DEF JobStep
  <2>2. CASE q # p \/ z # s
    BY <1>1, <1>2, <2>2 DEF JobStep, Kept
  <2> QED
    BY <2>1, <2>2
<1> QED
  BY <1>3

LEMMA SettleSteps ==
  ASSUME TypeInv, NEW p \in Pod, NEW s \in Slot, NEW r \in Resource, flush[p][s].step # "idle",
         Settle(p, s, r) \/ PutBack(p, s, r), UNCHANGED <<clock, status>>
  PROVE  /\ \A q \in Pod, z \in Slot : JobStep(q, z)
         /\ \A o \in Resource : StatusStep(o)
<1>1. flush' = [flush EXCEPT ![p][s] = Done(p, @, r)]
  BY DEF Settle, PutBack
<1> QED
  BY <1>1, DoneSteps DEF StatusStep

LEMMA WriteSteps ==
  ASSUME TypeInv, NEW p \in Pod, NEW s \in Slot, NEW r \in Resource,
         Putting(p, s, r), Accepted(p, s, r),
         status' = [status EXCEPT ![r] = flush[p][s].want],
         flush' = Outdate([flush EXCEPT ![p][s] = Done(p, @, r)], r)
  PROVE  /\ \A q \in Pod, z \in Slot : JobStep(q, z)
         /\ \A o \in Resource : StatusStep(o)
<1> DEFINE done == [flush EXCEPT ![p][s] = Done(p, @, r)]
<1>1. /\ GoodFlushes(done)
      /\ \A q \in Pod, z \in Slot : q # p \/ z # s => done[q][z] = flush[q][z]
      /\ done[p][s].step # "put"
  BY DoneGood DEF Putting
<1>2. flush' = Outdate(done, r)
  OBVIOUS
<1> HIDE DEF done
<1>3. /\ Outdated(r)
      /\ \A q \in Pod, z \in Slot : done[q][z] = flush[q][z] => Kept(q, z)
      /\ \A q \in Pod, z \in Slot : done[q][z].step # "put" => flush'[q][z].step # "put"
  BY <1>1, <1>2, OutdateSteps
<1>4. ASSUME NEW q \in Pod, NEW z \in Slot PROVE JobStep(q, z)
  <2>1. CASE q = p /\ z = s
    BY <1>1, <1>3, <2>1 DEF JobStep
  <2>2. CASE q # p \/ z # s
    BY <1>1, <1>3, <2>2 DEF JobStep
  <2> QED
    BY <2>1, <2>2
<1>5. \A o \in Resource : status'[o] = IF o = r THEN flush[p][s].want ELSE status[o]
  BY DEF TypeInv, TypeOK
<1>6. \A o \in Resource : StatusStep(o)
  BY <1>3, <1>5 DEF StatusStep
<1> QED
  BY <1>4, <1>6

LEMMA StepFrame ==
  ASSUME TypeInv, [Next]_vars
  PROVE  /\ clock' >= clock
         /\ \A p \in Pod, s \in Slot : JobStep(p, s)
         /\ \A r \in Resource : StatusStep(r)
<1> DEFINE Goal == /\ clock' >= clock
                   /\ \A p \in Pod, s \in Slot : JobStep(p, s)
                   /\ \A r \in Resource : StatusStep(r)
<1>0. /\ clock \in Nat /\ clock >= clock /\ flush \in [Pod -> [Slot -> Flush]] /\ GoodFlushes(flush)
      /\ status \in [Resource -> Status]
  BY Constants DEF TypeInv, TypeOK
<1>1. ASSUME UNCHANGED <<status, flush>>, clock' = clock \/ clock' = clock + 1 PROVE Goal
  BY <1>0, <1>1 DEF JobStep, Kept, StatusStep
<1>2. CASE UNCHANGED vars
  BY <1>1, <1>2 DEF vars
<1>3. ASSUME NEW p \in Pod, NEW c \in Client,
             Record(p, c) \/ RegisterClient(p, c) \/ UnregisterClient(p, c)
      PROVE  Goal
  BY <1>1, <1>3 DEF Record, RegisterClient, UnregisterClient
<1>4. ASSUME NEW p \in Pod, NEW s \in Slot, Begin(p, s) PROVE Goal
  <2>1. /\ flush'[p][s].step # "put"
        /\ \A q \in Pod, z \in Slot : q # p \/ z # s => flush'[q][z] = flush[q][z]
    BY <1>4, BeginType
  <2> QED
    BY <1>0, <1>4, <2>1 DEF Begin, JobStep, Kept, StatusStep
<1>5. ASSUME NEW p \in Pod, NEW s \in Slot, NEW r \in Resource, flush[p][s].step # "idle",
             Settle(p, s, r) \/ PutBack(p, s, r), UNCHANGED <<clock, status>>
      PROVE  Goal
  BY <1>0, <1>5, SettleSteps
<1>6. ASSUME NEW p \in Pod, NEW s \in Slot, NEW job \in Flush,
             flush' = [flush EXCEPT ![p][s] = job], UNCHANGED <<clock, status>>,
             flush'[p][s] = job => JobStep(p, s)
      PROVE  Goal
  <2>1. \A q \in Pod, z \in Slot : flush'[q][z] = IF q = p /\ z = s THEN job ELSE flush[q][z]
    BY <1>0, <1>6
  <2> QED
    BY <1>0, <1>6, <2>1 DEF JobStep, Kept, StatusStep
<1>7. ASSUME NEW p \in Pod, NEW s \in Slot, NEW r \in Resource, Skip(p, s, r) \/ ReadFails(p, s, r)
      PROVE  Goal
  BY <1>5, <1>7 DEF Skip, ReadFails, At
<1>8. ASSUME NEW p \in Pod, NEW s \in Slot, NEW r \in Resource, Read(p, s, r) PROVE Goal
  <2>1. CASE Settle(p, s, r)
    BY <1>5, <1>8, <2>1 DEF Read, At
  <2>2. CASE ~Settle(p, s, r)
    <3>1. status[r].live /\ At(p, s, r)
      BY <1>8, <2>2 DEF Read
    <3>6. UNCHANGED <<clock, status>>
      BY <1>8 DEF Read
    <3>2. PICK want \in Projected(r, status[r], flush[p][s].took[r]) :
            flush' = [flush EXCEPT ![p][s] =
              [flush[p][s] EXCEPT !.step = "put", !.on = r, !.fresh = TRUE, !.want = want]]
      BY <1>8, <2>2 DEF Read
    <3> DEFINE job == [flush[p][s] EXCEPT !.step = "put", !.on = r, !.fresh = TRUE, !.want = want]
    <3>4. flush' = [flush EXCEPT ![p][s] = job]
      BY <3>2
    <3> HIDE DEF job
    <3>3. job \in Flush /\ job.step = "put" /\ job.on = r /\ job.want = want /\ job.took = flush[p][s].took
      <4>1. job \in Flush
        BY <3>1, <3>2, ReadType DEF job
      <4>2. flush[p][s] \in Flush
        BY <1>0
      <4>3. /\ job.step = "put" /\ job.on = r /\ job.want = want
            /\ job.took = flush[p][s].took
        BY <4>2 DEF job, Flush
      <4> QED
        BY <4>1, <4>3
    <3>5. flush'[p][s] = job => JobStep(p, s)
      BY <3>1, <3>3, <3>6 DEF JobStep, Copied
    <3> QED
      BY <1>6, <3>3, <3>4, <3>5, <3>6
  <2> QED
    BY <2>1, <2>2
<1>9. ASSUME NEW p \in Pod, NEW s \in Slot, NEW r \in Resource, Write(p, s, r) PROVE Goal
  BY <1>0, <1>9, WriteSteps DEF Write
<1>10. ASSUME NEW p \in Pod, NEW s \in Slot, NEW r \in Resource, Refused(p, s, r) PROVE Goal
  <2>1. Putting(p, s, r) /\ UNCHANGED <<clock, status>>
    BY <1>10 DEF Refused
  <2>2. CASE Settle(p, s, r) \/ PutBack(p, s, r)
    BY <1>5, <2>1, <2>2 DEF Putting
  <2>3. CASE /\ flush[p][s].try < 3
             /\ flush' = [flush EXCEPT ![p][s] =
                  [@ EXCEPT !.step = "reread", !.try = flush[p][s].try + 1, !.want = Absent]]
    <3> DEFINE job == [flush[p][s] EXCEPT !.step = "reread", !.try = flush[p][s].try + 1, !.want = Absent]
    <3>1. job \in Flush /\ job.step = "reread"
      BY <2>1, <2>3, RereadType
    <3>2. flush' = [flush EXCEPT ![p][s] = job]
      BY <2>3
    <3> HIDE DEF job
    <3>3. flush'[p][s] = job => JobStep(p, s)
      BY <3>1 DEF JobStep
    <3> QED
      BY <1>6, <2>1, <3>1, <3>2, <3>3
  <2> QED
    BY <1>10, <2>2, <2>3 DEF Refused
<1>11. ASSUME NEW p \in Pod, NEW s \in Slot, NEW r \in Resource, WriteFails(p, s, r) PROVE Goal
  <2>1. Putting(p, s, r) /\ UNCHANGED clock
    BY <1>11 DEF WriteFails
  <2>2. CASE PutBack(p, s, r) /\ UNCHANGED status
    BY <1>5, <2>1, <2>2 DEF Putting
  <2>3. CASE /\ Accepted(p, s, r)
             /\ status' = [status EXCEPT ![r] = flush[p][s].want]
             /\ flush' = Outdate([flush EXCEPT ![p][s] = Done(p, @, r)], r)
    BY <1>0, <2>1, <2>3, WriteSteps
  <2> QED
    BY <1>11, <2>2, <2>3 DEF WriteFails
<1>12. CASE Tick
  BY <1>1, <1>12 DEF Tick
<1>13. ASSUME NEW r \in Resource, flush' = Outdate(flush, r)
       PROVE  Outdated(r) /\ \A p \in Pod, s \in Slot : JobStep(p, s)
  BY <1>0, <1>13, OutdateSteps DEF JobStep
<1>14. ASSUME NEW r \in Resource, Touch(r) PROVE Goal
  BY <1>0, <1>13, <1>14 DEF Touch, StatusStep
<1>15. ASSUME NEW r \in Resource, Delete(r) PROVE Goal
  <2>1. \A o \in Resource : status'[o] = IF o = r THEN Absent ELSE status[o]
    BY <1>0, <1>15 DEF Delete
  <2> QED
    BY <1>0, <1>13, <1>15, <2>1 DEF Delete, StatusStep
<1>16. ASSUME NEW r \in Resource, Create(r) PROVE Goal
  <2>1. \A o \in Resource : status'[o] = IF o = r THEN [Absent EXCEPT !.live = TRUE, !.born = clock]
                                         ELSE status[o]
    BY <1>0, <1>16 DEF Create
  <2> QED
    BY <1>0, <1>16, <2>1 DEF Create, JobStep, Kept, StatusStep
<1>17. ASSUME NEW p \in Pod, Terminate(p) PROVE Goal
  <2>1. \A q \in Pod, s \in Slot : flush'[q][s] = IF q = p THEN NoFlush ELSE flush[q][s]
    BY <1>0, <1>17 DEF Terminate
  <2> QED
    BY <1>0, <1>17, <2>1, NoFlushType DEF Terminate, JobStep, Kept, StatusStep
<1> QED
  BY <1>2, <1>3, <1>4, <1>7, <1>8, <1>9, <1>10, <1>11, <1>12, <1>14, <1>15, <1>16, <1>17
     DEF Next, Flushing, Step

-----------------------------------------------------------------------------
(* The copy a flush is about to write carries what it took and, as long as  *)
(* it is current, all that the status shows.                                *)

Carries(p, s, r) ==
    /\ flush[p][s].want.live
    /\ r \in Client /\ flush[p][s].want.inactive = "True" =>
         InactiveAt(clock, flush[p][s].want.at[r], flush[p][s].want.born)
    /\ \A c \in Client, t \in Nat :
         Pair(r, c) /\ flush[p][s].took[r][c] >= t => Lists(r, flush[p][s].want.at, c, t)

Current(p, s, r) ==
    flush[p][s].fresh =>
        /\ status[r].live
        /\ \A c \in Client, t \in Nat :
             Pair(r, c) /\ Shown(r, c, t) => Lists(r, flush[p][s].want.at, c, t)

CopyInv ==
    \A p \in Pod, s \in Slot, r \in Resource :
        Putting(p, s, r) => Carries(p, s, r) /\ Current(p, s, r)

LEMMA InactiveStays ==
  ASSUME NEW now \in Nat, NEW later \in Nat, later >= now,
         NEW at \in Nat, NEW born \in Nat, InactiveAt(now, at, born)
  PROVE  InactiveAt(later, at, born)
BY ActivityTrackerAssumption DEF InactiveAt

(* A copy that was just read. *)
LEMMA CopiedGood ==
  ASSUME TypeInv, NEW p \in Pod, NEW s \in Slot, Copied(p, s), NEW r \in Resource,
         Putting(p, s, r)'
  PROVE  Carries(p, s, r)' /\ Current(p, s, r)'
<1>0. PICK o \in Resource : \E want \in Projected(o, status[o], flush[p][s].took[o]) :
        /\ status[o].live /\ UNCHANGED <<clock, status>>
        /\ flush'[p][s].step = "put" /\ flush'[p][s].on = o
        /\ flush'[p][s].want = want /\ flush'[p][s].took = flush[p][s].took
  BY DEF Copied
<1>1. PICK want \in Projected(o, status[o], flush[p][s].took[o]) :
        /\ status[o].live /\ UNCHANGED <<clock, status>>
        /\ flush'[p][s].step = "put" /\ flush'[p][s].on = o
        /\ flush'[p][s].want = want /\ flush'[p][s].took = flush[p][s].took
  BY <1>0
<1>2. o = r
  BY <1>1 DEF Putting
<1>3. clock \in Time /\ status[r] \in Status /\ flush[p][s].took[r] \in Activity
  BY DEF TypeInv, TypeOK, Flush
<1>4. want \in Projected(r, status[r], flush[p][s].took[r])
  BY <1>1, <1>2
<1>5. /\ want.live = status[r].live
      /\ r \in Client => (want.inactive = "True" => InactiveAt(clock, want.at[r], want.born))
  BY <1>3, <1>4, ProjectedType
<1>6. ASSUME NEW c \in Client, Pair(r, c), NEW t \in Nat
      PROVE  /\ Lists(r, status[r].at, c, t) => Lists(r, want.at, c, t)
             /\ flush[p][s].took[r][c] >= t => Lists(r, want.at, c, t)
  BY <1>3, <1>4, <1>6, ProjectedLists
<1>7. Carries(p, s, r)'
  BY <1>1, <1>2, <1>5, <1>6 DEF Carries, InactiveAt
<1>8. Current(p, s, r)'
  BY <1>1, <1>2, <1>6 DEF Current, Shown
<1> QED
  BY <1>7, <1>8

(* A flush that keeps its copy across the steps of others. *)
LEMMA KeptGood ==
  ASSUME TypeInv, CopyInv, [Next]_vars, NEW p \in Pod, NEW s \in Slot, Kept(p, s),
         NEW r \in Resource, Putting(p, s, r)'
  PROVE  Carries(p, s, r)' /\ Current(p, s, r)'
<1>1. Putting(p, s, r) /\ Carries(p, s, r) /\ Current(p, s, r)
  BY DEF Kept, Putting, CopyInv
<1>2. clock \in Nat /\ clock' \in Nat /\ clock' >= clock
  BY StepFrame, TypeStep, Constants DEF TypeInv, TypeOK
<1>3. flush[p][s].want \in Status
  BY DEF TypeInv, TypeOK, Flush
<1>4. ASSUME r \in Client, flush[p][s].want.inactive = "True"
      PROVE  InactiveAt(clock', flush[p][s].want.at[r], flush[p][s].want.born)
  <2>1. flush[p][s].want.at[r] \in Nat /\ flush[p][s].want.born \in Nat
    BY <1>3, <1>4, Constants DEF Status, Activity
  <2> QED
    BY <1>1, <1>2, <1>4, <2>1, InactiveStays DEF Carries
<1>5. Carries(p, s, r)'
  BY <1>1, <1>4 DEF Carries, Kept, InactiveAt
<1>6. ASSUME flush'[p][s].fresh PROVE Current(p, s, r)'
  <2>1. status[r].live /\ \A c \in Client, t \in Nat :
          Pair(r, c) /\ Shown(r, c, t) => Lists(r, flush[p][s].want.at, c, t)
    BY <1>1, <1>6 DEF Current, Kept
  <2>2. ~Outdated(r)
    BY <1>6 DEF Outdated, Putting
  <2>3. status'[r] = status[r]
    BY <2>1, <2>2, StepFrame DEF StatusStep
  <2> QED
    BY <2>1, <2>3 DEF Current, Shown, Kept
<1> QED
  BY <1>5, <1>6 DEF Current

LEMMA CopyStep == TypeInv /\ CopyInv /\ [Next]_vars => CopyInv'
<1> SUFFICES ASSUME TypeInv, CopyInv, [Next]_vars, NEW p \in Pod, NEW s \in Slot,
                    NEW r \in Resource, Putting(p, s, r)'
             PROVE  Carries(p, s, r)' /\ Current(p, s, r)'
  BY DEF CopyInv
<1>1. Kept(p, s) \/ Copied(p, s)
  BY StepFrame DEF JobStep, Putting
<1> QED
  BY <1>1, CopiedGood, KeptGood

LEMMA CopyInit == Init => CopyInv
BY NoFlushType DEF Init, CopyInv, Putting

LEMMA CopyAlways == Spec => [](TypeInv /\ CopyInv)
BY TypeInit, CopyInit, TypeStep, CopyStep, PTL DEF Spec

(* An accepted write keeps what the status shows. *)
LEMMA ShownStays ==
  ASSUME TypeInv, CopyInv, [Next]_vars, NEW r \in Resource, status[r].live, status'[r].live,
         NEW c \in Client, Pair(r, c), NEW t \in Nat, Shown(r, c, t)
  PROVE  Lists(r, status'[r].at, c, t)
<1>1. StatusStep(r)
  BY StepFrame
<1>2. CASE status'[r] = status[r]
  BY <1>2 DEF Shown
<1>3. CASE status'[r] = Absent
  BY <1>3 DEF Absent
<1>4. ASSUME NEW p \in Pod, NEW s \in Slot, Putting(p, s, r), Accepted(p, s, r),
             status'[r] = flush[p][s].want
      PROVE  Lists(r, status'[r].at, c, t)
  <2>1. Current(p, s, r) /\ flush[p][s].fresh
    BY <1>4 DEF CopyInv, Accepted
  <2> QED
    BY <2>1, <1>4 DEF Current
<1> QED
  BY <1>1, <1>2, <1>3, <1>4 DEF StatusStep

(* What a user's list shows it keeps showing while the user exists, for any *)
(* number of replicas and flushes and any merge order (#flushUser,          *)
(* activity-tracker.js:116-135).                                            *)
THEOREM RecentKept == Spec => RecentNeverBack
<1>1. ASSUME TypeInv, CopyInv, [Next]_vars,
             NEW u \in User, NEW c \in Client, NEW t \in Time,
             status[u].live, status'[u].live, Shown(u, c, t)
      PROVE  Lists(u, status'[u].at, c, t)
  BY <1>1, ShownStays, Constants DEF Pair
<1>2. TypeInv /\ CopyInv /\ [Next]_vars =>
        [\A u \in User, c \in Client, t \in Time :
           status[u].live /\ status'[u].live /\ Shown(u, c, t) => Shown(u, c, t)']_vars
  BY <1>1 DEF Shown
<1> QED
  BY <1>2, CopyAlways, PTL DEF Spec, RecentNeverBack

(* An Inactive condition is true of the lastUsedAt beside it, for any       *)
(* replicas and flushes (client-activity-state.js:19-37).                   *)
THEOREM InactiveTold == Spec => []InactiveHonest
<1>0. \A t : Absent.inactive = "none" /\ [Absent EXCEPT !.live = TRUE, !.born = t].inactive = "none"
  BY DEF Absent
<1>1. Init => InactiveHonest
  BY <1>0, Constants DEF Init, InactiveHonest
<1>2. TypeInv /\ CopyInv /\ InactiveHonest /\ [Next]_vars => InactiveHonest'
  <2> SUFFICES ASSUME TypeInv, CopyInv, InactiveHonest, [Next]_vars,
                      NEW c \in Client, status'[c].inactive = "True"
               PROVE  InactiveAt(clock', status'[c].at[c], status'[c].born)
    BY DEF InactiveHonest, InactiveAt
  <2>1. c \in Resource /\ clock \in Nat /\ clock' \in Nat /\ clock' >= clock
    BY StepFrame, TypeStep, Constants DEF TypeInv, TypeOK
  <2>2. StatusStep(c)
    BY <2>1, StepFrame
  <2>3. ASSUME NEW copy \in Status, copy.inactive = "True", InactiveAt(clock, copy.at[c], copy.born)
        PROVE  InactiveAt(clock', copy.at[c], copy.born)
    <3>1. copy.at[c] \in Nat /\ copy.born \in Nat
      BY Constants DEF Status, Activity
    <3> QED
      BY <2>1, <2>3, <3>1, InactiveStays
  <2>4. CASE status'[c] = status[c]
    BY <2>1, <2>3, <2>4 DEF InactiveHonest, TypeInv, TypeOK
  <2>5. CASE status'[c] = Absent \/ status'[c] = [Absent EXCEPT !.live = TRUE, !.born = clock]
    BY <1>0, <2>5
  <2>6. ASSUME NEW p \in Pod, NEW s \in Slot, Putting(p, s, c), status'[c] = flush[p][s].want
        PROVE  InactiveAt(clock', status'[c].at[c], status'[c].born)
    <3>1. Carries(p, s, c) /\ flush[p][s].want \in Status
      BY <2>1, <2>6 DEF CopyInv, TypeInv, TypeOK, Flush
    <3> QED
      BY <3>1, <2>3, <2>6 DEF Carries
  <2> QED
    BY <2>2, <2>4, <2>5, <2>6 DEF StatusStep
<1> QED
  BY <1>1, <1>2, CopyAlways, PTL DEF Spec

-----------------------------------------------------------------------------
(* What one step does to what a replica buffers and what its flushes hold. *)

TookKept(p) == \A s \in Slot : flush'[p][s].took = flush[p][s].took

Left(p, s, r) ==
    \A z \in Slot, o \in Resource :
        flush'[p][z].took[o] = IF z = s /\ o = r THEN None ELSE flush[p][z].took[o]

Settled(p, s, r) ==
    status'[r].live =>
        \A c \in Client, t \in Nat \ {0} :
            Pair(r, c) /\ flush[p][s].took[r][c] >= t => Lists(r, status'[r].at, c, t)

Keeps(p) == TookKept(p) /\ pending'[p] = pending[p]

Notes(p) ==
    /\ TookKept(p)
    /\ \E c \in Client :
         /\ clock \in uses'[c]
         /\ \A r \in Resource :
              pending'[p][r] \in {pending[p][r], Newest(pending[p][r], Only(c, clock))}

Begins(p) ==
    \E s \in Slot :
        /\ \A r \in Resource : /\ flush[p][s].took[r] = None /\ flush'[p][s].took[r] = pending[p][r]
                               /\ pending'[p][r] = None
        /\ \A z \in Slot \ {s} : flush'[p][z].took = flush[p][z].took

Settles(p) ==
    \E s \in Slot, r \in Resource :
        Left(p, s, r) /\ Settled(p, s, r) /\ pending'[p] = pending[p]

PutsBack(p) ==
    \E s \in Slot, r \in Resource :
        /\ Left(p, s, r)
        /\ \A o \in Resource :
             pending'[p][o] = IF o = r THEN Newest(pending[p][r], flush[p][s].took[r])
                              ELSE pending[p][o]

Terminates(p) ==
    \A r \in Resource : /\ pending'[p][r] = None /\ served'[p][r] = None
                        /\ \A s \in Slot : flush'[p][s].took[r] = None

BufferStep(p) ==
    Keeps(p) \/ Notes(p) \/ Begins(p) \/ Settles(p) \/ PutsBack(p) \/ Terminates(p)

ServedStep(p, r) ==
    /\ status'[r].live /\ ~status[r].live => served'[p][r] = None
    /\ \/ served'[p][r] \in {None, served[p][r]}
       \/ /\ TookKept(p) /\ UNCHANGED status
          /\ \E c \in Client :
               /\ Pair(r, c)
               /\ served'[p][r] = Newest(served[p][r], Only(c, clock))
               /\ pending'[p][r] = Newest(pending[p][r], Only(c, clock))

LEMMA LeftBy ==
  ASSUME TypeInv, NEW p \in Pod, NEW s \in Slot, NEW r \in Resource, flush[p][s].step # "idle",
         \/ flush' = [flush EXCEPT ![p][s] = Done(p, @, r)]
         \/ flush' = Outdate([flush EXCEPT ![p][s] = Done(p, @, r)], r)
  PROVE  Left(p, s, r) /\ \A q \in Pod \ {p} : TookKept(q)
<1> DEFINE done == [flush EXCEPT ![p][s] = Done(p, @, r)]
<1>1. /\ GoodFlushes(done)
      /\ \A q \in Pod, z \in Slot : q # p \/ z # s => done[q][z] = flush[q][z]
      /\ \A o \in Resource : done[p][s].took[o] = IF o = r THEN None ELSE flush[p][s].took[o]
  BY DoneGood
<1>2. flush' = done \/ flush' = Outdate(done, r)
  OBVIOUS
<1> HIDE DEF done
<1>3. \A q \in Pod, z \in Slot : flush'[q][z].took = done[q][z].took
  BY <1>1, <1>2, OutdateIs DEF GoodFlushes
<1>4. Left(p, s, r)
  <2> SUFFICES ASSUME NEW z \in Slot, NEW o \in Resource
               PROVE  flush'[p][z].took[o] =
                        IF z = s /\ o = r THEN None ELSE flush[p][z].took[o]
    BY DEF Left
  <2>1. CASE z = s
    BY <1>1, <1>3, <2>1
  <2>2. CASE z # s
    BY <1>1, <1>3, <2>2
  <2> QED
    BY <2>1, <2>2
<1>5. \A q \in Pod \ {p} : TookKept(q)
  BY <1>1, <1>3 DEF TookKept
<1> QED
  BY <1>4, <1>5

LEMMA PutBackSteps ==
  ASSUME TypeInv, NEW p \in Pod, NEW s \in Slot, NEW r \in Resource, flush[p][s].step # "idle",
         pending' = [pending EXCEPT ![p][r] = Newest(@, flush[p][s].took[r])],
         \/ flush' = [flush EXCEPT ![p][s] = Done(p, @, r)]
         \/ flush' = Outdate([flush EXCEPT ![p][s] = Done(p, @, r)], r)
  PROVE  \A q \in Pod : BufferStep(q)
<1>1. Left(p, s, r) /\ \A q \in Pod \ {p} : TookKept(q)
  BY LeftBy
<1> DEFINE both == Newest(pending[p][r], flush[p][s].took[r])
<1>2. pending' = [pending EXCEPT ![p][r] = both]
  OBVIOUS
<1> HIDE DEF both
<1>3. \A q \in Pod, o \in Resource : pending'[q][o] = IF q = p /\ o = r THEN both ELSE pending[q][o]
  BY <1>2 DEF TypeInv, TypeOK
<1>4. \A q \in Pod \ {p} : pending'[q] = pending[q]
  BY <1>2 DEF TypeInv, TypeOK
<1>5. PutsBack(p)
  BY <1>1, <1>3 DEF PutsBack, both
<1> QED
  BY <1>1, <1>4, <1>5 DEF BufferStep, Keeps

LEMMA SettledSteps ==
  ASSUME TypeInv, NEW p \in Pod, NEW s \in Slot, NEW r \in Resource, flush[p][s].step # "idle",
         UNCHANGED pending, Settled(p, s, r),
         \/ flush' = [flush EXCEPT ![p][s] = Done(p, @, r)]
         \/ flush' = Outdate([flush EXCEPT ![p][s] = Done(p, @, r)], r)
  PROVE  \A q \in Pod : BufferStep(q)
<1>1. Left(p, s, r) /\ \A q \in Pod \ {p} : TookKept(q)
  BY LeftBy
<1>2. Settles(p)
  BY <1>1 DEF Settles
<1> QED
  BY <1>1, <1>2 DEF BufferStep, Keeps

LEMMA BufferFrame ==
  ASSUME TypeInv, CopyInv, [Next]_vars
  PROVE  \A p \in Pod : BufferStep(p)
<1> DEFINE Goal == \A p \in Pod : BufferStep(p)
<1>0. /\ flush \in [Pod -> [Slot -> Flush]] /\ GoodFlushes(flush)
      /\ status \in [Resource -> Status] /\ clock \in Time
      /\ pending \in [Pod -> [Resource -> Activity]]
  BY DEF TypeInv, TypeOK
<1>1. ASSUME UNCHANGED <<pending, flush>> PROVE Goal
  BY <1>1 DEF BufferStep, Keeps, TookKept
<1>2. CASE UNCHANGED vars
  BY <1>1, <1>2 DEF vars
<1>3. ASSUME NEW p \in Pod, NEW c \in Client, Record(p, c) PROVE Goal
  <2>1. PICK signedIn \in {{}} \cup {{u} : u \in User} :
          pending' = Note(pending, p, signedIn \cup {c}, c)
    BY <1>3 DEF Record
  <2>2. \A q \in Pod \ {p} : pending'[q] = pending[q]
    BY <2>1, <1>0 DEF Note
  <2>3. \A r \in Resource : pending'[p][r] \in {pending[p][r], Newest(pending[p][r], Only(c, clock))}
    BY <2>1, <1>0 DEF Note
  <2>4. clock \in uses'[c] /\ UNCHANGED flush
    BY <1>3 DEF Record, TypeInv, TypeOK
  <2> QED
    BY <2>2, <2>3, <2>4 DEF BufferStep, Keeps, Notes, TookKept
<1>4. ASSUME NEW p \in Pod, NEW s \in Slot, Begin(p, s) PROVE Goal
  <2>1. /\ \A r \in Resource : flush'[p][s].took[r] = pending[p][r]
        /\ \A q \in Pod, z \in Slot : q # p \/ z # s => flush'[q][z] = flush[q][z]
    BY <1>4, BeginType
  <2>2. \A r \in Resource : flush[p][s].took[r] = None
    BY <1>0, <1>4 DEF Begin, GoodFlushes, GoodJob, Held
  <2>3. \A q \in Pod : pending'[q] = IF q = p THEN [r \in Resource |-> None] ELSE pending[q]
    BY <1>0, <1>4 DEF Begin
  <2>4. Begins(p)
    BY <2>1, <2>2, <2>3 DEF Begins
  <2>5. \A q \in Pod \ {p} : Keeps(q)
    BY <2>1, <2>3 DEF Keeps, TookKept
  <2> QED
    BY <2>4, <2>5 DEF BufferStep
<1>5. ASSUME NEW p \in Pod, NEW s \in Slot, NEW r \in Resource, Skip(p, s, r) PROVE Goal
  <2>1. \A c \in Client, t \in Nat \ {0} : ~(flush[p][s].took[r][c] >= t)
    BY <1>5 DEF Skip, Forgotten, None
  <2>2. Settled(p, s, r)
    BY <2>1 DEF Settled
  <2> QED
    BY <1>5, <2>2, SettledSteps DEF Skip, At, Settle
<1>6. ASSUME NEW p \in Pod, NEW s \in Slot, NEW r \in Resource, Read(p, s, r) PROVE Goal
  <2>0. At(p, s, r) /\ UNCHANGED status /\ flush[p][s].step # "idle"
    BY <1>6 DEF Read, At
  <2>1. CASE ~status[r].live /\ Settle(p, s, r)
    BY <2>0, <2>1, SettledSteps DEF Settled, Settle
  <2>2. CASE status[r].live
    <3>1. PICK want \in Projected(r, status[r], flush[p][s].took[r]) :
            IF want = status[r]
            THEN Settle(p, s, r)
            ELSE /\ flush' = [flush EXCEPT ![p][s] =
                      [@ EXCEPT !.step = "put", !.on = r, !.fresh = TRUE, !.want = want]]
                 /\ UNCHANGED pending
      BY <1>6, <2>2 DEF Read
    <3>2. CASE want = status[r]
      <4>1. status[r] \in Status /\ flush[p][s].took[r] \in Activity
        BY <1>0 DEF Flush
      <4>2. \A c \in Client, t \in Nat :
              Pair(r, c) /\ flush[p][s].took[r][c] >= t => Lists(r, want.at, c, t)
        BY <1>0, <3>1, <4>1, ProjectedLists
      <4>3. Settled(p, s, r)
        BY <2>0, <3>2, <4>2 DEF Settled
      <4> QED
        BY <2>0, <3>1, <3>2, <4>3, SettledSteps DEF Settle
    <3>3. CASE want # status[r]
      <4> DEFINE job == [flush[p][s] EXCEPT !.step = "put", !.on = r, !.fresh = TRUE, !.want = want]
      <4>1. flush' = [flush EXCEPT ![p][s] = job] /\ UNCHANGED pending
        BY <3>1, <3>3
      <4>2. job.took = flush[p][s].took
        BY <1>0 DEF Flush
      <4> HIDE DEF job
      <4>3. \A q \in Pod : TookKept(q)
        BY <1>0, <4>1, <4>2 DEF TookKept
      <4> QED
        BY <4>1, <4>3 DEF BufferStep, Keeps
    <3> QED
      BY <3>2, <3>3
  <2> QED
    BY <1>6, <2>1, <2>2 DEF Read
<1>7. ASSUME NEW p \in Pod, NEW s \in Slot, NEW r \in Resource, ReadFails(p, s, r) PROVE Goal
  BY <1>7, PutBackSteps DEF ReadFails, PutBack, At
<1>8. ASSUME NEW p \in Pod, NEW s \in Slot, NEW r \in Resource, Write(p, s, r) PROVE Goal
  <2>1. Carries(p, s, r) /\ flush[p][s].step # "idle"
    BY <1>8 DEF CopyInv, Write, Putting
  <2>2. status'[r] = flush[p][s].want
    BY <1>0, <1>8 DEF Write
  <2>3. Settled(p, s, r)
    BY <2>1, <2>2 DEF Settled, Carries
  <2> QED
    BY <1>8, <2>1, <2>3, SettledSteps DEF Write
<1>9. ASSUME NEW p \in Pod, NEW s \in Slot, NEW r \in Resource, Refused(p, s, r) PROVE Goal
  <2>0. Putting(p, s, r) /\ UNCHANGED status /\ flush[p][s].step # "idle"
    BY <1>9 DEF Refused, Putting
  <2>1. CASE ~status[r].live /\ Settle(p, s, r)
    BY <2>0, <2>1, SettledSteps DEF Settled, Settle
  <2>2. CASE PutBack(p, s, r)
    BY <2>0, <2>2, PutBackSteps DEF PutBack
  <2>3. CASE /\ flush' = [flush EXCEPT ![p][s] =
                  [@ EXCEPT !.step = "reread", !.try = flush[p][s].try + 1, !.want = Absent]]
             /\ UNCHANGED pending
    <3> DEFINE job == [flush[p][s] EXCEPT !.step = "reread", !.try = flush[p][s].try + 1, !.want = Absent]
    <3>1. flush' = [flush EXCEPT ![p][s] = job]
      BY <2>3
    <3>2. job.took = flush[p][s].took
      BY <1>0 DEF Flush
    <3> HIDE DEF job
    <3>3. \A q \in Pod : TookKept(q)
      BY <1>0, <3>1, <3>2 DEF TookKept
    <3> QED
      BY <2>3, <3>3 DEF BufferStep, Keeps
  <2> QED
    BY <1>9, <2>1, <2>2, <2>3 DEF Refused
<1>10. ASSUME NEW p \in Pod, NEW s \in Slot, NEW r \in Resource, WriteFails(p, s, r) PROVE Goal
  <2>1. flush[p][s].step # "idle"
    BY <1>10 DEF WriteFails, Putting
  <2>2. /\ pending' = [pending EXCEPT ![p][r] = Newest(@, flush[p][s].took[r])]
        /\ \/ flush' = [flush EXCEPT ![p][s] = Done(p, @, r)]
           \/ flush' = Outdate([flush EXCEPT ![p][s] = Done(p, @, r)], r)
    BY <1>10 DEF WriteFails, PutBack
  <2> QED
    BY <2>1, <2>2, PutBackSteps
<1>11. ASSUME NEW r \in Resource, flush' = Outdate(flush, r), UNCHANGED pending PROVE Goal
  <2>1. \A p \in Pod : TookKept(p)
    BY <1>0, <1>11, OutdateIs DEF TookKept
  <2> QED
    BY <1>11, <2>1 DEF BufferStep, Keeps
<1>12. ASSUME NEW p \in Pod, Terminate(p) PROVE Goal
  <2>1. \A q \in Pod, s \in Slot : flush'[q][s] = IF q = p THEN NoFlush ELSE flush[q][s]
    BY <1>0, <1>12 DEF Terminate
  <2>2. \A q \in Pod : pending'[q] = IF q = p THEN [r \in Resource |-> None] ELSE pending[q]
    BY <1>0, <1>12 DEF Terminate
  <2>3. \A r \in Resource : served'[p][r] = None
    BY <1>12 DEF Terminate, TypeInv, TypeOK
  <2>4. \A r \in Resource : NoFlush.took[r] = None
    BY DEF NoFlush
  <2>5. Terminates(p)
    BY <2>1, <2>2, <2>3, <2>4 DEF Terminates
  <2>6. \A q \in Pod \ {p} : Keeps(q)
    BY <2>1, <2>2 DEF Keeps, TookKept
  <2> QED
    BY <2>5, <2>6 DEF BufferStep
<1> QED
  BY <1>1, <1>2, <1>3, <1>4, <1>5, <1>6, <1>7, <1>8, <1>9, <1>10, <1>11, <1>12
     DEF Next, Flushing, Step, RegisterClient, UnregisterClient, Tick, Touch, Delete, Create

LEMMA ServedFrame ==
  ASSUME TypeInv, CopyInv, [Next]_vars
  PROVE  \A p \in Pod, r \in Resource : ServedStep(p, r)
<1> DEFINE Goal == \A p \in Pod, r \in Resource : ServedStep(p, r)
<1>0. /\ served \in [Pod -> [Resource -> Activity]] /\ pending \in [Pod -> [Resource -> Activity]]
      /\ status \in [Resource -> Status]
  BY DEF TypeInv, TypeOK
<1>1. ASSUME UNCHANGED <<status, served>> PROVE Goal
  BY <1>1 DEF ServedStep
<1>2. ASSUME NEW p \in Pod, NEW c \in Client, Record(p, c) PROVE Goal
  <2>1. PICK signedIn \in {{}} \cup {{u} : u \in User} :
          /\ pending' = Note(pending, p, signedIn \cup {c}, c)
          /\ served' = Note(served, p, signedIn \cup {c}, c)
    BY <1>2 DEF Record
  <2>2. ASSUME NEW q \in Pod, NEW r \in Resource, ~(q = p /\ r \in signedIn \cup {c})
        PROVE  served'[q][r] = served[q][r]
    BY <1>0, <2>1, <2>2 DEF Note
  <2>3. ASSUME NEW r \in Resource, r \in signedIn \cup {c}
        PROVE  /\ Pair(r, c)
               /\ served'[p][r] = Newest(served[p][r], Only(c, clock))
               /\ pending'[p][r] = Newest(pending[p][r], Only(c, clock))
    BY <1>0, <2>1, <2>3 DEF Note, Pair
  <2>4. UNCHANGED status /\ TookKept(p)
    BY <1>2 DEF Record, TookKept
  <2> QED
    BY <2>2, <2>3, <2>4 DEF ServedStep
<1>3. ASSUME NEW p \in Pod, NEW s \in Slot, NEW r \in Resource,
             Accepted(p, s, r), status' = [status EXCEPT ![r] = flush[p][s].want], UNCHANGED served
      PROVE  Goal
  <2>1. \A o \in Resource : o # r => status'[o] = status[o]
    BY <1>0, <1>3
  <2> QED
    BY <1>3, <2>1 DEF ServedStep, Accepted
<1>4. ASSUME NEW p \in Pod, NEW s \in Slot, NEW r \in Resource, WriteFails(p, s, r) PROVE Goal
  BY <1>1, <1>3, <1>4 DEF WriteFails
<1>5. ASSUME NEW r \in Resource, served' = Served(r, None)
      PROVE  \A p \in Pod, o \in Resource :
               served'[p][o] = IF o = r THEN None ELSE served[p][o]
  BY <1>0, <1>5 DEF Served
<1>6. ASSUME NEW r \in Resource, Delete(r) \/ Create(r) PROVE Goal
  <2>1. \A o \in Resource : o # r => status'[o] = status[o]
    BY <1>0, <1>6 DEF Delete, Create
  <2>2. \A p \in Pod, o \in Resource : served'[p][o] = IF o = r THEN None ELSE served[p][o]
    BY <1>5, <1>6 DEF Delete, Create
  <2> QED
    BY <2>1, <2>2 DEF ServedStep
<1>7. ASSUME NEW p \in Pod, Terminate(p) PROVE Goal
  <2>1. \A q \in Pod : served'[q] = IF q = p THEN [r \in Resource |-> None] ELSE served[q]
    BY <1>0, <1>7 DEF Terminate
  <2> QED
    BY <1>7, <2>1 DEF Terminate, ServedStep
<1>8. CASE UNCHANGED vars \/ Tick \/ \E r \in Resource : Touch(r)
  BY <1>1, <1>8 DEF vars, Tick, Touch
<1>9. ASSUME NEW p \in Pod, NEW c \in Client, RegisterClient(p, c) \/ UnregisterClient(p, c)
      PROVE  Goal
  BY <1>1, <1>9 DEF RegisterClient, UnregisterClient
<1>10. ASSUME NEW p \in Pod, NEW s \in Slot, Begin(p, s) PROVE Goal
  BY <1>1, <1>10 DEF Begin
<1>11. ASSUME NEW p \in Pod, NEW s \in Slot, NEW r \in Resource,
              Skip(p, s, r) \/ Read(p, s, r) \/ ReadFails(p, s, r) \/ Refused(p, s, r)
       PROVE  Goal
  BY <1>1, <1>11 DEF Skip, Read, ReadFails, Refused
<1>12. ASSUME NEW p \in Pod, NEW s \in Slot, NEW r \in Resource, Write(p, s, r) PROVE Goal
  BY <1>3, <1>12 DEF Write
<1> QED
  BY <1>2, <1>4, <1>6, <1>7, <1>8, <1>9, <1>10, <1>11, <1>12 DEF Next, Flushing, Step

-----------------------------------------------------------------------------
(* Nothing is lost. *)

Holds(p, r, c, t) ==
    pending[p][r][c] >= t \/ \E s \in Slot : flush[p][s].took[r][c] >= t

(* Only entries that matter are served. *)
ServedInv ==
    \A p \in Pod, r \in Resource, c \in Client : Pair(r, c) \/ served[p][r][c] = 0

LEMMA HoldsStep ==
  ASSUME TypeInv, CopyInv, [Next]_vars, NEW p \in Pod, NEW r \in Resource, status'[r].live,
         NEW c \in Client, Pair(r, c), NEW t \in Nat \ {0}, Holds(p, r, c, t)
  PROVE  Holds(p, r, c, t)' \/ Lists(r, status'[r].at, c, t) \/ served'[p][r] = None
<1>1. BufferStep(p)
  BY BufferFrame
<1>2. /\ pending[p][r] \in Activity /\ flush[p] \in [Slot -> Flush]
      /\ clock \in Time /\ Only(c, clock) \in Activity
  BY ActivityType, Constants DEF TypeInv, TypeOK
<1>3. CASE Keeps(p)
  BY <1>3 DEF Keeps, TookKept, Holds
<1>4. CASE Notes(p)
  <2>1. PICK d \in Client : pending'[p][r] \in {pending[p][r], Newest(pending[p][r], Only(d, clock))}
    BY <1>4 DEF Notes
  <2>2. Only(d, clock) \in Activity
    BY <1>2, ActivityType, Constants
  <2>3. pending[p][r][c] \in Nat /\ pending'[p][r][c] \in Nat /\ pending'[p][r][c] >= pending[p][r][c]
    BY <1>2, <2>1, <2>2, NewestType, Constants DEF Activity
  <2>4. pending[p][r][c] >= t => pending'[p][r][c] >= t
    BY <2>3
  <2> QED
    BY <1>4, <2>4 DEF Notes, TookKept, Holds
<1>5. CASE Begins(p)
  <2>1. PICK s \in Slot :
          /\ flush[p][s].took[r] = None /\ flush'[p][s].took[r] = pending[p][r]
          /\ \A z \in Slot \ {s} : flush'[p][z].took = flush[p][z].took
    BY <1>5 DEF Begins
  <2>2. ~(None[c] >= t)
    BY DEF None
  <2> QED
    BY <2>1, <2>2 DEF Holds
<1>6. CASE Settles(p)
  <2>1. PICK s \in Slot, o \in Resource :
          Left(p, s, o) /\ Settled(p, s, o) /\ pending'[p] = pending[p]
    BY <1>6 DEF Settles
  <2>2. CASE flush[p][s].took[r][c] >= t /\ o = r
    BY <2>1, <2>2 DEF Settled
  <2>3. CASE ~(flush[p][s].took[r][c] >= t /\ o = r)
    BY <2>1, <2>3 DEF Left, Holds
  <2> QED
    BY <2>2, <2>3
<1>7. CASE PutsBack(p)
  <2>1. PICK s \in Slot, o \in Resource :
          /\ Left(p, s, o)
          /\ pending'[p][r] = IF r = o THEN Newest(pending[p][o], flush[p][s].took[o])
                              ELSE pending[p][r]
    BY <1>7 DEF PutsBack
  <2>2. CASE o # r
    BY <2>1, <2>2 DEF Left, Holds
  <2>3. CASE o = r
    <3>1. flush[p][s].took[r] \in Activity
      BY <1>2 DEF Flush
    <3>2. /\ pending[p][r][c] \in Nat /\ flush[p][s].took[r][c] \in Nat /\ pending'[p][r][c] \in Nat
          /\ pending'[p][r][c] >= pending[p][r][c]
          /\ pending'[p][r][c] >= flush[p][s].took[r][c]
      BY <1>2, <2>1, <2>3, <3>1, NewestType, Constants DEF Activity
    <3>3. (pending[p][r][c] >= t \/ flush[p][s].took[r][c] >= t) => pending'[p][r][c] >= t
      BY <3>2
    <3>4. \A z \in Slot \ {s} : flush'[p][z].took[r] = flush[p][z].took[r]
      BY <2>1 DEF Left
    <3> QED
      BY <3>3, <3>4 DEF Holds
  <2> QED
    BY <2>2, <2>3
<1>8. CASE Terminates(p)
  BY <1>8 DEF Terminates
<1> QED
  BY <1>1, <1>3, <1>4, <1>5, <1>6, <1>7, <1>8 DEF BufferStep

(* What a running replica served is published, pending, or held by a flush  *)
(* in flight, for any replicas, flushes, faults and bounds (flush,          *)
(* activity-tracker.js:82-114).                                             *)
THEOREM NothingIsLost == Spec => []NothingLost
<1> DEFINE Inv == TypeInv /\ CopyInv /\ ServedInv /\ NothingLost
<1>1. Init => ServedInv /\ NothingLost
  BY DEF Init, ServedInv, NothingLost, None
<1>2. TypeInv /\ CopyInv /\ ServedInv /\ [Next]_vars => ServedInv'
  <2> SUFFICES ASSUME TypeInv, CopyInv, ServedInv, [Next]_vars,
                      NEW p \in Pod, NEW r \in Resource, NEW c \in Client, ~Pair(r, c)
               PROVE  served'[p][r][c] = 0
    BY DEF ServedInv, Pair
  <2>1. ServedStep(p, r) /\ served[p][r][c] = 0
    BY ServedFrame DEF ServedInv
  <2>2. CASE served'[p][r] \in {None, served[p][r]}
    BY <2>1, <2>2 DEF None
  <2>3. ASSUME NEW d \in Client, Pair(r, d), served'[p][r] = Newest(served[p][r], Only(d, clock))
        PROVE  served'[p][r][c] = 0
    <3>1. c # d
      BY <2>3
    <3>2. Only(d, clock)[c] = 0
      BY <3>1 DEF Only, None
    <3> QED
      BY <2>1, <2>3, <3>2 DEF Newest, Newer
  <2> QED
    BY <2>1, <2>2, <2>3 DEF ServedStep
<1>3. Inv /\ [Next]_vars => NothingLost'
  <2> SUFFICES ASSUME Inv, [Next]_vars, NEW p \in Pod, NEW r \in Resource, NEW c \in Client,
                      status'[r].live, NEW t \in Nat, t = served'[p][r][c]
               PROVE  Lists(r, status'[r].at, c, t) \/ Holds(p, r, c, t)'
    <3>1. ASSUME Inv, [Next]_vars, NEW p \in Pod, NEW r \in Resource, NEW c \in Client
          PROVE  served'[p][r][c] \in Nat
      <4>1. served' \in [Pod -> [Resource -> Activity]]
        BY <3>1, TypeStep DEF TypeInv, TypeOK
      <4> QED
        BY <4>1, Constants DEF Activity
    <3> QED
      BY <3>1 DEF NothingLost, Holds, Shown
  <2>1. /\ pending[p][r] \in Activity /\ served[p][r] \in Activity /\ pending'[p][r] \in Activity
        /\ clock \in Time
    BY TypeStep DEF TypeInv, TypeOK
  <2>2. CASE t = 0
    BY <2>1, <2>2, Constants DEF Holds, Activity
  <2>3. CASE t # 0
    <3>1. served'[p][r] # None
      BY <2>3 DEF None
    <3>2. ServedStep(p, r) /\ status[r].live
      BY <3>1, ServedFrame DEF ServedStep
    <3>3. ASSUME t = served[p][r][c]
          PROVE  Pair(r, c) /\ (Shown(r, c, t) \/ Holds(p, r, c, t))
      BY <2>3, <3>2, <3>3 DEF ServedInv, NothingLost, Holds
    <3>4. CASE served'[p][r] = served[p][r]
      <4>1. Pair(r, c) /\ (Shown(r, c, t) \/ Holds(p, r, c, t))
        BY <3>3, <3>4
      <4> QED
        BY <2>3, <3>1, <3>2, <4>1, ShownStays, HoldsStep
    <3>5. ASSUME NEW d \in Client, TookKept(p), UNCHANGED status,
                 served'[p][r] = Newest(served[p][r], Only(d, clock)),
                 pending'[p][r] = Newest(pending[p][r], Only(d, clock))
          PROVE  Lists(r, status'[r].at, c, t) \/ Holds(p, r, c, t)'
      <4>1. Only(d, clock) \in Activity
        BY <2>1, ActivityType, Constants
      <4>2. /\ t \in {served[p][r][c], Only(d, clock)[c]}
            /\ pending'[p][r][c] >= pending[p][r][c] /\ pending'[p][r][c] >= Only(d, clock)[c]
        BY <2>1, <3>5, <4>1, NewestType
      <4>3. CASE t = Only(d, clock)[c]
        BY <4>2, <4>3 DEF Holds
      <4>4. CASE t = served[p][r][c]
        <5>1. Shown(r, c, t) \/ Holds(p, r, c, t)
          BY <3>3, <4>4
        <5>2. pending[p][r][c] \in Nat /\ pending'[p][r][c] \in Nat
          BY <2>1, Constants DEF Activity
        <5>3. pending[p][r][c] >= t => pending'[p][r][c] >= t
          BY <4>2, <5>2
        <5> QED
          BY <3>5, <5>1, <5>3 DEF Shown, Holds, TookKept
      <4> QED
        BY <4>2, <4>3, <4>4
    <3> QED
      BY <3>1, <3>2, <3>4, <3>5 DEF ServedStep
  <2> QED
    BY <2>2, <2>3
<1> QED
  BY <1>1, <1>2, <1>3, TypeInit, CopyInit, TypeStep, CopyStep, PTL DEF Spec

-----------------------------------------------------------------------------
(* lastUsedAt implements ActivityRegister. *)

(* Every time that is buffered, held, about to be written or shown is one   *)
(* at which the client was used.                                            *)
Real(c) == uses[c] \cup {0}

RealInv ==
    /\ \A p \in Pod, r \in Resource, c \in Client :
         /\ pending[p][r][c] \in Real(c)
         /\ \A s \in Slot : flush[p][s].took[r][c] \in Real(c)
    /\ \A p \in Pod, s \in Slot, c \in Client :
         Putting(p, s, c) => flush[p][s].want.at[c] \in Real(c)
    /\ \A c \in Client : status[c].at[c] \in Real(c)

(* Uses are only added, one at a time, and by nothing that shows one. *)
LEMMA UsesStep ==
  ASSUME TypeInv, [Next]_vars
  PROVE  /\ \A c \in Client : uses[c] \subseteq uses'[c]
         /\ \/ uses' = uses
            \/ /\ UNCHANGED status
               /\ \E c \in Client, t \in Time : uses' = [uses EXCEPT ![c] = @ \cup {t}]
<1>1. CASE uses' = uses
  BY <1>1
<1>2. ASSUME NEW p \in Pod, NEW c \in Client, Record(p, c)
      PROVE  /\ UNCHANGED status /\ clock \in Time
             /\ uses' = [uses EXCEPT ![c] = @ \cup {clock}]
             /\ \A d \in Client : uses[d] \subseteq uses'[d]
  BY <1>2 DEF Record, TypeInv, TypeOK
<1>3. ASSUME NEW p \in Pod, NEW s \in Slot, NEW r \in Resource,
             Begin(p, s) \/ Step(p, s, r) \/ ReadFails(p, s, r) \/ WriteFails(p, s, r)
      PROVE  uses' = uses
  BY <1>3 DEF Begin, Step, Skip, Read, ReadFails, Write, Refused, WriteFails
<1>4. ASSUME NEW p \in Pod, NEW s \in Slot, Begin(p, s) PROVE uses' = uses
  BY <1>4 DEF Begin
<1>5. ASSUME NEW p \in Pod, NEW c \in Client, RegisterClient(p, c) \/ UnregisterClient(p, c)
      PROVE  uses' = uses
  BY <1>5 DEF RegisterClient, UnregisterClient
<1>6. ASSUME NEW r \in Resource, Touch(r) \/ Delete(r) \/ Create(r) PROVE uses' = uses
  BY <1>6 DEF Touch, Delete, Create
<1>7. ASSUME NEW p \in Pod, Terminate(p) PROVE uses' = uses
  BY <1>7 DEF Terminate
<1>8. ASSUME Tick \/ UNCHANGED vars PROVE uses' = uses
  BY <1>8 DEF Tick, vars
<1>9. (\E p \in Pod, c \in Client : Record(p, c)) \/ uses' = uses
  BY <1>3, <1>4, <1>5, <1>6, <1>7, <1>8 DEF Next, Flushing
<1> QED
  BY <1>1, <1>2, <1>9

LEMMA RealStep == TypeInv /\ CopyInv /\ RealInv /\ [Next]_vars => RealInv'
<1> SUFFICES ASSUME TypeInv, CopyInv, RealInv, [Next]_vars PROVE RealInv'
  OBVIOUS
<1>1. \A c \in Client : Real(c) \subseteq Real(c)'
  BY UsesStep DEF Real
<1>2. ASSUME NEW p \in Pod, NEW r \in Resource, NEW c \in Client
      PROVE  /\ pending'[p][r][c] \in Real(c)'
             /\ \A s \in Slot : flush'[p][s].took[r][c] \in Real(c)'
  <2>0. /\ pending[p][r][c] \in Real(c)' /\ \A s \in Slot : flush[p][s].took[r][c] \in Real(c)'
        /\ None[c] \in Real(c)'
    BY <1>1 DEF RealInv, Real, None
  <2>1. /\ pending[p][r] \in Activity /\ clock \in Time
        /\ \A s \in Slot : flush[p][s].took[r] \in Activity
    BY DEF TypeInv, TypeOK, Flush
  <2>2. BufferStep(p)
    BY BufferFrame
  <2>3. CASE Keeps(p)
    BY <2>0, <2>3 DEF Keeps, TookKept
  <2>4. CASE Notes(p)
    <3>1. PICK d \in Client :
            /\ clock \in uses'[d]
            /\ pending'[p][r] \in {pending[p][r], Newest(pending[p][r], Only(d, clock))}
      BY <2>4 DEF Notes
    <3>2. Only(d, clock)[c] \in Real(c)'
      BY <3>1 DEF Only, None, Real
    <3>3. Newest(pending[p][r], Only(d, clock))[c] \in {pending[p][r][c], Only(d, clock)[c]}
      BY <2>1, NewestType, ActivityType, Constants
    <3> QED
      BY <2>0, <2>4, <3>1, <3>2, <3>3 DEF Notes, TookKept
  <2>5. CASE Begins(p)
    BY <2>0, <2>5 DEF Begins
  <2>6. CASE Settles(p)
    BY <2>0, <2>6 DEF Settles, Left
  <2>7. CASE PutsBack(p)
    <3>1. PICK s \in Slot, o \in Resource :
            /\ Left(p, s, o)
            /\ pending'[p][r] = IF r = o THEN Newest(pending[p][o], flush[p][s].took[o])
                                ELSE pending[p][r]
      BY <2>7 DEF PutsBack
    <3>2. Newest(pending[p][r], flush[p][s].took[r])[c] \in {pending[p][r][c], flush[p][s].took[r][c]}
      BY <2>1, NewestType
    <3> QED
      BY <2>0, <3>1, <3>2 DEF Left
  <2>8. CASE Terminates(p)
    BY <2>0, <2>8 DEF Terminates
  <2> QED
    BY <2>2, <2>3, <2>4, <2>5, <2>6, <2>7, <2>8 DEF BufferStep
<1>3. ASSUME NEW p \in Pod, NEW s \in Slot, NEW c \in Client, Putting(p, s, c)'
      PROVE  flush'[p][s].want.at[c] \in Real(c)'
  <2>1. CASE Kept(p, s)
    BY <1>1, <1>3, <2>1 DEF Kept, Putting, RealInv
  <2>2. CASE Copied(p, s)
    <3>1. PICK o \in Resource : \E want \in Projected(o, status[o], flush[p][s].took[o]) :
            flush'[p][s].on = o /\ flush'[p][s].want = want
      BY <2>2 DEF Copied
    <3>2. o = c /\ c \in Resource
      BY <1>3, <3>1 DEF Putting
    <3>3. /\ clock \in Time /\ status[c] \in Status /\ flush[p][s].took[c] \in Activity
      BY <3>2 DEF TypeInv, TypeOK, Flush
    <3>4. flush'[p][s].want.at[c] \in {status[c].at[c], flush[p][s].took[c][c]}
      BY <3>1, <3>2, <3>3, ProjectedType
    <3> QED
      BY <1>1, <3>2, <3>4 DEF RealInv
  <2> QED
    BY <1>3, <2>1, <2>2, StepFrame DEF JobStep, Putting
<1>4. ASSUME NEW c \in Client PROVE status'[c].at[c] \in Real(c)'
  <2>1. StatusStep(c)
    BY StepFrame, Constants
  <2>2. CASE status'[c].at = None
    BY <2>2 DEF None, Real
  <2>3. Absent.at = None /\ [Absent EXCEPT !.live = TRUE, !.born = clock].at = None
    BY DEF Absent
  <2> QED
    BY <1>1, <2>1, <2>2, <2>3 DEF StatusStep, RealInv
<1> QED
  BY <1>2, <1>3, <1>4 DEF RealInv

(* One step writes the status of one resource. *)
LEMMA OneStatus ==
  ASSUME TypeInv, [Next]_vars, status' # status
  PROVE  \E r \in Resource : \A o \in Resource : o # r => status'[o] = status[o]
<1> DEFINE Goal == \E r \in Resource : \A o \in Resource : o # r => status'[o] = status[o]
<1>1. ASSUME NEW r \in Resource, NEW new, status' = [status EXCEPT ![r] = new] PROVE Goal
  BY <1>1 DEF TypeInv, TypeOK
<1>2. ASSUME NEW p \in Pod, NEW s \in Slot, NEW r \in Resource, Write(p, s, r) \/ WriteFails(p, s, r)
      PROVE  Goal
  BY <1>1, <1>2 DEF Write, WriteFails
<1>3. ASSUME NEW r \in Resource, Delete(r) \/ Create(r) PROVE Goal
  BY <1>1, <1>3 DEF Delete, Create
<1>4. ASSUME NEW p \in Pod, NEW c \in Client,
             Record(p, c) \/ RegisterClient(p, c) \/ UnregisterClient(p, c)
      PROVE  UNCHANGED status
  BY <1>4 DEF Record, RegisterClient, UnregisterClient
<1>5. ASSUME NEW p \in Pod, NEW s \in Slot, Begin(p, s) PROVE UNCHANGED status
  BY <1>5 DEF Begin
<1>6. ASSUME NEW p \in Pod, NEW s \in Slot, NEW r \in Resource,
             Skip(p, s, r) \/ Read(p, s, r) \/ ReadFails(p, s, r) \/ Refused(p, s, r)
      PROVE  UNCHANGED status
  BY <1>6 DEF Skip, Read, ReadFails, Refused
<1>7. ASSUME UNCHANGED vars \/ Tick \/ (\E r \in Resource : Touch(r)) \/ \E p \in Pod : Terminate(p)
      PROVE  UNCHANGED status
  BY <1>7 DEF vars, Tick, Touch, Terminate
<1> QED
  BY <1>2, <1>3, <1>4, <1>5, <1>6, <1>7 DEF Next, Flushing, Step

LEMMA RealInit == Init => RealInv
<1> SUFFICES ASSUME Init PROVE RealInv
  OBVIOUS
<1>1. \A c \in Client : None[c] \in Real(c)
  BY DEF None, Real
<1>2. \A r \in Resource : NoFlush.took[r] = None /\ [Absent EXCEPT !.live = TRUE, !.born = 1].at = None
  BY DEF NoFlush, Absent
<1>3. \A p \in Pod, s \in Slot, c \in Client : ~Putting(p, s, c)
  BY NoFlushType DEF Init, Putting
<1> QED
  BY <1>1, <1>2, <1>3, Constants DEF Init, RealInv

LEMMA RealAlways == Spec => [](TypeInv /\ CopyInv /\ RealInv)
BY TypeInit, CopyInit, RealInit, TypeStep, CopyStep, RealStep, PTL DEF Spec

(* lastUsedAt only takes times at which the client was used, and never      *)
(* moves back while the client exists, whichever replicas flush (newer,     *)
(* activity-tracker.js:15-16, and #flushClient, :143-164).                  *)
THEOREM RegisterImplemented == Spec => RegisterSpec
<1> DEFINE shown == [c \in Client |-> status[c].at[c]]
<1>1. Init => Register!Init
  <2> SUFFICES ASSUME Init PROVE Register!Init
    OBVIOUS
  <2>1. \A c \in Client : status[c].at = None
    BY Constants DEF Init, Absent
  <2> QED
    BY <2>1 DEF Init, Register!Init, None
<1>2. TypeInv /\ CopyInv /\ RealInv /\ [Next]_vars => [Register!Next]_(Register!vars)
  <2> SUFFICES ASSUME TypeInv, CopyInv, RealInv, [Next]_vars
               PROVE  Register!Next \/ UNCHANGED <<uses, shown>>
    BY DEF Register!vars
  <2>1. CASE UNCHANGED status
    <3>1. UNCHANGED shown
      BY <2>1
    <3> QED
      BY <2>1, <3>1, UsesStep DEF Register!Next, Register!Use
  <2>2. CASE status' # status
    <3>1. UNCHANGED uses
      BY <2>2, UsesStep
    <3>2. PICK r \in Resource : \A o \in Resource : o # r => status'[o] = status[o]
      BY <2>2, OneStatus
    <3>3. CASE r \notin Client
      <4>1. \A c \in Client : status'[c] = status[c]
        BY <3>2, <3>3, Constants
      <4> QED
        BY <3>1, <4>1
    <3>4. CASE r \in Client
      <4>1. shown' = [shown EXCEPT ![r] = status'[r].at[r]]
        BY <3>2, <3>4, Constants
      <4>2. StatusStep(r)
        BY StepFrame
      <4>3. CASE status'[r].at = None
        <5>1. status'[r].at[r] = 0
          BY <3>4, <4>3 DEF None
        <5> QED
          BY <3>1, <3>4, <4>1, <5>1 DEF Register!Next, Register!Forget
      <4>4. CASE status'[r] = status[r]
        BY <3>1, <3>4, <4>1, <4>4
      <4>5. ASSUME NEW p \in Pod, NEW s \in Slot, Putting(p, s, r), Accepted(p, s, r),
                   status'[r] = flush[p][s].want
            PROVE  Register!Next \/ UNCHANGED <<uses, shown>>
        <5> DEFINE new == status'[r].at[r]
                   old == status[r].at[r]
        <5>1. old \in Nat /\ new \in Nat /\ uses[r] \subseteq Time
          <6>1. flush[p][s].want \in Status /\ status[r] \in Status
            BY DEF TypeInv, TypeOK, Flush
          <6> QED
            BY <3>4, <4>5, <6>1, Constants DEF Status, Activity, TypeInv, TypeOK
        <5>2. new \in uses[r] \cup {0}
          BY <3>4, <4>5 DEF RealInv, Real
        <5>3. new >= old
          <6>1. Current(p, s, r) /\ flush[p][s].fresh
            BY <4>5 DEF CopyInv, Accepted
          <6>2. Lists(r, flush[p][s].want.at, r, old)
            <7>1. Shown(r, r, old) /\ Pair(r, r)
              BY <5>1 DEF Shown, Lists, Pair
            <7> HIDE DEF old
            <7> QED
              BY <3>4, <5>1, <6>1, <7>1 DEF Current
          <6> QED
            BY <3>4, <4>5, <6>2, Constants DEF Lists
        <5> HIDE DEF new, old
        <5>4. CASE new = old
          BY <3>1, <3>4, <4>1, <5>4 DEF new, old
        <5>5. CASE new # old
          <6>1. new \in uses[r] /\ new > old
            BY <5>1, <5>2, <5>3, <5>5
          <6>2. shown' = [shown EXCEPT ![r] = new] /\ new > shown[r]
            BY <3>4, <4>1, <6>1 DEF new, old
          <6>3. Register!Publish(r)
            BY <3>1, <6>1, <6>2 DEF Register!Publish
          <6> QED
            BY <3>4, <6>3 DEF Register!Next
        <5> QED
          BY <5>4, <5>5
      <4>6. Absent.at = None /\ [Absent EXCEPT !.live = TRUE, !.born = clock].at = None
        BY DEF Absent
      <4> QED
        BY <4>2, <4>3, <4>4, <4>5, <4>6 DEF StatusStep
    <3> QED
      BY <3>3, <3>4
  <2> QED
    BY <2>1, <2>2
<1> QED
  BY <1>1, <1>2, RealAlways, PTL DEF Spec, RegisterSpec, Register!Spec

=============================================================================
