--------------------------- MODULE AccountsProofs ---------------------------
(***************************************************************************)
(* Proofs about Accounts, for every set of users and persons, every number *)
(* of overlapping handlers and every bound.                                *)
(***************************************************************************)
EXTENDS Accounts, TLAPS

(***************************************************************************)
(* The invariant.                                                          *)
(***************************************************************************)

Asking == {"link", "oidc", "github", "invite"}

(* What a handler still has to do follows from its kind, and where it is    *)
(* from the first of it.                                                    *)
Plans(kind) ==
    IF kind \in Asking
    THEN {<<EditOf(kind)>>, Creation(kind), <<Creation(kind)[2]>>}
    ELSE {<<EditOf(kind)>>}

Shaped(k) ==
    /\ k.step \in {"idle", "list", "create"} => k.at = Nobody
    /\ k.step \notin {"idle", "list", "create"} => k.at \in Account
    /\ k.step \notin {"idle", "list"} => k.todo \in Plans(k.kind)
    /\ k.step = "create" => k.kind \in Asking /\ k.todo = Creation(k.kind)
    /\ k.step = "look" => Head(k.todo) = "approve"
    /\ k.step \in {"find", "patch"} => Head(k.todo) \in {"identity", "github", "approve"}
    /\ k.step = "resolve" => Head(k.todo) = "again"
    /\ k.step \in {"read", "write"} => Head(k.todo) # "again"
    /\ k.step = "list" => k.kind = "unique"
    /\ k.step # "idle" /\ k.kind \in Asking => k.who \in Person

Shapely(jobs) ==
    \A j \in Task :
       Shaped(jobs[j]) /\ (jobs[j].step # "idle" => (j = "mailer" <=> jobs[j].kind = "unique"))
ShapeInv == Shapely(job)

(* An unspent copy is what the handler intends with the user as it is. *)
Current(j) == job[j].step = "write" /\ job[j].fresh
Fresh(j) ==
    Current(j) => Live(job[j].at) /\ job[j].want = Intended(job[j], user[job[j].at])
FreshInv == \A j \in Task : Fresh(j)

(* Somebody will still look at the status of a, or it is right. *)
Watching(j, a) == job[j].at = a /\ (job[j].step = "read" \/ Current(j))
Covered(a) == a \in news \/ \E j \in Task : Watching(j, a)
Shows(a) == Live(a) => user[a].status.emails = Claimed(user[a]) \/ Covered(a)
CoverInv == ~failed => \A a \in Account : Shows(a)

(* The e-mail reconcile holds a verdict from its list to its last write. *)
VerdictInv ==
    IF job["mailer"].step \in {"read", "write"}
    THEN verdict[job["mailer"].at] # "none"
    ELSE \A a \in Account : verdict[a] = "none"

(* The e-mail reconcile will list again. *)
Pending ==
    \/ news # {} \/ (again /\ Busy("mailer")) \/ job["mailer"].step = "list"
    \/ \E j \in Slot : Busy(j) /\ job[j].kind = "watch"
Judged(a) ==
    \/ verdict[a] = Flag(a)
    \/ verdict[a] = "none" /\ user[a].status.unique = Flag(a)
FlagInv == ~missed /\ ~unseen /\ ~Pending => \A a \in Account : Live(a) => Judged(a)

(* a was made for p, or for somebody whose upstream changed its word. *)
Moved(a) == word[holder[a]].moved
Home(p, a) == holder[a] = p \/ Moved(a)

(* A request is of somebody, with an address of that person's upstream, at  *)
(* a user made for the person, or for one whose upstream changed its word.  *)
AskOk(j) ==
    LET k == job[j] IN
    /\ k.who \in Person /\ k.mail \in Person
    /\ k.mail = IF k.kind = "oidc" THEN word[k.who].mail ELSE k.who
    /\ k.sure => k.mail = k.who
    /\ k.at # Nobody /\ Live(k.at) =>
          /\ Home(k.who, k.at)
          /\ k.kind = "oidc" /\ Head(k.todo) \in {"created", "again"} => user[k.at].sub = k.who

(* What a request is about to patch is its own evidence. *)
PutOk(j) ==
    LET k == job[j]
        u == user[k.at]
    IN
    k.step \in {"find", "patch"} /\ Live(k.at) =>
       /\ k.kind = "invite" /\ k.step = "find" => k.old = [github |-> u.github, identity |-> u.identity]
       /\ k.step = "patch" =>
             /\ k.put.github # NoEvidence => k.kind = "github" /\ k.put.github = Mine(k)
             /\ k.put.identity # NoEvidence => k.kind = "oidc" /\ k.put.identity = Mine(k)
             /\ k.kind = "oidc" => Mine(k) \in {k.put.identity, u.identity}

(* A sign-in has made a and not yet written the identity. *)
Owes(j, a) ==
    /\ Request(j) /\ job[j].kind = "oidc" /\ job[j].at = a
    /\ Head(job[j].todo) \in {"created", "again"} \/ job[j].step \in {"find", "patch"}
Unfinished(a) == \E j \in Slot : Owes(j, a)

(* All a user shows is the person's, and what only an upstream said is     *)
(* known to be just that.                                                   *)
Theirs(a) ==
    LET u == user[a]
        h == holder[a]
    IN
    /\ u.sub \in {Nobody, h} /\ u.gid \in {Nobody, h} /\ u.spec \in {Nobody, h}
    /\ u.status.proven \subseteq {h}
    /\ \A f \in {u.github, u.identity} : f.sure => f.mail = h
    /\ \A e \in Claimed(u) \ {h} : e = word[h].mail /\ (u.identity.mail = e \/ Unfinished(a))
Own(a) == holder[a] \in Person /\ (~Moved(a) => Theirs(a))

HomeInv ==
    /\ \A e \in entered : Live(e[2]) /\ Home(e[1], e[2])
    /\ ~clean => entered = {}
    /\ clean =>
          /\ \A j, i \in Slot : Request(j) /\ Request(i) => j = i
          /\ \A j \in Slot : Request(j) => AskOk(j) /\ PutOk(j)
          /\ \A a \in Account : Live(a) => Own(a)

Base == TypeOK /\ ShapeInv
-----------------------------------------------------------------------------
(* What the definitions of a handler's record give. *)

(* Idle and the list of the e-mail reconcile are jobs in good shape. *)
LEMMA IdleShaped ==
    /\ Idle \in Job /\ Shaped(Idle)
    /\ Listing \in Job /\ Shaped(Listing)
<1>1. Nobody \in Address
    BY DEF Address
<1>2. Nothing \in Sources /\ Blank \in Shown /\ NoEvidence \in Evidence
    BY <1>1 DEF Nothing, Sources, NoEvidence, Evidence, Blank, Shown, Condition
<1>3. <<>> \in Todo
    BY DEF Todo
<1>4. Idle \in Job
    BY <1>1, <1>2, <1>3 DEF Idle, Job, Kind
<1>5. Listing \in Job
    BY <1>4 DEF Listing, Job, Kind
<1>6. Shaped(Idle)
    BY DEF Shaped, Idle
<1>7. Shaped(Listing)
    <2>1. Listing.step = "list" /\ Listing.at = Nobody /\ Listing.kind = "unique"
        BY DEF Listing, Idle
    <2> QED
        BY <2>1 DEF Shaped, Asking
<1> QED
    BY <1>4, <1>5, <1>6, <1>7

(* A plan is one edit, or a creation and another edit. *)
LEMMA PlanForm ==
    ASSUME NEW kind \in Kind, NEW t \in Plans(kind)
    PROVE  \/ t = <<EditOf(kind)>>
           \/ kind \in Asking /\ \E e \in Edit \ {"created", "condition"} :
                                   t \in {<<e>>, <<"created", e>>} /\ <<e>> \in Plans(kind)
<1>1. EditOf(kind) \in Edit
    BY DEF EditOf, Kind, Edit
<1>2. kind \in Asking => EditOf(kind) \in Edit \ {"created", "condition"}
    BY DEF EditOf, Asking, Edit
<1>3. CASE kind \notin Asking
    BY <1>3 DEF Plans
<1>4. CASE kind \in Asking
    <2> DEFINE e == IF Prompted(kind) THEN "again" ELSE EditOf(kind)
    <2>1. e \in Edit \ {"created", "condition"}
        BY <1>2, <1>4 DEF Edit
    <2>2. Creation(kind) = <<"created", e>>
        BY DEF Creation
    <2> HIDE DEF e
    <2>3. Creation(kind)[2] = e
        BY <2>2
    <2>4. t = <<EditOf(kind)>> \/ t \in {<<e>>, <<"created", e>>}
        BY <1>4, <2>2, <2>3 DEF Plans
    <2>5. <<e>> \in Plans(kind)
        BY <1>4, <2>3 DEF Plans
    <2> QED
        BY <1>4, <2>1, <2>4, <2>5
<1> QED
    BY <1>3, <1>4

LEMMA PlanFacts ==
    ASSUME NEW kind \in Kind, NEW t \in Plans(kind)
    PROVE  /\ t \in Todo /\ t # <<>> /\ Head(t) \in Edit
           /\ Tail(t) \in Plans(kind) \cup {<<>>}
           /\ Len(t) = 1 <=> Tail(t) = <<>>
<1>1. EditOf(kind) \in Edit
    BY DEF EditOf, Kind, Edit
<1>2. CASE t = <<EditOf(kind)>>
    BY <1>1, <1>2 DEF Todo
<1>3. ASSUME NEW e \in Edit, t = <<e>>
      PROVE  /\ t \in Todo /\ t # <<>> /\ Head(t) \in Edit
             /\ Tail(t) \in Plans(kind) \cup {<<>>}
             /\ Len(t) = 1 <=> Tail(t) = <<>>
    BY <1>3 DEF Todo
<1>4. ASSUME NEW e \in Edit, t = <<"created", e>>, <<e>> \in Plans(kind)
      PROVE  /\ t \in Todo /\ t # <<>> /\ Head(t) \in Edit
             /\ Tail(t) \in Plans(kind) \cup {<<>>}
             /\ Len(t) = 1 <=> Tail(t) = <<>>
    <2>1. t \in Todo
        BY <1>4 DEF Todo
    <2>2. Head(t) = "created" /\ Tail(t) = <<e>> /\ Len(t) = 2 /\ t # <<>> /\ <<e>> # <<>>
        BY <1>4
    <2> QED
        BY <1>4, <2>1, <2>2 DEF Edit
<1> QED
    BY PlanForm, <1>2, <1>3, <1>4

(* The job of a user's next edit is in good shape, and holds no copy. *)
LEMMA AtShaped ==
    ASSUME NEW k \in Job, NEW a \in Account, NEW todo \in Plans(k.kind),
           k.kind \in Asking => k.who \in Person
    PROVE  /\ At(k, a, todo) \in Job /\ Shaped(At(k, a, todo))
           /\ ~At(k, a, todo).fresh
           /\ At(k, a, todo).step \in {"look", "resolve", "find", "read"}
           /\ At(k, a, todo).step = Opens(Head(todo))
           /\ At(k, a, todo).kind = k.kind /\ At(k, a, todo).at = a
           /\ At(k, a, todo).who = k.who /\ At(k, a, todo).mail = k.mail
           /\ At(k, a, todo).sure = k.sure /\ At(k, a, todo).todo = todo
<1> DEFINE r == At(k, a, todo)
<1>1. k.kind \in Kind /\ todo \in Plans(k.kind)
    BY DEF Job
<1>2. todo \in Todo /\ Head(todo) \in Edit /\ todo # <<>>
    BY <1>1, PlanFacts
<1>3. r = [k EXCEPT !.step = Opens(Head(todo)), !.at = a, !.todo = todo, !.try = 1,
                    !.fresh = FALSE, !.want = Blank]
    BY <1>2 DEF At
<1>4. /\ Opens(Head(todo)) \in {"look", "resolve", "find", "read"}
      /\ Opens(Head(todo)) = "look" => Head(todo) = "approve"
      /\ Opens(Head(todo)) = "find" => Head(todo) \in {"identity", "github"}
      /\ Opens(Head(todo)) = "resolve" => Head(todo) = "again"
      /\ Opens(Head(todo)) = "read" => Head(todo) # "again"
    BY <1>2 DEF Opens, Edit
<1>5. /\ r.step = Opens(Head(todo)) /\ r.at = a /\ r.todo = todo /\ r.kind = k.kind
      /\ r.who = k.who /\ r.mail = k.mail /\ r.sure = k.sure /\ ~r.fresh
    BY <1>3 DEF Job
<1>6. Blank \in Shown
    BY DEF Blank, Shown, Condition
<1>7. r \in Job
    <2>1. Opens(Head(todo)) \in {"idle", "list", "resolve", "create", "look", "find",
                                "patch", "read", "write"}
        BY <1>4
    <2>2. 1 \in 1 .. 3 /\ FALSE \in BOOLEAN /\ a \in Account \cup {Nobody}
        OBVIOUS
    <2> DEFINE st == Opens(Head(todo))
    <2> HIDE DEF st, r
    <2>3. r = [k EXCEPT !.step = st, !.at = a, !.todo = todo, !.try = 1,
                        !.fresh = FALSE, !.want = Blank]
        BY <1>3 DEF st, r
    <2>4. st \in {"idle", "list", "resolve", "create", "look", "find",
                  "patch", "read", "write"}
        BY <2>1 DEF st
    <2> QED
        BY <1>2, <1>6, <2>2, <2>3, <2>4 DEF Job
<1> HIDE DEF r
<1>8. Shaped(r)
    BY <1>1, <1>4, <1>5 DEF Shaped
<1> QED
    BY <1>4, <1>5, <1>7, <1>8 DEF r

(* With nothing left to do a handler ends. *)
LEMMA AtEnd ==
    ASSUME NEW k, NEW a
    PROVE  At(k, a, <<>>) = Idle
    BY DEF At

-----------------------------------------------------------------------------
(* The functions of jobs an action leaves behind.                          *)

LEMMA MailerTask == "mailer" \in Task /\ Slot = Task \ {"mailer"}
    BY AccountsAssumption DEF Task

(* One job replaced. *)
LEMMA PutShapely ==
    ASSUME NEW jobs \in [Task -> Job], Shapely(jobs),
           NEW j \in Task, NEW k \in Job, Shaped(k),
           k.step # "idle" => (j = "mailer" <=> k.kind = "unique"),
           NEW new, new = [jobs EXCEPT ![j] = k]
    PROVE  /\ new \in [Task -> Job] /\ Shapely(new)
           /\ new[j] = k /\ \A i \in Task : i # j => new[i] = jobs[i]
<1>1. new \in [Task -> Job] /\ new[j] = k /\ \A i \in Task : i # j => new[i] = jobs[i]
    OBVIOUS
<1>2. Shapely(new)
    BY <1>1 DEF Shapely
<1> QED
    BY <1>1, <1>2

(* The copies of one user outdated. *)
LEMMA OutdateShapely ==
    ASSUME NEW jobs \in [Task -> Job], Shapely(jobs), NEW a \in Account
    PROVE  /\ Outdate(jobs, a) \in [Task -> Job] /\ Shapely(Outdate(jobs, a))
           /\ \A i \in Task :
                 /\ jobs[i].at # a => Outdate(jobs, a)[i] = jobs[i]
                 /\ jobs[i].at = a => Outdate(jobs, a)[i] = [jobs[i] EXCEPT !.fresh = FALSE]
<1> DEFINE new == Outdate(jobs, a)
<1>1. \A i \in Task :
         /\ jobs[i].at # a => new[i] = jobs[i]
         /\ jobs[i].at = a => new[i] = [jobs[i] EXCEPT !.fresh = FALSE]
    BY DEF Outdate
<1>2. new = [i \in Task |-> new[i]]
    BY DEF Outdate
<1> HIDE DEF new
<1>3. ASSUME NEW i \in Task
      PROVE  /\ new[i] \in Job /\ Shaped(new[i])
             /\ new[i].step # "idle" => (i = "mailer" <=> new[i].kind = "unique")
    <2>1. CASE jobs[i].at # a
        BY <1>1, <2>1 DEF Shapely
    <2>2. CASE jobs[i].at = a
        <3> DEFINE r == jobs[i]
        <3>1. r \in Job /\ Shaped(r) /\ (r.step # "idle" => (i = "mailer" <=> r.kind = "unique"))
            BY DEF Shapely
        <3>2. new[i] = [r EXCEPT !.fresh = FALSE]
            BY <1>1, <2>2
        <3> HIDE DEF r
        <3>3. new[i] \in Job
            BY <3>1, <3>2 DEF Job
        <3>4. /\ new[i].step = r.step /\ new[i].at = r.at /\ new[i].todo = r.todo
              /\ new[i].kind = r.kind /\ new[i].who = r.who
            BY <3>1, <3>2 DEF Job
        <3>5. Shaped(new[i])
            BY <3>1, <3>4 DEF Shaped
        <3> QED
            BY <3>1, <3>3, <3>4, <3>5
    <2> QED
        BY <2>1, <2>2
<1>4. new \in [Task -> Job]
    BY <1>2, <1>3
<1>5. Shapely(new)
    BY <1>3 DEF Shapely
<1> QED
    BY <1>1, <1>4, <1>5 DEF new

(* The e-mail reconcile started. *)
LEMMA ScheduledShapely ==
    ASSUME NEW jobs \in [Task -> Job], Shapely(jobs)
    PROVE  /\ Scheduled(jobs) \in [Task -> Job] /\ Shapely(Scheduled(jobs))
           /\ \A i \in Slot : Scheduled(jobs)[i] = jobs[i]
           /\ Scheduled(jobs)["mailer"] =
                 IF jobs["mailer"].step = "idle" THEN Listing ELSE jobs["mailer"]
<1>1. CASE jobs["mailer"].step = "idle"
    <2>1. Scheduled(jobs) = [jobs EXCEPT !["mailer"] = Listing]
        BY <1>1 DEF Scheduled
    <2>2. Listing.kind = "unique" /\ "mailer" \in Task
        BY MailerTask DEF Listing, Idle
    <2>3. /\ Scheduled(jobs) \in [Task -> Job] /\ Shapely(Scheduled(jobs))
          /\ Scheduled(jobs)["mailer"] = Listing
          /\ \A i \in Task : i # "mailer" => Scheduled(jobs)[i] = jobs[i]
        <3> DEFINE l == Listing
        <3>1. l \in Job /\ Shaped(l) /\ (l.step # "idle" => ("mailer" = "mailer" <=> l.kind = "unique"))
            BY <2>2, IdleShaped
        <3>2. Scheduled(jobs) = [jobs EXCEPT !["mailer"] = l]
            BY <2>1
        <3> DEFINE w == Scheduled(jobs)
                   m == "mailer"
        <3>4. m \in Task
            BY <2>2
        <3>5. (l.step # "idle" => (m = "mailer" <=> l.kind = "unique")) /\ w = [jobs EXCEPT ![m] = l]
            BY <3>1, <3>2
        <3> HIDE DEF l, w, m
        <3>3. /\ w \in [Task -> Job] /\ Shapely(w) /\ w[m] = l
              /\ \A i \in Task : i # m => w[i] = jobs[i]
            BY <3>1, <3>4, <3>5, PutShapely
        <3> QED
            BY <3>3 DEF l, w, m
    <2> QED
        BY <1>1, <2>3, MailerTask
<1>2. CASE jobs["mailer"].step # "idle"
    BY <1>2, MailerTask DEF Scheduled
<1> QED
    BY <1>1, <1>2

(***************************************************************************)
(* The end of an edit, in each of its forms, of the handler j that leaves   *)
(* the other jobs as in jobs.                                              *)
(***************************************************************************)

WatchOver(j, jobs) ==
    /\ job[j].kind = "watch" /\ j # "mailer" /\ job'[j] = Idle
    /\ job'["mailer"] = IF jobs["mailer"].step = "idle" THEN Listing ELSE jobs["mailer"]
    /\ again' = (again \/ Busy("mailer"))
    /\ verdict' = verdict /\ entered' = entered

UniqueOver(j, jobs) ==
    /\ job[j].kind = "unique" /\ j = "mailer"
    /\ verdict' = [verdict EXCEPT ![job[j].at] = "none"]
    /\ \/ /\ \A a \in Account : verdict'[a] = "none"
          /\ job'[j] = (IF again THEN Listing ELSE Idle) /\ ~again'
       \/ /\ \E a \in Account : verdict'[a] # "none" /\ job'[j] = At(Listing, a, <<"condition">>)
          /\ again' = again
    /\ entered' = entered

AskOver(j, jobs) ==
    /\ job[j].kind \in Asking /\ j # "mailer"
    /\ job'[j] = At(job[j], job[j].at, Tail(job[j].todo))
    /\ job'["mailer"] = jobs["mailer"]
    /\ again' = again /\ verdict' = verdict
    /\ entered' = IF clean /\ Len(job[j].todo) = 1 /\ job[j].kind # "invite" /\ Live(job[j].at)
                  THEN entered \cup {<<job[j].who, job[j].at>>} ELSE entered

Over(j, jobs) ==
    /\ job' \in [Task -> Job] /\ Shapely(job')
    /\ again' \in BOOLEAN /\ verdict' \in [Account -> Condition]
    /\ entered' \subseteq Person \X Account
    /\ \A i \in Task : i # j /\ i # "mailer" => job'[i] = jobs[i]
    /\ ~job'[j].fresh /\ job'[j].step # "write"
    /\ WatchOver(j, jobs) \/ UniqueOver(j, jobs) \/ AskOver(j, jobs)

LEMMA DoneOver ==
    ASSUME Base, NEW j \in Task, job[j].step \in {"read", "write"},
           NEW jobs \in [Task -> Job], Shapely(jobs), Done(j, jobs)
    PROVE  Over(j, jobs)
<1> DEFINE k == job[j]
<1>1. /\ k \in Job /\ Shaped(k) /\ (j = "mailer" <=> k.kind = "unique")
      /\ verdict \in [Account -> Condition] /\ again \in BOOLEAN
      /\ entered \subseteq Person \X Account
    BY DEF Base, TypeOK, ShapeInv, Shapely
<1>2. k.kind \in Kind /\ k.at \in Account /\ k.todo \in Plans(k.kind)
    BY <1>1 DEF Shaped, Job
<1>3. "none" \in Condition /\ ~Idle.fresh /\ Idle.step = "idle" /\ Idle.kind = "watch"
      /\ ~Listing.fresh /\ Listing.step = "list" /\ Listing.kind = "unique"
    BY DEF Condition, Idle, Listing
<1>4. CASE k.kind = "watch"
    <2>1. j # "mailer" /\ j \in Slot
        BY <1>1, <1>4, MailerTask
    <2> DEFINE mid == [jobs EXCEPT ![j] = Idle]
    <2>2. /\ mid \in [Task -> Job] /\ Shapely(mid) /\ mid[j] = Idle
          /\ \A i \in Task : i # j => mid[i] = jobs[i]
        BY <1>3, IdleShaped, PutShapely
    <2>3. /\ job' = Scheduled(mid) /\ again' = (again \/ Busy("mailer"))
          /\ verdict' = verdict /\ entered' = entered
        BY <1>4 DEF Done
    <2> HIDE DEF mid
    <2>4. /\ job' \in [Task -> Job] /\ Shapely(job')
          /\ \A i \in Slot : job'[i] = mid[i]
          /\ job'["mailer"] = IF mid["mailer"].step = "idle" THEN Listing ELSE mid["mailer"]
        BY <2>2, <2>3, ScheduledShapely
    <2>5. WatchOver(j, jobs)
        BY <1>4, <2>1, <2>2, <2>3, <2>4, MailerTask DEF WatchOver
    <2>6. \A i \in Task : i # j /\ i # "mailer" => job'[i] = jobs[i]
        BY <2>2, <2>4, MailerTask
    <2>7. again' \in BOOLEAN
        BY <1>1, <2>3 DEF Busy
    <2> QED
        BY <1>1, <1>3, <2>1, <2>2, <2>3, <2>4, <2>5, <2>6, <2>7 DEF Over
<1>5. CASE k.kind = "unique"
    <2>1. j = "mailer"
        BY <1>1, <1>5
    <2>2. /\ verdict' = [verdict EXCEPT ![k.at] = "none"]
          /\ again' = (again /\ job'[j].step # "list") /\ entered' = entered
        BY <1>5 DEF Done
    <2>3. PICK next \in NextFlag(verdict', again) : job' = [jobs EXCEPT ![j] = next]
        BY <1>5 DEF Done
    <2>4. verdict' \in [Account -> Condition]
        BY <1>1, <1>2, <1>3, <2>2
    <2>5. \/ (\A a \in Account : verdict'[a] = "none") /\ next = (IF again THEN Listing ELSE Idle)
          \/ \E a \in Account : verdict'[a] # "none" /\ next = At(Listing, a, <<"condition">>)
        BY <2>3 DEF NextFlag
    <2>6. ASSUME NEW a \in Account, next = At(Listing, a, <<"condition">>)
          PROVE  /\ next \in Job /\ Shaped(next) /\ next.kind = "unique" /\ ~next.fresh
                 /\ next.step \notin {"write", "list", "idle"}
        <3>1. <<"condition">> \in Plans(Listing.kind) /\ <<"condition">> # <<>>
            BY <1>3 DEF Plans, EditOf, Asking
        <3> QED
            BY <1>3, <2>6, <3>1, AtShaped, IdleShaped DEF Asking
    <2>7. /\ next \in Job /\ Shaped(next) /\ ~next.fresh /\ next.step # "write"
          /\ next.step # "idle" => next.kind = "unique"
        BY <1>3, <2>5, <2>6, IdleShaped
    <2>8. /\ job' \in [Task -> Job] /\ Shapely(job') /\ job'[j] = next
          /\ \A i \in Task : i # j => job'[i] = jobs[i]
        BY <2>1, <2>3, <2>7, PutShapely
    <2>9. UniqueOver(j, jobs)
        <3>1. CASE (\A a \in Account : verdict'[a] = "none") /\ next = (IF again THEN Listing ELSE Idle)
            BY <1>1, <1>3, <1>5, <2>1, <2>2, <2>8, <3>1 DEF UniqueOver
        <3>2. CASE \E a \in Account : verdict'[a] # "none" /\ next = At(Listing, a, <<"condition">>)
            <4>1. next.step # "list"
                BY <2>6, <3>2
            <4>2. again' = again
                BY <1>1, <2>2, <2>8, <4>1
            <4> QED
                BY <1>5, <2>1, <2>2, <2>8, <3>2, <4>2 DEF UniqueOver
        <3> QED
            BY <2>5, <3>1, <3>2
    <2>10. again' \in BOOLEAN
        BY <1>1, <2>2
    <2> QED
        BY <1>1, <2>1, <2>2, <2>4, <2>7, <2>8, <2>9, <2>10 DEF Over
<1>6. CASE k.kind \notin {"watch", "unique"}
    <2>1. j # "mailer" /\ k.kind \in Asking
        BY <1>1, <1>2, <1>6 DEF Asking, Kind
    <2>2. k.who \in Person
        BY <1>1, <2>1 DEF Shaped
    <2>3. /\ job' = [jobs EXCEPT ![j] = At(k, k.at, Tail(k.todo))]
          /\ entered' = IF clean /\ Len(k.todo) = 1 /\ k.kind # "invite" /\ Live(k.at)
                        THEN entered \cup {<<k.who, k.at>>} ELSE entered
          /\ again' = again /\ verdict' = verdict
        BY <1>6 DEF Done
    <2> DEFINE next == At(k, k.at, Tail(k.todo))
    <2>4. Tail(k.todo) \in Plans(k.kind) \cup {<<>>}
        BY <1>2, PlanFacts
    <2>5. /\ next \in Job /\ Shaped(next) /\ ~next.fresh /\ next.step # "write"
          /\ next.step # "idle" => next.kind = k.kind
        <3>1. CASE Tail(k.todo) = <<>>
            BY <1>3, <3>1, AtEnd, IdleShaped
        <3>2. CASE Tail(k.todo) # <<>>
            <4> DEFINE t == Tail(k.todo)
            <4>1. t \in Plans(k.kind)
                BY <2>4, <3>2
            <4> HIDE DEF k, t
            <4>2. /\ At(k, k.at, t) \in Job /\ Shaped(At(k, k.at, t)) /\ ~At(k, k.at, t).fresh
                  /\ At(k, k.at, t).step # "write" /\ At(k, k.at, t).kind = k.kind
                BY <1>1, <1>2, <2>2, <4>1, AtShaped
            <4> QED
                BY <4>2 DEF t, k
        <3> QED
            BY <3>1, <3>2
    <2> HIDE DEF next
    <2>6. /\ job' \in [Task -> Job] /\ Shapely(job') /\ job'[j] = next
          /\ \A i \in Task : i # j => job'[i] = jobs[i]
        <3>1. job' = [jobs EXCEPT ![j] = next]
            BY <2>3 DEF next
        <3>2. next.step # "idle" => (j = "mailer" <=> next.kind = "unique")
            BY <1>6, <2>1, <2>5
        <3> HIDE DEF k
        <3> QED
            BY <2>5, <3>1, <3>2, PutShapely
    <2>7. AskOver(j, jobs)
        BY <2>1, <2>3, <2>6, MailerTask DEF AskOver, next
    <2>8. entered' \subseteq Person \X Account
        BY <1>1, <1>2, <2>2, <2>3
    <2> QED
        BY <1>1, <2>3, <2>5, <2>6, <2>7, <2>8 DEF Over
<1> QED
    BY <1>4, <1>5, <1>6

(* A request that stops, or shows its form again, after it made a user. *)
Broken(j) ==
    /\ job[j].kind \in Asking /\ j # "mailer"
    /\ job' \in [Task -> Job] /\ Shapely(job')
    /\ \A i \in Task : i # j => job'[i] = job[i]
    /\ job'[j].step \in {"idle", "create"} /\ job'[j].at = Nobody
    /\ job'[j].step = "create" => job'[j] = [job[j] EXCEPT !.step = "create", !.at = Nobody]
    /\ clean' = FALSE /\ entered' = {}
    /\ again' = again /\ verdict' = verdict

LEMMA SpoiledTrue ==
    ASSUME SpoiledIf(TRUE)
    PROVE  clean' = FALSE /\ entered' = {}
    BY DEF SpoiledIf

LEMMA SpoiledFacts ==
    ASSUME Base, NEW b \in BOOLEAN, SpoiledIf(b)
    PROVE  /\ clean' \in BOOLEAN /\ clean' = (clean /\ ~b)
           /\ entered' = IF clean' THEN entered ELSE {}
           /\ entered' \subseteq Person \X Account
    BY DEF Base, TypeOK, SpoiledIf

LEMMA UnmetOver ==
    ASSUME Base, NEW j \in Task, job[j].step \in {"read", "write"}, Unmet(j)
    PROVE  (Over(j, job) /\ clean' = clean) \/ Broken(j)
<1> DEFINE k == job[j]
<1>1. /\ k \in Job /\ Shaped(k) /\ (j = "mailer" <=> k.kind = "unique")
      /\ job \in [Task -> Job] /\ Shapely(job)
    BY DEF Base, TypeOK, ShapeInv, Shapely
<1>2. k.kind \in Kind /\ k.at \in Account /\ k.todo \in Plans(k.kind)
    BY <1>1 DEF Shaped, Job
<1>3. CASE ~(Head(k.todo) = "created" /\ k.kind # "watch")
    BY <1>1, <1>3, DoneOver DEF Unmet
<1>4. CASE Head(k.todo) = "created" /\ k.kind # "watch"
    <2>1. /\ job' = [job EXCEPT ![j] = IF IsPrompted(k) THEN [k EXCEPT !.step = "create", !.at = Nobody]
                                       ELSE Idle]
          /\ SpoiledIf(TRUE) /\ again' = again /\ verdict' = verdict
        BY <1>4 DEF Unmet
    <2>2. k.kind \in Asking /\ k.todo = Creation(k.kind)
        <3>1. EditOf(k.kind) # "created"
            BY <1>2, <1>4 DEF EditOf, Kind
        <3>2. k.kind \in Asking
            BY <1>2, <1>4, <3>1 DEF Plans
        <3>3. \A e : Head(<<e>>) = e
            OBVIOUS
        <3>4. Creation(k.kind)[2] # "created"
            BY <3>1 DEF Creation
        <3> QED
            BY <1>2, <1>4, <3>1, <3>2, <3>3, <3>4 DEF Plans
    <2>3. j # "mailer" /\ k.who \in Person
        <3>1. k.kind # "unique"
            BY <2>2 DEF Asking
        <3> QED
            BY <1>1, <2>2, <3>1 DEF Shaped
    <2> DEFINE c == [k EXCEPT !.step = "create", !.at = Nobody]
    <2>4. c \in Job /\ c.step = "create" /\ c.at = Nobody /\ c.kind = k.kind /\ c.todo = k.todo /\ c.who = k.who
        BY <1>1 DEF Job
    <2>5. Shaped(c)
        <3> HIDE DEF c, k
        <3> QED
            BY <1>2, <2>2, <2>3, <2>4 DEF Shaped
    <2>6. Idle.step = "idle" /\ Idle.at = Nobody
        BY DEF Idle
    <2> DEFINE n == IF IsPrompted(k) THEN c ELSE Idle
    <2>7. /\ n \in Job /\ Shaped(n) /\ n.step \in {"idle", "create"} /\ n.at = Nobody
          /\ n.step = "create" => n = c
          /\ n.step # "idle" => (j = "mailer" <=> n.kind = "unique")
        <3>1. c.kind # "unique" /\ j # "mailer"
            BY <2>2, <2>3, <2>4 DEF Asking
        <3> HIDE DEF c
        <3> QED
            BY <2>4, <2>5, <2>6, <3>1, IdleShaped
    <2>8. job' = [job EXCEPT ![j] = n]
        BY <2>1
    <2>9. clean' = FALSE /\ entered' = {}
        BY <2>1, SpoiledTrue
    <2> HIDE DEF n
    <2>10. /\ job' \in [Task -> Job] /\ Shapely(job') /\ job'[j] = n
           /\ \A i \in Task : i # j => job'[i] = job[i]
        BY <1>1, <2>7, <2>8, PutShapely
    <2> QED
        BY <2>1, <2>2, <2>3, <2>7, <2>9, <2>10 DEF Broken
<1> QED
    BY <1>3, <1>4

(* What getIntendedStatus and a patch make of a user. *)
LEMMA IntendedShown ==
    ASSUME Base, NEW k \in Job, k.at \in Account, NEW u \in User
    PROVE  Intended(k, u) \in Shown
<1>1. Claimed(u) \in SUBSET Person
    BY DEF Claimed, User, Address, Evidence
<1>2. verdict[k.at] \in Condition /\ u.status \in Shown
    BY DEF Base, TypeOK, User
<1>3. u.status.proven \in SUBSET Person /\ u.status.unique \in Condition
    BY <1>2 DEF Shown
<1>4. u.status.proven \cup ({k.mail} \cap Claimed(u)) \in SUBSET Person
    BY <1>1, <1>3
<1> DEFINE pr == IF Head(k.todo) = "proof" THEN u.status.proven \cup ({k.mail} \cap Claimed(u))
                ELSE u.status.proven
           un == IF Head(k.todo) = "condition" THEN verdict[k.at] ELSE u.status.unique
<1>5. pr \in SUBSET Person /\ un \in Condition
    BY <1>2, <1>3, <1>4
<1>6. Intended(k, u) = [emails |-> Claimed(u), proven |-> pr, unique |-> un]
    BY DEF Intended
<1> HIDE DEF pr, un
<1> QED
    BY <1>1, <1>5, <1>6 DEF Shown

LEMMA PatchedUser ==
    ASSUME NEW k \in Job, NEW u \in User
    PROVE  Patched(k, u) \in User
<1>1. /\ k.put.github \in Evidence /\ k.put.identity \in Evidence /\ k.who \in Address
      /\ u.github \in Evidence /\ u.identity \in Evidence /\ u.sub \in Address /\ u.gid \in Address
    BY DEF Job, Sources, User
<1> DEFINE g == IF k.put.github = NoEvidence THEN u.github ELSE k.put.github
           i == IF k.put.identity = NoEvidence THEN u.identity ELSE k.put.identity
           gi == IF Head(k.todo) = "github" THEN k.who ELSE u.gid
           su == IF Head(k.todo) = "identity" THEN k.who ELSE u.sub
<1>2. g \in Evidence /\ i \in Evidence /\ gi \in Address /\ su \in Address
    BY <1>1
<1>3. Patched(k, u) = [u EXCEPT !.github = g, !.gid = gi, !.identity = i, !.sub = su]
    BY DEF Patched, User
<1> HIDE DEF g, i, gi, su
<1> QED
    BY <1>2, <1>3 DEF User

(* What a resolution makes of a request: nothing, a job at the user it      *)
(* found, or a creation; it writes no status yet.                          *)
LEMMA ResolvedFacts ==
    ASSUME NEW k \in Job, k.kind \in Asking, k.who \in Person, NEW r \in Resolved(k)
    PROVE  /\ r \in Job /\ Shaped(r)
           /\ \/ r = Idle
              \/ /\ r.kind = k.kind /\ r.who = k.who /\ r.mail = k.mail /\ r.sure = k.sure
                 /\ \/ r.step = "create" /\ r.at = Nobody /\ Found(k) = {}
                    \/ /\ r.step \in {"look", "resolve", "find", "read"}
                       /\ r.at \in Found(k) /\ r.todo = <<EditOf(k.kind)>>
                       /\ r.step = Opens(EditOf(k.kind))
                 /\ ~Blocked(k)
<1>1. k.kind \in Kind /\ EditOf(k.kind) \in Edit /\ <<EditOf(k.kind)>> \in Plans(k.kind)
    BY DEF Job, EditOf, Kind, Edit, Plans
<1>2. CASE Blocked(k)
    <2>1. r = Idle
        BY <1>2 DEF Resolved
    <2> QED
        BY <2>1, IdleShaped
<1>3. CASE ~Blocked(k) /\ Found(k) # {}
    <2>1. PICK a \in Found(k) : r = At(k, a, <<EditOf(k.kind)>>)
        BY <1>3 DEF Resolved
    <2>2. a \in Account
        BY DEF Found, Known, Owners, Claimants
    <2> DEFINE t == <<EditOf(k.kind)>>
    <2>3. Head(t) = EditOf(k.kind) /\ t \in Plans(k.kind)
        BY <1>1
    <2> HIDE DEF t
    <2>4. r = At(k, a, t)
        BY <2>1 DEF t
    <2>5. /\ r \in Job /\ Shaped(r) /\ r.step \in {"look", "resolve", "find", "read"}
          /\ r.kind = k.kind /\ r.who = k.who /\ r.mail = k.mail /\ r.sure = k.sure
          /\ r.at = a /\ r.todo = t /\ r.step = Opens(Head(t))
        BY <2>2, <2>3, <2>4, AtShaped
    <2> QED
        BY <1>3, <2>3, <2>5 DEF t
<1>4. CASE ~Blocked(k) /\ Found(k) = {} /\ Owners(k.mail) # {}
    <2>1. r = Idle
        BY <1>4 DEF Resolved
    <2> QED
        BY <2>1, IdleShaped
<1>5. CASE ~Blocked(k) /\ Found(k) = {} /\ Owners(k.mail) = {}
    <2>1. r = [k EXCEPT !.step = "create", !.at = Nobody, !.todo = Creation(k.kind)]
        BY <1>5 DEF Resolved
    <2> DEFINE t == Creation(k.kind)
    <2>2. t \in Plans(k.kind)
        BY DEF Plans
    <2>3. t \in Todo
        BY <1>1, <2>2, PlanFacts
    <2> HIDE DEF t
    <2>4. r = [k EXCEPT !.step = "create", !.at = Nobody, !.todo = t]
        BY <2>1 DEF t
    <2>5. /\ r.step = "create" /\ r.at = Nobody /\ r.todo = t /\ r.kind = k.kind
          /\ r.who = k.who /\ r.mail = k.mail /\ r.sure = k.sure
        BY <2>4 DEF Job
    <2>6. r \in Job
        BY <2>3, <2>4 DEF Job
    <2>7. r.todo = Creation(r.kind) /\ r.todo \in Plans(r.kind)
        BY <2>2, <2>5 DEF t
    <2>8. Shaped(r)
        <3> HIDE DEF Plans
        <3> QED
            BY <2>5, <2>7 DEF Shaped
    <2> QED
        BY <1>5, <2>5, <2>6, <2>8
<1> QED
    BY <1>2, <1>3, <1>4, <1>5
-----------------------------------------------------------------------------
(***************************************************************************)
(* Types and shapes, action by action.                                     *)
(***************************************************************************)

(* A handler that goes on, or stops, alone. *)
LEMMA MoveBase ==
    ASSUME Base, NEW j \in Task, NEW k \in Job, Shaped(k),
           k.step # "idle" => (j = "mailer" <=> k.kind = "unique"),
           job' = [job EXCEPT ![j] = k]
    PROVE  /\ job' \in [Task -> Job] /\ ShapeInv'
           /\ job'[j] = k /\ \A i \in Task : i # j => job'[i] = job[i]
<1>1. job \in [Task -> Job] /\ Shapely(job)
    BY DEF Base, TypeOK, ShapeInv
<1> DEFINE new == [job EXCEPT ![j] = k]
<1>2. /\ new \in [Task -> Job] /\ Shapely(new)
      /\ new[j] = k /\ \A i \in Task : i # j => new[i] = job[i]
    <2>1. new = [job EXCEPT ![j] = k]
        OBVIOUS
    <2> HIDE DEF new
    <2> QED
        BY <1>1, <2>1, PutShapely
<1> QED
    BY <1>2 DEF ShapeInv, Shapely, new

LEMMA JobFacts ==
    ASSUME Base, NEW j \in Task
    PROVE  /\ job[j] \in Job /\ Shaped(job[j])
           /\ Busy(j) => (j = "mailer" <=> job[j].kind = "unique")
           /\ job[j].step \notin {"idle", "list", "create"} =>
                 /\ job[j].at \in Account /\ job[j].todo \in Plans(job[j].kind)
                 /\ user[job[j].at] \in User
    BY DEF Base, TypeOK, ShapeInv, Shapely, Shaped, Busy

(* The request as it comes in. *)
Asked(kind, p, e, sure) == [Idle EXCEPT !.kind = kind, !.who = p, !.mail = e, !.sure = sure]

LEMMA AskedJob ==
    ASSUME NEW kind \in Asking, NEW p \in Person, NEW e \in Person, NEW sure \in BOOLEAN
    PROVE  /\ Asked(kind, p, e, sure) \in Job /\ Asked(kind, p, e, sure).kind = kind
           /\ Asked(kind, p, e, sure).who = p /\ Asked(kind, p, e, sure).mail = e
           /\ Asked(kind, p, e, sure).sure = sure
<1>1. kind \in Kind /\ p \in Address /\ e \in Address
    BY DEF Kind, Asking, Address
<1> QED
    BY <1>1, IdleShaped DEF Job, Asked

LEMMA StartBase ==
    ASSUME Base, NEW j \in Slot, NEW kind \in Asking, NEW p \in Person, NEW e \in Person,
           NEW sure \in BOOLEAN, Start(j, kind, p, e, sure), word' \in [Person -> Word]
    PROVE  /\ Base'
           /\ \E r \in Resolved(Asked(kind, p, e, sure)) : job'[j] = r
           /\ \A i \in Task : i # j => job'[i] = job[i]
<1> DEFINE k == Asked(kind, p, e, sure)
<1>1. kind \in Kind /\ p \in Address /\ e \in Address /\ j \in Task /\ j # "mailer" /\ kind # "unique"
    BY AccountsAssumption DEF Kind, Asking, Address, Task
<1>2. k \in Job /\ k.kind = kind /\ k.who = p
    BY AskedJob
<1>3. PICK r \in Resolved(k) : job' = [job EXCEPT ![j] = r]
    BY DEF Start, Asked
<1>4. Idle.step = "idle"
    BY DEF Idle
<1> HIDE DEF k
<1>5. r \in Job /\ Shaped(r) /\ (r.step # "idle" => r.kind = kind)
    BY <1>2, <1>3, <1>4, ResolvedFacts
<1>6. /\ job' \in [Task -> Job] /\ ShapeInv' /\ job'[j] = r
      /\ \A i \in Task : i # j => job'[i] = job[i]
    BY <1>1, <1>3, <1>5, MoveBase
<1> DEFINE laps == \E i \in Slot : Request(i)
<1>7. /\ clean' \in BOOLEAN /\ entered' \subseteq Person \X Account
    BY SpoiledFacts DEF Start
<1>8. spent' \in [born : Nat, request : Nat, event : Nat]
    <2>1. spent \in [born : Nat, request : Nat, event : Nat]
        BY DEF Base, TypeOK
    <2>2. \/ spent' = [spent EXCEPT !.request = @ + 1, !.event = @ + 1]
          \/ spent' = [spent EXCEPT !.request = @ + 1, !.event = @]
        BY DEF Start
    <2>3. spent.request + 1 \in Nat /\ spent.event + 1 \in Nat /\ spent.event \in Nat
        BY <2>1
    <2> DEFINE re == spent.request + 1
               ev == spent.event + 1
    <2>4. \/ spent' = [spent EXCEPT !.request = re, !.event = ev]
          \/ spent' = [spent EXCEPT !.request = re, !.event = spent.event]
        BY <2>1, <2>2
    <2> HIDE DEF re, ev
    <2>5. re \in Nat /\ ev \in Nat
        BY <2>3 DEF re, ev
    <2> QED
        BY <2>1, <2>3, <2>4, <2>5
<1>9. Base'
    BY <1>6, <1>7, <1>8 DEF Base, TypeOK, Start
<1> QED
    BY <1>3, <1>6, <1>9 DEF k

LEMMA ResolveKind ==
    ASSUME Base, NEW j \in Task, job[j].step = "resolve"
    PROVE  /\ job[j].kind \in {"oidc", "github"} /\ job[j].who \in Person /\ j # "mailer"
           /\ job[j].todo = <<"again">>
<1> DEFINE k == job[j]
<1>1. k \in Job /\ k.kind \in Kind /\ Shaped(k) /\ (j = "mailer" <=> k.kind = "unique")
    BY DEF Base, TypeOK, ShapeInv, Shapely, Job
<1>2. Head(k.todo) = "again" /\ k.todo \in Plans(k.kind)
    BY <1>1 DEF Shaped
<1>3. EditOf(k.kind) # "again"
    BY <1>1 DEF EditOf, Kind
<1>4. \A e, f : Head(<<e>>) = e /\ Head(<<e, f>>) = e
    OBVIOUS
<1>5. k.kind \in Asking /\ k.todo = <<Creation(k.kind)[2]>> /\ Creation(k.kind)[2] = "again"
    BY <1>2, <1>3, <1>4 DEF Plans, Creation
<1>6. Prompted(k.kind)
    BY <1>3, <1>5 DEF Creation
<1> QED
    BY <1>1, <1>5, <1>6 DEF Prompted, Shaped

LEMMA ResolveBase ==
    ASSUME Base, NEW j \in Slot, Resolve(j)
    PROVE  /\ Base'
           /\ \E r \in Resolved(job[j]) : job' = [job EXCEPT ![j] = r] /\ job'[j] = r /\ SpoiledIf(r = Idle)
           /\ \A i \in Task : i # j => job'[i] = job[i]
<1> DEFINE k == job[j]
<1>1. j \in Task /\ j # "mailer" /\ k \in Job
    BY AccountsAssumption DEF Task, Base, TypeOK
<1>2. k.kind \in {"oidc", "github"} /\ k.who \in Person
    BY <1>1, ResolveKind DEF Resolve
<1>3. k.kind \in Asking /\ k.kind # "unique"
    BY <1>2 DEF Asking
<1>4. PICK r \in Resolved(k) : job' = [job EXCEPT ![j] = r] /\ SpoiledIf(r = Idle)
    BY DEF Resolve
<1>5. Idle.step = "idle"
    BY DEF Idle
<1>6. r \in Job /\ Shaped(r) /\ (r.step # "idle" => r.kind = k.kind)
    <2> HIDE DEF k
    <2> QED
        BY <1>1, <1>2, <1>3, <1>4, <1>5, ResolvedFacts
<1>7. r.step # "idle" => (j = "mailer" <=> r.kind = "unique")
    BY <1>1, <1>3, <1>6
<1>8. /\ job' \in [Task -> Job] /\ ShapeInv' /\ job'[j] = r
      /\ \A i \in Task : i # j => job'[i] = job[i]
    BY <1>1, <1>4, <1>6, <1>7, MoveBase
<1>9. clean' \in BOOLEAN /\ entered' \subseteq Person \X Account
    BY <1>4, SpoiledFacts
<1>10. Base'
    BY <1>8, <1>9 DEF Base, TypeOK, Resolve
<1> QED
    BY <1>4, <1>8, <1>10

(* A user made, or a name refused. *)
Made(j, a) ==
    /\ ~Live(a) /\ user' = [user EXCEPT ![a] = NewUser(job[j], spent.born + 1)]
    /\ news' = news \cup {a}
    /\ holder' = [holder EXCEPT ![a] = job[j].who]
    /\ job'[j] = At(job[j], a, job[j].todo)

LEMMA CreateBase ==
    ASSUME Base, NEW j \in Slot, Create(j)
    PROVE  /\ Base'
           /\ job[j].kind \in Asking /\ job[j].who \in Person /\ job[j].todo = Creation(job[j].kind)
           /\ \/ \E a \in Account : Made(j, a)
              \/ job'[j] = Idle /\ UNCHANGED <<user, news, holder>>
           /\ \A i \in Task : i # j => job'[i] = job[i]
<1> DEFINE k == job[j]
<1>1. j \in Task /\ j # "mailer" /\ k \in Job /\ Shaped(k) /\ k.step = "create"
    BY AccountsAssumption DEF Task, Base, TypeOK, ShapeInv, Shapely, Create
<1>2. /\ k.kind \in Asking /\ k.who \in Person /\ k.todo \in Plans(k.kind)
      /\ k.todo = Creation(k.kind) /\ k.kind # "unique"
    BY <1>1 DEF Shaped, Asking
<1>3. Idle.step = "idle"
    BY DEF Idle
<1>4. ASSUME NEW a \in Account, ~Live(a),
             user' = [user EXCEPT ![a] = NewUser(k, spent.born + 1)],
             spent' = [spent EXCEPT !.born = @ + 1],
             news' = news \cup {a},
             holder' = [holder EXCEPT ![a] = k.who],
             job' = [job EXCEPT ![j] = At(k, a, k.todo)],
             UNCHANGED <<again, verdict, word, entered, clean, missed, failed, unseen>>
      PROVE  Base' /\ Made(j, a) /\ \A i \in Task : i # j => job'[i] = job[i]
    <2> DEFINE r == At(k, a, k.todo)
    <2>1. /\ r \in Job /\ Shaped(r) /\ r.kind = k.kind
        BY <1>1, <1>2, AtShaped
    <2> HIDE DEF r
    <2>2. job' = [job EXCEPT ![j] = r] /\ (r.step # "idle" => (j = "mailer" <=> r.kind = "unique"))
        BY <1>1, <1>2, <1>4, <2>1 DEF r
    <2>3. /\ job' \in [Task -> Job] /\ ShapeInv' /\ job'[j] = r
          /\ \A i \in Task : i # j => job'[i] = job[i]
        BY <1>1, <2>1, <2>2, MoveBase
    <2>4. spent \in [born : Nat, request : Nat, event : Nat] /\ spent.born + 1 \in Nat
        BY DEF Base, TypeOK
    <2> DEFINE n == spent.born + 1
    <2>5. spent' = [spent EXCEPT !.born = n] /\ n \in Nat
        BY <1>4, <2>4
    <2>6. NewUser(k, n) \in User
        <3> HIDE DEF n, k
        <3>1. /\ k.mail \in Address /\ k.who \in Address /\ k.sure \in BOOLEAN /\ Nobody \in Address
              /\ NoEvidence \in Evidence /\ [mail |-> k.mail, sure |-> k.sure] \in Evidence
            BY <1>1 DEF Job, Address, NoEvidence, Evidence
        <3>2. Blank \in Shown
            BY DEF Blank, Shown, Condition
        <3> DEFINE b == IF k.kind = "github" THEN Nobody ELSE k.mail
                   g == IF k.kind \in {"oidc", "github"} THEN [mail |-> k.mail, sure |-> k.sure] ELSE NoEvidence
                   s == IF k.kind = "oidc" THEN k.who ELSE Nobody
                   i == IF k.kind = "github" THEN k.who ELSE Nobody
        <3>3. b \in Address /\ g \in Evidence /\ s \in Address /\ i \in Address
            BY <3>1
        <3>4. NewUser(k, n) = [born |-> n, spec |-> Nobody, bare |-> b, github |-> g, gid |-> i,
                               sub |-> s, identity |-> NoEvidence, status |-> Blank]
            <4>1. NewUser(k, n) = [Absent EXCEPT !.born = n, !.bare = b, !.github = g, !.sub = s, !.gid = i]
                BY DEF NewUser
            <4> HIDE DEF b, g, s, i
            <4> QED
                BY <4>1 DEF Absent
        <3> HIDE DEF b, g, s, i
        <3> QED
            BY <2>5, <3>1, <3>2, <3>3, <3>4 DEF User
    <2> HIDE DEF n
    <2>7. spent' \in [born : Nat, request : Nat, event : Nat]
        BY <2>4, <2>5
    <2>8. user' \in [Account -> User] /\ holder' \in [Account -> Address]
        <3>1. k.who \in Address
            BY <1>1 DEF Job
        <3>2. user' = [user EXCEPT ![a] = NewUser(k, n)]
            BY <1>4 DEF n
        <3> QED
            BY <1>4, <2>6, <3>1, <3>2 DEF Base, TypeOK
    <2>9. Base'
        BY <1>4, <2>3, <2>7, <2>8 DEF Base, TypeOK
    <2>10. Made(j, a)
        BY <1>4, <2>3 DEF Made, r
    <2> QED
        BY <2>3, <2>9, <2>10
<1>5. ASSUME job' = [job EXCEPT ![j] = Idle],
             UNCHANGED <<user, news, spent, holder>>,
             UNCHANGED <<again, verdict, word, entered, clean, missed, failed, unseen>>
      PROVE  Base' /\ job'[j] = Idle /\ \A i \in Task : i # j => job'[i] = job[i]
    <2>1. /\ job' \in [Task -> Job] /\ ShapeInv' /\ job'[j] = Idle
          /\ \A i \in Task : i # j => job'[i] = job[i]
        BY <1>1, <1>3, <1>5, IdleShaped, MoveBase
    <2> QED
        BY <1>5, <2>1 DEF Base, TypeOK
<1> QED
    BY <1>2, <1>4, <1>5 DEF Create

(* A handler that goes on with the same edit keeps its shape. *)
LEMMA StayShaped ==
    ASSUME NEW k \in Job, Shaped(k), NEW r \in Job,
           r.kind = k.kind, r.who = k.who, r.at = k.at, r.todo = k.todo,
           k.step \in {"look", "find", "patch", "read", "write"},
           \/ r.step \in {"find", "patch"} /\ k.step \in {"look", "find"}
           \/ r.step \in {"read", "write"} /\ k.step \in {"patch", "read", "write"}
    PROVE  Shaped(r)
<1>1. k.step \in {"look", "find", "patch"} => Head(k.todo) \in {"identity", "github", "approve"}
    BY DEF Shaped
<1>2. k.step \in {"read", "write"} => Head(k.todo) # "again"
    BY DEF Shaped
<1>3. k.at \in Account /\ k.todo \in Plans(k.kind) /\ (k.kind \in Asking => k.who \in Person)
    BY DEF Shaped
<1> HIDE DEF Plans
<1> QED
    BY <1>1, <1>2, <1>3 DEF Shaped

LEMMA LookBase ==
    ASSUME Base, NEW j \in Task, Look(j)
    PROVE  /\ Base'
           /\ job'[j] = [job[j] EXCEPT !.step = "find",
                                       !.old = [github |-> user[job[j].at].github,
                                                identity |-> user[job[j].at].identity]]
           /\ \A i \in Task : i # j => job'[i] = job[i]
<1> DEFINE k == job[j]
           o == [github |-> user[k.at].github, identity |-> user[k.at].identity]
           r == [k EXCEPT !.step = "find", !.old = o]
<1>1. /\ k \in Job /\ Shaped(k) /\ k.at \in Account /\ user[k.at] \in User /\ k.step = "look"
      /\ j = "mailer" <=> k.kind = "unique"
    BY JobFacts DEF Look, Busy
<1>2. o \in Sources
    BY <1>1 DEF User, Sources
<1>3. job' = [job EXCEPT ![j] = r]
    BY <1>1 DEF Look, Base, TypeOK
<1> HIDE DEF o
<1>4. /\ r \in Job /\ r.kind = k.kind /\ r.who = k.who /\ r.at = k.at /\ r.todo = k.todo
      /\ r.step = "find"
    BY <1>1, <1>2 DEF Job
<1> HIDE DEF r
<1>5. Shaped(r)
    BY <1>1, <1>4, StayShaped
<1>6. /\ job' \in [Task -> Job] /\ ShapeInv' /\ job'[j] = r
      /\ \A i \in Task : i # j => job'[i] = job[i]
    BY <1>1, <1>3, <1>4, <1>5, MoveBase
<1>7. Base'
    BY <1>6 DEF Base, TypeOK, Look
<1> QED
    BY <1>6, <1>7 DEF r, o

LEMMA DifferenceSources ==
    ASSUME NEW k \in Job, NEW u \in User
    PROVE  Difference(k, u) \in Sources
<1>1. NoEvidence \in Evidence /\ Mine(k) \in Evidence /\ Nothing \in Sources
    BY DEF NoEvidence, Evidence, Mine, Job, Address, Nothing, Sources
<1>2. /\ u.github \in Evidence /\ u.identity \in Evidence
      /\ k.old.github \in Evidence /\ k.old.identity \in Evidence
    BY DEF User, Job, Sources
<1>3. \A m, f \in Evidence : Unless(m, f) \in Evidence
    BY <1>1 DEF Unless
<1> DEFINE i == IF u.sub = k.who THEN Unless(Mine(k), u.identity) ELSE Mine(k)
           g == IF u.gid = k.who THEN Unless(Mine(k), u.github) ELSE Mine(k)
           og == Unless(k.old.github, u.github)
           oi == Unless(k.old.identity, u.identity)
<1>4. i \in Evidence /\ g \in Evidence /\ og \in Evidence /\ oi \in Evidence
    BY <1>1, <1>2, <1>3
<1>5. \/ Difference(k, u) = [Nothing EXCEPT !.identity = i]
      \/ Difference(k, u) = [Nothing EXCEPT !.github = g]
      \/ Difference(k, u) = [github |-> og, identity |-> oi]
      \/ Difference(k, u) = Nothing
    BY DEF Difference
<1> HIDE DEF i, g, og, oi
<1>6. [Nothing EXCEPT !.identity = i] \in Sources /\ [Nothing EXCEPT !.github = g] \in Sources
    BY <1>1, <1>4 DEF Sources
<1>7. [github |-> og, identity |-> oi] \in Sources
    BY <1>4 DEF Sources
<1> QED
    BY <1>1, <1>5, <1>6, <1>7

LEMMA FindBase ==
    ASSUME Base, NEW j \in Task, Find(j)
    PROVE  /\ Base'
           /\ job'[j] = [job[j] EXCEPT !.step = "patch", !.put = Difference(job[j], user[job[j].at])]
           /\ \A i \in Task : i # j => job'[i] = job[i]
<1> DEFINE k == job[j]
           d == Difference(k, user[k.at])
           r == [k EXCEPT !.step = "patch", !.put = d]
<1>1. /\ k \in Job /\ Shaped(k) /\ k.at \in Account /\ user[k.at] \in User /\ k.step = "find"
      /\ j = "mailer" <=> k.kind = "unique"
    BY JobFacts DEF Find, Busy
<1>2. d \in Sources
    BY <1>1, DifferenceSources
<1>3. job' = [job EXCEPT ![j] = r]
    BY <1>1 DEF Find, Base, TypeOK
<1> HIDE DEF d
<1>4. /\ r \in Job /\ r.kind = k.kind /\ r.who = k.who /\ r.at = k.at /\ r.todo = k.todo
      /\ r.step = "patch"
    BY <1>1, <1>2 DEF Job
<1> HIDE DEF r
<1>5. Shaped(r)
    BY <1>1, <1>4, StayShaped
<1>6. /\ job' \in [Task -> Job] /\ ShapeInv' /\ job'[j] = r
      /\ \A i \in Task : i # j => job'[i] = job[i]
    BY <1>1, <1>3, <1>4, <1>5, MoveBase
<1>7. Base'
    BY <1>6 DEF Base, TypeOK, Find
<1> QED
    BY <1>6, <1>7 DEF r, d

(* The jobs of the others after a write of a: as before, or outdated. *)
Outdated(j, a) ==
    \A i \in Task : i # j =>
       /\ job[i].at # a => job'[i] = job[i]
       /\ job[i].at = a => job'[i] \in {job[i], [job[i] EXCEPT !.fresh = FALSE]}

LEMMA PatchBase ==
    ASSUME Base, NEW j \in Task, Patch(j)
    PROVE  /\ Base' /\ job'[j] = AfterPatch(job[j])
           /\ user' = [user EXCEPT ![job[j].at] = Patched(job[j], user[job[j].at])]
           /\ Outdated(j, job[j].at)
           /\ user' # user => \A i \in Task : i # j /\ job[i].at = job[j].at =>
                                   job'[i] = [job[i] EXCEPT !.fresh = FALSE]
           /\ job[j].at \in Account /\ j # "mailer"
<1> DEFINE k == job[j]
           u == Patched(k, user[k.at])
           r == AfterPatch(k)
           jobs == IF u = user[k.at] THEN job ELSE Outdate(job, k.at)
<1>1. /\ k \in Job /\ Shaped(k) /\ k.at \in Account /\ user[k.at] \in User /\ k.step = "patch"
      /\ j = "mailer" <=> k.kind = "unique"
      /\ k.todo \in Plans(k.kind)
    BY JobFacts DEF Patch, Busy
<1>2. u \in User
    BY <1>1, PatchedUser
<1>3. job \in [Task -> Job] /\ Shapely(job) /\ user \in [Account -> User]
    BY DEF Base, TypeOK, ShapeInv
<1>4. /\ jobs \in [Task -> Job] /\ Shapely(jobs)
      /\ \A i \in Task : jobs[i] \in {job[i], [job[i] EXCEPT !.fresh = FALSE]}
      /\ \A i \in Task : job[i].at # k.at => jobs[i] = job[i]
      /\ u # user[k.at] => \A i \in Task : job[i].at = k.at => jobs[i] = [job[i] EXCEPT !.fresh = FALSE]
    <2>1. CASE u = user[k.at]
        BY <1>3, <2>1
    <2>2. CASE u # user[k.at]
        <3>1. jobs = Outdate(job, k.at)
            BY <2>2
        <3> HIDE DEF jobs
        <3>2. jobs \in [Task -> Job] /\ Shapely(jobs)
            BY <1>1, <1>3, <3>1, OutdateShapely
        <3>3. \A i \in Task :
                 /\ job[i].at # k.at => jobs[i] = job[i]
                 /\ job[i].at = k.at => jobs[i] = [job[i] EXCEPT !.fresh = FALSE]
            BY <1>1, <1>3, <3>1, OutdateShapely
        <3>4. \A i \in Task : job[i].at = k.at => jobs[i] = [job[i] EXCEPT !.fresh = FALSE]
            BY <3>3
        <3>5. \A i \in Task : jobs[i] \in {job[i], [job[i] EXCEPT !.fresh = FALSE]}
            <4> TAKE i \in Task
            <4>1. CASE job[i].at = k.at
                BY <3>4, <4>1
            <4>2. CASE job[i].at # k.at
                BY <3>3, <4>2
            <4> QED
                BY <4>1, <4>2
        <3>6. \A i \in Task : job[i].at # k.at => jobs[i] = job[i]
            BY <3>3
        <3> HIDE DEF k, u
        <3> QED
            BY <3>2, <3>4, <3>5, <3>6
    <2> QED
        BY <2>1, <2>2
<1>5. user' = [user EXCEPT ![k.at] = u] /\ job' = [jobs EXCEPT ![j] = r]
      /\ unseen' = (unseen \/ Claimed(u) # Claimed(user[k.at]))
    BY DEF Patch
<1> HIDE DEF jobs, u
<1>6. /\ r \in Job /\ r.kind = k.kind /\ r.who = k.who /\ r.at = k.at /\ r.todo = k.todo
      /\ r.step = "read"
    <2>1. Nothing \in Sources
        BY DEF Nothing, Sources, NoEvidence, Evidence, Address
    <2> QED
        BY <1>1, <2>1 DEF AfterPatch, Job
<1> HIDE DEF r
<1>7. Shaped(r)
    BY <1>1, <1>6, StayShaped
<1>8. /\ job' \in [Task -> Job] /\ Shapely(job') /\ job'[j] = r
      /\ \A i \in Task : i # j => job'[i] = jobs[i]
    BY <1>1, <1>4, <1>5, <1>6, <1>7, PutShapely
<1>9. user' \in [Account -> User] /\ unseen' \in BOOLEAN
    BY <1>2, <1>3, <1>5 DEF Base, TypeOK
<1>10. Base'
    BY <1>8, <1>9 DEF Base, TypeOK, ShapeInv, Shapely, Patch
<1>11. Outdated(j, k.at)
    BY <1>4, <1>8 DEF Outdated
<1>12. user' # user => u # user[k.at]
    BY <1>3, <1>5
<1>13. j # "mailer"
    <2>1. Head(k.todo) \in {"identity", "github", "approve"}
        BY <1>1 DEF Shaped
    <2>2. k.kind # "unique"
        BY <1>1, <2>1 DEF Plans, Asking, EditOf
    <2> QED
        BY <1>1, <2>2
<1> QED
    BY <1>1, <1>4, <1>5, <1>8, <1>10, <1>11, <1>12, <1>13 DEF r, u

LEMMA ReadBase ==
    ASSUME Base, NEW j \in Task, Read(j)
    PROVE  /\ Base' /\ user' = user
           /\ \/ /\ Live(job[j].at) /\ Intended(job[j], user[job[j].at]) = user[job[j].at].status
                 /\ Over(j, job) /\ clean' = clean
              \/ /\ Live(job[j].at)
                 /\ job'[j] = [job[j] EXCEPT !.step = "write", !.fresh = TRUE,
                                             !.want = Intended(job[j], user[job[j].at])]
                 /\ \A i \in Task : i # j => job'[i] = job[i]
                 /\ UNCHANGED <<again, verdict, entered, clean>>
              \/ ~Live(job[j].at) /\ ((Over(j, job) /\ clean' = clean) \/ Broken(j))
<1> DEFINE k == job[j]
           w == Intended(k, user[k.at])
           r == [k EXCEPT !.step = "write", !.fresh = TRUE, !.want = w]
<1>1. /\ k \in Job /\ Shaped(k) /\ k.at \in Account /\ user[k.at] \in User /\ k.step = "read"
      /\ j = "mailer" <=> k.kind = "unique"
      /\ job \in [Task -> Job] /\ Shapely(job)
    BY JobFacts DEF Read, Busy, Base, TypeOK, ShapeInv
<1>2. UNCHANGED <<user, news, word, spent, holder, missed, failed, unseen>>
    BY DEF Read
<1>3. CASE Live(k.at) /\ w = user[k.at].status /\ Done(j, job) /\ UNCHANGED clean
    <2>1. Over(j, job)
        BY <1>1, <1>3, DoneOver
    <2>2. Base'
        BY <1>2, <1>3, <2>1 DEF Over, Base, TypeOK, ShapeInv, Shapely
    <2> QED
        BY <1>2, <1>3, <2>1, <2>2
<1>4. CASE Live(k.at) /\ job' = [job EXCEPT ![j] = r] /\ UNCHANGED <<again, verdict, entered, clean>>
    <2>1. w \in Shown
        BY <1>1, IntendedShown
    <2> HIDE DEF w
    <2>2. /\ r \in Job /\ r.kind = k.kind /\ r.who = k.who /\ r.at = k.at /\ r.todo = k.todo
          /\ r.step = "write"
        BY <1>1, <2>1 DEF Job
    <2>3. job' = [job EXCEPT ![j] = r]
        BY <1>4
    <2> HIDE DEF r
    <2>4. Shaped(r)
        BY <1>1, <2>2, StayShaped
    <2>5. /\ job' \in [Task -> Job] /\ ShapeInv' /\ job'[j] = r
          /\ \A i \in Task : i # j => job'[i] = job[i]
        BY <1>1, <2>2, <2>3, <2>4, MoveBase
    <2>6. Base'
        BY <1>2, <1>4, <2>5 DEF Base, TypeOK
    <2> QED
        BY <1>2, <1>4, <2>5, <2>6 DEF r, w
<1>5. CASE ~Live(k.at) /\ Unmet(j)
    <2>1. (Over(j, job) /\ clean' = clean) \/ Broken(j)
        BY <1>1, <1>5, UnmetOver
    <2>2. Base'
        BY <1>2, <2>1 DEF Over, Broken, Base, TypeOK, ShapeInv, Shapely
    <2> QED
        BY <1>2, <1>5, <2>1, <2>2
<1>6. \/ Live(k.at) /\ w = user[k.at].status /\ Done(j, job) /\ UNCHANGED clean
      \/ Live(k.at) /\ job' = [job EXCEPT ![j] = r] /\ UNCHANGED <<again, verdict, entered, clean>>
      \/ ~Live(k.at) /\ Unmet(j)
    BY <1>1 DEF Read, Base, TypeOK
<1> QED
    BY <1>3, <1>4, <1>5, <1>6

LEMMA WriteBase ==
    ASSUME Base, NEW j \in Task, Write(j)
    PROVE  /\ Base' /\ Over(j, Outdate(job, job[j].at))
           /\ Outdated(j, job[j].at) \/ job[j].kind = "watch"
           /\ \A i \in Task : /\ job[i].at # job[j].at => Outdate(job, job[j].at)[i] = job[i]
                              /\ job[i].at = job[j].at =>
                                    Outdate(job, job[j].at)[i] = [job[i] EXCEPT !.fresh = FALSE]
           /\ user' = [user EXCEPT ![job[j].at].status = job[j].want]
           /\ Live(job[j].at) /\ Current(j) /\ job[j].at \in Account
<1> DEFINE k == job[j]
           jobs == Outdate(job, k.at)
<1>1. /\ k \in Job /\ Shaped(k) /\ k.at \in Account /\ user[k.at] \in User /\ k.step = "write"
      /\ j = "mailer" <=> k.kind = "unique"
      /\ job \in [Task -> Job] /\ Shapely(job)
    BY JobFacts DEF Write, Busy, Base, TypeOK, ShapeInv
<1>2. /\ user' = [user EXCEPT ![k.at].status = k.want] /\ Done(j, jobs)
      /\ UNCHANGED <<news, word, spent, holder, clean, missed, failed, unseen>>
      /\ Live(k.at) /\ k.fresh
    BY DEF Write, Accepted
<1>3. jobs \in [Task -> Job] /\ Shapely(jobs)
    BY <1>1, OutdateShapely
<1>4. \A i \in Task : /\ job[i].at # k.at => jobs[i] = job[i]
                      /\ job[i].at = k.at => jobs[i] = [job[i] EXCEPT !.fresh = FALSE]
    BY <1>1, OutdateShapely
<1> HIDE DEF jobs
<1>5. Over(j, jobs)
    BY <1>1, <1>2, <1>3, DoneOver
<1>6. user' \in [Account -> User]
    <2> DEFINE v == [user[k.at] EXCEPT !.status = k.want]
    <2>1. k.want \in Shown
        BY <1>1 DEF Job
    <2>2. v \in User
        BY <1>1, <2>1 DEF User
    <2>3. user' = [user EXCEPT ![k.at] = v]
        BY <1>2
    <2> HIDE DEF v
    <2> QED
        BY <1>1, <2>2, <2>3 DEF Base, TypeOK
<1>7. Base'
    BY <1>2, <1>5, <1>6 DEF Over, Base, TypeOK, ShapeInv, Shapely
<1>8. Outdated(j, k.at) \/ k.kind = "watch"
    <2> SUFFICES ASSUME k.kind # "watch" PROVE Outdated(j, k.at)
        OBVIOUS
    <2>1. \A i \in Task : i # j => job'[i] = jobs[i]
        BY <1>5, MailerTask DEF Over, WatchOver, UniqueOver, AskOver
    <2> QED
        BY <1>4, <2>1 DEF Outdated
<1> QED
    BY <1>1, <1>2, <1>4, <1>5, <1>7, <1>8 DEF jobs, Current

LEMMA RefusedBase ==
    ASSUME Base, NEW j \in Task, Refused(j)
    PROVE  /\ Base' /\ user' = user /\ job[j].step = "write" /\ ~Accepted(job[j])
           /\ \/ /\ Live(job[j].at)
                 /\ job'[j] = [job[j] EXCEPT !.step = "read", !.try = @ + 1, !.want = Blank]
                 /\ \A i \in Task : i # j => job'[i] = job[i]
                 /\ UNCHANGED <<again, verdict, entered, clean, missed>>
              \/ /\ (Over(j, job) /\ clean' = clean) \/ Broken(j)
                 /\ missed' = (missed \/ Live(job[j].at))
<1> DEFINE k == job[j]
           r == [k EXCEPT !.step = "read", !.try = @ + 1, !.want = Blank]
<1>1. /\ k \in Job /\ Shaped(k) /\ k.at \in Account /\ user[k.at] \in User /\ k.step = "write"
      /\ j = "mailer" <=> k.kind = "unique"
      /\ job \in [Task -> Job] /\ Shapely(job)
    BY JobFacts DEF Refused, Busy, Base, TypeOK, ShapeInv
<1>2. UNCHANGED <<user, news, word, spent, holder, failed, unseen>> /\ ~Accepted(k)
    BY DEF Refused
<1>3. CASE Live(k.at) /\ k.try < 3 /\ job' = [job EXCEPT ![j] = r]
           /\ UNCHANGED <<again, verdict, entered, clean, missed>>
    <2>1. Blank \in Shown /\ k.try + 1 \in 1 .. 3
        BY <1>1, <1>3 DEF Blank, Shown, Condition, Job
    <2> DEFINE t == k.try + 1
    <2>2. r = [k EXCEPT !.step = "read", !.try = t, !.want = Blank] /\ t \in 1 .. 3
        BY <2>1
    <2> HIDE DEF t
    <2>3. /\ r \in Job /\ r.kind = k.kind /\ r.who = k.who /\ r.at = k.at /\ r.todo = k.todo
          /\ r.step = "read"
        BY <1>1, <2>1, <2>2 DEF Job
    <2>4. job' = [job EXCEPT ![j] = r]
        BY <1>3
    <2> HIDE DEF r
    <2>5. Shaped(r)
        BY <1>1, <2>3, StayShaped
    <2>6. /\ job' \in [Task -> Job] /\ ShapeInv' /\ job'[j] = r
          /\ \A i \in Task : i # j => job'[i] = job[i]
        BY <1>1, <2>3, <2>4, <2>5, MoveBase
    <2>7. Base'
        BY <1>2, <1>3, <2>6 DEF Base, TypeOK
    <2> QED
        BY <1>1, <1>2, <1>3, <2>6, <2>7 DEF r
<1>4. CASE Unmet(j) /\ missed' = (missed \/ Live(k.at))
    <2>1. (Over(j, job) /\ clean' = clean) \/ Broken(j)
        BY <1>1, <1>4, UnmetOver
    <2>2. missed' \in BOOLEAN
        BY <1>4 DEF Base, TypeOK, Live
    <2>3. Base'
        BY <1>2, <2>1, <2>2 DEF Over, Broken, Base, TypeOK, ShapeInv, Shapely
    <2> QED
        BY <1>1, <1>2, <1>4, <2>1, <2>3
<1>5. \/ Live(k.at) /\ k.try < 3 /\ job' = [job EXCEPT ![j] = r]
         /\ UNCHANGED <<again, verdict, entered, clean, missed>>
      \/ Unmet(j) /\ missed' = (missed \/ Live(k.at))
    <2>1. Live(k.at) /\ k.try < 3 =>
             job' = [job EXCEPT ![j] = r] /\ UNCHANGED <<again, verdict, entered, clean, missed>>
        BY <1>1 DEF Refused
    <2>2. ~(Live(k.at) /\ k.try < 3) => Unmet(j) /\ missed' = (missed \/ Live(k.at))
        BY DEF Refused
    <2> QED
        BY <2>1, <2>2
<1> QED
    BY <1>3, <1>4, <1>5

LEMMA VanishedBase ==
    ASSUME Base, NEW j \in Task, Vanished(j)
    PROVE  /\ Base' /\ job'[j] = Idle /\ SpoiledIf(TRUE) /\ j # "mailer"
           /\ job[j].kind \in Asking
           /\ \A i \in Task : i # j => job'[i] = job[i]
<1> DEFINE k == job[j]
<1>1. /\ k \in Job /\ Shaped(k) /\ k.step \in {"look", "find", "patch"}
      /\ j = "mailer" <=> k.kind = "unique"
      /\ k.todo \in Plans(k.kind) /\ k.kind \in Kind
    BY JobFacts DEF Vanished, Busy, Job
<1>2. Head(k.todo) \in {"identity", "github", "approve"}
    BY <1>1 DEF Shaped
<1>3. k.kind \in Asking /\ k.kind # "unique"
    BY <1>1, <1>2 DEF Plans, Asking, EditOf, Kind
<1>4. Idle.step = "idle"
    BY DEF Idle
<1>5. /\ job' \in [Task -> Job] /\ ShapeInv' /\ job'[j] = Idle
      /\ \A i \in Task : i # j => job'[i] = job[i]
    BY <1>4, IdleShaped, MoveBase DEF Vanished
<1>6. clean' \in BOOLEAN /\ entered' \subseteq Person \X Account
    BY SpoiledFacts DEF Vanished
<1>7. Base'
    BY <1>5, <1>6 DEF Base, TypeOK, Vanished
<1> QED
    BY <1>1, <1>3, <1>5, <1>7 DEF Vanished

LEMMA DeliverBase ==
    ASSUME Base, NEW j \in Slot, Deliver(j)
    PROVE  /\ Base' /\ ~Busy(j)
           /\ \E a \in news :
                 /\ news' = news \ {a}
                 /\ \/ /\ a \in Account
                       /\ job'[j].kind = "watch" /\ job'[j].at = a /\ job'[j].step = "read"
                       /\ ~job'[j].fresh /\ job'[j].todo = <<"created">>
                       /\ \A i \in Task : i # j => job'[i] = job[i]
                       /\ again' = again
                    \/ /\ a \notin Account
                       /\ \A i \in Slot : job'[i] = job[i]
                       /\ job'["mailer"] = IF job["mailer"].step = "idle" THEN Listing ELSE job["mailer"]
                       /\ again' = (again \/ Busy("mailer"))
<1>1. /\ j \in Task /\ j # "mailer"
      /\ job \in [Task -> Job] /\ Shapely(job) /\ again \in BOOLEAN
      /\ news \subseteq Account \cup {Nobody}
    BY AccountsAssumption DEF Task, Base, TypeOK, ShapeInv
<1>2. PICK a \in news :
        /\ ~Busy(j)
        /\ news' = news \ {a}
        /\ job' = IF a \in Account
                  THEN [job EXCEPT ![j] = At([Idle EXCEPT !.kind = "watch"], a, <<"created">>)]
                  ELSE Scheduled(job)
        /\ again' = (again \/ (a \notin Account /\ Busy("mailer")))
        /\ UNCHANGED <<user, verdict, word, spent, holder, entered, clean, missed, failed, unseen>>
    BY DEF Deliver
<1>3. CASE a \in Account
    <2> DEFINE k == [Idle EXCEPT !.kind = "watch"]
               t == <<"created">>
               r == At(k, a, t)
    <2>1. k \in Job /\ k.kind = "watch" /\ k.kind \notin Asking
        BY IdleShaped DEF Job, Kind, Idle, Asking
    <2>2. t \in Plans(k.kind) /\ Head(t) = "created" /\ Opens("created") = "read"
        BY <2>1 DEF Plans, EditOf, Opens
    <2>3. job' = [job EXCEPT ![j] = r]
        BY <1>2, <1>3
    <2> HIDE DEF k, t
    <2>4. /\ r \in Job /\ Shaped(r) /\ ~r.fresh /\ r.kind = k.kind /\ r.at = a /\ r.todo = t
          /\ r.step = Opens(Head(t))
        BY <1>3, <2>1, <2>2, AtShaped
    <2> HIDE DEF r
    <2>5. /\ job' \in [Task -> Job] /\ ShapeInv' /\ job'[j] = r
          /\ \A i \in Task : i # j => job'[i] = job[i]
        BY <1>1, <2>1, <2>3, <2>4, MoveBase
    <2>6. Base'
        BY <1>1, <1>2, <2>5 DEF Base, TypeOK, Busy
    <2> QED
        BY <1>1, <1>2, <1>3, <2>1, <2>2, <2>4, <2>5, <2>6 DEF t
<1>4. CASE a \notin Account
    <2>1. job' = Scheduled(job)
        BY <1>2, <1>4
    <2>2. /\ job' \in [Task -> Job] /\ Shapely(job')
          /\ \A i \in Slot : job'[i] = job[i]
          /\ job'["mailer"] = IF job["mailer"].step = "idle" THEN Listing ELSE job["mailer"]
        BY <1>1, <2>1, ScheduledShapely
    <2>3. Base'
        BY <1>1, <1>2, <2>2 DEF Base, TypeOK, ShapeInv, Shapely, Busy
    <2> QED
        BY <1>2, <1>4, <2>2, <2>3
<1> QED
    BY <1>3, <1>4

LEMMA MailerBase ==
    ASSUME Base, Mailer
    PROVE  /\ Base' /\ \A i \in Slot : job'[i] = job[i]
           /\ ~job'["mailer"].fresh /\ job'["mailer"].step # "write"
           /\ \/ (\A a \in Account : verdict'[a] = "none") /\ job'["mailer"] \in {Idle, Listing}
              \/ \E a \in Account : /\ verdict'[a] # "none"
                                    /\ job'["mailer"] = At(Listing, a, <<"condition">>)
<1>1. job \in [Task -> Job] /\ Shapely(job) /\ "mailer" \in Task /\ Slot = Task \ {"mailer"}
    BY MailerTask DEF Base, TypeOK, ShapeInv
<1>2. PICK next \in NextFlag(verdict', again) : job' = [job EXCEPT !["mailer"] = next]
    BY DEF Mailer
<1>3. \/ (\A a \in Account : verdict'[a] = "none") /\ next \in {Idle, Listing}
      \/ \E a \in Account : verdict'[a] # "none" /\ next = At(Listing, a, <<"condition">>)
    BY <1>2 DEF NextFlag
<1>4. ASSUME NEW a \in Account, next = At(Listing, a, <<"condition">>)
      PROVE  /\ next \in Job /\ Shaped(next) /\ next.kind = "unique" /\ ~next.fresh
             /\ next.step \notin {"write", "list", "idle"}
    <2>1. <<"condition">> \in Plans(Listing.kind) /\ Listing.kind = "unique" /\ Listing.kind \notin Asking
        BY DEF Plans, EditOf, Asking, Listing, Idle
    <2> QED
        BY <1>4, <2>1, AtShaped, IdleShaped
<1>5. /\ Idle.step = "idle" /\ ~Idle.fresh
      /\ Listing.step = "list" /\ ~Listing.fresh /\ Listing.kind = "unique"
    BY DEF Idle, Listing
<1>6. /\ next \in Job /\ Shaped(next) /\ ~next.fresh /\ next.step # "write"
      /\ next.step # "idle" => next.kind = "unique"
    BY <1>3, <1>4, <1>5, IdleShaped
<1> DEFINE m == "mailer"
<1>7. m \in Task /\ job' = [job EXCEPT ![m] = next] /\ (next.step # "idle" => (m = "mailer" <=> next.kind = "unique"))
    BY <1>1, <1>2, <1>6
<1> HIDE DEF m
<1>8. /\ job' \in [Task -> Job] /\ ShapeInv' /\ job'[m] = next
      /\ \A i \in Task : i # m => job'[i] = job[i]
    BY <1>6, <1>7, MoveBase
<1>9. verdict' \in [Account -> Condition]
    <2>1. \A a \in Account : Flag(a) \in Condition /\ "none" \in Condition
        BY DEF Flag, Condition
    <2> QED
        BY <2>1 DEF Mailer
<1>10. Base'
    BY <1>8, <1>9 DEF Base, TypeOK, Mailer
<1> QED
    BY <1>1, <1>3, <1>6, <1>8, <1>10 DEF m

LEMMA WrittenBase ==
    ASSUME Base, NEW a \in Account, NEW u \in User, user' = [user EXCEPT ![a] = u],
           job' = Outdate(job, a)
    PROVE  /\ user' \in [Account -> User] /\ job' \in [Task -> Job] /\ ShapeInv'
           /\ \A i \in Task : /\ job[i].at # a => job'[i] = job[i]
                              /\ job[i].at = a => job'[i] = [job[i] EXCEPT !.fresh = FALSE]
<1>1. job \in [Task -> Job] /\ Shapely(job) /\ user \in [Account -> User]
    BY DEF Base, TypeOK, ShapeInv
<1> DEFINE w == Outdate(job, a)
<1>2. /\ w \in [Task -> Job] /\ Shapely(w)
      /\ \A i \in Task : /\ job[i].at # a => w[i] = job[i]
                         /\ job[i].at = a => w[i] = [job[i] EXCEPT !.fresh = FALSE]
    BY <1>1, OutdateShapely
<1>3. job' = w
    OBVIOUS
<1> HIDE DEF w
<1>4. user' \in [Account -> User]
    BY <1>1
<1> QED
    BY <1>2, <1>3, <1>4 DEF ShapeInv, Shapely

LEMMA VouchBase ==
    ASSUME Base, NEW a \in Account, Vouch(a)
    PROVE  /\ Base'
           /\ \A i \in Task : /\ job[i].at # a => job'[i] = job[i]
                              /\ job[i].at = a => job'[i] = [job[i] EXCEPT !.fresh = FALSE]
<1> DEFINE s == IF user[a].spec = Nobody THEN holder[a] ELSE Nobody
           u == [user[a] EXCEPT !.spec = s]
<1>1. user[a] \in User /\ holder[a] \in Address /\ Nobody \in Address /\ user \in [Account -> User]
    BY DEF Base, TypeOK, Address
<1>2. s \in Address
    BY <1>1
<1>3. user' = [user EXCEPT ![a] = u] /\ job' = Outdate(job, a)
    BY <1>1 DEF Vouch
<1> HIDE DEF s
<1>4. u \in User
    BY <1>1, <1>2 DEF User
<1> HIDE DEF u
<1>5. /\ user' \in [Account -> User] /\ job' \in [Task -> Job] /\ ShapeInv'
      /\ \A i \in Task : /\ job[i].at # a => job'[i] = job[i]
                         /\ job[i].at = a => job'[i] = [job[i] EXCEPT !.fresh = FALSE]
    BY <1>3, <1>4, WrittenBase
<1>6. spent' \in [born : Nat, request : Nat, event : Nat]
    <2> DEFINE n == spent.event + 1
    <2>1. n \in Nat /\ spent \in [born : Nat, request : Nat, event : Nat] /\ spent' = [spent EXCEPT !.event = n]
        BY DEF Base, TypeOK, Vouch
    <2> HIDE DEF n
    <2> QED
        BY <2>1
<1>7. news' \subseteq Account \cup {Nobody}
    BY DEF Vouch, Base, TypeOK
<1>8. Base'
    BY <1>5, <1>6, <1>7 DEF Base, TypeOK, Vouch
<1> QED
    BY <1>5, <1>8

LEMMA DeleteBase ==
    ASSUME Base, NEW a \in Account, Delete(a)
    PROVE  /\ Base'
           /\ \A i \in Task : /\ job[i].at # a => job'[i] = job[i]
                              /\ job[i].at = a => job'[i] = [job[i] EXCEPT !.fresh = FALSE]
<1>1. Absent \in User
    BY DEF Absent, User, Address, NoEvidence, Evidence, Blank, Shown, Condition
<1>2. user' = [user EXCEPT ![a] = Absent] /\ job' = Outdate(job, a)
    BY DEF Delete
<1>3. /\ user' \in [Account -> User] /\ job' \in [Task -> Job] /\ ShapeInv'
      /\ \A i \in Task : /\ job[i].at # a => job'[i] = job[i]
                         /\ job[i].at = a => job'[i] = [job[i] EXCEPT !.fresh = FALSE]
    BY <1>1, <1>2, WrittenBase
<1>4. spent' \in [born : Nat, request : Nat, event : Nat]
    <2> DEFINE n == spent.event + 1
    <2>1. n \in Nat /\ spent \in [born : Nat, request : Nat, event : Nat] /\ spent' = [spent EXCEPT !.event = n]
        BY DEF Base, TypeOK, Delete
    <2> HIDE DEF n
    <2> QED
        BY <2>1
<1>5. news' \subseteq Account \cup {Nobody} /\ holder' \in [Account -> Address]
      /\ entered' \subseteq Person \X Account
    BY DEF Delete, Base, TypeOK, Address
<1>6. Base'
    BY <1>3, <1>4, <1>5 DEF Base, TypeOK, Delete
<1> QED
    BY <1>3, <1>6

LEMMA FailBase ==
    ASSUME Base, NEW j \in Task, Fail(j)
    PROVE  /\ Base' /\ missed' /\ failed' /\ user' = user /\ Busy(j)
           /\ \/ job[j].step \in {"read", "write"} /\ ((Over(j, job) /\ clean' = clean) \/ Broken(j))
              \/ /\ job'[j] \in {Idle, Listing} /\ (j # "mailer" => job'[j] = Idle)
                 /\ SpoiledIf(j # "mailer") /\ verdict' = verdict
                 /\ \A i \in Task : i # j => job'[i] = job[i]
                 /\ job[j].step \notin {"read", "write"}
<1>1. /\ missed' = TRUE /\ failed' = TRUE /\ Busy(j) /\ spent' = [spent EXCEPT !.event = @ + 1]
      /\ UNCHANGED <<user, news, word, holder, unseen>>
    BY DEF Fail
<1>2. spent' \in [born : Nat, request : Nat, event : Nat]
    <2> DEFINE n == spent.event + 1
    <2>1. n \in Nat /\ spent \in [born : Nat, request : Nat, event : Nat] /\ spent' = [spent EXCEPT !.event = n]
        BY <1>1 DEF Base, TypeOK
    <2> HIDE DEF n
    <2> QED
        BY <2>1
<1>3. CASE job[j].step \in {"read", "write"}
    <2>1. (Over(j, job) /\ clean' = clean) \/ Broken(j)
        BY <1>3, UnmetOver DEF Fail
    <2>2. Base'
        BY <1>1, <1>2, <2>1 DEF Over, Broken, Base, TypeOK, ShapeInv, Shapely
    <2> QED
        BY <1>1, <1>3, <2>1, <2>2
<1>4. CASE job[j].step \notin {"read", "write"}
    <2> DEFINE next == IF j = "mailer" /\ again THEN Listing ELSE Idle
               spoils == j # "mailer"
    <2>1. /\ job' = [job EXCEPT ![j] = next] /\ SpoiledIf(spoils)
          /\ again' = (again /\ spoils) /\ verdict' = verdict
        BY <1>4 DEF Fail
    <2>2. /\ Idle.step = "idle" /\ Listing.kind = "unique"
          /\ next \in {Idle, Listing} /\ (spoils => next = Idle)
        BY DEF Idle, Listing
    <2>6. next \in Job /\ Shaped(next) /\ (next.step # "idle" => (j = "mailer" <=> next.kind = "unique"))
        BY <2>2, IdleShaped
    <2> HIDE DEF next
    <2>3. /\ job' \in [Task -> Job] /\ ShapeInv' /\ job'[j] = next
          /\ \A i \in Task : i # j => job'[i] = job[i]
        BY <2>1, <2>6, MoveBase
    <2>7. spoils \in BOOLEAN
        OBVIOUS
    <2>4. clean' \in BOOLEAN /\ entered' \subseteq Person \X Account
        <3> HIDE DEF spoils
        <3> QED
            BY <2>1, <2>7, SpoiledFacts
    <2>5. Base'
        BY <1>1, <1>2, <2>1, <2>3, <2>4 DEF Base, TypeOK
    <2> QED
        BY <1>1, <1>4, <2>1, <2>2, <2>3, <2>5
<1> QED
    BY <1>3, <1>4

LEMMA RestartBase ==
    ASSUME Base, Restart
    PROVE  Base' /\ \A i \in Task : job'[i] = Idle
<1>1. job' = [j \in Task |-> Idle]
    BY DEF Restart
<1>2. job' \in [Task -> Job] /\ ShapeInv' /\ \A i \in Task : job'[i] = Idle
    <2>1. Idle.step = "idle"
        BY DEF Idle
    <2> QED
        BY <1>1, <2>1, IdleShaped DEF ShapeInv, Shapely
<1>3. spent' \in [born : Nat, request : Nat, event : Nat]
    <2> DEFINE n == spent.event + 1
    <2>1. n \in Nat /\ spent \in [born : Nat, request : Nat, event : Nat] /\ spent' = [spent EXCEPT !.event = n]
        BY DEF Base, TypeOK, Restart
    <2> HIDE DEF n
    <2> QED
        BY <2>1
<1>4. clean' \in BOOLEAN /\ entered' \subseteq Person \X Account
    BY SpoiledFacts DEF Restart
<1>5. verdict' \in [Account -> Condition] /\ news' \subseteq Account \cup {Nobody}
    BY DEF Restart, Condition
<1>6. Base'
    BY <1>2, <1>3, <1>4, <1>5 DEF Base, TypeOK, Restart
<1> QED
    BY <1>2, <1>6

(* A request is somebody's, with an address of that person's upstream. *)
LEMMA RequestStart ==
    ASSUME Base, NEW j \in Slot, SignIn(j) \/ Invite(j)
    PROVE  \E kind \in Asking, p \in Person, e \in Person, sure \in BOOLEAN :
              /\ Start(j, kind, p, e, sure) /\ (sure => e = p)
              /\ word' \in [Person -> Word]
              /\ kind = "oidc" => word' = [word EXCEPT ![p] = Heard(p, e)]
              /\ kind # "oidc" => word' = word /\ e = p
<1>1. word \in [Person -> Word] /\ {"link", "github", "oidc", "invite"} \subseteq Asking
    BY DEF Base, TypeOK, Asking
<1>2. ASSUME NEW p \in Person, NEW kind \in {"link", "github"}, Start(j, kind, p, p, TRUE), UNCHANGED word
      PROVE  \E kk \in Asking, pp \in Person, e \in Person, sure \in BOOLEAN :
              /\ Start(j, kk, pp, e, sure) /\ (sure => e = pp)
              /\ word' \in [Person -> Word]
              /\ kk = "oidc" => word' = [word EXCEPT ![pp] = Heard(pp, e)]
              /\ kk # "oidc" => word' = word /\ e = pp
    BY <1>1, <1>2
<1>3. ASSUME NEW p \in Person, NEW e \in Person, NEW sure \in BOOLEAN,
             sure => e = p, Start(j, "oidc", p, e, sure), word' = [word EXCEPT ![p] = Heard(p, e)]
      PROVE  \E kk \in Asking, pp \in Person, ee \in Person, ss \in BOOLEAN :
              /\ Start(j, kk, pp, ee, ss) /\ (ss => ee = pp)
              /\ word' \in [Person -> Word]
              /\ kk = "oidc" => word' = [word EXCEPT ![pp] = Heard(pp, ee)]
              /\ kk # "oidc" => word' = word /\ ee = pp
    <2>1. word[p] \in Word /\ Heard(p, e) \in Word
        BY <1>1 DEF Heard, Word, Address
    <2>2. word' \in [Person -> Word]
        BY <1>1, <1>3, <2>1
    <2> QED
        BY <1>1, <1>3, <2>2
<1>4. ASSUME NEW e \in Person, Start(j, "invite", e, e, TRUE), UNCHANGED word
      PROVE  \E kk \in Asking, pp \in Person, ee \in Person, sure \in BOOLEAN :
              /\ Start(j, kk, pp, ee, sure) /\ (sure => ee = pp)
              /\ word' \in [Person -> Word]
              /\ kk = "oidc" => word' = [word EXCEPT ![pp] = Heard(pp, ee)]
              /\ kk # "oidc" => word' = word /\ ee = pp
    BY <1>1, <1>4
<1>5. CASE SignIn(j)
    <2>1. PICK p \in Person :
             \/ \E kind \in {"link", "github"} : Start(j, kind, p, p, TRUE) /\ UNCHANGED word
             \/ \E e \in Person, sure \in BOOLEAN :
                   /\ sure => e = p
                   /\ Start(j, "oidc", p, e, sure)
                   /\ word' = [word EXCEPT ![p] = Heard(p, e)]
        BY <1>5 DEF SignIn
    <2>2. CASE \E kind \in {"link", "github"} : Start(j, kind, p, p, TRUE) /\ UNCHANGED word
        BY <1>2, <2>2
    <2>3. CASE \E e \in Person, sure \in BOOLEAN :
                  /\ sure => e = p
                  /\ Start(j, "oidc", p, e, sure)
                  /\ word' = [word EXCEPT ![p] = Heard(p, e)]
        BY <1>3, <2>3
    <2> QED
        BY <2>1, <2>2, <2>3
<1>6. CASE Invite(j)
    <2>1. PICK e \in Person : Start(j, "invite", e, e, TRUE) /\ UNCHANGED word
        BY <1>6 DEF Invite
    <2> QED
        BY <1>4, <2>1
<1> QED
    BY <1>5, <1>6

LEMMA BaseInit == Init => Base
<1> SUFFICES ASSUME Init PROVE Base
    OBVIOUS
<1>1. Absent \in User
    BY DEF Absent, User, Address, NoEvidence, Evidence, Blank, Shown, Condition
<1>2. Idle.step = "idle"
    BY DEF Idle
<1>3. job \in [Task -> Job] /\ ShapeInv
    BY <1>2, IdleShaped DEF Init, ShapeInv, Shapely
<1> QED
    BY <1>1, <1>3 DEF Init, Base, TypeOK, Condition, Address, Word

LEMMA BaseStep == Base /\ [Next]_vars => Base'
<1> SUFFICES ASSUME Base, [Next]_vars PROVE Base'
    OBVIOUS
<1>1. ASSUME NEW j \in Slot, SignIn(j) \/ Invite(j) PROVE Base'
    <2>1. PICK kind \in Asking, p \in Person, e \in Person, sure \in BOOLEAN :
             Start(j, kind, p, e, sure) /\ word' \in [Person -> Word]
        BY <1>1, RequestStart
    <2> QED
        BY <2>1, StartBase
<1>2. ASSUME NEW j \in Slot, Resolve(j) \/ Create(j) \/ Deliver(j) PROVE Base'
    BY <1>2, ResolveBase, CreateBase, DeliverBase
<1>3. ASSUME NEW j \in Task, Step(j) \/ Fail(j) PROVE Base'
    BY <1>3, LookBase, FindBase, PatchBase, ReadBase, WriteBase, RefusedBase, VanishedBase, FailBase
       DEF Step
<1>4. CASE Mailer
    BY <1>4, MailerBase
<1>5. ASSUME NEW a \in Account, Vouch(a) \/ Delete(a) PROVE Base'
    BY <1>5, VouchBase, DeleteBase
<1>6. CASE Restart
    BY <1>6, RestartBase
<1>7. CASE UNCHANGED vars
    BY <1>7 DEF vars, Base, TypeOK, ShapeInv, Shapely
<1> QED
    BY <1>1, <1>2, <1>3, <1>4, <1>5, <1>6, <1>7 DEF Next

(* Types, whatever overlaps, fails or restarts. *)
THEOREM AccountsTypes == Spec => []TypeOK
<1>1. Base => TypeOK
    BY DEF Base
<1> QED
    BY BaseInit, BaseStep, <1>1, PTL DEF Spec

-----------------------------------------------------------------------------
(***************************************************************************)
(* A copy that no write has outdated is what the handler intends now.      *)
(***************************************************************************)

(* Only the e-mail reconcile writes a condition. *)
LEMMA ConditionMailer ==
    ASSUME Base, NEW i \in Task, i # "mailer", job[i].step \in {"read", "write"}
    PROVE  Head(job[i].todo) # "condition"
<1> DEFINE k == job[i]
<1>1. k \in Job /\ k.kind \in Kind /\ k.kind # "unique" /\ k.todo \in Plans(k.kind)
    BY JobFacts DEF Busy, Job
<1>2. EditOf(k.kind) # "condition"
    BY <1>1 DEF EditOf, Kind
<1>3. \A e, f : Head(<<e>>) = e /\ Head(<<e, f>>) = e
    OBVIOUS
<1> HIDE DEF k
<1>4. CASE k.todo = <<EditOf(k.kind)>>
    BY <1>2, <1>3, <1>4 DEF k
<1>5. CASE \E e \in Edit \ {"created", "condition"} : k.todo \in {<<e>>, <<"created", e>>}
    BY <1>3, <1>5 DEF k
<1> QED
    BY <1>1, <1>4, <1>5, PlanForm

(* i holds the copy it held, of the same user. *)
Untouched(i) ==
    /\ job'[i] = job[i]
    /\ Current(i) => user'[job[i].at] = user[job[i].at]
    /\ i = "mailer" => verdict' = verdict

Parted(i) == job'[i].step = "write" => ~job'[i].fresh

LEMMA FreshKept ==
    ASSUME Base, FreshInv, NEW i \in Task, Untouched(i) \/ Parted(i)
    PROVE  Fresh(i)'
<1>1. CASE Parted(i)
    BY <1>1 DEF Fresh, Current, Parted
<1>2. CASE Untouched(i)
    <2> SUFFICES ASSUME Current(i)'
                 PROVE  Live(job[i].at)' /\ job'[i].want = Intended(job[i], user[job[i].at])'
        BY DEF Fresh
    <2>1. Current(i) /\ job'[i] = job[i] /\ user'[job[i].at] = user[job[i].at]
        BY <1>2 DEF Untouched, Current
    <2>2. Live(job[i].at) /\ job[i].want = Intended(job[i], user[job[i].at])
        BY <2>1 DEF FreshInv, Fresh
    <2>3. Live(job[i].at)'
        BY <2>1, <2>2 DEF Live
    <2>4. i # "mailer" => Head(job[i].todo) # "condition"
        BY <2>1, ConditionMailer DEF Current
    <2>5. Intended(job[i], user[job[i].at])' = Intended(job[i], user[job[i].at])
        <3>1. CASE i = "mailer"
            <4>1. verdict' = verdict
                BY <1>2, <3>1 DEF Untouched
            <4> QED
                BY <2>1, <4>1 DEF Intended
        <3>2. CASE i # "mailer"
            BY <2>1, <2>4, <3>2 DEF Intended
        <3> QED
            BY <3>1, <3>2
    <2> QED
        BY <2>1, <2>2, <2>3, <2>5
<1> QED
    BY <1>1, <1>2

LEMMA OverParts ==
    ASSUME NEW j \in Task, NEW jobs, Over(j, jobs), NEW i \in Task
    PROVE  Parted(i) \/ (i # j /\ job'[i] = jobs[i] /\ (i = "mailer" => verdict' = verdict))
<1>1. CASE i = j
    BY <1>1 DEF Over, Parted
<1>2. CASE i # j /\ i # "mailer"
    BY <1>2 DEF Over
<1>3. CASE i # j /\ i = "mailer"
    <2>1. job'[i] \in {Listing, jobs[i]} /\ verdict' = verdict
        BY <1>3 DEF Over, WatchOver, UniqueOver, AskOver
    <2>2. ~Listing.fresh
        BY DEF Listing, Idle
    <2> QED
        BY <1>3, <2>1, <2>2 DEF Parted
<1> QED
    BY <1>1, <1>2, <1>3

LEMMA BrokenParts ==
    ASSUME NEW j \in Task, Broken(j), NEW i \in Task
    PROVE  Parted(i) \/ (i # j /\ job'[i] = job[i] /\ verdict' = verdict)
    BY DEF Broken, Parted

(* A handler is the only one to move, and its step writes no user. *)
LEMMA FreshAlone ==
    ASSUME Base, FreshInv, NEW j \in Task, user' = user, Fresh(j)',
           \A i \in Task : i # j => job'[i] = job[i],
           j # "mailer" => verdict' = verdict
    PROVE  FreshInv'
<1> SUFFICES ASSUME NEW i \in Task PROVE Fresh(i)'
    BY DEF FreshInv
<1>1. CASE i = j
    BY <1>1
<1>2. CASE i # j
    <2>1. Untouched(i)
        BY <1>2 DEF Untouched
    <2> QED
        BY <2>1, FreshKept
<1> QED
    BY <1>1, <1>2

LEMMA PartedFresh ==
    ASSUME NEW j \in Task, job'[j].step # "write" \/ ~job'[j].fresh
    PROVE  Fresh(j)'
    BY DEF Fresh, Current

LEMMA EndFresh ==
    ASSUME Base, FreshInv, NEW j \in Task, Over(j, job) \/ Broken(j), user' = user
    PROVE  FreshInv'
<1> SUFFICES ASSUME NEW i \in Task PROVE Fresh(i)'
    BY DEF FreshInv
<1>1. Parted(i) \/ (job'[i] = job[i] /\ (i = "mailer" => verdict' = verdict))
    BY OverParts, BrokenParts
<1>2. Parted(i) \/ Untouched(i)
    BY <1>1 DEF Untouched
<1> QED
    BY <1>2, FreshKept

LEMMA StartFresh ==
    ASSUME Base, FreshInv, NEW j \in Slot, SignIn(j) \/ Invite(j)
    PROVE  FreshInv'
<1>1. PICK kind \in Asking, p \in Person, e \in Person, sure \in BOOLEAN :
         Start(j, kind, p, e, sure) /\ word' \in [Person -> Word]
    BY RequestStart
<1> DEFINE k == Asked(kind, p, e, sure)
<1>2. j \in Task
    BY DEF Task
<1>3. k \in Job /\ k.kind = kind /\ k.who = p
    BY AskedJob
<1>9. /\ \E r \in Resolved(Asked(kind, p, e, sure)) : job'[j] = r
      /\ \A i \in Task : i # j => job'[i] = job[i]
    BY <1>1, StartBase
<1>4. PICK r \in Resolved(k) : job'[j] = r
    BY <1>9
<1>5. Idle.step = "idle"
    BY DEF Idle
<1> HIDE DEF k
<1>6. r.step # "write"
    BY <1>3, <1>4, <1>5, ResolvedFacts
<1>7. Fresh(j)'
    BY <1>2, <1>4, <1>6, PartedFresh
<1>8. user' = user /\ verdict' = verdict /\ \A i \in Task : i # j => job'[i] = job[i]
    BY <1>1, <1>9 DEF Start
<1> QED
    BY <1>2, <1>7, <1>8, FreshAlone

LEMMA FreshStep ==
    ASSUME Base, FreshInv, [Next]_vars
    PROVE  FreshInv'
<1>0. Slot \subseteq Task
    BY DEF Task
<1>1. ASSUME NEW j \in Slot, SignIn(j) \/ Invite(j) PROVE FreshInv'
    BY <1>1, StartFresh
<1>2. ASSUME NEW j \in Slot, Resolve(j) PROVE FreshInv'
    <2>1. PICK r \in Resolved(job[j]) : job'[j] = r
        BY <1>2, ResolveBase
    <2>2. job[j] \in Job /\ job[j].kind \in Asking /\ job[j].who \in Person
        BY <1>0, <1>2, ResolveKind, JobFacts DEF Resolve, Asking
    <2>3. Idle.step = "idle"
        BY DEF Idle
    <2>4. r.step # "write"
        BY <2>1, <2>2, <2>3, ResolvedFacts
    <2>5. user' = user /\ verdict' = verdict /\ \A i \in Task : i # j => job'[i] = job[i]
        BY <1>2, ResolveBase DEF Resolve
    <2> QED
        BY <1>0, <2>1, <2>4, <2>5, FreshAlone, PartedFresh
<1>3. ASSUME NEW j \in Slot, Create(j) PROVE FreshInv'
    <2>1. /\ job[j].kind \in Asking /\ job[j].who \in Person /\ job[j].todo = Creation(job[j].kind)
          /\ \A i \in Task : i # j => job'[i] = job[i]
          /\ (\E a \in Account : Made(j, a)) \/ (job'[j] = Idle /\ UNCHANGED <<user, news, holder>>)
        BY <1>3, CreateBase
    <2>2. verdict' = verdict
        BY <1>3 DEF Create
    <2>3. CASE job'[j] = Idle /\ UNCHANGED <<user, news, holder>>
        <3>1. Idle.step = "idle"
            BY DEF Idle
        <3> QED
            BY <1>0, <2>1, <2>2, <2>3, <3>1, FreshAlone, PartedFresh
    <2>4. ASSUME NEW a \in Account, Made(j, a) PROVE FreshInv'
        <3> SUFFICES ASSUME NEW i \in Task PROVE Fresh(i)'
            BY DEF FreshInv
        <3>1. CASE i = j
            <4>1. job[j].todo \in Plans(job[j].kind) /\ job[j] \in Job
                BY <1>0, <2>1, JobFacts DEF Plans
            <4>2. ~job'[j].fresh
                BY <2>1, <2>4, <4>1, AtShaped DEF Made
            <4> QED
                BY <3>1, <4>2, PartedFresh
        <3>2. CASE i # j
            <4>1. Current(i) => job[i].at # a
                BY <2>4 DEF Made, FreshInv, Fresh
            <4>2. Untouched(i)
                BY <2>1, <2>2, <2>4, <3>2, <4>1 DEF Untouched, Made, Base, TypeOK
            <4> QED
                BY <4>2, FreshKept
        <3> QED
            BY <3>1, <3>2
    <2> QED
        BY <2>1, <2>3, <2>4
<1>4. ASSUME NEW j \in Slot, Deliver(j) PROVE FreshInv'
    <2> SUFFICES ASSUME NEW i \in Task PROVE Fresh(i)'
        BY DEF FreshInv
    <2>1. user' = user /\ verdict' = verdict
        BY <1>4 DEF Deliver
    <2>2. \/ job'[i] = job[i] \/ ~job'[i].fresh
        <3>1. ~Listing.fresh
            BY DEF Listing, Idle
        <3> QED
            BY <1>0, <1>4, <3>1, DeliverBase, MailerTask
    <2>3. Untouched(i) \/ Parted(i)
        BY <2>1, <2>2 DEF Untouched, Parted
    <2> QED
        BY <2>3, FreshKept
<1>5. ASSUME NEW j \in Task, Look(j) PROVE FreshInv'
    <2>1. job'[j].step = "find" /\ \A i \in Task : i # j => job'[i] = job[i]
        <3> DEFINE o == [github |-> user[job[j].at].github, identity |-> user[job[j].at].identity]
        <3>1. job[j] \in Job
            BY JobFacts
        <3>2. job'[j] = [job[j] EXCEPT !.step = "find", !.old = o] /\ \A i \in Task : i # j => job'[i] = job[i]
            BY <1>5, LookBase
        <3> HIDE DEF o
        <3> QED
            BY <3>1, <3>2 DEF Job
    <2> QED
        BY <1>5, <2>1, FreshAlone, PartedFresh DEF Look
<1>6. ASSUME NEW j \in Task, Find(j) PROVE FreshInv'
    <2>1. job'[j].step = "patch" /\ \A i \in Task : i # j => job'[i] = job[i]
        <3> DEFINE o == Difference(job[j], user[job[j].at])
        <3>1. job[j] \in Job
            BY JobFacts
        <3>2. job'[j] = [job[j] EXCEPT !.step = "patch", !.put = o] /\ \A i \in Task : i # j => job'[i] = job[i]
            BY <1>6, FindBase
        <3> HIDE DEF o
        <3> QED
            BY <3>1, <3>2 DEF Job
    <2> QED
        BY <1>6, <2>1, FreshAlone, PartedFresh DEF Find
<1>7. ASSUME NEW j \in Task, Patch(j) PROVE FreshInv'
    <2> SUFFICES ASSUME NEW i \in Task PROVE Fresh(i)'
        BY DEF FreshInv
    <2>1. /\ job'[j] = AfterPatch(job[j]) /\ Outdated(j, job[j].at) /\ verdict' = verdict
          /\ user' = [user EXCEPT ![job[j].at] = Patched(job[j], user[job[j].at])]
          /\ user' # user => \A h \in Task : h # j /\ job[h].at = job[j].at =>
                                  job'[h] = [job[h] EXCEPT !.fresh = FALSE]
        BY <1>7, PatchBase DEF Patch
    <2>2. CASE i = j
        <3>1. job'[j].step = "read"
            BY <2>1, JobFacts DEF AfterPatch, Job
        <3> QED
            BY <2>2, <3>1, PartedFresh
    <2>3. CASE i # j /\ job[i].at # job[j].at
        <3>1. job'[i] = job[i] /\ (job[i].at \in Account => user'[job[i].at] = user[job[i].at])
            BY <2>1, <2>3 DEF Outdated, Base, TypeOK
        <3>2. Current(i) => job[i].at \in Account
            BY JobFacts DEF Current
        <3>3. Untouched(i)
            BY <2>1, <3>1, <3>2 DEF Untouched
        <3> QED
            BY <3>3, FreshKept
    <2>4. CASE i # j /\ job[i].at = job[j].at
        <3>1. CASE user' = user
            <4>1. job'[i] = job[i] \/ ~job'[i].fresh
                BY <2>1, <2>4, JobFacts DEF Outdated, Job
            <4>2. Untouched(i) \/ Parted(i)
                BY <2>1, <3>1, <4>1 DEF Untouched, Parted
            <4> QED
                BY <4>2, FreshKept
        <3>2. CASE user' # user
            <4>1. ~job'[i].fresh
                <5>1. job'[i] = [job[i] EXCEPT !.fresh = FALSE] /\ job[i] \in Job
                    BY <2>1, <2>4, <3>2, JobFacts
                <5> QED
                    BY <5>1 DEF Job
            <4> QED
                BY <4>1, PartedFresh
        <3> QED
            BY <3>1, <3>2
    <2> QED
        BY <2>2, <2>3, <2>4
<1>8. ASSUME NEW j \in Task, Read(j) PROVE FreshInv'
    <2>1. user' = user
        BY <1>8, ReadBase
    <2>2. CASE Over(j, job) \/ Broken(j)
        BY <2>1, <2>2, EndFresh
    <2>3. CASE /\ Live(job[j].at)
               /\ job'[j] = [job[j] EXCEPT !.step = "write", !.fresh = TRUE,
                                           !.want = Intended(job[j], user[job[j].at])]
               /\ \A i \in Task : i # j => job'[i] = job[i]
               /\ UNCHANGED <<again, verdict, entered, clean>>
        <3> DEFINE k == job[j]
                   w == Intended(k, user[k.at])
        <3>1. k \in Job
            BY JobFacts
        <3> HIDE DEF w
        <3>2. job'[j] = [k EXCEPT !.step = "write", !.fresh = TRUE, !.want = w]
            BY <2>3 DEF w
        <3>3. job'[j].want = w /\ job'[j].at = k.at /\ job'[j].todo = k.todo /\ job'[j].mail = k.mail
            BY <3>1, <3>2 DEF Job
        <3>4. Intended(job[j], user[job[j].at])' = w
            BY <2>1, <2>3, <3>3 DEF Intended, w
        <3>5. Live(job[j].at)'
            BY <2>1, <2>3, <3>3 DEF Live
        <3>6. Fresh(j)'
            BY <3>3, <3>4, <3>5 DEF Fresh
        <3> QED
            BY <2>1, <2>3, <3>6, FreshAlone
    <2> QED
        BY <1>8, <2>2, <2>3, ReadBase
<1>9. ASSUME NEW j \in Task, Write(j) PROVE FreshInv'
    <2> DEFINE k == job[j]
               jobs == Outdate(job, k.at)
    <2>1. /\ Over(j, jobs) /\ user' = [user EXCEPT ![k.at].status = k.want] /\ k.at \in Account
          /\ \A i \in Task : /\ job[i].at # k.at => jobs[i] = job[i]
                             /\ job[i].at = k.at => jobs[i] = [job[i] EXCEPT !.fresh = FALSE]
        BY <1>9, WriteBase
    <2> HIDE DEF jobs
    <2> SUFFICES ASSUME NEW i \in Task PROVE Fresh(i)'
        BY DEF FreshInv
    <2>2. CASE Parted(i)
        BY <2>2, FreshKept
    <2>3. CASE i # j /\ job'[i] = jobs[i] /\ (i = "mailer" => verdict' = verdict)
        <3>1. CASE job[i].at = k.at
            <4>1. ~job'[i].fresh
                <5>1. job'[i] = [job[i] EXCEPT !.fresh = FALSE] /\ job[i] \in Job
                    BY <2>1, <2>3, <3>1, JobFacts
                <5> QED
                    BY <5>1 DEF Job
            <4> QED
                BY <4>1, PartedFresh
        <3>2. CASE job[i].at # k.at
            <4>1. Current(i) => job[i].at \in Account
                BY JobFacts DEF Current
            <4>2. Untouched(i)
                BY <2>1, <2>3, <3>2, <4>1 DEF Untouched, Base, TypeOK
            <4> QED
                BY <4>2, FreshKept
        <3> QED
            BY <3>1, <3>2
    <2> QED
        BY <2>1, <2>2, <2>3, OverParts
<1>10. ASSUME NEW j \in Task, Refused(j) PROVE FreshInv'
    <2>1. user' = user
        BY <1>10, RefusedBase
    <2>2. CASE Over(j, job) \/ Broken(j)
        BY <2>1, <2>2, EndFresh
    <2>3. CASE /\ job'[j] = [job[j] EXCEPT !.step = "read", !.try = @ + 1, !.want = Blank]
               /\ \A i \in Task : i # j => job'[i] = job[i]
               /\ UNCHANGED <<again, verdict, entered, clean, missed>>
        <3>1. job'[j].step = "read"
            BY <2>3, JobFacts DEF Job
        <3> QED
            BY <2>1, <2>3, <3>1, FreshAlone, PartedFresh
    <2> QED
        BY <1>10, <2>2, <2>3, RefusedBase
<1>11. ASSUME NEW j \in Task, Vanished(j) PROVE FreshInv'
    <2>1. Idle.step = "idle"
        BY DEF Idle
    <2>2. job'[j] = Idle /\ \A i \in Task : i # j => job'[i] = job[i]
        BY <1>11, VanishedBase
    <2> QED
        BY <1>11, <2>1, <2>2, FreshAlone, PartedFresh DEF Vanished
<1>12. ASSUME NEW j \in Task, Fail(j) PROVE FreshInv'
    <2>1. user' = user
        BY <1>12, FailBase
    <2>2. CASE Over(j, job) \/ Broken(j)
        BY <2>1, <2>2, EndFresh
    <2>3. CASE /\ job'[j] \in {Idle, Listing} /\ verdict' = verdict
               /\ \A i \in Task : i # j => job'[i] = job[i]
        <3>1. Idle.step = "idle" /\ Listing.step = "list"
            BY DEF Idle, Listing
        <3> QED
            BY <2>1, <2>3, <3>1, FreshAlone, PartedFresh
    <2> QED
        BY <1>12, <2>2, <2>3, FailBase
<1>13. CASE Mailer
    <2>1. user' = user
        BY <1>13 DEF Mailer
    <2>2. ~job'["mailer"].fresh /\ \A i \in Task : i # "mailer" => job'[i] = job[i]
        BY <1>13, MailerBase, MailerTask
    <2> QED
        BY <2>1, <2>2, FreshAlone, PartedFresh, MailerTask
<1>14. ASSUME NEW a \in Account, Vouch(a) \/ Delete(a) PROVE FreshInv'
    <2> SUFFICES ASSUME NEW i \in Task PROVE Fresh(i)'
        BY DEF FreshInv
    <2>1. /\ job[i].at # a => job'[i] = job[i]
          /\ job[i].at = a => job'[i] = [job[i] EXCEPT !.fresh = FALSE]
        BY <1>14, VouchBase, DeleteBase
    <2>2. verdict' = verdict /\ \A b \in Account : b # a => user'[b] = user[b]
        BY <1>14 DEF Vouch, Delete, Base, TypeOK
    <2>3. CASE job[i].at = a
        <3>1. ~job'[i].fresh
            BY <2>1, <2>3, JobFacts DEF Job
        <3> QED
            BY <3>1, PartedFresh
    <2>4. CASE job[i].at # a
        <3>1. Current(i) => job[i].at \in Account
            BY JobFacts DEF Current
        <3>2. Untouched(i)
            BY <2>1, <2>2, <2>4, <3>1 DEF Untouched
        <3> QED
            BY <3>2, FreshKept
    <2> QED
        BY <2>3, <2>4
<1>15. CASE Restart
    <2>1. Idle.step = "idle"
        BY DEF Idle
    <2> QED
        BY <1>15, <2>1, RestartBase, PartedFresh DEF FreshInv
<1>16. CASE UNCHANGED vars
    <2>1. \A i \in Task : Untouched(i)
        BY <1>16 DEF vars, Untouched
    <2> QED
        BY <2>1, FreshKept DEF FreshInv
<1> QED
    BY <1>1, <1>2, <1>3, <1>4, <1>5, <1>6, <1>7, <1>8, <1>9, <1>10, <1>11, <1>12, <1>13, <1>14,
       <1>15, <1>16 DEF Next, Step

(* The user a status write leaves. *)
LEMMA WrittenUser ==
    ASSUME Base, FreshInv, NEW j \in Task, Write(j)
    PROVE  LET a == job[j].at IN
           /\ a \in Account /\ Live(a)
           /\ user'[a] = [user[a] EXCEPT !.status = Intended(job[j], user[a])]
           /\ user'[a].status = Intended(job[j], user[a]) /\ user'[a].born = user[a].born
           /\ Claimed(user'[a]) = Claimed(user[a])
           /\ \A b \in Account : b # a => user'[b] = user[b]
<1> DEFINE a == job[j].at
           w == Intended(job[j], user[a])
<1>1. /\ user' = [user EXCEPT ![a].status = job[j].want] /\ a \in Account /\ Live(a) /\ Current(j)
    BY WriteBase
<1>2. job[j].want = w
    BY <1>1 DEF FreshInv, Fresh
<1>3. user \in [Account -> User] /\ user[a] \in User
    BY <1>1 DEF Base, TypeOK
<1> HIDE DEF w
<1>4. user'[a] = [user[a] EXCEPT !.status = w] /\ \A b \in Account : b # a => user'[b] = user[b]
    BY <1>1, <1>2, <1>3
<1>5. /\ user'[a].status = w /\ user'[a].born = user[a].born /\ user'[a].spec = user[a].spec
      /\ user'[a].bare = user[a].bare /\ user'[a].github = user[a].github
      /\ user'[a].identity = user[a].identity
    BY <1>3, <1>4 DEF User
<1>6. Claimed(user'[a]) = Claimed(user[a])
    BY <1>5 DEF Claimed
<1> QED
    BY <1>1, <1>4, <1>5, <1>6 DEF w

(* The user a patch leaves. *)
LEMMA PatchedKeeps ==
    ASSUME Base, NEW j \in Task, Patch(j)
    PROVE  LET a == job[j].at IN
           /\ a \in Account /\ Live(a)
           /\ user'[a] = Patched(job[j], user[a])
           /\ user'[a].status = user[a].status /\ user'[a].born = user[a].born
           /\ user'[a].spec = user[a].spec /\ user'[a].bare = user[a].bare
           /\ \A b \in Account : b # a => user'[b] = user[b]
<1> DEFINE a == job[j].at
<1>1. user' = [user EXCEPT ![a] = Patched(job[j], user[a])] /\ a \in Account /\ Live(a)
    BY PatchBase DEF Patch
<1>2. user \in [Account -> User] /\ user[a] \in User
    BY <1>1 DEF Base, TypeOK
<1>3. user'[a] = Patched(job[j], user[a]) /\ \A b \in Account : b # a => user'[b] = user[b]
    BY <1>1, <1>2
<1>4. /\ Patched(job[j], user[a]).status = user[a].status /\ Patched(job[j], user[a]).born = user[a].born
      /\ Patched(job[j], user[a]).spec = user[a].spec /\ Patched(job[j], user[a]).bare = user[a].bare
    BY <1>2 DEF Patched, User
<1> QED
    BY <1>1, <1>3, <1>4

(* Who else changes a user. *)
LEMMA UserSame ==
    ASSUME Base, [Next]_vars
    PROVE  \/ user' = user
           \/ \E j \in Slot : Create(j)
           \/ \E j \in Task : Patch(j) \/ Write(j)
           \/ \E a \in Account : Vouch(a) \/ Delete(a)
<1>1. ASSUME NEW j \in Slot, SignIn(j) \/ Invite(j) PROVE user' = user
    BY <1>1 DEF SignIn, Invite, Start
<1>2. ASSUME NEW j \in Slot, Resolve(j) \/ Deliver(j) PROVE user' = user
    BY <1>2 DEF Resolve, Deliver
<1>3. ASSUME NEW j \in Task, Look(j) \/ Find(j) \/ Read(j) \/ Refused(j) \/ Vanished(j) \/ Fail(j)
      PROVE  user' = user
    BY <1>3 DEF Look, Find, Read, Refused, Vanished, Fail
<1>4. CASE Mailer \/ Restart \/ UNCHANGED vars
    BY <1>4 DEF Mailer, Restart, vars
<1> QED
    BY <1>1, <1>2, <1>3, <1>4 DEF Next, Step

LEMMA ProofStep ==
    ASSUME Base, FreshInv, [Next]_vars, NEW a \in Account, Live(a), user'[a].born = user[a].born
    PROVE  user[a].status.proven \subseteq user'[a].status.proven
<1>1. user \in [Account -> User] /\ user[a] \in User
    BY DEF Base, TypeOK
<1>2. CASE user' = user
    BY <1>2
<1>3. ASSUME NEW j \in Slot, Create(j) PROVE user'[a] = user[a]
    BY <1>1, <1>3, CreateBase DEF Made, Live
<1>4. ASSUME NEW j \in Task, Patch(j) PROVE user'[a].status = user[a].status
    BY <1>4, PatchedKeeps
<1>5. ASSUME NEW j \in Task, Write(j) PROVE user[a].status.proven \subseteq user'[a].status.proven
    <2>1. user[a].status.proven \subseteq Intended(job[j], user[a]).proven
        BY DEF Intended
    <2> QED
        BY <1>5, <2>1, WrittenUser
<1>6. ASSUME NEW b \in Account, Vouch(b) PROVE user'[a].status = user[a].status
    BY <1>1, <1>6 DEF Vouch, User
<1>7. ASSUME NEW b \in Account, Delete(b) PROVE user'[a] = user[a]
    <2>1. b # a
        BY <1>1, <1>7 DEF Delete, Absent, Live
    <2> QED
        BY <1>1, <1>7, <2>1 DEF Delete
<1> QED
    BY <1>2, <1>3, <1>4, <1>5, <1>6, <1>7, UserSame

LEMMA FreshInit == Init => FreshInv
<1>1. Idle.step = "idle"
    BY DEF Idle
<1> QED
    BY <1>1 DEF Init, FreshInv, Fresh, Current

(* A verification once written stays: every status write replaces the whole *)
(* status, and none of them takes a verification out that it did not see.   *)
THEOREM VerificationsStay == Spec => ProofKept
<1>1. Init => Base /\ FreshInv
    BY BaseInit, FreshInit
<1>2. Base /\ FreshInv /\ [Next]_vars => (Base /\ FreshInv)'
    BY BaseStep, FreshStep
<1>3. Base /\ FreshInv /\ [Next]_vars =>
         [\A a \in Account :
             Live(a) /\ user'[a].born = user[a].born
                 => user[a].status.proven \subseteq user'[a].status.proven]_vars
    BY ProofStep
<1> QED
    BY <1>1, <1>2, <1>3, PTL DEF Spec, ProofKept

-----------------------------------------------------------------------------
(***************************************************************************)
(* A status that is behind the spec has somebody to look at it.            *)
(***************************************************************************)

LEMMA ShowsKept ==
    ASSUME NEW a \in Account, Shows(a), user'[a] = user[a], a \in news => a \in news',
           \A i \in Task : Watching(i, a) => Watching(i, a)'
    PROVE  Shows(a)'
    BY DEF Shows, Covered, Live

LEMMA ShowsCurrent ==
    ASSUME NEW a \in Account, user'[a].status.emails = Claimed(user'[a])
    PROVE  Shows(a)'
<1>1. Claimed(user[a])' = Claimed(user'[a])
    BY DEF Claimed
<1> QED
    BY <1>1 DEF Shows

LEMMA ShowsWatched ==
    ASSUME NEW a \in Account, NEW i \in Task, job'[i].at = a, job'[i].step = "read"
    PROVE  Shows(a)'
    BY DEF Shows, Covered, Watching

LEMMA WatchingSame ==
    ASSUME NEW i, NEW a, job'[i] = job[i], Watching(i, a)
    PROVE  Watching(i, a)'
    BY DEF Watching, Current

(* The others still watch when the handler j ends an edit. *)
LEMMA OthersWatch ==
    ASSUME NEW j \in Task, Over(j, job) \/ Broken(j), NEW i \in Task, i # j,
           NEW a, Watching(i, a)
    PROVE  Watching(i, a)'
<1>1. job'[i] = job[i] \/ (i = "mailer" /\ Over(j, job))
    BY DEF Over, Broken
<1>2. CASE i = "mailer" /\ Over(j, job)
    <2>1. job[i].step # "idle"
        BY DEF Watching, Current
    <2>2. job'[i] = job[i]
        BY <1>2, <2>1 DEF Over, WatchOver, UniqueOver, AskOver
    <2> QED
        BY <2>2, WatchingSame
<1> QED
    BY <1>1, <1>2, WatchingSame

(* A handler moves alone, from where it watched nobody, and writes no user. *)
LEMMA CoverAlone ==
    ASSUME CoverInv, NEW j \in Task, job[j].step \notin {"read", "write"},
           user' = user, news \cap Account \subseteq news', failed' = failed,
           \A i \in Task : i # j => job'[i] = job[i]
    PROVE  CoverInv'
<1> SUFFICES ASSUME ~failed, NEW a \in Account PROVE Shows(a)'
    BY DEF CoverInv
<1>1. \A i \in Task : Watching(i, a) => Watching(i, a)'
    <2> SUFFICES ASSUME NEW i \in Task, Watching(i, a) PROVE Watching(i, a)'
        OBVIOUS
    <2>1. i # j
        BY DEF Watching, Current
    <2> QED
        BY <2>1, WatchingSame
<1> QED
    BY <1>1, ShowsKept DEF CoverInv

(* An edit ends where it has nothing to do. *)
LEMMA EndCover ==
    ASSUME CoverInv, NEW j \in Task, Over(j, job) \/ Broken(j),
           user' = user, news' = news, failed' = failed, job[j].at \in Account,
           \/ ~Live(job[j].at) \/ ~Watching(j, job[j].at)
           \/ user[job[j].at].status.emails = Claimed(user[job[j].at])
    PROVE  CoverInv'
<1> SUFFICES ASSUME ~failed, NEW a \in Account PROVE Shows(a)'
    BY DEF CoverInv
<1>1. CASE Live(a) /\ ~(a = job[j].at /\ user[a].status.emails = Claimed(user[a]))
    <2>1. \A i \in Task : Watching(i, a) => Watching(i, a)'
        <3> SUFFICES ASSUME NEW i \in Task, Watching(i, a) PROVE Watching(i, a)'
            OBVIOUS
        <3>1. i # j
            BY <1>1 DEF Watching
        <3> QED
            BY <3>1, OthersWatch
    <2> QED
        BY <2>1, ShowsKept DEF CoverInv
<1>2. CASE ~Live(a)
    BY <1>2 DEF Shows, Live
<1>3. CASE user[a].status.emails = Claimed(user[a])
    BY <1>3, ShowsCurrent
<1> QED
    BY <1>1, <1>2, <1>3

LEMMA CoverStep ==
    ASSUME Base, FreshInv, CoverInv, [Next]_vars
    PROVE  CoverInv'
<1>0. Slot \subseteq Task
    BY DEF Task
<1>1. ASSUME NEW j \in Slot, SignIn(j) \/ Invite(j) PROVE CoverInv'
    <2>1. PICK kind \in Asking, p \in Person, e \in Person, sure \in BOOLEAN :
             Start(j, kind, p, e, sure) /\ word' \in [Person -> Word]
        BY <1>1, RequestStart
    <2>2. \A i \in Task : i # j => job'[i] = job[i]
        BY <2>1, StartBase
    <2>3. job[j].step = "idle" /\ user' = user /\ news' = news /\ failed' = failed
        BY <2>1 DEF Start, Busy
    <2> QED
        BY <1>0, <2>2, <2>3, CoverAlone
<1>2. ASSUME NEW j \in Slot, Resolve(j) PROVE CoverInv'
    <2>1. \A i \in Task : i # j => job'[i] = job[i]
        BY <1>2, ResolveBase
    <2>2. job[j].step = "resolve" /\ user' = user /\ news' = news /\ failed' = failed
        BY <1>2 DEF Resolve
    <2> QED
        BY <1>0, <2>1, <2>2, CoverAlone
<1>3. ASSUME NEW j \in Slot, Create(j) PROVE CoverInv'
    <2>1. /\ \A i \in Task : i # j => job'[i] = job[i]
          /\ (\E a \in Account : Made(j, a)) \/ (job'[j] = Idle /\ UNCHANGED <<user, news, holder>>)
        BY <1>3, CreateBase
    <2>2. job[j].step = "create" /\ failed' = failed
        BY <1>3 DEF Create
    <2>3. CASE UNCHANGED <<user, news, holder>>
        BY <1>0, <2>1, <2>2, <2>3, CoverAlone
    <2>4. ASSUME NEW b \in Account, Made(j, b) PROVE CoverInv'
        <3> SUFFICES ASSUME ~failed, NEW a \in Account PROVE Shows(a)'
            BY <2>2 DEF CoverInv
        <3>1. CASE a = b
            BY <2>4, <3>1 DEF Made, Shows, Covered
        <3>2. CASE a # b
            <4>1. user'[a] = user[a] /\ (a \in news => a \in news')
                BY <2>4, <3>2 DEF Made, Base, TypeOK
            <4>2. \A i \in Task : Watching(i, a) => Watching(i, a)'
                <5> SUFFICES ASSUME NEW i \in Task, Watching(i, a) PROVE Watching(i, a)'
                    OBVIOUS
                <5>1. i # j
                    BY <2>2 DEF Watching, Current
                <5> QED
                    BY <2>1, <5>1, WatchingSame
            <4> QED
                BY <4>1, <4>2, ShowsKept DEF CoverInv
        <3> QED
            BY <3>1, <3>2
    <2> QED
        BY <2>1, <2>3, <2>4
<1>4. ASSUME NEW j \in Slot, Deliver(j) PROVE CoverInv'
    <2> SUFFICES ASSUME ~failed, NEW a \in Account PROVE Shows(a)'
        BY <1>4 DEF CoverInv, Deliver
    <2>1. PICK b \in news :
             /\ news' = news \ {b}
             /\ \/ /\ b \in Account /\ job'[j].at = b /\ job'[j].step = "read"
                   /\ \A i \in Task : i # j => job'[i] = job[i]
                \/ /\ b \notin Account
                   /\ \A i \in Slot : job'[i] = job[i]
                   /\ job'["mailer"] = IF job["mailer"].step = "idle" THEN Listing ELSE job["mailer"]
        BY <1>4, DeliverBase
    <2>2. job[j].step = "idle" /\ user' = user
        BY <1>4 DEF Deliver, Busy
    <2>3. CASE a = b
        BY <1>0, <2>1, <2>3, ShowsWatched
    <2>4. CASE a # b
        <3>1. \A i \in Task : Watching(i, a) => Watching(i, a)'
            <4> SUFFICES ASSUME NEW i \in Task, Watching(i, a) PROVE Watching(i, a)'
                OBVIOUS
            <4>1. job[i].step # "idle"
                BY DEF Watching, Current
            <4>2. job'[i] = job[i]
                BY <2>1, <2>2, <4>1, MailerTask
            <4> QED
                BY <4>2, WatchingSame
        <3> QED
            BY <2>1, <2>2, <2>4, <3>1, ShowsKept DEF CoverInv
    <2> QED
        BY <2>3, <2>4
<1>5. ASSUME NEW j \in Task, Look(j) PROVE CoverInv'
    BY <1>5, LookBase, CoverAlone DEF Look
<1>6. ASSUME NEW j \in Task, Find(j) PROVE CoverInv'
    BY <1>6, FindBase, CoverAlone DEF Find
<1>7. ASSUME NEW j \in Task, Patch(j) PROVE CoverInv'
    <2> SUFFICES ASSUME ~failed, NEW a \in Account PROVE Shows(a)'
        BY <1>7 DEF CoverInv, Patch
    <2>1. /\ job'[j] = AfterPatch(job[j]) /\ Outdated(j, job[j].at) /\ job[j] \in Job
        BY <1>7, PatchBase, JobFacts
    <2>2. job'[j].step = "read" /\ job'[j].at = job[j].at
        BY <2>1 DEF AfterPatch, Job
    <2>3. job[j].step = "patch" /\ news' = news
        BY <1>7 DEF Patch
    <2>4. CASE a = job[j].at
        BY <2>2, <2>4, ShowsWatched
    <2>5. CASE a # job[j].at
        <3>1. user'[a] = user[a]
            BY <1>7, <2>5, PatchedKeeps
        <3>2. \A i \in Task : Watching(i, a) => Watching(i, a)'
            <4> SUFFICES ASSUME NEW i \in Task, Watching(i, a) PROVE Watching(i, a)'
                OBVIOUS
            <4>1. i # j /\ job[i].at # job[j].at
                BY <2>3, <2>5 DEF Watching, Current
            <4> QED
                BY <2>1, <4>1, WatchingSame DEF Outdated
        <3> QED
            BY <2>3, <3>1, <3>2, ShowsKept DEF CoverInv
    <2> QED
        BY <2>4, <2>5
<1>8. ASSUME NEW j \in Task, Read(j) PROVE CoverInv'
    <2>1. user' = user /\ news' = news /\ failed' = failed
        BY <1>8 DEF Read
    <2>2. job[j].at \in Account
        BY <1>8, JobFacts DEF Read
    <2>3. CASE /\ Live(job[j].at) /\ Intended(job[j], user[job[j].at]) = user[job[j].at].status
               /\ Over(j, job)
        <3>1. user[job[j].at].status.emails = Claimed(user[job[j].at])
            BY <2>3 DEF Intended
        <3> QED
            BY <2>1, <2>2, <2>3, <3>1, EndCover
    <2>4. CASE /\ job'[j] = [job[j] EXCEPT !.step = "write", !.fresh = TRUE,
                                           !.want = Intended(job[j], user[job[j].at])]
               /\ \A i \in Task : i # j => job'[i] = job[i]
        <3> DEFINE w == Intended(job[j], user[job[j].at])
        <3> HIDE DEF w
        <3>1. job'[j] = [job[j] EXCEPT !.step = "write", !.fresh = TRUE, !.want = w] /\ job[j] \in Job
            BY <2>4, JobFacts DEF w
        <3>2. job'[j].at = job[j].at /\ job'[j].step = "write" /\ job'[j].fresh
            BY <3>1 DEF Job
        <3> SUFFICES ASSUME ~failed, NEW a \in Account PROVE Shows(a)'
            BY <2>1 DEF CoverInv
        <3>3. \A i \in Task : Watching(i, a) => Watching(i, a)'
            <4> SUFFICES ASSUME NEW i \in Task, Watching(i, a) PROVE Watching(i, a)'
                OBVIOUS
            <4>1. CASE i = j
                BY <3>2, <4>1 DEF Watching, Current
            <4>2. CASE i # j
                BY <2>4, <4>2, WatchingSame
            <4> QED
                BY <4>1, <4>2
        <3> QED
            BY <2>1, <3>3, ShowsKept DEF CoverInv
    <2>5. CASE ~Live(job[j].at) /\ (Over(j, job) \/ Broken(j))
        BY <2>1, <2>2, <2>5, EndCover
    <2> QED
        BY <1>8, <2>3, <2>4, <2>5, ReadBase
<1>9. ASSUME NEW j \in Task, Write(j) PROVE CoverInv'
    <2> SUFFICES ASSUME ~failed, NEW a \in Account PROVE Shows(a)'
        BY <1>9 DEF CoverInv, Write
    <2> DEFINE jobs == Outdate(job, job[j].at)
    <2>1. /\ Over(j, jobs) /\ news' = news
          /\ \A i \in Task : job[i].at # job[j].at => jobs[i] = job[i]
        BY <1>9, WriteBase DEF Write
    <2> HIDE DEF jobs
    <2>2. CASE a = job[j].at
        <3>1. /\ user'[a].status = Intended(job[j], user[a])
              /\ Claimed(user'[a]) = Claimed(user[a])
            BY <1>9, <2>2, WrittenUser
        <3>2. Intended(job[j], user[a]).emails = Claimed(user[a])
            BY DEF Intended
        <3>3. user'[a].status.emails = Claimed(user'[a])
            BY <3>1, <3>2
        <3> QED
            BY <3>3, ShowsCurrent
    <2>3. CASE a # job[j].at
        <3>1. user'[a] = user[a]
            BY <1>9, <2>3, WrittenUser
        <3>2. \A i \in Task : Watching(i, a) => Watching(i, a)'
            <4> SUFFICES ASSUME NEW i \in Task, Watching(i, a) PROVE Watching(i, a)'
                OBVIOUS
            <4>1. job[i].at # job[j].at /\ i # j /\ job[i].step # "idle"
                BY <2>3 DEF Watching, Current
            <4>2. jobs[i] = job[i]
                BY <2>1, <4>1
            <4>3. job'[i] = jobs[i]
                BY <2>1, <4>1, <4>2 DEF Over, WatchOver, UniqueOver, AskOver
            <4> QED
                BY <4>2, <4>3, WatchingSame
        <3> QED
            BY <2>1, <3>1, <3>2, ShowsKept DEF CoverInv
    <2> QED
        BY <2>2, <2>3
<1>10. ASSUME NEW j \in Task, Refused(j) PROVE CoverInv'
    <2>1. user' = user /\ news' = news /\ failed' = failed
        BY <1>10 DEF Refused
    <2>2. job[j].at \in Account
        BY <1>10, JobFacts DEF Refused
    <2>3. ~Live(job[j].at) \/ ~Watching(j, job[j].at)
        BY <1>10 DEF Refused, Accepted, Watching, Current
    <2>4. CASE Over(j, job) \/ Broken(j)
        BY <2>1, <2>2, <2>3, <2>4, EndCover
    <2>5. CASE /\ job'[j] = [job[j] EXCEPT !.step = "read", !.try = @ + 1, !.want = Blank]
               /\ \A i \in Task : i # j => job'[i] = job[i]
        <3>1. job[j] \in Job
            BY JobFacts
        <3>2. job'[j].at = job[j].at /\ job'[j].step = "read"
            BY <2>5, <3>1 DEF Job
        <3> SUFFICES ASSUME ~failed, NEW a \in Account PROVE Shows(a)'
            BY <2>1 DEF CoverInv
        <3>3. \A i \in Task : Watching(i, a) => Watching(i, a)'
            <4> SUFFICES ASSUME NEW i \in Task, Watching(i, a) PROVE Watching(i, a)'
                OBVIOUS
            <4>1. CASE i = j
                BY <3>2, <4>1 DEF Watching, Current
            <4>2. CASE i # j
                BY <2>5, <4>2, WatchingSame
            <4> QED
                BY <4>1, <4>2
        <3> QED
            BY <2>1, <3>3, ShowsKept DEF CoverInv
    <2> QED
        BY <1>10, <2>4, <2>5, RefusedBase
<1>11. ASSUME NEW j \in Task, Vanished(j) PROVE CoverInv'
    BY <1>11, VanishedBase, CoverAlone DEF Vanished
<1>12. ASSUME NEW j \in Task, Fail(j) PROVE CoverInv'
    BY <1>12, FailBase DEF CoverInv
<1>13. CASE Mailer
    BY <1>13, MailerBase, MailerTask, CoverAlone DEF Mailer
<1>14. ASSUME NEW b \in Account, Vouch(b) \/ Delete(b) PROVE CoverInv'
    <2> SUFFICES ASSUME ~failed, NEW a \in Account PROVE Shows(a)'
        BY <1>14 DEF CoverInv, Vouch, Delete
    <2>1. CASE a = b /\ Vouch(b)
        BY <2>1 DEF Vouch, Shows, Covered
    <2>2. CASE a = b /\ Delete(b)
        BY <2>2 DEF Delete, Shows, Live, Absent, Base, TypeOK
    <2>3. CASE a # b
        <3>1. user'[a] = user[a] /\ (a \in news => a \in news')
            BY <1>14, <2>3 DEF Vouch, Delete, Base, TypeOK
        <3>2. \A i \in Task : Watching(i, a) => Watching(i, a)'
            <4> SUFFICES ASSUME NEW i \in Task, Watching(i, a) PROVE Watching(i, a)'
                OBVIOUS
            <4>1. job[i].at # b
                BY <2>3 DEF Watching
            <4>2. job'[i] = job[i]
                BY <1>14, <4>1, VouchBase, DeleteBase
            <4> QED
                BY <4>2, WatchingSame
        <3> QED
            BY <3>1, <3>2, ShowsKept DEF CoverInv
    <2> QED
        BY <1>14, <2>1, <2>2, <2>3
<1>15. CASE Restart
    BY <1>15 DEF Restart, CoverInv, Shows, Covered, Live
<1>16. CASE UNCHANGED vars
    <2>1. user' = user /\ news' = news /\ failed' = failed /\ \A i \in Task : job'[i] = job[i]
        BY <1>16 DEF vars
    <2>2. \A a \in Account, i \in Task : Watching(i, a) => Watching(i, a)'
        BY <2>1, WatchingSame
    <2> QED
        BY <2>1, <2>2, ShowsKept DEF CoverInv
<1> QED
    BY <1>1, <1>2, <1>3, <1>4, <1>5, <1>6, <1>7, <1>8, <1>9, <1>10, <1>11, <1>12, <1>13, <1>14,
       <1>15, <1>16 DEF Next, Step

(* Once nothing is in flight the status shows what the spec says: a write   *)
(* that changes the spec leaves a watch event, or a handler that reads, and *)
(* a copy that has been outdated is refused and read again.                 *)
THEOREM StatusFollows == Spec => []StatusCurrent
<1>1. Init => Base /\ FreshInv /\ CoverInv
    <2>1. Init => CoverInv
        BY DEF Init, CoverInv, Shows, Live, Absent
    <2> QED
        BY <2>1, BaseInit, FreshInit
<1>2. Base /\ FreshInv /\ CoverInv /\ [Next]_vars => (Base /\ FreshInv /\ CoverInv)'
    BY BaseStep, FreshStep, CoverStep
<1>3. CoverInv => StatusCurrent
    BY DEF CoverInv, Shows, Covered, Watching, Current, StatusCurrent, Quiet, Busy
<1> QED
    BY <1>1, <1>2, <1>3, PTL DEF Spec

-----------------------------------------------------------------------------
(***************************************************************************)
(* Exactly the users that claim an address of an older one are marked.     *)
(***************************************************************************)

(* A mark is a matter of the births and of the addresses claimed. *)
Unclaimed ==
    \A b \in Account : user'[b].born = user[b].born /\ Claimed(user'[b]) = Claimed(user[b])

LEMMA FlagSame ==
    ASSUME Unclaimed
    PROVE  \A a \in Account : Live(a)' = Live(a) /\ Flag(a)' = Flag(a)
<1>1. \A a \in Account : Live(a)' = Live(a)
    BY DEF Unclaimed, Live
<1>2. \A e : Claimants(e)' = Claimants(e)
    BY <1>1 DEF Unclaimed, Claimants
<1>3. \A e : Claimants(e) \subseteq Account
    BY DEF Claimants
<1>4. \A e : Owners(e)' = Owners(e)
    BY <1>2, <1>3 DEF Unclaimed, Owners
<1>5. \A a \in Account : Eligible(a)' = Eligible(a)
    BY <1>4 DEF Unclaimed, Eligible
<1> QED
    BY <1>1, <1>5 DEF Flag

LEMMA FlagForm == \A a : Flag(a) \in {"True", "False"}
    BY DEF Flag

(* What a list that follows will see does not matter yet. *)
LEMMA FlagPending ==
    ASSUME Pending' \/ missed' \/ unseen'
    PROVE  FlagInv'
    BY DEF FlagInv

(* No list was pending, none is, and the marks are as they were. *)
LEMMA FlagKept ==
    ASSUME FlagInv, Unclaimed,
           Pending => Pending' \/ missed' \/ unseen', missed => missed', unseen => unseen',
           \A b \in Account : Live(b) /\ Judged(b) =>
              \/ verdict'[b] = verdict[b] /\ user'[b].status.unique = user[b].status.unique
              \/ verdict'[b] = "none" /\ user'[b].status.unique = Flag(b)
    PROVE  FlagInv'
<1> SUFFICES ASSUME ~missed', ~unseen', ~Pending', NEW a \in Account, Live(a)'
             PROVE  Judged(a)'
    BY DEF FlagInv
<1>1. Live(a) /\ Flag(a)' = Flag(a)
    BY FlagSame
<1>2. Judged(a)
    BY <1>1 DEF FlagInv
<1>3. \/ verdict'[a] = verdict[a] /\ user'[a].status.unique = user[a].status.unique
      \/ verdict'[a] = "none" /\ user'[a].status.unique = Flag(a)
    BY <1>1, <1>2
<1> QED
    BY <1>1, <1>2, <1>3 DEF Judged

(* A list is still pending when the slots that reconcile a watch event and  *)
(* the e-mail reconcile are where they were.                                *)
LEMMA PendingKept ==
    ASSUME news' = news, again' = again,
           job'["mailer"].step = "list" \/ job["mailer"].step # "list",
           Busy("mailer") => job'["mailer"].step # "idle",
           \A i \in Slot : Busy(i) /\ job[i].kind = "watch" =>
              job'[i].step # "idle" /\ job'[i].kind = "watch"
    PROVE  Pending => Pending'
    BY DEF Pending, Busy

(* A handler that reconciles nothing of the marks moves by itself. *)
LEMMA FlagAlone ==
    ASSUME FlagInv, NEW j \in Slot,
           Busy(j) /\ job[j].kind = "watch" => job'[j].step # "idle" /\ job'[j].kind = "watch",
           \A i \in Task : i # j => job'[i] = job[i],
           UNCHANGED <<user, news, again, verdict, missed, unseen>>
    PROVE  FlagInv'
<1>1. job'["mailer"] = job["mailer"]
    BY MailerTask
<1>4. j # "mailer" /\ Slot \subseteq Task
    BY MailerTask
<1>5. \A i \in Slot : Busy(i) /\ job[i].kind = "watch" =>
         job'[i].step # "idle" /\ job'[i].kind = "watch"
    BY <1>4 DEF Busy
<1>2. Pending => Pending'
    BY <1>1, <1>5, PendingKept DEF Busy
<1>3. Unclaimed
    BY DEF Unclaimed
<1> QED
    BY <1>2, <1>3, FlagKept

(* The e-mail reconcile goes on with a user it marks. *)
LEMMA MarkNext ==
    ASSUME NEW a \in Account
    PROVE  At(Listing, a, <<"condition">>).step = "read" /\ At(Listing, a, <<"condition">>).at = a
<1>1. <<"condition">> \in Plans(Listing.kind) /\ Listing.kind \notin Asking
    BY DEF Plans, EditOf, Asking, Listing, Idle
<1>2. Head(<<"condition">>) = "condition"
    OBVIOUS
<1>3. Opens("condition") = "read"
    BY DEF Opens
<1> QED
    BY <1>1, <1>2, <1>3, IdleShaped, AtShaped

(* The end of an edit: of a watch event a list follows; the e-mail          *)
(* reconcile has written the mark it holds.                                 *)
LEMMA EndFlag ==
    ASSUME Base, VerdictInv, FlagInv, NEW j \in Task, NEW jobs, Over(j, jobs), job[j].step \in {"read", "write"},
           \A i \in Task : jobs[i].step = job[i].step /\ jobs[i].kind = job[i].kind,
           news' = news, missed' = missed, unseen' = unseen, Unclaimed,
           \A b \in Account : Live(b) =>
              user'[b].status.unique = IF j = "mailer" /\ b = job[j].at THEN verdict[b]
                                       ELSE user[b].status.unique
    PROVE  FlagInv'
<1>1. CASE WatchOver(j, jobs)
    <2>1. CASE job["mailer"].step = "idle"
        <3>1. job'["mailer"] = Listing
            BY <1>1, <2>1, MailerTask DEF WatchOver
        <3>2. Listing.step = "list"
            BY DEF Listing
        <3> QED
            BY <3>1, <3>2, FlagPending DEF Pending
    <2>2. CASE job["mailer"].step # "idle"
        <3>1. job'["mailer"].step = job["mailer"].step
            BY <1>1, <2>2, MailerTask DEF WatchOver
        <3> QED
            BY <1>1, <2>2, <3>1, FlagPending DEF WatchOver, Busy, Pending
    <2> QED
        BY <2>1, <2>2
<1>2. CASE UniqueOver(j, jobs)
    <2>1. j = "mailer" /\ verdict' = [verdict EXCEPT ![job[j].at] = "none"] /\ verdict \in [Account -> Condition]
        BY <1>2 DEF UniqueOver, Base, TypeOK
    <2>2. \A i \in Slot : i # j /\ i \in Task /\ i # "mailer"
        BY <2>1, MailerTask
    <2>3. \A i \in Slot : job'[i].step = job[i].step /\ job'[i].kind = job[i].kind
        BY <2>2 DEF Over
    <2>4. again => (again' /\ job'["mailer"].step # "idle") \/ job'["mailer"].step = "list"
        <3>1. Listing.step = "list"
            BY DEF Listing
        <3>2. CASE job'["mailer"] = (IF again THEN Listing ELSE Idle)
            BY <3>1, <3>2
        <3>3. CASE again' = again /\ \E a \in Account : job'["mailer"] = At(Listing, a, <<"condition">>)
            <4>1. job'["mailer"].step = "read"
                BY <3>3, MarkNext
            <4> QED
                BY <3>3, <4>1
        <3> QED
            BY <1>2, <2>1, <3>2, <3>3 DEF UniqueOver
    <2>5. Pending => Pending'
        BY <2>1, <2>3, <2>4 DEF Pending, Busy
    <2>6. ASSUME NEW b \in Account, Live(b), Judged(b)
          PROVE  \/ verdict'[b] = verdict[b] /\ user'[b].status.unique = user[b].status.unique
                 \/ verdict'[b] = "none" /\ user'[b].status.unique = Flag(b)
        <3>1. CASE b # job[j].at
            BY <2>1, <2>6, <3>1
        <3>2. CASE b = job[j].at
            <4>1. verdict'[b] = "none" /\ user'[b].status.unique = verdict[b]
                BY <2>1, <2>6, <3>2
            <4>2. verdict[b] # "none"
                BY <2>1, <3>2 DEF VerdictInv
            <4> QED
                BY <2>6, <4>1, <4>2 DEF Judged
        <3> QED
            BY <3>1, <3>2
    <2> QED
        BY <2>5, <2>6, FlagKept
<1>3. CASE AskOver(j, jobs)
    <2>1. j # "mailer" /\ job[j].kind # "watch" /\ again' = again /\ verdict' = verdict
          /\ job'["mailer"] = jobs["mailer"]
        BY <1>3 DEF AskOver, Asking
    <2>2. ASSUME NEW i \in Slot, Busy(i), job[i].kind = "watch"
          PROVE  job'[i].step # "idle" /\ job'[i].kind = "watch"
        BY <2>1, <2>2, MailerTask DEF Over, Busy
    <2>3. Pending => Pending'
        BY <2>1, <2>2, MailerTask, PendingKept DEF Busy
    <2> QED
        BY <2>1, <2>3, FlagKept
<1> QED
    BY <1>1, <1>2, <1>3 DEF Over

(* The e-mail reconcile holds a mark for the user it is at.                *)

Marking == job["mailer"].step \in {"read", "write"}

LEMMA VerdictKept ==
    ASSUME VerdictInv, verdict' = verdict, Marking' <=> Marking,
           Marking => job'["mailer"].at = job["mailer"].at
    PROVE  VerdictInv'
    BY DEF VerdictInv, Marking

LEMMA VerdictNext ==
    ASSUME \/ /\ \A a \in Account : verdict'[a] = "none"
              /\ job'["mailer"] \in {Idle, Listing}
           \/ \E a \in Account : verdict'[a] # "none" /\ job'["mailer"] = At(Listing, a, <<"condition">>)
    PROVE  VerdictInv'
<1>1. Idle.step = "idle" /\ Listing.step = "list"
    BY DEF Idle, Listing
<1>2. CASE \E a \in Account : verdict'[a] # "none" /\ job'["mailer"] = At(Listing, a, <<"condition">>)
    BY <1>2, MarkNext DEF VerdictInv
<1> QED
    BY <1>1, <1>2 DEF VerdictInv

LEMMA EndVerdict ==
    ASSUME VerdictInv, NEW j \in Task, NEW jobs, Over(j, jobs) \/ Broken(j),
           \A i \in Task : jobs[i].step = job[i].step /\ jobs[i].at = job[i].at
    PROVE  VerdictInv'
<1>1. "mailer" \in Task
    BY MailerTask
<1>2. Idle.step = "idle" /\ Listing.step = "list"
    BY DEF Idle, Listing
<1>3. CASE Over(j, jobs) /\ WatchOver(j, jobs)
    <2>1. verdict' = verdict
        BY <1>3 DEF WatchOver
    <2>2. CASE job["mailer"].step = "idle"
        <3>1. job'["mailer"] = Listing
            BY <1>1, <1>3, <2>2 DEF WatchOver
        <3> QED
            BY <1>2, <2>1, <2>2, <3>1, VerdictKept DEF Marking
    <2>3. CASE job["mailer"].step # "idle"
        <3>1. job'["mailer"] = jobs["mailer"]
            BY <1>1, <1>3, <2>3 DEF WatchOver
        <3> QED
            BY <1>1, <2>1, <3>1, VerdictKept DEF Marking
    <2> QED
        BY <2>2, <2>3
<1>4. CASE Over(j, jobs) /\ UniqueOver(j, jobs)
    BY <1>4, VerdictNext DEF UniqueOver
<1>5. CASE Over(j, jobs) /\ AskOver(j, jobs)
    BY <1>1, <1>5, VerdictKept DEF AskOver, Marking
<1>6. CASE Broken(j)
    BY <1>1, <1>6, VerdictKept DEF Broken, Marking
<1> QED
    BY <1>3, <1>4, <1>5, <1>6 DEF Over

LEMMA VerdictAlone ==
    ASSUME VerdictInv, verdict' = verdict, job'["mailer"].step = job["mailer"].step,
           job'["mailer"].at = job["mailer"].at
    PROVE  VerdictInv'
    BY VerdictKept DEF Marking

(* The e-mail reconcile edits nothing but the condition. *)
LEMMA MailerEdit ==
    ASSUME Base, job["mailer"].step \in {"read", "write"}
    PROVE  Head(job["mailer"].todo) = "condition"
<1>1. job["mailer"].kind = "unique" /\ job["mailer"].todo \in Plans(job["mailer"].kind)
    BY JobFacts, MailerTask DEF Busy
<1>2. Plans("unique") = {<<"condition">>}
    BY DEF Plans, Asking, EditOf
<1> QED
    BY <1>1, <1>2

(* The record fields the marks depend on, when a copy is outdated. *)
LEMMA OutdatedFields ==
    ASSUME Base, NEW i \in Task, job'[i] \in {job[i], [job[i] EXCEPT !.fresh = FALSE]}
    PROVE  job'[i].step = job[i].step /\ job'[i].kind = job[i].kind /\ job'[i].at = job[i].at
    BY JobFacts DEF Job

LEMMA OutdateFields ==
    ASSUME Base, NEW a
    PROVE  \A i \in Task : /\ Outdate(job, a)[i].step = job[i].step
                           /\ Outdate(job, a)[i].kind = job[i].kind
                           /\ Outdate(job, a)[i].at = job[i].at
<1> SUFFICES ASSUME NEW i \in Task
             PROVE  /\ Outdate(job, a)[i].step = job[i].step
                    /\ Outdate(job, a)[i].kind = job[i].kind
                    /\ Outdate(job, a)[i].at = job[i].at
    OBVIOUS
<1>1. job[i] \in Job
    BY JobFacts
<1>2. Outdate(job, a)[i] \in {job[i], [job[i] EXCEPT !.fresh = FALSE]}
    BY DEF Outdate
<1> DEFINE k == job[i]
           o == Outdate(job, a)[i]
<1>3. k \in Job /\ o \in {k, [k EXCEPT !.fresh = FALSE]}
    BY <1>1, <1>2
<1> HIDE DEF k, o
<1>4. o.step = k.step /\ o.kind = k.kind /\ o.at = k.at
    BY <1>3 DEF Job
<1> QED
    BY <1>4 DEF k, o

(* What the marks need of the end of an edit that writes no user. *)
LEMMA EndMarks ==
    ASSUME Base, VerdictInv, FlagInv, NEW j \in Task, Over(j, job) \/ Broken(j),
           job[j].step \in {"read", "write"}, user' = user,
           UNCHANGED <<news, missed, unseen>>,
           Live(job[j].at) => user[job[j].at].status = Intended(job[j], user[job[j].at])
    PROVE  VerdictInv' /\ FlagInv'
<1>1. VerdictInv'
    BY EndVerdict
<1>2. CASE Over(j, job)
    <2>1. ASSUME NEW b \in Account, Live(b)
          PROVE  user'[b].status.unique = IF j = "mailer" /\ b = job[j].at THEN verdict[b]
                                          ELSE user[b].status.unique
        <3>1. CASE j = "mailer" /\ b = job[j].at
            <4>1. user[b].status = Intended(job[j], user[b]) /\ user'[b] = user[b]
                BY <2>1, <3>1
            <4>2. Head(job[j].todo) = "condition"
                BY <3>1, MailerEdit
            <4>3. Intended(job[j], user[b]).unique = verdict[b]
                BY <3>1, <4>2 DEF Intended
            <4> QED
                BY <3>1, <4>1, <4>3
        <3>2. CASE ~(j = "mailer" /\ b = job[j].at)
            BY <3>2
        <3> QED
            BY <3>1, <3>2
    <2>2. Unclaimed
        BY DEF Unclaimed
    <2> QED
        BY <1>1, <1>2, <2>1, <2>2, EndFlag
<1>3. CASE Broken(j)
    <2>1. j \in Slot /\ job[j].kind # "watch" /\ again' = again /\ verdict' = verdict
          /\ \A i \in Task : i # j => job'[i] = job[i]
        BY <1>3, MailerTask DEF Broken, Asking
    <2> QED
        BY <1>1, <2>1, FlagAlone
<1> QED
    BY <1>1, <1>2, <1>3

(* Only requests patch. *)
LEMMA PatchKind ==
    ASSUME Base, NEW j \in Task, job[j].step \in {"look", "find", "patch"}
    PROVE  j # "mailer" /\ job[j].kind \in Asking /\ job[j].kind # "watch"
<1> DEFINE k == job[j]
<1>1. /\ k.kind \in Kind /\ k.todo \in Plans(k.kind)
      /\ Head(k.todo) \in {"identity", "github", "approve"}
      /\ j = "mailer" => k.kind = "unique"
    BY JobFacts DEF Job, Busy, Shaped
<1>2. k.kind \notin Asking => Head(k.todo) \in {"created", "condition"}
    <2>1. k.kind \notin Asking => k.kind \in {"watch", "unique"} /\ k.todo = <<EditOf(k.kind)>>
        BY <1>1 DEF Plans, Kind, Asking
    <2>2. EditOf("watch") = "created" /\ EditOf("unique") = "condition"
        BY DEF EditOf
    <2> QED
        BY <2>1, <2>2
<1> QED
    BY <1>1, <1>2 DEF Asking

LEMMA OverStep ==
    ASSUME NEW j \in Task, NEW jobs, Over(j, jobs) \/ Broken(j)
    PROVE  job'[j].step # "write"
    BY DEF Over, Broken

(* A handler goes from its read to its write, or back. *)
LEMMA MarkMoves ==
    ASSUME Base, VerdictInv, FlagInv, NEW j \in Task,
           job[j].step \in {"read", "write"}, job'[j].step \in {"read", "write"},
           job'[j].at = job[j].at, job'[j].kind = job[j].kind,
           \A i \in Task : i # j => job'[i] = job[i],
           UNCHANGED <<user, news, again, verdict, missed, unseen>>
    PROVE  VerdictInv' /\ FlagInv'
<1>0. Slot = Task \ {"mailer"} /\ "mailer" \in Task
    BY MailerTask
<1>1. Marking' <=> Marking
    BY <1>0 DEF Marking
<1>2. job'["mailer"].at = job["mailer"].at
    BY <1>0
<1>3. VerdictInv'
    BY <1>1, <1>2, VerdictKept
<1>4. job'["mailer"].step = "list" \/ job["mailer"].step # "list"
    BY <1>0
<1>5. \A i \in Slot : Busy(i) /\ job[i].kind = "watch" =>
         job'[i].step # "idle" /\ job'[i].kind = "watch"
    BY <1>0 DEF Busy
<1>8. Busy("mailer") => job'["mailer"].step # "idle"
    BY <1>0 DEF Busy
<1>6. Pending => Pending'
    BY <1>4, <1>5, <1>8, PendingKept
<1>7. Unclaimed
    BY DEF Unclaimed
<1> QED
    BY <1>3, <1>6, <1>7, FlagKept

LEMMA MarkStep ==
    ASSUME Base, FreshInv, VerdictInv, FlagInv, [Next]_vars
    PROVE  VerdictInv' /\ FlagInv'
<1>0. Slot = Task \ {"mailer"} /\ "mailer" \in Task
    BY MailerTask
<1>1. ASSUME NEW j \in Slot, SignIn(j) \/ Invite(j) PROVE VerdictInv' /\ FlagInv'
    <2>1. PICK kind \in Asking, p \in Person, e \in Person, sure \in BOOLEAN :
             Start(j, kind, p, e, sure) /\ word' \in [Person -> Word]
        BY <1>1, RequestStart
    <2>2. \A i \in Task : i # j => job'[i] = job[i]
        BY <2>1, StartBase
    <2>3. UNCHANGED <<user, news, again, verdict, missed, unseen>> /\ ~Busy(j)
        BY <2>1 DEF Start
    <2> QED
        BY <1>0, <2>2, <2>3, FlagAlone, VerdictAlone
<1>2. ASSUME NEW j \in Slot, Resolve(j) PROVE VerdictInv' /\ FlagInv'
    <2>1. /\ \A i \in Task : i # j => job'[i] = job[i]
          /\ UNCHANGED <<user, news, again, verdict, missed, unseen>>
        BY <1>2, ResolveBase DEF Resolve
    <2>2. job[j].kind # "watch"
        BY <1>0, <1>2, ResolveKind DEF Resolve
    <2> QED
        BY <1>0, <2>1, <2>2, FlagAlone, VerdictAlone
<1>3. ASSUME NEW j \in Slot, Create(j) PROVE VerdictInv' /\ FlagInv'
    <2>1. /\ \A i \in Task : i # j => job'[i] = job[i]
          /\ UNCHANGED <<again, verdict, missed, unseen>> /\ job[j].kind # "watch"
        BY <1>3, CreateBase DEF Create, Asking
    <2>2. VerdictInv'
        BY <1>0, <2>1, VerdictAlone
    <2>3. CASE \E a \in Account : Made(j, a)
        BY <2>2, <2>3, FlagPending DEF Made, Pending
    <2>4. CASE UNCHANGED <<user, news, holder>>
        BY <1>0, <2>1, <2>2, <2>4, FlagAlone
    <2> QED
        BY <1>3, <2>3, <2>4, CreateBase
<1>4. ASSUME NEW j \in Slot, Deliver(j) PROVE VerdictInv' /\ FlagInv'
    <2>1. verdict' = verdict
        BY <1>4 DEF Deliver
    <2>2. Listing.step = "list"
        BY DEF Listing
    <2>3. CASE /\ job'[j].kind = "watch" /\ job'[j].step = "read"
               /\ \A i \in Task : i # j => job'[i] = job[i]
        <3>1. VerdictInv'
            BY <1>0, <2>1, <2>3, VerdictAlone
        <3> QED
            BY <2>3, <3>1, FlagPending DEF Pending, Busy
    <2>4. CASE /\ job'["mailer"] = IF job["mailer"].step = "idle" THEN Listing ELSE job["mailer"]
               /\ again' = (again \/ Busy("mailer"))
        <3>1. CASE job["mailer"].step = "idle"
            <4>1. job'["mailer"].step = "list"
                BY <2>2, <2>4, <3>1
            <4>2. VerdictInv'
                BY <2>1, <3>1, <4>1, VerdictKept DEF Marking
            <4> QED
                BY <4>1, <4>2, FlagPending DEF Pending
        <3>2. CASE job["mailer"].step # "idle"
            <4>1. VerdictInv'
                BY <2>1, <2>4, <3>2, VerdictAlone
            <4> QED
                BY <2>4, <3>2, <4>1, FlagPending DEF Pending, Busy
        <3> QED
            BY <3>1, <3>2
    <2> QED
        BY <1>4, <2>3, <2>4, DeliverBase
<1>5. ASSUME NEW j \in Task, Look(j) \/ Find(j) PROVE VerdictInv' /\ FlagInv'
    <2>1. /\ \A i \in Task : i # j => job'[i] = job[i]
          /\ UNCHANGED <<user, news, again, verdict, missed, unseen>>
        BY <1>5, LookBase, FindBase DEF Look, Find
    <2>2. j # "mailer" /\ job[j].kind # "watch"
        BY <1>5, PatchKind DEF Look, Find
    <2> QED
        BY <1>0, <2>1, <2>2, FlagAlone, VerdictAlone
<1>6. ASSUME NEW j \in Task, Patch(j) PROVE VerdictInv' /\ FlagInv'
    <2>1. j # "mailer" /\ job[j].kind # "watch"
        BY <1>6, PatchKind DEF Patch
    <2>2. \A i \in Task : i # j => /\ job'[i].step = job[i].step /\ job'[i].kind = job[i].kind
                                   /\ job'[i].at = job[i].at
        BY <1>6, PatchBase, OutdatedFields DEF Outdated
    <2>3. UNCHANGED <<news, again, verdict, missed>>
        BY <1>6 DEF Patch
    <2>4. VerdictInv'
        BY <1>0, <2>1, <2>2, <2>3, VerdictAlone
    <2>5. Pending => Pending'
        <3>1. \A i \in Slot : Busy(i) /\ job[i].kind = "watch" =>
                 job'[i].step # "idle" /\ job'[i].kind = "watch"
            BY <1>0, <2>1, <2>2 DEF Busy
        <3> QED
            BY <1>0, <2>1, <2>2, <2>3, <3>1, PendingKept DEF Busy
    <2>6. CASE unseen'
        BY <2>4, <2>6, FlagPending
    <2>7. CASE ~unseen'
        <3> DEFINE a == job[j].at
        <3>1. /\ unseen' = (unseen \/ Claimed(Patched(job[j], user[a])) # Claimed(user[a]))
              /\ a \in Account /\ user'[a] = Patched(job[j], user[a])
              /\ user'[a].status = user[a].status /\ user'[a].born = user[a].born
              /\ \A b \in Account : b # a => user'[b] = user[b]
            BY <1>6, PatchedKeeps DEF Patch
        <3>2. Claimed(user'[a]) = Claimed(user[a]) /\ ~unseen
            BY <2>7, <3>1
        <3>3. Unclaimed /\ \A b \in Account : user'[b].status = user[b].status
            BY <3>1, <3>2 DEF Unclaimed
        <3> QED
            BY <2>3, <2>4, <2>5, <3>2, <3>3, FlagKept
    <2> QED
        BY <2>6, <2>7
<1>7. ASSUME NEW j \in Task, Read(j) PROVE VerdictInv' /\ FlagInv'
    <2>1. UNCHANGED <<user, news, missed, unseen>> /\ job[j].step = "read"
        BY <1>7 DEF Read
    <2>2. CASE /\ job'[j] = [job[j] EXCEPT !.step = "write", !.fresh = TRUE,
                                           !.want = Intended(job[j], user[job[j].at])]
               /\ \A i \in Task : i # j => job'[i] = job[i]
               /\ UNCHANGED <<again, verdict, entered, clean>>
        <3> DEFINE w == Intended(job[j], user[job[j].at])
        <3> HIDE DEF w
        <3>1. job'[j] = [job[j] EXCEPT !.step = "write", !.fresh = TRUE, !.want = w] /\ job[j] \in Job
            BY <2>2, JobFacts DEF w
        <3>2. job'[j].at = job[j].at /\ job'[j].step = "write" /\ job'[j].kind = job[j].kind
            BY <3>1 DEF Job
        <3> QED
            BY <2>1, <2>2, <3>2, MarkMoves
    <2>3. CASE Over(j, job) \/ Broken(j)
        <3> DEFINE w == Intended(job[j], user[job[j].at])
        <3>1. job'[j].step # "write" /\ job[j] \in Job
            BY <2>3, OverStep, JobFacts
        <3>2. job'[j] # [job[j] EXCEPT !.step = "write", !.fresh = TRUE, !.want = w]
            <4> HIDE DEF w
            <4> QED
                BY <3>1 DEF Job
        <3>3. Live(job[j].at) => user[job[j].at].status = w
            BY <1>7, <3>2, ReadBase
        <3> QED
            BY <2>1, <2>3, <3>3, EndMarks
    <2> QED
        BY <1>7, <2>2, <2>3, ReadBase
<1>8. ASSUME NEW j \in Task, Write(j) PROVE VerdictInv' /\ FlagInv'
    <2> DEFINE jobs == Outdate(job, job[j].at)
               a == job[j].at
    <2>1. /\ Over(j, jobs) /\ job[j].step = "write"
          /\ UNCHANGED <<news, missed, unseen>>
        BY <1>8, WriteBase DEF Write
    <2>2. \A i \in Task : /\ jobs[i].step = job[i].step /\ jobs[i].kind = job[i].kind
                          /\ jobs[i].at = job[i].at
        BY OutdateFields
    <2>3. /\ a \in Account /\ user'[a].status = Intended(job[j], user[a])
          /\ user'[a].born = user[a].born
          /\ Claimed(user'[a]) = Claimed(user[a])
          /\ \A b \in Account : b # a => user'[b] = user[b]
        BY <1>8, WrittenUser
    <2>4. Unclaimed
        BY <2>3 DEF Unclaimed
    <2>5. Intended(job[j], user[a]).unique = IF j = "mailer" THEN verdict[a] ELSE user[a].status.unique
        <3>1. Head(job[j].todo) = "condition" <=> j = "mailer"
            BY <2>1, MailerEdit, ConditionMailer
        <3> QED
            BY <3>1 DEF Intended
    <2>6. \A b \in Account : user'[b].status.unique = IF j = "mailer" /\ b = job[j].at THEN verdict[b]
                                                      ELSE user[b].status.unique
        BY <2>3, <2>5
    <2> HIDE DEF jobs
    <2>7. VerdictInv'
        BY <2>1, <2>2, EndVerdict
    <2> QED
        BY <2>1, <2>2, <2>4, <2>6, <2>7, EndFlag
<1>9. ASSUME NEW j \in Task, Refused(j) PROVE VerdictInv' /\ FlagInv'
    <2>1. UNCHANGED <<user, news, unseen>> /\ job[j].step = "write"
        BY <1>9 DEF Refused
    <2>2. CASE /\ job'[j] = [job[j] EXCEPT !.step = "read", !.try = @ + 1, !.want = Blank]
               /\ \A i \in Task : i # j => job'[i] = job[i]
               /\ UNCHANGED <<again, verdict, entered, clean, missed>>
        <3>1. job[j] \in Job
            BY JobFacts
        <3>2. job'[j].at = job[j].at /\ job'[j].step = "read" /\ job'[j].kind = job[j].kind
            BY <2>2, <3>1 DEF Job
        <3> QED
            BY <2>1, <2>2, <3>2, MarkMoves
    <2>3. CASE (Over(j, job) \/ Broken(j)) /\ missed' = (missed \/ Live(job[j].at))
        <3>1. CASE Live(job[j].at)
            BY <2>3, <3>1, EndVerdict, FlagPending
        <3>2. CASE ~Live(job[j].at)
            <4>1. missed \in BOOLEAN
                BY DEF Base, TypeOK
            <4>2. missed' = missed
                BY <2>3, <3>2, <4>1
            <4> QED
                BY <2>1, <2>3, <3>2, <4>2, EndMarks
        <3> QED
            BY <3>1, <3>2
    <2> QED
        BY <1>9, <2>2, <2>3, RefusedBase
<1>10. ASSUME NEW j \in Task, Vanished(j) PROVE VerdictInv' /\ FlagInv'
    <2>1. /\ j \in Slot /\ job[j].kind # "watch"
          /\ \A i \in Task : i # j => job'[i] = job[i]
          /\ UNCHANGED <<user, news, again, verdict, missed, unseen>>
        BY <1>0, <1>10, VanishedBase DEF Vanished, Asking
    <2> QED
        BY <1>0, <2>1, FlagAlone, VerdictAlone
<1>11. ASSUME NEW j \in Task, Fail(j) PROVE VerdictInv' /\ FlagInv'
    <2>1. FlagInv'
        BY <1>11, FailBase, FlagPending
    <2>2. CASE Over(j, job) \/ Broken(j)
        BY <2>1, <2>2, EndVerdict
    <2>3. CASE /\ job'[j] \in {Idle, Listing} /\ verdict' = verdict
               /\ \A i \in Task : i # j => job'[i] = job[i]
               /\ job[j].step \notin {"read", "write"}
        <3>1. CASE j = "mailer"
            <4>1. Idle.step = "idle" /\ Listing.step = "list"
                BY DEF Idle, Listing
            <4> QED
                BY <2>1, <2>3, <3>1, <4>1, VerdictKept DEF Marking
        <3>2. CASE j # "mailer"
            BY <1>0, <2>1, <2>3, <3>2, VerdictAlone
        <3> QED
            BY <3>1, <3>2
    <2> QED
        BY <1>11, <2>2, <2>3, FailBase
<1>12. CASE Mailer
    <2>1. VerdictInv'
        BY <1>12, MailerBase, VerdictNext
    <2>2. user' = user /\ verdict' = [a \in Account |-> IF Live(a) /\ user[a].status.unique # Flag(a)
                                                       THEN Flag(a) ELSE "none"]
        BY <1>12 DEF Mailer
    <2>3. Unclaimed
        BY <2>2 DEF Unclaimed
    <2>4. ASSUME NEW a \in Account, Live(a)' PROVE Judged(a)'
        <3>1. Live(a) /\ Flag(a)' = Flag(a)
            BY <2>3, <2>4, FlagSame
        <3>2. verdict'[a] = IF user[a].status.unique # Flag(a) THEN Flag(a) ELSE "none"
            BY <2>2, <3>1
        <3> QED
            BY <2>2, <3>1, <3>2 DEF Judged
    <2> QED
        BY <2>1, <2>4 DEF FlagInv
<1>13. ASSUME NEW b \in Account, Vouch(b) \/ Delete(b) PROVE VerdictInv' /\ FlagInv'
    <2>1. news' # {} /\ verdict' = verdict
        BY <1>13 DEF Vouch, Delete
    <2>2. job'["mailer"] \in {job["mailer"], [job["mailer"] EXCEPT !.fresh = FALSE]}
        BY <1>0, <1>13, VouchBase, DeleteBase
    <2>3. VerdictInv'
        BY <1>0, <2>1, <2>2, OutdatedFields, VerdictAlone
    <2> QED
        BY <2>1, <2>3, FlagPending DEF Pending
<1>14. CASE Restart
    <2>1. /\ \A a \in Account : verdict'[a] = "none"
          /\ job'["mailer"] = Idle /\ user' = user /\ news' = {a \in Account : Live(a)}
        BY <1>0, <1>14 DEF Restart
    <2>2. FlagInv'
        BY <2>1 DEF FlagInv, Pending, Live
    <2> QED
        BY <2>1, <2>2, VerdictNext
<1>15. CASE UNCHANGED vars
    <2>1. UNCHANGED <<user, job, news, again, verdict, missed, unseen>>
        BY <1>15 DEF vars
    <2>2. VerdictInv' /\ Unclaimed /\ (Pending => Pending')
        BY <2>1 DEF VerdictInv, Unclaimed, Pending, Busy
    <2> QED
        BY <2>1, <2>2, FlagKept
<1> QED
    BY <1>1, <1>2, <1>3, <1>4, <1>5, <1>6, <1>7, <1>8, <1>9, <1>10, <1>11, <1>12, <1>13, <1>14,
       <1>15 DEF Next, Step

(* Once nothing is in flight exactly the users that claim an address of an  *)
(* older one are marked: whatever changes the claims of others leaves a     *)
(* list to come, and the reconcile that lists writes all it has found.      *)
THEOREM FlagsFollow == Spec => []FlagsRight
<1>1. Init => Base /\ FreshInv /\ VerdictInv /\ FlagInv
    <2>1. Idle.step = "idle" /\ "mailer" \in Task
        BY MailerTask DEF Idle
    <2>2. Init => VerdictInv
        BY <2>1 DEF Init, VerdictInv
    <2>3. Init => FlagInv
        BY DEF Init, FlagInv, Live, Absent
    <2> QED
        BY <2>2, <2>3, BaseInit, FreshInit
<1>2. Base /\ FreshInv /\ VerdictInv /\ FlagInv /\ [Next]_vars => (Base /\ FreshInv /\ VerdictInv /\ FlagInv)'
    BY BaseStep, FreshStep, MarkStep
<1>3. VerdictInv /\ FlagInv => FlagsRight
    <2> SUFFICES ASSUME VerdictInv, FlagInv, Quiet, ~missed, ~unseen,
                        NEW a \in Account, Live(a)
                 PROVE  user[a].status.unique = Flag(a)
        BY DEF FlagsRight
    <2>1. job["mailer"].step = "idle" /\ \A i \in Slot : ~Busy(i)
        BY MailerTask DEF Quiet, Busy
    <2>2. verdict[a] = "none" /\ ~Pending
        BY <2>1 DEF VerdictInv, Pending, Quiet, Busy
    <2>3. Judged(a)
        BY <2>2 DEF FlagInv
    <2> QED
        BY <2>2, <2>3, FlagForm DEF Judged
<1> QED
    BY <1>1, <1>2, <1>3, PTL DEF Spec

-----------------------------------------------------------------------------
(***************************************************************************)
(* Nobody is signed in to a user made for somebody else.                   *)
(***************************************************************************)

(* The job of i is the one it was, an outdated copy apart. *)
Same(i) ==
    /\ job'[i].step = job[i].step /\ job'[i].kind = job[i].kind
    /\ job'[i].who = job[i].who /\ job'[i].mail = job[i].mail
    /\ job'[i].sure = job[i].sure /\ job'[i].at = job[i].at
    /\ job'[i].todo = job[i].todo /\ job'[i].old = job[i].old
    /\ job'[i].put = job[i].put

LEMMA OutdatedSame ==
    ASSUME Base, NEW i \in Task, job'[i] \in {job[i], [job[i] EXCEPT !.fresh = FALSE]}
    PROVE  Same(i)
<1> DEFINE k == job[i]
           o == job'[i]
<1>1. k \in Job /\ o \in {k, [k EXCEPT !.fresh = FALSE]}
    BY JobFacts
<1> HIDE DEF k, o
<1>2. /\ o.step = k.step /\ o.kind = k.kind /\ o.who = k.who /\ o.mail = k.mail
      /\ o.sure = k.sure /\ o.at = k.at /\ o.todo = k.todo /\ o.old = k.old /\ o.put = k.put
    BY <1>1 DEF Job
<1> QED
    BY <1>2 DEF Same, k, o

(* What an address may say of the user a is what it said, but for what is   *)
(* its person's own.                                                        *)
Kept(a) ==
    /\ user'[a].bare = user[a].bare /\ user'[a].github = user[a].github
    /\ user'[a].gid = user[a].gid /\ user'[a].sub = user[a].sub
    /\ user'[a].identity = user[a].identity
    /\ user'[a].spec \in {user[a].spec, Nobody, holder[a]}
    /\ ~Moved(a) => user'[a].status.proven \subseteq user[a].status.proven \cup {holder[a]}
    /\ holder'[a] = holder[a]

WordKept ==
    \A p \in Person :
       /\ word[p].moved => word'[p].moved
       /\ word'[p].moved \/ word[p].mail = Nobody \/ word'[p].mail = word[p].mail

LEMMA OwnKept ==
    ASSUME NEW a \in Account, Own(a), Kept(a), WordKept, Unfinished(a) => Unfinished(a)'
    PROVE  Own(a)'
<1> DEFINE h == holder[a]
           u == user[a]
           v == user'[a]
<1>0. h \in Person /\ holder'[a] = h
    BY DEF Own, Kept
<1> SUFFICES ASSUME ~Moved(a)' PROVE Theirs(a)'
    BY <1>0 DEF Own
<1>1. /\ u.sub \in {Nobody, h} /\ u.gid \in {Nobody, h} /\ u.spec \in {Nobody, h}
      /\ u.status.proven \subseteq {h}
      /\ \A f \in {u.github, u.identity} : f.sure => f.mail = h
      /\ \A e \in Claimed(u) \ {h} : e = word[h].mail /\ (u.identity.mail = e \/ Unfinished(a))
      /\ ~word'[h].moved /\ ~Moved(a)
    BY <1>0 DEF Own, Theirs, Moved, WordKept
<1>2. /\ v.bare = u.bare /\ v.github = u.github /\ v.gid = u.gid /\ v.sub = u.sub
      /\ v.identity = u.identity /\ v.spec \in {Nobody, h} /\ v.status.proven \subseteq {h}
    BY <1>1 DEF Kept
<1>3. Claimed(v) \ {h} \subseteq Claimed(u) \ {h}
    BY <1>2 DEF Claimed
<1>4. \A e \in Claimed(v) \ {h} : e = word'[h].mail /\ (v.identity.mail = e \/ Unfinished(a)')
    <2> SUFFICES ASSUME NEW e \in Claimed(v) \ {h}
                 PROVE  e = word'[h].mail /\ (v.identity.mail = e \/ Unfinished(a)')
        OBVIOUS
    <2>1. e # Nobody /\ e = word[h].mail /\ (u.identity.mail = e \/ Unfinished(a))
        BY <1>1, <1>3 DEF Claimed
    <2> QED
        BY <1>0, <1>1, <1>2, <2>1 DEF WordKept
<1> HIDE DEF u, v, h
<1>5. \A f \in {v.github, v.identity} : f.sure => f.mail = h
    BY <1>1, <1>2
<1>6. /\ v.sub \in {Nobody, holder'[a]} /\ v.gid \in {Nobody, holder'[a]}
      /\ v.spec \in {Nobody, holder'[a]} /\ v.status.proven \subseteq {holder'[a]}
      /\ \A f \in {v.github, v.identity} : f.sure => f.mail = holder'[a]
      /\ \A e \in Claimed(v) \ {holder'[a]} :
            e = word'[holder'[a]].mail /\ (v.identity.mail = e \/ Unfinished(a)')
    BY <1>0, <1>1, <1>2, <1>4, <1>5
<1> QED
    BY <1>6 DEF Theirs, v

(* Whose a user is stays so. *)
LEMMA HomeKept ==
    ASSUME NEW a \in Account, NEW p, Home(p, a), Own(a), holder'[a] = holder[a], WordKept
    PROVE  Home(p, a)'
    BY DEF Home, Moved, Own, WordKept

LEMMA HomeSame ==
    ASSUME NEW a \in Account, NEW p, Home(p, a), holder'[a] = holder[a], word' = word
    PROVE  Home(p, a)'
    BY DEF Home, Moved

(* A user that is not of this step's request is unfinished as before. *)
LEMMA UnfinishedSame ==
    ASSUME NEW a \in Account, \A i \in Slot : Request(i) /\ job[i].at = a => Same(i), Unfinished(a)
    PROVE  Unfinished(a)'
<1>1. PICK i \in Slot : Owes(i, a)
    BY DEF Unfinished
<1>2. Same(i)
    BY <1>1 DEF Owes
<1>3. /\ job'[i].step # "idle" /\ job'[i].kind = "oidc" /\ job'[i].at = a
      /\ Head(job'[i].todo) \in {"created", "again"} \/ job'[i].step \in {"find", "patch"}
    BY <1>1, <1>2 DEF Same, Request, Busy, Owes
<1> QED
    BY <1>3 DEF Unfinished, Owes, Request, Busy

(* A request that did not move is as it was. *)
LEMMA AskSame ==
    ASSUME Base, NEW i \in Slot, Request(i), AskOk(i), PutOk(i), Same(i), word' = word,
           \A a \in Account : Live(a)' => Live(a) /\ Kept(a)
    PROVE  Request(i)' /\ AskOk(i)' /\ PutOk(i)'
<1> DEFINE k == job[i]
           n == job'[i]
<1>1. /\ n.step = k.step /\ n.kind = k.kind /\ n.who = k.who /\ n.mail = k.mail
      /\ n.sure = k.sure /\ n.at = k.at /\ n.todo = k.todo /\ n.old = k.old /\ n.put = k.put
    BY DEF Same
<1>2. Request(i)'
    BY <1>1 DEF Request, Busy
<1>3. k.at \in Account \cup {Nobody}
    <2>1. job[i] \in Job
        BY MailerTask, JobFacts
    <2> QED
        BY <2>1 DEF Job
<1>4. ASSUME n.at # Nobody, user'[n.at].born # 0
      PROVE  Live(k.at) /\ Kept(k.at) /\ k.at \in Account /\ k.at # Nobody
    <2>1. k.at \in Account /\ k.at # Nobody /\ user'[k.at].born # 0
        BY <1>1, <1>3, <1>4
    <2> QED
        BY <2>1 DEF Live
<1>5. AskOk(i)'
    <2>1. /\ n.who \in Person /\ n.mail \in Person
          /\ n.mail = IF n.kind = "oidc" THEN word'[n.who].mail ELSE n.who
          /\ n.sure => n.mail = n.who
        BY <1>1 DEF AskOk
    <2>2. n.at # Nobody /\ user'[n.at].born # 0 =>
             /\ holder'[n.at] = n.who \/ word'[holder'[n.at]].moved
             /\ n.kind = "oidc" /\ Head(n.todo) \in {"created", "again"} => user'[n.at].sub = n.who
        BY <1>1, <1>4 DEF AskOk, Kept, Home, Moved
    <2> QED
        BY <2>1, <2>2 DEF AskOk, Live, Home, Moved
<1>6. PutOk(i)'
    <2> SUFFICES ASSUME n.step \in {"find", "patch"}, user'[n.at].born # 0
                 PROVE  /\ n.kind = "invite" /\ n.step = "find" =>
                             n.old = [github |-> user'[n.at].github, identity |-> user'[n.at].identity]
                        /\ n.step = "patch" =>
                              /\ n.put.github # NoEvidence => n.kind = "github" /\ n.put.github = Mine(n)
                              /\ n.put.identity # NoEvidence => n.kind = "oidc" /\ n.put.identity = Mine(n)
                              /\ n.kind = "oidc" => Mine(n) \in {n.put.identity, user'[n.at].identity}
        BY DEF PutOk, Live
    <2>1. k.step \in {"find", "patch"} /\ k.at \in Account
        BY <1>1, MailerTask, JobFacts
    <2>2. Live(k.at) /\ Kept(k.at)
        BY <1>1, <1>4, <2>1, AccountsAssumption
    <2>3. Mine(n) = Mine(k)
        BY <1>1 DEF Mine
    <2> QED
        BY <1>1, <2>1, <2>2, <2>3 DEF PutOk, Kept
<1> QED
    BY <1>2, <1>5, <1>6

(* A step of no request. *)
LEMMA HomeFrame ==
    ASSUME Base, Base', HomeInv, clean' => clean, ~clean' => entered' = {},
           \A e \in entered' : e \in entered /\ Live(e[2])',
           \A i \in Slot : (Request(i)' => Request(i)) /\ (clean' /\ Request(i) => Same(i)),
           word' = word, \A a \in Account : Live(a)' => Live(a) /\ Kept(a)
    PROVE  HomeInv'
<1>1. ASSUME NEW e \in entered' PROVE Live(e[2])' /\ Home(e[1], e[2])'
    <2>1. e \in entered /\ Live(e[2])' /\ e[2] \in Account
        BY <1>1 DEF Base, TypeOK
    <2>2. Kept(e[2]) /\ Home(e[1], e[2])
        BY <2>1 DEF HomeInv
    <2> QED
        BY <2>1, <2>2, HomeSame DEF Kept
<1>2. WordKept
    BY DEF WordKept
<1>3. CASE ~clean'
    BY <1>1, <1>3 DEF HomeInv
<1>4. CASE clean'
    <2>1. /\ \A j, i \in Slot : Request(j) /\ Request(i) => j = i
          /\ \A j \in Slot : Request(j) => AskOk(j) /\ PutOk(j)
          /\ \A a \in Account : Live(a) => Own(a)
        BY <1>4 DEF HomeInv
    <2>2. \A j, i \in Slot : Request(j)' /\ Request(i)' => j = i
        BY <2>1
    <2>3. \A j \in Slot : Request(j)' => AskOk(j)' /\ PutOk(j)'
        BY <1>4, <2>1, AskSame
    <2>4. ASSUME NEW a \in Account, Live(a)' PROVE Own(a)'
        BY <1>2, <1>4, <2>1, <2>4, OwnKept, UnfinishedSame
    <2> QED
        BY <1>1, <1>4, <2>2, <2>3, <2>4 DEF HomeInv
<1> QED
    BY <1>3, <1>4

(* A step of the only request in flight. *)
LEMMA HomeMove ==
    ASSUME HomeInv, clean => clean', clean, NEW j \in Slot, Request(j),
           \A i \in Slot : i # j /\ Request(i)' => Request(i),
           Request(j)' => AskOk(j)' /\ PutOk(j)',
           \A a \in Account : Live(a)' => Own(a)',
           \A e \in entered' : Live(e[2])' /\ Home(e[1], e[2])'
    PROVE  HomeInv'
<1>1. \A i \in Slot : Request(i) => i = j
    BY DEF HomeInv
<1>2. \A i \in Slot : Request(i)' => i = j
    BY <1>1
<1> QED
    BY <1>2 DEF HomeInv

LEMMA OwnMoved ==
    ASSUME HomeInv, clean, NEW j \in Slot, Request(j), NEW a \in Account, Live(a), Kept(a),
           word' = word, Owes(j, a) => Owes(j, a)'
    PROVE  Own(a)'
<1>1. \A i \in Slot : Request(i) => i = j
    BY DEF HomeInv
<1>2. Unfinished(a) => Unfinished(a)'
    BY <1>1 DEF Unfinished, Owes
<1>3. WordKept
    BY DEF WordKept
<1> QED
    BY <1>2, <1>3, OwnKept DEF HomeInv

(* A sign-in that failed on the way counts for nothing. *)
LEMMA HomeSpoiled ==
    ASSUME clean' = FALSE, entered' = {}
    PROVE  HomeInv'
    BY DEF HomeInv

LEMMA KeptUser ==
    ASSUME NEW a \in Account, user'[a] = user[a], holder'[a] = holder[a]
    PROVE  Kept(a) /\ Live(a)' = Live(a)
    BY DEF Kept, Live

(* What a request finds, by identity or by address, was made for who asks,  *)
(* unless its upstream changed its word: until then a user that claims the  *)
(* mailbox of another only repeats an upstream.                             *)
LEMMA FoundHome ==
    ASSUME NEW k \in Job, k.who \in Person, k.sure => k.mail = k.who,
           \A b \in Account : Live(b) => Own(b),
           \A b \in Account : Live(b) /\ Unfinished(b) => Home(k.who, b),
           NEW a \in Found(k)
    PROVE  a \in Account /\ Live(a) /\ Home(k.who, a)
<1> DEFINE h == holder[a]
           u == user[a]
           p == k.who
<1>1. CASE Known(k) # {}
    <2>1. a \in Account /\ Live(a) /\ (u.sub = p \/ u.gid = p)
        BY <1>1 DEF Found, Known
    <2>2. ~Moved(a) => u.sub \in {Nobody, h} /\ u.gid \in {Nobody, h}
        BY <2>1 DEF Own, Theirs
    <2> QED
        BY <2>1, <2>2, AccountsAssumption DEF Home
<1>2. CASE Known(k) = {}
    <2>1. a \in Owners(k.mail) /\ k.sure /\ Linkable(u, k.mail)
        BY <1>2 DEF Found
    <2>2. k.mail = p /\ a \in Account /\ Live(a) /\ Linkable(u, p)
        BY <2>1 DEF Owners, Claimants
    <2> SUFFICES ASSUME ~Home(p, a) PROVE FALSE
        BY <2>2
    <2>3. /\ u.spec \in {Nobody, h} /\ u.status.proven \subseteq {h}
          /\ \A f \in {u.github, u.identity} : f.sure => f.mail = h
          /\ \A e \in Claimed(u) \ {h} : u.identity.mail = e \/ Unfinished(a)
        BY <2>2 DEF Own, Theirs, Home
    <2>4. ~Unfinished(a) /\ h # p
        BY <2>2 DEF Home
    <2>5. p \in Claimed(u) /\ (p \in Verified(u) \/ p = u.spec \/ p # u.identity.mail)
        BY <2>2 DEF Linkable
    <2>6. u.identity.mail = p
        BY <2>3, <2>4, <2>5
    <2>7. p # u.spec
        BY <2>3, <2>4, AccountsAssumption
    <2>8. p \notin Verified(u)
        BY <2>3, <2>4 DEF Verified
    <2> QED
        BY <2>5, <2>6, <2>7, <2>8
<1> QED
    BY <1>1, <1>2

(* What a request becomes when it has resolved. *)
LEMMA ResolvedOk ==
    ASSUME NEW k \in Job, k.kind \in Asking, k.who \in Person, k.mail \in Person,
           k.sure => k.mail = k.who,
           k.mail = IF k.kind = "oidc" THEN word'[k.who].mail ELSE k.who,
           \A b \in Account : Live(b) => Own(b),
           \A b \in Account : Live(b) /\ Unfinished(b) => Home(k.who, b),
           NEW j \in Slot, NEW r \in Resolved(k), job'[j] = r, Request(j)',
           user' = user, holder' = holder, WordKept
    PROVE  AskOk(j)' /\ PutOk(j)'
<1>1. job'[j] = r /\ r.step # "idle"
    BY DEF Request, Busy
<1>2. r # Idle
    BY <1>1 DEF Idle
<1>3. /\ r.kind = k.kind /\ r.who = k.who /\ r.mail = k.mail /\ r.sure = k.sure
      /\ \/ r.step = "create" /\ r.at = Nobody
         \/ /\ r.step \in {"look", "resolve", "find", "read"}
            /\ r.at \in Found(k) /\ r.todo = <<EditOf(k.kind)>>
            /\ r.step = Opens(EditOf(k.kind))
    BY <1>2, ResolvedFacts
<1>4. r.at # Nobody => Home(k.who, r.at)'
    <2> SUFFICES ASSUME r.at # Nobody PROVE Home(k.who, r.at)'
        OBVIOUS
    <2>1. r.at \in Account /\ Live(r.at) /\ Home(k.who, r.at)
        BY <1>3, FoundHome
    <2> QED
        BY <2>1, HomeKept
<1>5. /\ EditOf(k.kind) \notin {"created", "again"} /\ Head(<<EditOf(k.kind)>>) = EditOf(k.kind)
      /\ k.kind = "invite" => EditOf(k.kind) = "approve"
    BY DEF EditOf, Asking
<1>6. Opens("approve") = "look"
    BY DEF Opens
<1>7. AskOk(j)'
    <2>1. /\ r.who \in Person /\ r.mail \in Person
          /\ r.mail = IF r.kind = "oidc" THEN word'[r.who].mail ELSE r.who
          /\ r.sure => r.mail = r.who
        BY <1>3
    <2>2. /\ r.at # Nobody => Home(r.who, r.at)'
          /\ r.at # Nobody => Head(r.todo) \notin {"created", "again"}
        BY <1>3, <1>4, <1>5
    <2> QED
        BY <1>1, <2>1, <2>2 DEF AskOk
<1>8. PutOk(j)'
    <2>1. r.step # "patch" /\ (r.kind = "invite" => r.step # "find")
        BY <1>3, <1>5, <1>6
    <2> QED
        BY <1>1, <2>1 DEF PutOk
<1> QED
    BY <1>7, <1>8

LEMMA ResolveHome ==
    ASSUME Base, HomeInv, NEW j \in Slot, Resolve(j)
    PROVE  HomeInv'
<1> DEFINE k == job[j]
<1>0. j \in Task /\ k.step = "resolve"
    BY MailerTask DEF Resolve
<1>1. PICK r \in Resolved(k) : /\ job'[j] = r
                               /\ SpoiledIf(r = Idle)
    BY ResolveBase
<1>2. /\ \A i \in Task : i # j => job'[i] = job[i]
      /\ UNCHANGED <<user, word, holder>>
    BY ResolveBase DEF Resolve
<1>3. /\ k \in Job /\ k.kind \in {"oidc", "github"} /\ k.who \in Person /\ k.todo = <<"again">>
      /\ Request(j) /\ k.kind \in Asking
    BY <1>0, JobFacts, ResolveKind DEF Request, Busy, Asking
<1> DEFINE spoils == r = Idle
<1>4. clean' = (clean /\ ~spoils) /\ entered' = IF clean' THEN entered ELSE {}
    BY <1>1 DEF SpoiledIf
<1>5. CASE ~(clean /\ ~spoils)
    BY <1>4, <1>5, HomeSpoiled
<1>6. CASE clean /\ ~spoils
    <2>0. clean' /\ entered' = entered
        BY <1>4, <1>6
    <2>1. AskOk(j) /\ \A b \in Account : Live(b) => Own(b)
        BY <1>3, <1>6 DEF HomeInv
    <2>2. \A b \in Account : Unfinished(b) => Owes(j, b)
        <3>1. \A i \in Slot : Request(i) => i = j
            BY <1>3, <1>6 DEF HomeInv
        <3> QED
            BY <3>1 DEF Unfinished, Owes
    <2>3. \A b \in Account : Live(b) /\ Unfinished(b) => Home(k.who, b)
        BY <2>1, <2>2, AccountsAssumption DEF Owes, AskOk
    <2>4. Request(j)' => AskOk(j)' /\ PutOk(j)'
        <3>1. /\ k.mail \in Person /\ (k.sure => k.mail = k.who)
              /\ k.mail = IF k.kind = "oidc" THEN word'[k.who].mail ELSE k.who
              /\ WordKept
            BY <1>2, <2>1 DEF AskOk, WordKept
        <3> HIDE DEF k
        <3> QED
            BY <1>1, <1>2, <1>3, <2>1, <2>3, <3>1, ResolvedOk
    <2>5. ASSUME NEW a \in Account, Live(a), Owes(j, a) PROVE Owes(j, a)'
        <3>1. k.kind = "oidc" /\ k.at = a /\ a # Nobody /\ Head(k.todo) = "again"
            BY <1>3, <2>5, AccountsAssumption DEF Owes
        <3>2. user[a].sub = k.who
            BY <2>1, <2>5, <3>1 DEF AskOk
        <3>3. a \in Known(k)
            BY <2>5, <3>1, <3>2 DEF Known
        <3>4. Found(k) = Known(k)
            BY <3>3 DEF Found
        <3>5. /\ r.kind = k.kind /\ ~Blocked(k)
              /\ r.at \in Known(k) /\ r.todo = <<EditOf(k.kind)>> /\ r.step = Opens(EditOf(k.kind))
            BY <1>3, <1>6, <3>3, <3>4, ResolvedFacts
        <3>6. r.at = a
            BY <3>3, <3>5 DEF Blocked
        <3>7. EditOf("oidc") = "identity" /\ Opens("identity") = "find"
            BY DEF EditOf, Opens
        <3>8. r.kind = "oidc" /\ r.step = "find"
            BY <3>1, <3>5, <3>7
        <3> QED
            BY <1>1, <3>6, <3>8 DEF Owes, Request, Busy
    <2>6. ASSUME NEW a \in Account, Live(a)' PROVE Own(a)'
        BY <1>2, <1>3, <1>6, <2>5, <2>6, KeptUser, OwnMoved
    <2>7. \A e \in entered' : Live(e[2])' /\ Home(e[1], e[2])'
        BY <1>2, <2>0 DEF HomeInv, Live, Home, Moved
    <2>8. \A i \in Slot : i # j /\ Request(i)' => Request(i)
        BY <1>2, MailerTask DEF Request, Busy
    <2> QED
        BY <1>3, <1>6, <2>0, <2>4, <2>6, <2>7, <2>8, HomeMove
<1> QED
    BY <1>5, <1>6

(* Requests that start one at a time. *)
LEMMA StartHome ==
    ASSUME Base, HomeInv, NEW j \in Slot, SignIn(j) \/ Invite(j)
    PROVE  HomeInv'
<1>1. PICK kind \in Asking, p \in Person, e \in Person, sure \in BOOLEAN :
         /\ Start(j, kind, p, e, sure) /\ (sure => e = p)
         /\ word' \in [Person -> Word]
         /\ kind = "oidc" => word' = [word EXCEPT ![p] = Heard(p, e)]
         /\ kind # "oidc" => word' = word /\ e = p
    BY RequestStart
<1> DEFINE k == Asked(kind, p, e, sure)
           laps == \E i \in Slot : Request(i)
<1>2. k \in Job /\ k.kind = kind /\ k.who = p /\ k.mail = e /\ k.sure = sure
    BY AskedJob
<1>3. /\ \E r \in Resolved(k) : job'[j] = r
      /\ \A i \in Task : i # j => job'[i] = job[i]
    BY <1>1, StartBase
<1>4. PICK r \in Resolved(k) : job'[j] = r
    BY <1>3
<1>5. SpoiledIf(laps) /\ UNCHANGED <<user, holder>>
    BY <1>1 DEF Start
<1> HIDE DEF k, laps
<1>6. clean' = (clean /\ ~laps) /\ entered' = IF clean' THEN entered ELSE {}
    BY <1>5 DEF SpoiledIf
<1>7. CASE ~(clean /\ ~laps)
    BY <1>6, <1>7, HomeSpoiled
<1>8. CASE clean /\ ~laps
    <2>0. clean' /\ entered' = entered /\ \A i \in Slot : ~Request(i)
        BY <1>6, <1>8 DEF laps
    <2>1. \A b \in Account : (Live(b) => Own(b)) /\ ~Unfinished(b)
        BY <1>8, <2>0 DEF HomeInv, Unfinished, Owes
    <2>2. \A i \in Slot : Request(i)' => i = j
        BY <1>3, <2>0, MailerTask DEF Request, Busy
    <2>4. WordKept
        <3>1. word' \in [Person -> Word] /\ word \in [Person -> Word]
            BY <1>1 DEF Base, TypeOK
        <3>2. \A x \in Person : word'[x] = word[x] \/ word'[x] = Heard(x, e)
            BY <1>1, <3>1
        <3>3. \A x \in Person : Heard(x, e).mail = e
                               /\ Heard(x, e).moved = (word[x].moved \/ word[x].mail \notin {Nobody, e})
            BY DEF Heard
        <3> QED
            BY <3>2, <3>3 DEF WordKept
    <2>3. ASSUME Request(j)' PROVE AskOk(j)' /\ PutOk(j)'
        <3>1. k.mail = IF k.kind = "oidc" THEN word'[k.who].mail ELSE k.who
            BY <1>1, <1>2 DEF Base, TypeOK, Heard
        <3> QED
            BY <1>1, <1>2, <1>4, <1>5, <2>1, <2>3, <2>4, <3>1, ResolvedOk
    <2>5. ASSUME NEW a \in Account, Live(a)' PROVE Own(a)'
        BY <1>5, <2>1, <2>4, <2>5, KeptUser, OwnKept
    <2>6. ASSUME NEW f \in entered' PROVE Live(f[2])' /\ Home(f[1], f[2])'
        <3>1. f \in entered /\ f[2] \in Account
            BY <2>0, <2>6 DEF Base, TypeOK
        <3>2. Live(f[2]) /\ Home(f[1], f[2]) /\ Own(f[2])
            BY <2>1, <3>1 DEF HomeInv
        <3> QED
            BY <1>5, <2>4, <3>1, <3>2, HomeKept DEF Live
    <2> QED
        BY <2>0, <2>2, <2>3, <2>5, <2>6 DEF HomeInv
<1> QED
    BY <1>7, <1>8

(* A user as it is made shows what its request brought. *)
LEMMA NewUserOwn ==
    ASSUME Base, NEW k \in Job, k.kind \in Asking, k.who \in Person, k.mail \in Person,
           k.mail = IF k.kind = "oidc" THEN word[k.who].mail ELSE k.who,
           k.sure => k.mail = k.who,
           NEW a \in Account, NEW born, user'[a] = NewUser(k, born), holder'[a] = k.who,
           word' = word, k.kind = "oidc" => Unfinished(a)'
    PROVE  Own(a)' /\ (k.kind = "oidc" => user'[a].sub = k.who)
<1> DEFINE u == user'[a]
           h == k.who
           m == [mail |-> k.mail, sure |-> k.sure]
<1>1. /\ u.spec = Nobody /\ u.identity = NoEvidence /\ u.status = Blank
      /\ u.bare \in {Nobody, k.mail} /\ u.github \in {m, NoEvidence}
      /\ u.sub = IF k.kind = "oidc" THEN h ELSE Nobody
      /\ u.gid \in {Nobody, h}
    BY DEF NewUser, Absent
<1> HIDE DEF u
<1>2. NoEvidence.mail = Nobody /\ ~NoEvidence.sure /\ Blank.proven = {}
    BY DEF NoEvidence, Blank
<1>3. m.mail = k.mail /\ m.sure = k.sure
    OBVIOUS
<1> HIDE DEF m
<1>4. u.sub \in {Nobody, h} /\ u.gid \in {Nobody, h} /\ u.spec \in {Nobody, h} /\ u.status.proven \subseteq {h}
    BY <1>1, <1>2
<1>5. \A f \in {u.github, u.identity} : f.sure => f.mail = h
    BY <1>1, <1>2, <1>3
<1>6. Claimed(u) \subseteq {k.mail}
    BY <1>1, <1>2, <1>3 DEF Claimed
<1>7. \A e \in Claimed(u) \ {h} : e = word'[h].mail /\ (u.identity.mail = e \/ Unfinished(a)')
    BY <1>6
<1>8. holder'[a] = h /\ h \in Person
    OBVIOUS
<1> HIDE DEF h
<1> QED
    BY <1>1, <1>4, <1>5, <1>7, <1>8 DEF Own, Theirs, u

LEMMA CreateHome ==
    ASSUME Base, HomeInv, NEW j \in Slot, Create(j)
    PROVE  HomeInv'
<1> DEFINE k == job[j]
<1>1. /\ k.step = "create" /\ UNCHANGED <<word, clean, entered>> /\ j \in Task
    BY MailerTask DEF Create
<1>2. k.kind \in Asking /\ k.who \in Person /\ k.todo = Creation(k.kind)
      /\ \A i \in Task : i # j => job'[i] = job[i]
    BY CreateBase
<1>3. k \in Job /\ k.at = Nobody /\ Request(j)
    BY <1>1, <1>2, JobFacts DEF Shaped, Request, Busy, Asking
<1>4. CASE ~clean
    BY <1>1, <1>4, HomeSpoiled DEF HomeInv, Base, TypeOK
<1>5. CASE clean
    <2>1. AskOk(j) /\ \A b \in Account : Live(b) => Own(b)
        BY <1>3, <1>5 DEF HomeInv
    <2>2. /\ k.who \in Person /\ k.mail \in Person
          /\ k.mail = IF k.kind = "oidc" THEN word[k.who].mail ELSE k.who
          /\ k.sure => k.mail = k.who
        BY <2>1 DEF AskOk
    <2>3. \A b \in Account : ~Owes(j, b)
        BY <1>3, AccountsAssumption DEF Owes
    <2>4. \A i \in Slot : i # j /\ Request(i)' => Request(i)
        BY <1>2, MailerTask DEF Request, Busy
    <2>5. ASSUME NEW a \in Account, Made(j, a) PROVE HomeInv'
        <3>1. /\ ~Live(a) /\ user' = [user EXCEPT ![a] = NewUser(k, spent.born + 1)]
              /\ holder' = [holder EXCEPT ![a] = k.who]
              /\ job'[j] = At(k, a, k.todo)
            BY <2>5 DEF Made
        <3>2. /\ user'[a] = NewUser(k, spent.born + 1) /\ holder'[a] = k.who
              /\ \A b \in Account : b # a => user'[b] = user[b] /\ holder'[b] = holder[b]
            BY <3>1 DEF Base, TypeOK
        <3>3. k.todo \in Plans(k.kind)
            BY <1>2 DEF Plans
        <3>4. Head(k.todo) = "created" /\ Opens("created") = "read"
            BY <1>2 DEF Creation, Opens
        <3>5. /\ job'[j].step = "read" /\ job'[j].kind = k.kind /\ job'[j].at = a
              /\ job'[j].who = k.who /\ job'[j].mail = k.mail /\ job'[j].sure = k.sure
              /\ job'[j].todo = k.todo
            <4> HIDE DEF k
            <4> QED
                BY <1>2, <1>3, <3>1, <3>3, <3>4, AtShaped
        <3>6. Request(j)' /\ (k.kind = "oidc" => Owes(j, a)')
            BY <1>2, <3>4, <3>5 DEF Request, Busy, Owes, Asking
        <3>7. Own(a)' /\ (k.kind = "oidc" => user'[a].sub = k.who)
            <4>1. k.kind = "oidc" => Unfinished(a)'
                BY <3>6 DEF Unfinished
            <4> DEFINE n == spent.born + 1
            <4>2. user'[a] = NewUser(k, n)
                BY <3>2
            <4> HIDE DEF k, n
            <4> QED
                BY <1>1, <1>2, <1>3, <2>2, <3>2, <4>1, <4>2, NewUserOwn
        <3>8. AskOk(j)'
            <4>1. /\ job'[j].who \in Person /\ job'[j].mail \in Person
                  /\ job'[j].mail = IF job'[j].kind = "oidc" THEN word'[job'[j].who].mail ELSE job'[j].who
                  /\ job'[j].sure => job'[j].mail = job'[j].who
                BY <1>1, <2>2, <3>5
            <4>2. /\ holder'[job'[j].at] = job'[j].who
                  /\ job'[j].kind = "oidc" => user'[job'[j].at].sub = job'[j].who
                BY <3>2, <3>5, <3>7
            <4> QED
                BY <4>1, <4>2 DEF AskOk, Home
        <3>9. PutOk(j)'
            BY <3>5 DEF PutOk
        <3>10. ASSUME NEW b \in Account, Live(b)', b # a PROVE Own(b)'
            <4>1. Kept(b) /\ Live(b)
                BY <3>2, <3>10, KeptUser
            <4> QED
                BY <1>1, <1>3, <1>5, <2>3, <4>1, OwnMoved
        <3>11. ASSUME NEW e \in entered' PROVE Live(e[2])' /\ Home(e[1], e[2])'
            <4>1. e \in entered /\ e[2] \in Account
                BY <1>1, <3>11 DEF Base, TypeOK
            <4>2. Live(e[2]) /\ Home(e[1], e[2])
                BY <4>1 DEF HomeInv
            <4>3. e[2] # a
                BY <3>1, <4>2
            <4> QED
                BY <1>1, <3>2, <4>1, <4>2, <4>3, HomeSame DEF Live
        <3>12. \A b \in Account : Live(b)' => Own(b)'
            BY <3>7, <3>10
        <3> QED
            BY <1>1, <1>3, <1>5, <2>4, <3>8, <3>9, <3>11, <3>12, HomeMove
    <2>6. CASE job'[j] = Idle /\ UNCHANGED <<user, news, holder>>
        <3>1. ~Request(j)'
            BY <2>6 DEF Request, Busy, Idle
        <3>2. ASSUME NEW b \in Account, Live(b)' PROVE Own(b)'
            BY <1>1, <1>3, <1>5, <2>3, <2>6, <3>2, KeptUser, OwnMoved
        <3>3. \A e \in entered' : Live(e[2])' /\ Home(e[1], e[2])'
            BY <1>1, <2>6 DEF HomeInv, Live, Home, Moved
        <3> QED
            BY <1>1, <1>3, <1>5, <2>4, <3>1, <3>2, <3>3, HomeMove
    <2> QED
        BY <2>5, <2>6, CreateBase
<1> QED
    BY <1>4, <1>5

(* Each kind of request has its own patch. *)
LEMMA PatchEdit ==
    ASSUME Base, NEW j \in Task, job[j].step \in {"look", "find", "patch"}
    PROVE  /\ j \in Slot /\ Request(j) /\ job[j] \in Job /\ job[j].at \in Account
           /\ Head(job[j].todo) = EditOf(job[j].kind)
           /\ Head(job[j].todo) = "identity" <=> job[j].kind = "oidc"
           /\ Head(job[j].todo) = "github" <=> job[j].kind = "github"
           /\ Head(job[j].todo) = "approve" <=> job[j].kind = "invite"
<1> DEFINE k == job[j]
<1>1. /\ k \in Job /\ k.at \in Account /\ k.todo \in Plans(k.kind)
      /\ Head(k.todo) \in {"identity", "github", "approve"}
    BY JobFacts DEF Shaped
<1>2. j \in Slot /\ k.kind \in Asking
    BY PatchKind, MailerTask
<1>3. Request(j)
    BY <1>2 DEF Request, Busy, Asking
<1> HIDE DEF k
<1>4. k.todo \in {<<EditOf(k.kind)>>, Creation(k.kind), <<Creation(k.kind)[2]>>}
    BY <1>1, <1>2 DEF Plans
<1>5. \E e \in {"again", EditOf(k.kind)} : Creation(k.kind) = <<"created", e>>
    BY DEF Creation
<1>6. Head(k.todo) = EditOf(k.kind)
    BY <1>1, <1>4, <1>5
<1> QED
    BY <1>1, <1>2, <1>3, <1>6 DEF EditOf, Asking, k

(* A request that goes on with the same user. *)
LEMMA MoveHome ==
    ASSUME Base, HomeInv, NEW j \in Slot, Request(j),
           UNCHANGED <<user, holder, word, clean, entered>>,
           \A i \in Task : i # j => job'[i] = job[i],
           job'[j].step # "idle", job'[j].kind = job[j].kind, job'[j].who = job[j].who,
           job'[j].mail = job[j].mail, job'[j].sure = job[j].sure, job'[j].at = job[j].at,
           job'[j].todo = job[j].todo,
           job[j].step \in {"find", "patch"} => job'[j].step \in {"find", "patch"},
           clean => PutOk(j)'
    PROVE  HomeInv'
<1>1. CASE ~clean
    BY <1>1, HomeSpoiled DEF HomeInv, Base, TypeOK
<1>2. CASE clean
    <2>1. AskOk(j)
        BY <1>2 DEF HomeInv
    <2>2. Request(j)'
        BY DEF Request, Busy
    <2>3. AskOk(j)'
        BY <2>1 DEF AskOk, Live, Home, Moved
    <2>4. \A b \in Account : Owes(j, b) => Owes(j, b)'
        BY <2>2 DEF Owes
    <2>5. ASSUME NEW b \in Account, Live(b)' PROVE Own(b)'
        BY <1>2, <2>4, <2>5, KeptUser, OwnMoved
    <2>6. \A e \in entered' : Live(e[2])' /\ Home(e[1], e[2])'
        BY DEF HomeInv, Live, Home, Moved
    <2>7. \A i \in Slot : i # j /\ Request(i)' => Request(i)
        BY MailerTask DEF Request, Busy
    <2> QED
        BY <1>2, <2>3, <2>5, <2>6, <2>7, HomeMove
<1> QED
    BY <1>1, <1>2

LEMMA LookHome ==
    ASSUME Base, HomeInv, NEW j \in Task, Look(j)
    PROVE  HomeInv'
<1> DEFINE k == job[j]
           old == [github |-> user[k.at].github, identity |-> user[k.at].identity]
<1>1. k.step = "look" /\ UNCHANGED <<user, holder, word, clean, entered>>
    BY DEF Look
<1>2. k \in Job /\ j \in Slot /\ Request(j) /\ k.kind = "invite"
    BY <1>1, PatchEdit, JobFacts DEF Shaped
<1>3. job'[j] = [k EXCEPT !.step = "find", !.old = old] /\ \A i \in Task : i # j => job'[i] = job[i]
    BY LookBase
<1> HIDE DEF old, k
<1>4. /\ job'[j].step = "find" /\ job'[j].kind = k.kind /\ job'[j].who = k.who
      /\ job'[j].mail = k.mail /\ job'[j].sure = k.sure /\ job'[j].at = k.at
      /\ job'[j].todo = k.todo /\ job'[j].old = old
    BY <1>2, <1>3 DEF Job
<1>5. PutOk(j)'
    BY <1>1, <1>4 DEF PutOk, old, k
<1> QED
    BY <1>1, <1>2, <1>3, <1>4, <1>5, MoveHome DEF k

LEMMA FindHome ==
    ASSUME Base, HomeInv, NEW j \in Task, Find(j)
    PROVE  HomeInv'
<1> DEFINE k == job[j]
           u == user[k.at]
           d == Difference(k, u)
<1>1. k.step = "find" /\ Live(k.at) /\ UNCHANGED <<user, holder, word, clean, entered>>
    BY DEF Find
<1>2. /\ k \in Job /\ j \in Slot /\ Request(j) /\ k.at \in Account
      /\ Head(k.todo) \in {"identity", "github", "approve"}
      /\ Head(k.todo) = "identity" <=> k.kind = "oidc"
      /\ Head(k.todo) = "github" <=> k.kind = "github"
      /\ Head(k.todo) = "approve" <=> k.kind = "invite"
    BY <1>1, PatchEdit, JobFacts DEF Shaped
<1>3. job'[j] = [k EXCEPT !.step = "patch", !.put = d] /\ \A i \in Task : i # j => job'[i] = job[i]
    BY FindBase
<1>4. clean => (k.kind = "invite" => k.old = [github |-> u.github, identity |-> u.identity])
    BY <1>1, <1>2 DEF HomeInv, PutOk
<1>5. clean =>
         /\ d.github # NoEvidence => k.kind = "github" /\ d.github = Mine(k)
         /\ d.identity # NoEvidence => k.kind = "oidc" /\ d.identity = Mine(k)
         /\ k.kind = "oidc" => Mine(k) \in {d.identity, u.identity}
    <2>1. Nothing = [github |-> NoEvidence, identity |-> NoEvidence]
        BY DEF Nothing
    <2> HIDE DEF k, u
    <2>2. CASE Head(k.todo) = "identity"
        <3>1. d = [Nothing EXCEPT !.identity = IF u.sub = k.who THEN Unless(Mine(k), u.identity) ELSE Mine(k)]
            BY <2>2 DEF Difference
        <3>2. d.github = NoEvidence /\ d.identity = IF u.sub = k.who THEN Unless(Mine(k), u.identity) ELSE Mine(k)
            BY <2>1, <3>1
        <3> QED
            BY <1>2, <2>2, <3>2 DEF Unless
    <2>3. CASE Head(k.todo) = "github"
        <3>1. d = [Nothing EXCEPT !.github = IF u.gid = k.who THEN Unless(Mine(k), u.github) ELSE Mine(k)]
            BY <2>3 DEF Difference
        <3>2. d.identity = NoEvidence /\ d.github = IF u.gid = k.who THEN Unless(Mine(k), u.github) ELSE Mine(k)
            BY <2>1, <3>1
        <3> QED
            BY <1>2, <2>3, <3>2 DEF Unless
    <2>4. CASE Head(k.todo) = "approve"
        <3>1. d = [github |-> Unless(k.old.github, u.github),
                   identity |-> Unless(k.old.identity, u.identity)]
            BY <2>4 DEF Difference
        <3>2. d.github = Unless(k.old.github, u.github) /\ d.identity = Unless(k.old.identity, u.identity)
            BY <3>1
        <3>3. clean => d.github = NoEvidence /\ d.identity = NoEvidence
            BY <1>2, <1>4, <2>4, <3>2 DEF Unless
        <3> QED
            BY <1>2, <2>4, <3>3
    <2> QED
        BY <1>2, <2>2, <2>3, <2>4
<1> HIDE DEF d
<1>6. /\ job'[j].step = "patch" /\ job'[j].kind = k.kind /\ job'[j].who = k.who
      /\ job'[j].mail = k.mail /\ job'[j].sure = k.sure /\ job'[j].at = k.at
      /\ job'[j].todo = k.todo /\ job'[j].put = d
    <2> HIDE DEF k
    <2> QED
        BY <1>2, <1>3 DEF Job
<1>7. Mine(job'[j]) = Mine(k)
    BY <1>6 DEF Mine
<1>8. clean => PutOk(j)'
    <2> SUFFICES ASSUME clean PROVE PutOk(j)'
        OBVIOUS
    <2>1. /\ job'[j].step # "find" /\ user' = user
          /\ job'[j].put.github # NoEvidence => job'[j].kind = "github" /\ job'[j].put.github = Mine(job'[j])
          /\ job'[j].put.identity # NoEvidence => job'[j].kind = "oidc" /\ job'[j].put.identity = Mine(job'[j])
          /\ job'[j].kind = "oidc" => Mine(job'[j]) \in {job'[j].put.identity, user'[job'[j].at].identity}
        BY <1>1, <1>5, <1>6, <1>7
    <2> QED
        BY <2>1 DEF PutOk
<1> QED
    BY <1>1, <1>2, <1>3, <1>6, <1>8, MoveHome

(* A patch puts the identity in place of what its maker owed. *)
LEMMA PatchOwn ==
    ASSUME NEW k \in Job, NEW u \in User, NEW a \in Account, user[a] = u,
           Theirs(a), holder[a] = k.who, k.who \in Person, k.mail \in Person,
           k.mail = IF k.kind = "oidc" THEN word[k.who].mail ELSE k.who,
           k.sure => k.mail = k.who,
           k.put.github # NoEvidence => k.kind = "github" /\ k.put.github = Mine(k),
           k.put.identity # NoEvidence => k.kind = "oidc" /\ k.put.identity = Mine(k),
           k.kind = "oidc" => Mine(k) \in {k.put.identity, u.identity},
           Unfinished(a) => k.kind = "oidc",
           user'[a] = Patched(k, u), UNCHANGED <<holder, word>>
    PROVE  Own(a)'
<1> DEFINE v == user'[a]
           h == k.who
           m == Mine(k)
           g == IF k.put.github = NoEvidence THEN u.github ELSE k.put.github
           i == IF k.put.identity = NoEvidence THEN u.identity ELSE k.put.identity
           gid == IF Head(k.todo) = "github" THEN k.who ELSE u.gid
           sub == IF Head(k.todo) = "identity" THEN k.who ELSE u.sub
<1>1. v = [u EXCEPT !.github = g, !.gid = gid, !.identity = i, !.sub = sub]
    BY DEF Patched
<1>2. /\ m.mail = k.mail /\ m.sure = k.sure /\ m # NoEvidence
      /\ NoEvidence.mail = Nobody
    BY AccountsAssumption DEF Mine, NoEvidence
<1>3. /\ u.sub \in {Nobody, h} /\ u.gid \in {Nobody, h} /\ u.spec \in {Nobody, h}
      /\ u.status.proven \subseteq {h}
      /\ \A f \in {u.github, u.identity} : f.sure => f.mail = h
      /\ \A e \in Claimed(u) \ {h} : e = word[h].mail /\ (u.identity.mail = e \/ Unfinished(a))
    BY DEF Theirs
<1>4. /\ g = u.github \/ (k.kind = "github" /\ g = m)
      /\ k.kind = "oidc" => i = m
      /\ k.kind # "oidc" => i = u.identity
    BY <1>2
<1>5. gid \in {Nobody, h} /\ sub \in {Nobody, h}
    BY <1>3
<1> HIDE DEF v, g, i, gid, sub, m
<1>6. /\ v.spec = u.spec /\ v.bare = u.bare /\ v.status = u.status
      /\ v.github = g /\ v.gid = gid /\ v.identity = i /\ v.sub = sub
    BY <1>1 DEF User
<1>7. \A f \in {v.github, v.identity} : f.sure => f.mail = h
    BY <1>2, <1>3, <1>4, <1>6
<1>8. ASSUME NEW e \in Claimed(v) \ {h}
      PROVE  e = word[h].mail /\ v.identity.mail = e
    <2>1. e # Nobody /\ e # h /\ e \in {v.spec, v.bare, v.github.mail, v.identity.mail}
        BY <1>8 DEF Claimed
    <2>2. CASE k.kind = "oidc"
        <3>1. v.identity.mail = k.mail /\ k.mail = word[h].mail
            BY <1>2, <1>4, <1>6, <2>2
        <3>2. CASE e = v.identity.mail
            BY <3>1, <3>2
        <3>3. CASE e \in {v.spec, v.bare, v.github.mail}
            <4>1. e \in Claimed(u) \ {h}
                BY <1>4, <1>6, <2>1, <2>2, <3>3 DEF Claimed
            <4> QED
                BY <1>3, <3>1, <4>1
        <3> QED
            BY <2>1, <3>2, <3>3
    <2>3. CASE k.kind # "oidc"
        <3>1. v.identity = u.identity /\ k.mail = h
            BY <1>4, <1>6, <2>3
        <3>2. e \in Claimed(u) \ {h}
            BY <1>2, <1>4, <1>6, <2>1, <3>1 DEF Claimed
        <3> QED
            BY <1>3, <2>3, <3>1, <3>2
    <2> QED
        BY <2>2, <2>3
<1>9. holder'[a] = h /\ word'[h] = word[h] /\ h \in Person
    OBVIOUS
<1> HIDE DEF h
<1> QED
    BY <1>3, <1>5, <1>6, <1>7, <1>8, <1>9 DEF Own, Theirs, v

LEMMA PatchHome ==
    ASSUME Base, HomeInv, NEW j \in Task, Patch(j)
    PROVE  HomeInv'
<1> DEFINE k == job[j]
           a == k.at
<1>1. k.step = "patch" /\ Live(a) /\ UNCHANGED <<holder, word, clean, entered>>
    BY DEF Patch
<1>2. /\ k \in Job /\ j \in Slot /\ Request(j) /\ a \in Account /\ user[a] \in User
      /\ Head(k.todo) \in {"identity", "github", "approve"}
    BY <1>1, PatchEdit, JobFacts DEF Shaped
<1>3. /\ user'[a] = Patched(k, user[a]) /\ user'[a].born = user[a].born
      /\ \A b \in Account : b # a => user'[b] = user[b]
    BY PatchedKeeps
<1>4. job'[j] = AfterPatch(k) /\ Outdated(j, a)
    BY PatchBase
<1>5. CASE ~clean
    BY <1>1, <1>5, HomeSpoiled DEF HomeInv, Base, TypeOK
<1>6. CASE clean
    <2>1. AskOk(j) /\ PutOk(j) /\ Own(a) /\ \A i \in Slot : Request(i) => i = j
        BY <1>1, <1>2, <1>6 DEF HomeInv
    <2>2. /\ k.who \in Person /\ k.mail \in Person
          /\ k.mail = IF k.kind = "oidc" THEN word[k.who].mail ELSE k.who
          /\ k.sure => k.mail = k.who
          /\ Home(k.who, a)
        BY <1>1, <1>2, <2>1, AccountsAssumption DEF AskOk
    <2>3. /\ k.put.github # NoEvidence => k.kind = "github" /\ k.put.github = Mine(k)
          /\ k.put.identity # NoEvidence => k.kind = "oidc" /\ k.put.identity = Mine(k)
          /\ k.kind = "oidc" => Mine(k) \in {k.put.identity, user[a].identity}
        BY <1>1, <2>1 DEF PutOk
    <2>4. Unfinished(a) => k.kind = "oidc"
        BY <2>1 DEF Unfinished, Owes
    <2>5. /\ job'[j].step = "read" /\ job'[j].kind = k.kind /\ job'[j].who = k.who
          /\ job'[j].mail = k.mail /\ job'[j].sure = k.sure /\ job'[j].at = k.at
          /\ job'[j].todo = k.todo
        <3> HIDE DEF k
        <3> QED
            BY <1>2, <1>4 DEF AfterPatch, Job
    <2>6. ASSUME NEW b \in Account, b = a PROVE Own(b)'
        <3>0. CASE Moved(b)
            BY <1>1, <2>1, <2>6, <3>0 DEF Own, Moved
        <3> SUFFICES ASSUME ~Moved(b) PROVE Own(b)'
            BY <3>0
        <3> DEFINE u == user[b]
        <3>1. /\ u \in User /\ user[b] = u /\ user'[b] = Patched(k, u)
              /\ Theirs(b) /\ holder[b] = k.who /\ (Unfinished(b) => k.kind = "oidc")
            BY <1>2, <1>3, <2>1, <2>2, <2>4, <2>6 DEF Own, Home
        <3>2. k.kind = "oidc" => Mine(k) \in {k.put.identity, u.identity}
            BY <2>3, <2>6
        <3> HIDE DEF k, u
        <3> QED
            BY <1>1, <1>2, <2>2, <2>3, <3>1, <3>2, PatchOwn
    <2>7. ASSUME NEW b \in Account, Live(b)' PROVE Own(b)'
        <3>1. CASE b = a
            BY <2>6, <3>1
        <3>2. CASE b # a
            <4>1. Kept(b) /\ Live(b) /\ ~Owes(j, b)
                BY <1>1, <1>3, <2>7, <3>2, KeptUser DEF Owes
            <4> QED
                BY <1>1, <1>2, <1>6, <4>1, OwnMoved
        <3> QED
            BY <3>1, <3>2
    <2>8. \A i \in Slot : i # j /\ Request(i)' => Request(i)
        <3> SUFFICES ASSUME NEW i \in Slot, i # j, Request(i)' PROVE Request(i)
            OBVIOUS
        <3>1. Same(i)
            BY <1>4, MailerTask, OutdatedSame DEF Outdated
        <3> QED
            BY <3>1 DEF Same, Request, Busy
    <2>9. AskOk(j)'
        <3>1. Head(job'[j].todo) \notin {"created", "again"}
            BY <1>2, <2>5
        <3> QED
            BY <1>1, <2>2, <2>5, <3>1 DEF AskOk, Home, Moved
    <2>10. PutOk(j)'
        BY <2>5 DEF PutOk
    <2>11. ASSUME NEW e \in entered' PROVE Live(e[2])' /\ Home(e[1], e[2])'
        <3>1. e \in entered /\ e[2] \in Account
            BY <1>1, <2>11 DEF Base, TypeOK
        <3>2. user'[e[2]].born = user[e[2]].born
            BY <1>3, <3>1
        <3> QED
            BY <1>1, <3>1, <3>2 DEF HomeInv, Live, Home, Moved
    <2> QED
        BY <1>1, <1>2, <1>6, <2>7, <2>8, <2>9, <2>10, <2>11, HomeMove
<1> QED
    BY <1>5, <1>6

(* What a request may still have to do. *)
LEMMA AskPlan ==
    ASSUME NEW kind \in Asking, NEW t \in Plans(kind)
    PROVE  \/ t = <<EditOf(kind)>> \/ t = <<"again">>
           \/ \E e \in {"again", EditOf(kind)} : t = <<"created", e>> /\ <<e>> \in Plans(kind)
<1>1. PICK e \in {"again", EditOf(kind)} : Creation(kind) = <<"created", e>>
    BY DEF Creation
<1>2. Creation(kind)[2] = e
    BY <1>1
<1> QED
    BY <1>1, <1>2 DEF Plans

(* A request at the end of an edit of its status. *)
LEMMA AskEnd ==
    ASSUME Base, HomeInv, clean, clean' = clean, NEW j \in Slot, Request(j), NEW jobs, AskOver(j, jobs),
           job[j].step \in {"read", "write"},
           \A i \in Slot : i # j /\ Request(i)' => Request(i),
           \A a \in Account : Kept(a) /\ Live(a)' = Live(a), word' = word
    PROVE  HomeInv'
<1> DEFINE k == job[j]
           t == Tail(k.todo)
<1>0. j \in Task
    BY MailerTask
<1>1. /\ k \in Job /\ k.at \in Account /\ k.todo \in Plans(k.kind) /\ k.kind \in Asking
      /\ Head(k.todo) # "again" /\ k.who \in Person
    BY <1>0, JobFacts DEF Shaped, Request, Asking, Busy
<1>2. AskOk(j)
    BY DEF HomeInv
<1>3. /\ k.mail \in Person
      /\ k.mail = IF k.kind = "oidc" THEN word[k.who].mail ELSE k.who
      /\ k.sure => k.mail = k.who
      /\ Live(k.at) => Home(k.who, k.at)
      /\ Live(k.at) /\ k.kind = "oidc" /\ Head(k.todo) = "created" => user[k.at].sub = k.who
    BY <1>1, <1>2, AccountsAssumption DEF AskOk
<1>4. /\ EditOf("oidc") = "identity" /\ EditOf("github") = "github" /\ EditOf("invite") = "approve"
      /\ EditOf("link") = "proof"
      /\ Opens("identity") = "find" /\ Opens("approve") = "look" /\ Opens("proof") = "read"
      /\ Opens("again") = "resolve" /\ Opens("github") = "find"
    BY DEF EditOf, Opens
<1>5. ASSUME NEW e \in entered' PROVE Live(e[2])' /\ Home(e[1], e[2])'
    <2>1. e \in entered \/ (e = <<k.who, k.at>> /\ Live(k.at))
        BY <1>5 DEF AskOver
    <2>2. e[2] \in Account /\ Live(e[2]) /\ Home(e[1], e[2])
        <3>1. CASE e \in entered
            BY <3>1 DEF HomeInv, Base, TypeOK
        <3>2. CASE e = <<k.who, k.at>> /\ Live(k.at)
            BY <1>1, <1>3, <3>2
        <3> QED
            BY <2>1, <3>1, <3>2
    <2> QED
        BY <2>2, HomeSame DEF Kept
<1>6. CASE k.todo = <<EditOf(k.kind)>>
    <2>1. t = <<>> /\ Head(k.todo) = EditOf(k.kind)
        BY <1>6
    <2>2. job'[j].step = "idle"
        <3>1. job'[j] = At(k, k.at, <<>>)
            BY <2>1 DEF AskOver
        <3>2. At(k, k.at, <<>>) = Idle
            BY AtEnd
        <3> QED
            BY <3>1, <3>2 DEF Idle
    <2>3. ~Request(j)'
        BY <2>2 DEF Request, Busy
    <2>4. \A b \in Account : ~Owes(j, b)
        BY <1>4, <2>1 DEF Owes
    <2>5. \A b \in Account : Live(b)' => Own(b)'
        BY <2>4, OwnMoved
    <2> QED
        BY <1>5, <2>3, <2>5, HomeMove
<1>7. ASSUME NEW e \in {"again", EditOf(k.kind)}, k.todo = <<"created", e>>, <<e>> \in Plans(k.kind)
      PROVE  HomeInv'
    <2>1. t = <<e>> /\ Head(k.todo) = "created" /\ Head(<<e>>) = e
        BY <1>7
    <2>2. job'[j] = At(k, k.at, <<e>>)
        BY <2>1 DEF AskOver
    <2>3. /\ job'[j].step = Opens(e) /\ job'[j].kind = k.kind /\ job'[j].at = k.at
          /\ job'[j].who = k.who /\ job'[j].mail = k.mail /\ job'[j].sure = k.sure
          /\ job'[j].todo = <<e>>
        <3> HIDE DEF k
        <3> QED
            BY <1>1, <1>7, <2>1, <2>2, AtShaped
    <2>4. Opens(e) \in {"look", "resolve", "find", "read"} /\ (k.kind = "invite" => Opens(e) # "find")
        BY <1>1, <1>4 DEF Asking
    <2>5. Request(j)'
        BY <1>1, <2>3, <2>4 DEF Request, Busy, Asking
    <2>6. AskOk(j)'
        <3>1. /\ job'[j].who \in Person /\ job'[j].mail \in Person
              /\ job'[j].mail = IF job'[j].kind = "oidc" THEN word'[job'[j].who].mail ELSE job'[j].who
              /\ job'[j].sure => job'[j].mail = job'[j].who
            BY <1>1, <1>3, <2>3
        <3>2. user'[job'[j].at].born # 0 =>
                 /\ holder'[job'[j].at] = job'[j].who \/ word'[holder'[job'[j].at]].moved
                 /\ job'[j].kind = "oidc" => user'[job'[j].at].sub = job'[j].who
            <4>1. Kept(k.at) /\ (user'[k.at].born # 0 => Live(k.at))
                BY <1>1 DEF Live
            <4> QED
                BY <1>3, <2>1, <2>3, <4>1 DEF Kept, Home, Moved
        <3> QED
            BY <3>1, <3>2 DEF AskOk, Live, Home, Moved
    <2>7. PutOk(j)'
        <3>1. job'[j].step # "patch" /\ (job'[j].kind = "invite" => job'[j].step # "find")
            BY <2>3, <2>4
        <3> QED
            BY <3>1 DEF PutOk
    <2>8. ASSUME NEW b \in Account, Owes(j, b) PROVE Owes(j, b)'
        <3>1. k.kind = "oidc" /\ k.at = b
            BY <2>8 DEF Owes
        <3>2. e = "again" \/ Opens(e) = "find"
            BY <1>4, <3>1
        <3> QED
            BY <2>1, <2>3, <2>5, <3>1, <3>2 DEF Owes
    <2>9. \A b \in Account : Live(b)' => Own(b)'
        BY <2>8, OwnMoved
    <2> QED
        BY <1>5, <2>6, <2>7, <2>9, HomeMove
<1>8. k.todo # <<"again">>
    BY <1>1
<1> QED
    BY <1>1, <1>6, <1>7, <1>8, AskPlan

LEMMA EndHome ==
    ASSUME Base, Base', HomeInv, NEW j \in Task, NEW jobs, Over(j, jobs), clean' = clean,
           job[j].step \in {"read", "write"},
           \A i \in Task : jobs[i] \in {job[i], [job[i] EXCEPT !.fresh = FALSE]},
           \A a \in Account : Kept(a) /\ Live(a)' = Live(a), word' = word
    PROVE  HomeInv'
<1>1. \A i \in Slot : i # j => Same(i)
    BY MailerTask, OutdatedSame DEF Over
<1>2. CASE WatchOver(j, jobs) \/ UniqueOver(j, jobs)
    <2>1. entered' = entered /\ job[j].kind \in {"watch", "unique"} /\ (j \in Slot => job'[j] = Idle)
        BY <1>2, MailerTask DEF WatchOver, UniqueOver
    <2>2. \A i \in Slot : (Request(i)' => Request(i)) /\ (clean' /\ Request(i) => Same(i))
        <3> SUFFICES ASSUME NEW i \in Slot
                     PROVE  (Request(i)' => Request(i)) /\ (Request(i) => Same(i))
            OBVIOUS
        <3>1. CASE i # j
            BY <1>1, <3>1 DEF Same, Request, Busy
        <3>2. CASE i = j
            BY <2>1, <3>2 DEF Request, Busy, Idle
        <3> QED
            BY <3>1, <3>2
    <2>3. \A e \in entered' : e \in entered /\ Live(e[2])'
        BY <2>1 DEF HomeInv, Base, TypeOK
    <2>4. ~clean' => entered' = {}
        BY <2>1 DEF HomeInv
    <2> QED
        BY <2>2, <2>3, <2>4, HomeFrame
<1>3. CASE AskOver(j, jobs)
    <2>1. CASE ~clean
        BY <1>3, <2>1, HomeSpoiled DEF AskOver, HomeInv, Base, TypeOK
    <2>2. CASE clean
        <3>1. j \in Slot /\ Request(j)
            BY <1>3, MailerTask DEF AskOver, Request, Busy, Asking
        <3>2. \A i \in Slot : i # j /\ Request(i)' => Request(i)
            BY <1>1 DEF Same, Request, Busy
        <3> QED
            BY <1>3, <2>2, <3>1, <3>2, AskEnd
    <2> QED
        BY <2>1, <2>2
<1> QED
    BY <1>2, <1>3 DEF Over

(* A handler ends, or is broken off, and writes no user. *)
LEMMA QuitHome ==
    ASSUME Base, Base', HomeInv, NEW j \in Task, (Over(j, job) /\ clean' = clean) \/ Broken(j),
           job[j].step \in {"read", "write"}, UNCHANGED <<user, holder, word>>
    PROVE  HomeInv'
<1>1. \A a \in Account : Kept(a) /\ Live(a)' = Live(a)
    BY KeptUser
<1> QED
    BY <1>1, EndHome, HomeSpoiled DEF Broken

(* A handler goes from its read to its write, or back. *)
LEMMA TurnHome ==
    ASSUME Base, Base', HomeInv, NEW j \in Task,
           job[j].step \in {"read", "write"}, job'[j].step \in {"read", "write"},
           job'[j].kind = job[j].kind, job'[j].who = job[j].who, job'[j].mail = job[j].mail,
           job'[j].sure = job[j].sure, job'[j].at = job[j].at, job'[j].todo = job[j].todo,
           \A i \in Task : i # j => job'[i] = job[i],
           UNCHANGED <<user, holder, word, clean, entered>>
    PROVE  HomeInv'
<1>1. CASE j \in Slot /\ Request(j)
    <2>1. PutOk(j)'
        BY DEF PutOk
    <2> QED
        BY <1>1, <2>1, MoveHome
<1>2. CASE ~(j \in Slot /\ Request(j))
    <2>1. \A i \in Slot : (Request(i)' => Request(i)) /\ (clean' /\ Request(i) => Same(i))
        <3> SUFFICES ASSUME NEW i \in Slot
                     PROVE  (Request(i)' => Request(i)) /\ (Request(i) => Same(i))
            OBVIOUS
        <3>1. CASE i # j
            BY <3>1, MailerTask DEF Same, Request, Busy
        <3>2. CASE i = j
            BY <1>2, <3>2 DEF Request, Busy
        <3> QED
            BY <3>1, <3>2
    <2>2. \A a \in Account : Live(a)' => Live(a) /\ Kept(a)
        BY KeptUser
    <2>3. \A e \in entered' : e \in entered /\ Live(e[2])'
        BY DEF HomeInv, Live
    <2>4. ~clean' => entered' = {}
        BY DEF HomeInv
    <2> QED
        BY <2>1, <2>2, <2>3, <2>4, HomeFrame
<1> QED
    BY <1>1, <1>2

LEMMA ReadHome ==
    ASSUME Base, HomeInv, NEW j \in Task, Read(j)
    PROVE  HomeInv'
<1>1. Base' /\ UNCHANGED <<user, holder, word>> /\ job[j].step = "read"
    BY ReadBase DEF Read
<1>2. CASE /\ job'[j] = [job[j] EXCEPT !.step = "write", !.fresh = TRUE,
                                       !.want = Intended(job[j], user[job[j].at])]
           /\ \A i \in Task : i # j => job'[i] = job[i]
           /\ UNCHANGED <<again, verdict, entered, clean>>
    <2> DEFINE w == Intended(job[j], user[job[j].at])
    <2> HIDE DEF w
    <2>1. job'[j] = [job[j] EXCEPT !.step = "write", !.fresh = TRUE, !.want = w] /\ job[j] \in Job
        BY <1>2, JobFacts DEF w
    <2>2. /\ job'[j].step = "write" /\ job'[j].kind = job[j].kind /\ job'[j].who = job[j].who
          /\ job'[j].mail = job[j].mail /\ job'[j].sure = job[j].sure /\ job'[j].at = job[j].at
          /\ job'[j].todo = job[j].todo
        BY <2>1 DEF Job
    <2> QED
        BY <1>1, <1>2, <2>2, TurnHome
<1>3. CASE (Over(j, job) /\ clean' = clean) \/ Broken(j)
    BY <1>1, <1>3, QuitHome
<1> QED
    BY <1>2, <1>3, ReadBase

LEMMA RefusedHome ==
    ASSUME Base, HomeInv, NEW j \in Task, Refused(j)
    PROVE  HomeInv'
<1>1. Base' /\ UNCHANGED <<user, holder, word>> /\ job[j].step = "write"
    BY RefusedBase DEF Refused
<1>2. CASE /\ job'[j] = [job[j] EXCEPT !.step = "read", !.try = @ + 1, !.want = Blank]
           /\ \A i \in Task : i # j => job'[i] = job[i]
           /\ UNCHANGED <<again, verdict, entered, clean, missed>>
    <2>1. job[j] \in Job
        BY JobFacts
    <2>2. /\ job'[j].step = "read" /\ job'[j].kind = job[j].kind /\ job'[j].who = job[j].who
          /\ job'[j].mail = job[j].mail /\ job'[j].sure = job[j].sure /\ job'[j].at = job[j].at
          /\ job'[j].todo = job[j].todo
        BY <1>2, <2>1 DEF Job
    <2> QED
        BY <1>1, <1>2, <2>2, TurnHome
<1>3. CASE (Over(j, job) /\ clean' = clean) \/ Broken(j)
    BY <1>1, <1>3, QuitHome
<1> QED
    BY <1>2, <1>3, RefusedBase

(* No request moves, and no user changes. *)
LEMMA StillHome ==
    ASSUME Base, Base', HomeInv, UNCHANGED <<user, holder, word>>,
           clean' = clean, entered' = entered \/ (~clean' /\ entered' = {}),
           \A i \in Slot : \/ job'[i] = job[i]
                           \/ ~Request(i) /\ ~Request(i)'
    PROVE  HomeInv'
<1>1. \A i \in Slot : (Request(i)' => Request(i)) /\ (clean' /\ Request(i) => Same(i))
    BY DEF Same, Request, Busy
<1>2. \A a \in Account : Live(a)' => Live(a) /\ Kept(a)
    BY KeptUser
<1>3. \A e \in entered' : e \in entered /\ Live(e[2])'
    BY DEF HomeInv, Live
<1>4. ~clean' => entered' = {}
    BY DEF HomeInv
<1> QED
    BY <1>1, <1>2, <1>3, <1>4, HomeFrame

(* Only a magic link writes a verification. *)
LEMMA ProofEdit ==
    ASSUME Base, NEW j \in Task, job[j].step \in {"read", "write"}, Head(job[j].todo) = "proof"
    PROVE  j \in Slot /\ Request(j) /\ job[j].kind = "link"
<1> DEFINE k == job[j]
<1>1. k.todo \in Plans(k.kind) /\ k.kind \in Kind /\ (j = "mailer" <=> k.kind = "unique")
    BY JobFacts DEF Job, Busy
<1>2. k.kind \in Asking /\ EditOf(k.kind) = "proof"
    <2>1. CASE k.kind \notin Asking
        <3>1. k.todo = <<EditOf(k.kind)>> /\ k.kind \in {"watch", "unique"}
            BY <1>1, <2>1 DEF Plans, Kind, Asking
        <3>2. EditOf(k.kind) \in {"created", "condition"}
            BY <3>1 DEF EditOf
        <3> QED
            BY <3>1, <3>2
    <2>2. CASE k.kind \in Asking
        <3> HIDE DEF k
        <3>1. \/ k.todo = <<EditOf(k.kind)>> \/ k.todo = <<"again">>
              \/ \E e \in {"again", EditOf(k.kind)} : k.todo = <<"created", e>>
            BY <1>1, <2>2, AskPlan
        <3> QED
            BY <2>2, <3>1 DEF k
    <2> QED
        BY <2>1, <2>2
<1>3. k.kind = "link"
    BY <1>2 DEF EditOf, Asking
<1> QED
    BY <1>1, <1>3, MailerTask DEF Request, Busy

LEMMA WriteHome ==
    ASSUME Base, FreshInv, HomeInv, NEW j \in Task, Write(j)
    PROVE  HomeInv'
<1> DEFINE k == job[j]
           a == k.at
           jobs == Outdate(job, a)
<1>1. /\ k.step = "write" /\ Live(a) /\ UNCHANGED <<holder, word, clean>>
      /\ Over(j, jobs) /\ Base' /\ a \in Account
    BY WriteBase DEF Write
<1>2. /\ user'[a] = [user[a] EXCEPT !.status = Intended(k, user[a])]
      /\ user'[a].born = user[a].born
      /\ \A b \in Account : b # a => user'[b] = user[b]
    BY WrittenUser
<1>3. CASE ~clean
    <2>1. entered' = {} /\ clean' = FALSE
        BY <1>1, <1>3 DEF Over, WatchOver, UniqueOver, AskOver, HomeInv, Base, TypeOK
    <2> QED
        BY <2>1, HomeSpoiled
<1>4. CASE clean
    <2>1. ~Moved(a) => Intended(k, user[a]).proven \subseteq user[a].status.proven \cup {holder[a]}
        <3>1. CASE Head(k.todo) = "proof"
            <4>1. j \in Slot /\ Request(j) /\ k.kind = "link"
                BY <1>1, <3>1, ProofEdit
            <4>2. AskOk(j)
                BY <1>4, <4>1 DEF HomeInv
            <4>3. ~Moved(a) => k.mail = holder[a]
                BY <1>1, <4>1, <4>2, AccountsAssumption DEF AskOk, Home
            <4> QED
                BY <3>1, <4>3 DEF Intended
        <3>2. CASE Head(k.todo) # "proof"
            BY <3>2 DEF Intended
        <3> QED
            BY <3>1, <3>2
    <2>2. ASSUME NEW b \in Account PROVE Kept(b) /\ Live(b)' = Live(b)
        <3>1. CASE b # a
            BY <1>1, <1>2, <3>1, KeptUser
        <3>2. CASE b = a
            <4> DEFINE u == user[b]
                       w == Intended(k, u)
            <4>1. user'[b] = [u EXCEPT !.status = w] /\ u \in User
                BY <1>2, <3>2 DEF Base, TypeOK
            <4>2. ~Moved(b) => w.proven \subseteq u.status.proven \cup {holder[b]}
                BY <2>1, <3>2
            <4> HIDE DEF u, w
            <4>3. /\ user'[b].bare = u.bare /\ user'[b].github = u.github
                  /\ user'[b].gid = u.gid /\ user'[b].sub = u.sub /\ user'[b].identity = u.identity
                  /\ user'[b].spec = u.spec /\ user'[b].status = w /\ user'[b].born = u.born
                BY <4>1 DEF User
            <4>4. holder'[b] = holder[b]
                BY <1>1
            <4> QED
                BY <4>2, <4>3, <4>4 DEF Kept, Live, u
        <3> QED
            BY <3>1, <3>2
    <2>3. \A i \in Task : jobs[i] \in {job[i], [job[i] EXCEPT !.fresh = FALSE]}
        BY DEF Outdate
    <2> HIDE DEF jobs
    <2> QED
        BY <1>1, <2>2, <2>3, EndHome
<1> QED
    BY <1>3, <1>4

LEMMA FailHome ==
    ASSUME Base, HomeInv, NEW j \in Task, Fail(j)
    PROVE  HomeInv'
<1>1. Base' /\ UNCHANGED <<user, holder, word>>
    BY FailBase DEF Fail
<1>2. CASE job[j].step \in {"read", "write"} /\ ((Over(j, job) /\ clean' = clean) \/ Broken(j))
    BY <1>1, <1>2, QuitHome
<1>3. CASE /\ job'[j] \in {Idle, Listing} /\ (j # "mailer" => job'[j] = Idle)
           /\ SpoiledIf(j # "mailer")
           /\ \A i \in Task : i # j => job'[i] = job[i]
    <2>1. CASE j # "mailer"
        BY <1>3, <2>1, HomeSpoiled DEF SpoiledIf
    <2>2. CASE j = "mailer"
        <3>1. clean' = clean /\ entered' = IF clean' THEN entered ELSE {}
            BY <1>3, <2>2 DEF SpoiledIf, Base, TypeOK
        <3>2. \A i \in Slot : job'[i] = job[i]
            BY <1>3, <2>2, MailerTask
        <3> QED
            BY <1>1, <3>1, <3>2, StillHome
    <2> QED
        BY <2>1, <2>2
<1> QED
    BY <1>2, <1>3, FailBase

LEMMA DeliverHome ==
    ASSUME Base, HomeInv, NEW j \in Slot, Deliver(j)
    PROVE  HomeInv'
<1>1. /\ Base' /\ ~Busy(j) /\ UNCHANGED <<user, holder, word, clean, entered>>
    BY DeliverBase DEF Deliver
<1>2. CASE job'[j].kind = "watch" /\ \A i \in Task : i # j => job'[i] = job[i]
    <2>1. \A i \in Slot : job'[i] = job[i] \/ (~Request(i) /\ ~Request(i)')
        BY <1>1, <1>2, MailerTask DEF Request
    <2> QED
        BY <1>1, <2>1, StillHome
<1>3. CASE \A i \in Slot : job'[i] = job[i]
    BY <1>1, <1>3, StillHome
<1> QED
    BY <1>2, <1>3, DeliverBase

LEMMA VouchHome ==
    ASSUME Base, HomeInv, NEW a \in Account, Vouch(a)
    PROVE  HomeInv'
<1> DEFINE s == IF user[a].spec = Nobody THEN holder[a] ELSE Nobody
<1>1. /\ user' = [user EXCEPT ![a].spec = s] /\ Live(a)
      /\ UNCHANGED <<holder, word, clean, entered>>
    BY DEF Vouch
<1>2. Base' /\ user[a] \in User /\ user \in [Account -> User] /\ s \in {Nobody, holder[a]}
    BY VouchBase DEF Base, TypeOK
<1> HIDE DEF s
<1>3. \A i \in Slot : Same(i)
    BY VouchBase, OutdatedSame, MailerTask
<1>4. ASSUME NEW b \in Account PROVE Kept(b) /\ Live(b)' = Live(b)
    <2>1. CASE b # a
        BY <1>1, <1>2, <2>1, KeptUser
    <2>2. CASE b = a
        <3> DEFINE u == user[a]
        <3>1. user'[a] = [u EXCEPT !.spec = s] /\ u \in User
            BY <1>1, <1>2
        <3> HIDE DEF u
        <3>2. /\ user'[a].bare = u.bare /\ user'[a].github = u.github
              /\ user'[a].gid = u.gid /\ user'[a].sub = u.sub /\ user'[a].identity = u.identity
              /\ user'[a].spec = s /\ user'[a].status = u.status /\ user'[a].born = u.born
            BY <3>1 DEF User
        <3> QED
            BY <1>1, <1>2, <2>2, <3>2 DEF Kept, Live, u
    <2> QED
        BY <2>1, <2>2
<1>5. \A i \in Slot : (Request(i)' => Request(i)) /\ (clean' /\ Request(i) => Same(i))
    BY <1>3 DEF Same, Request, Busy
<1>6. \A e \in entered' : e \in entered /\ Live(e[2])'
    BY <1>1, <1>4 DEF HomeInv, Base, TypeOK
<1>7. ~clean' => entered' = {}
    BY <1>1 DEF HomeInv
<1> QED
    BY <1>1, <1>2, <1>4, <1>5, <1>6, <1>7, HomeFrame

LEMMA DeleteHome ==
    ASSUME Base, HomeInv, NEW a \in Account, Delete(a)
    PROVE  HomeInv'
<1>1. /\ user' = [user EXCEPT ![a] = Absent] /\ holder' = [holder EXCEPT ![a] = Nobody]
      /\ entered' = {e \in entered : e[2] # a} /\ UNCHANGED <<word, clean>>
    BY DEF Delete
<1>2. Base' /\ user \in [Account -> User] /\ holder \in [Account -> Address]
      /\ entered \subseteq Person \X Account
    BY DeleteBase DEF Base, TypeOK
<1>3. \A i \in Slot : Same(i)
    BY DeleteBase, OutdatedSame, MailerTask
<1>4. \A b \in Account : b # a => Kept(b) /\ Live(b)' = Live(b)
    BY <1>1, <1>2, KeptUser
<1>5. ~Live(a)'
    BY <1>1, <1>2 DEF Live, Absent
<1>6. \A b \in Account : Live(b)' => Live(b) /\ Kept(b)
    BY <1>4, <1>5
<1>7. \A i \in Slot : (Request(i)' => Request(i)) /\ (clean' /\ Request(i) => Same(i))
    BY <1>3 DEF Same, Request, Busy
<1>8. ASSUME NEW e \in entered' PROVE e \in entered /\ Live(e[2])'
    <2>1. e \in entered /\ e[2] # a /\ e[2] \in Account
        BY <1>1, <1>2, <1>8
    <2> QED
        BY <1>4, <2>1 DEF HomeInv
<1>9. ~clean' => entered' = {}
    BY <1>1 DEF HomeInv
<1> QED
    BY <1>1, <1>2, <1>6, <1>7, <1>8, <1>9, HomeFrame

LEMMA RestartHome ==
    ASSUME Base, HomeInv, Restart
    PROVE  HomeInv'
<1> DEFINE laps == \E j \in Slot : Request(j)
<1>1. Base' /\ (\A i \in Task : job'[i] = Idle) /\ UNCHANGED <<user, holder, word>>
    BY RestartBase DEF Restart
<1>2. SpoiledIf(laps)
    BY DEF Restart
<1>3. CASE laps
    <2>1. clean' = FALSE /\ entered' = {}
        BY <1>2, <1>3 DEF SpoiledIf
    <2> QED
        BY <2>1, HomeSpoiled
<1>4. CASE ~laps
    <2>1. clean' = clean /\ entered' = IF clean' THEN entered ELSE {}
        BY <1>2, <1>4 DEF SpoiledIf, Base, TypeOK
    <2>2. \A i \in Slot : ~Request(i) /\ ~Request(i)'
        BY <1>1, <1>4, MailerTask DEF Request, Busy, Idle
    <2> QED
        BY <1>1, <2>1, <2>2, StillHome
<1> QED
    BY <1>3, <1>4

LEMMA HomeStep ==
    ASSUME Base, FreshInv, HomeInv, [Next]_vars
    PROVE  HomeInv'
<1>1. ASSUME NEW j \in Slot, SignIn(j) \/ Invite(j) \/ Resolve(j) \/ Create(j) \/ Deliver(j)
      PROVE  HomeInv'
    BY <1>1, StartHome, ResolveHome, CreateHome, DeliverHome
<1>2. ASSUME NEW j \in Task, Step(j) \/ Fail(j) PROVE HomeInv'
    <2>1. ASSUME Vanished(j) PROVE HomeInv'
        BY <2>1, VanishedBase, SpoiledTrue, HomeSpoiled
    <2> QED
        BY <1>2, <2>1, LookHome, FindHome, PatchHome, ReadHome, WriteHome, RefusedHome, FailHome DEF Step
<1>3. CASE Mailer
    <2>1. Base' /\ UNCHANGED <<user, holder, word, clean, entered>> /\ \A i \in Slot : job'[i] = job[i]
        BY <1>3, MailerBase DEF Mailer
    <2> QED
        BY <2>1, StillHome
<1>4. ASSUME NEW a \in Account, Vouch(a) \/ Delete(a) PROVE HomeInv'
    BY <1>4, VouchHome, DeleteHome
<1>5. CASE Restart
    BY <1>5, RestartHome
<1>6. CASE UNCHANGED vars
    <2>1. UNCHANGED <<user, holder, word, clean, entered, job>>
        BY <1>6 DEF vars
    <2>2. Base'
        BY BaseStep
    <2> QED
        BY <2>1, <2>2, StillHome
<1> QED
    BY <1>1, <1>2, <1>3, <1>4, <1>5, <1>6 DEF Next

(* Requests that come one at a time and run to their end never sign a       *)
(* person in to a user made for another, unless the upstream of that other  *)
(* has asserted two addresses: until then a user shows the addresses of its *)
(* person and the one its upstream asserts, and that links to nobody.       *)
THEOREM EntersHome == Spec => []HomeOnly
<1>1. Init => Base /\ FreshInv /\ HomeInv
    <2>1. Init => \A j \in Slot : ~Request(j)
        BY MailerTask DEF Init, Request, Busy, Idle
    <2>2. Init => entered = {} /\ \A a \in Account : ~Live(a)
        BY DEF Init, Live, Absent
    <2>3. Init => HomeInv
        BY <2>1, <2>2 DEF HomeInv
    <2> QED
        BY <2>3, BaseInit, FreshInit
<1>2. Base /\ FreshInv /\ HomeInv /\ [Next]_vars => (Base /\ FreshInv /\ HomeInv)'
    BY BaseStep, FreshStep, HomeStep
<1>3. HomeInv => HomeOnly
    BY DEF HomeInv, HomeOnly, Home, Moved
<1> QED
    BY <1>1, <1>2, <1>3, PTL DEF Spec

=============================================================================
