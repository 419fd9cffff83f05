------------------------------ MODULE ScimProofs ------------------------------
(***************************************************************************)
(* What Scim keeps for any subjects, accounts, groups, handlers and bounds: *)
(* its types, that a linked subject stays with its account, that a group    *)
(* deleted is a group without members, that a disabled connection grants    *)
(* nothing once its revocation is done, and that handlers that come one at  *)
(* a time leave every linked account with what the directory says.          *)
(***************************************************************************)
EXTENDS Scim, TLAPS

(***************************************************************************)
(* Types.  What a handler holds depends on where it is and whose it is.    *)
(***************************************************************************)

Identity == [known : BOOLEAN, active : BOOLEAN, granted : BOOLEAN]

Shaped(j, k) ==
    /\ k.req.op \in GroupOps => k.req.g \in Group
    /\ k.step = "link" => k.req.s \in Subject /\ k.req.a \in Account
    /\ k.step \in {"locate", "project"} => k.now \subseteq View
    /\ k.step = "patch" => k.now \subseteq Edit
    /\ k.todo \subseteq (IF j = "operator" THEN View ELSE Edit)

JobsTyped(jobs) == jobs \in [Task -> Job] /\ \A j \in Task : Shaped(j, jobs[j])

TypeInv ==
    /\ subject \in [Subject -> Record]
    /\ group \in [Group -> {"none", "live", "gone"}]
    /\ account \in [Account -> Identity]
    /\ claim \in [Account -> Subject]
    /\ JobsTyped(job)

LEMMA NullTypes ==
    /\ NoRequest \in Request /\ NoPut \in Put /\ Idle \in Job
    /\ \A j \in Task : Shaped(j, Idle)
<1>1. NoRequest \in Request
  BY DEF NoRequest, Request
<1>2. NoPut \in Put
  BY DEF NoPut, Put, Maybe
<1>3. Idle \in Job
  BY <1>1, <1>2 DEF Idle, Job, Maybe
<1> QED BY <1>1, <1>2, <1>3 DEF Idle, Shaped, NoRequest, GroupOps

(* A handler goes on to a job of its shape. *)
LEMMA SetJob ==
    ASSUME NEW jobs, JobsTyped(jobs), NEW j \in Task, NEW k \in Job, Shaped(j, k)
    PROVE  JobsTyped([jobs EXCEPT ![j] = k])
BY DEF JobsTyped

LEMMA OutdateTyped ==
    ASSUME NEW jobs, JobsTyped(jobs), NEW s
    PROVE  JobsTyped(Outdate(jobs, s))
<1> SUFFICES ASSUME NEW i \in Task
             PROVE  Outdate(jobs, s)[i] \in Job /\ Shaped(i, Outdate(jobs, s)[i])
  BY DEF Outdate, JobsTyped
<1>1. jobs[i] \in Job /\ Shaped(i, jobs[i])
  BY DEF JobsTyped
<1>2. [jobs[i] EXCEPT !.fresh = FALSE] \in Job /\ Shaped(i, [jobs[i] EXCEPT !.fresh = FALSE])
  BY <1>1 DEF Job, Shaped
<1> QED BY <1>1, <1>2 DEF Outdate

LEMMA FinishTyped ==
    ASSUME NEW jobs, JobsTyped(jobs), NEW j \in Task, job' = [jobs EXCEPT ![j] = Idle]
    PROVE  JobsTyped(job')
BY NullTypes, SetJob

LEMMA AdvanceTyped ==
    ASSUME NEW jobs, JobsTyped(jobs), NEW j \in Task, Advance(j, jobs)
    PROVE  JobsTyped(job')
<1> DEFINE next == IF jobs[j].todo # {} THEN "next" ELSE AfterMembers(jobs[j].req.op)
<1>1. CASE next = "idle"
  <2>1. job' = [jobs EXCEPT ![j] = Idle]
    BY <1>1 DEF Advance, Finish
  <2> QED BY <2>1, FinishTyped
<1>2. CASE next # "idle"
  <2> DEFINE k == [jobs[j] EXCEPT !.step = next, !.now = {}, !.put = NoPut]
  <2>1. jobs[j] \in Job /\ Shaped(j, jobs[j])
    BY DEF JobsTyped
  <2>2. next \in {"next", "mark"}
    BY <1>2 DEF AfterMembers
  <2>3. k \in Job
    BY <2>1, <2>2, NullTypes DEF Job, Maybe
  <2>4. k.step \in {"next", "mark"} /\ k.req = jobs[j].req /\ k.todo = jobs[j].todo
    BY <2>1, <2>2 DEF Job
  <2>5. Shaped(j, k)
    BY <2>1, <2>4 DEF Shaped
  <2>6. job' = [jobs EXCEPT ![j] = k]
    BY <1>2, <2>1 DEF Advance, Job, JobsTyped
  <2> HIDE DEF k
  <2> QED BY <2>3, <2>5, <2>6, SetJob
<1> QED BY <1>1, <1>2

(* What a patch carries, and what it leaves. *)
LEMMA ChangeTyped ==
    ASSUME NEW new \in BOOLEAN, NEW old
    PROVE  Change(new, old) \in Maybe(BOOLEAN)
BY DEF Change, Maybe

LEMMA AppliedTyped ==
    ASSUME NEW change \in Maybe(BOOLEAN), NEW old \in BOOLEAN
    PROVE  Applied(change, old) \in BOOLEAN
<1>1. CASE change = {}
  BY <1>1 DEF Applied
<1>2. CASE change # {}
  <2>1. PICK new \in BOOLEAN : change = {new}
    BY <1>2 DEF Maybe
  <2>2. (CHOOSE x \in change : TRUE) \in change
    BY <2>1
  <2> QED BY <1>2, <2>1, <2>2 DEF Applied
<1> QED BY <1>1, <1>2

LEMMA GrantedTyped ==
    ASSUME NEW active, NEW groups PROVE Granted(active, groups) \in BOOLEAN
BY DEF Granted

(* A handler begins with nothing. *)
LEMMA AtType ==
    ASSUME NEW step \in {"create", "mark", "list", "next", "link", "locate"}
    PROVE  At(step) \in Job /\ At(step).step = step /\ At(step).todo = {} /\ At(step).now = {}
BY NullTypes DEF At, Idle, Job

(* A request begins with a job of its shape. *)
LEMMA BeginTyped ==
    ASSUME TypeInv, NEW j \in Slot, NEW req \in Request, NEW next \in Job,
           Shaped(j, [next EXCEPT !.req = req]), Begin(j, req, next)
    PROVE  TypeInv'
<1>1. [next EXCEPT !.req = req] \in Job
  BY DEF Job
<1>2. JobsTyped(job')
  BY <1>1, SetJob DEF Begin, TypeInv, Task
<1> QED BY <1>2 DEF Begin, TypeInv, JobsTyped

(* What each request begins with. *)
LEMMA UserBegins ==
    ASSUME TypeInv, NEW j \in Slot, UserRequest(j)
    PROVE  \E req \in Request, next \in Job :
              /\ Begin(j, req, next) /\ Shaped(j, [next EXCEPT !.req = req])
              /\ req.op \in {"active", "create"} /\ next.step \in {"create", "next"} /\ next.now = {}
              /\ \A t \in next.todo :
                    t \in Edit /\ t.s \in Made /\ t.groups = subject[t.s].groups /\ t.s = req.s
<1>1. PICK s \in Subject, on \in BOOLEAN :
         LET req == [NoRequest EXCEPT !.op = IF s \in Made THEN "active" ELSE "create",
                                      !.s = s, !.on = on] IN
         Begin(j, req, IF s \in Made
                       THEN [At("next") EXCEPT !.todo = {[s |-> s, active |-> on,
                                                          groups |-> subject[s].groups]}]
                       ELSE At("create"))
  BY DEF UserRequest
<1> DEFINE req == [NoRequest EXCEPT !.op = IF s \in Made THEN "active" ELSE "create",
                                    !.s = s, !.on = on]
           t == [s |-> s, active |-> on, groups |-> subject[s].groups]
           next == IF s \in Made THEN [At("next") EXCEPT !.todo = {t}] ELSE At("create")
<1>2. req \in Request /\ req.op \in {"active", "create"} /\ req.s = s
  BY DEF NoRequest, Request
<1>3. t \in Edit /\ t.s = s /\ t.groups = subject[s].groups
  BY DEF TypeInv, Record, Edit
<1>4. Begin(j, req, next)
  BY <1>1
<1> HIDE DEF req, t
<1>5. /\ next \in Job /\ next.step \in {"create", "next"} /\ next.now = {}
      /\ next.todo = IF s \in Made THEN {t} ELSE {}
  BY <1>3, AtType DEF Job
<1> HIDE DEF next
<1>6. Shaped(j, [next EXCEPT !.req = req])
  <2>1. /\ [next EXCEPT !.req = req].step = next.step
        /\ [next EXCEPT !.req = req].todo = next.todo /\ [next EXCEPT !.req = req].req = req
    BY <1>5 DEF Job
  <2> QED BY <1>2, <1>3, <1>5, <2>1, ScimAssumption DEF Shaped, GroupOps
<1> QED BY <1>2, <1>3, <1>4, <1>5, <1>6

(* A request of a group carries the group. *)
LEMMA GroupJob ==
    ASSUME NEW j \in Slot, NEW req \in Request, req.op \in GroupOps, req.g \in Group,
           NEW next \in Job, next.step \in {"mark", "list"}, next.todo = {}
    PROVE  Shaped(j, [next EXCEPT !.req = req])
BY DEF Shaped, Job, GroupOps

GroupBegun(j) ==
    \E req \in Request, next \in Job :
       /\ Begin(j, req, next) /\ Shaped(j, [next EXCEPT !.req = req])
       /\ req.op \in GroupOps /\ req.g \in Group /\ next.todo = {} /\ next.now = {}
       /\ \/ next.step = "mark" /\ req.op = "make"
          \/ next.step = "list" /\ group[req.g] = "live"

LEMMA GroupBegins == ASSUME TypeInv, NEW j \in Slot, GroupRequest(j) PROVE GroupBegun(j)
<1>1. PICK g \in Group :
         LET req == [NoRequest EXCEPT !.g = g] IN
         \/ /\ ~GroupFound(g)
            /\ \E of \in SUBSET Made :
                  Begin(j, [req EXCEPT !.op = "make", !.of = of],
                        [At("mark") EXCEPT !.was = group[g]])
         \/ /\ GroupFound(g)
            /\ \/ \E of \in SUBSET Made : Begin(j, [req EXCEPT !.op = "members", !.of = of], At("list"))
               \/ \E s \in Made, op \in {"add", "drop"} :
                     Begin(j, [req EXCEPT !.op = op, !.s = s], At("list"))
               \/ Begin(j, [req EXCEPT !.op = "delete"], At("list"))
  BY DEF GroupRequest
<1> DEFINE req == [NoRequest EXCEPT !.g = g]
<1>2. req \in Request /\ req.g = g
  BY DEF NoRequest, Request
<1>3. At("list") \in Job /\ At("list").step = "list" /\ At("list").todo = {} /\ At("list").now = {}
  BY AtType
<1>4. /\ [At("mark") EXCEPT !.was = group[g]] \in Job
      /\ [At("mark") EXCEPT !.was = group[g]].step = "mark"
      /\ [At("mark") EXCEPT !.was = group[g]].todo = {}
      /\ [At("mark") EXCEPT !.was = group[g]].now = {}
  BY AtType DEF Job, TypeInv
<1> HIDE DEF req
<1>5. \A of \in SUBSET Made, op \in {"make", "members"} :
         /\ [req EXCEPT !.op = op, !.of = of] \in Request
         /\ [req EXCEPT !.op = op, !.of = of].op = op
         /\ [req EXCEPT !.op = op, !.of = of].g = g
  BY <1>2 DEF Request, GroupOps, Made
<1>6. \A s \in Made, op \in {"add", "drop"} :
         /\ [req EXCEPT !.op = op, !.s = s] \in Request
         /\ [req EXCEPT !.op = op, !.s = s].op = op
         /\ [req EXCEPT !.op = op, !.s = s].g = g
  BY <1>2 DEF Request, GroupOps, Made
<1>7. /\ [req EXCEPT !.op = "delete"] \in Request /\ [req EXCEPT !.op = "delete"].op = "delete"
      /\ [req EXCEPT !.op = "delete"].g = g
  BY <1>2 DEF Request, GroupOps
<1>8. ASSUME NEW new \in Request, NEW next \in Job, new.g = g, next.todo = {}, next.now = {},
             Begin(j, new, next),
             \/ new.op = "make" /\ next.step = "mark"
             \/ new.op \in GroupOps /\ next.step = "list" /\ group[g] = "live"
      PROVE  GroupBegun(j)
  <2>1. new.op \in GroupOps /\ new.g \in Group
    BY <1>8 DEF GroupOps
  <2>2. Shaped(j, [next EXCEPT !.req = new])
    BY <1>8, <2>1, GroupJob
  <2> QED BY <1>8, <2>1, <2>2 DEF GroupBegun
<1>9. ASSUME NEW of \in SUBSET Made,
             Begin(j, [req EXCEPT !.op = "make", !.of = of], [At("mark") EXCEPT !.was = group[g]])
      PROVE  GroupBegun(j)
  BY <1>4, <1>5, <1>8, <1>9
<1>10. ASSUME GroupFound(g), NEW of \in SUBSET Made, Begin(j, [req EXCEPT !.op = "members", !.of = of], At("list"))
       PROVE  GroupBegun(j)
  BY <1>3, <1>5, <1>8, <1>10 DEF GroupFound, GroupOps
<1>11. ASSUME GroupFound(g), NEW s \in Made, NEW op \in {"add", "drop"},
              Begin(j, [req EXCEPT !.op = op, !.s = s], At("list"))
       PROVE  GroupBegun(j)
  <2>1. op \in GroupOps
    BY DEF GroupOps
  <2> QED BY <1>3, <1>6, <1>8, <1>11, <2>1 DEF GroupFound
<1>12. ASSUME GroupFound(g), Begin(j, [req EXCEPT !.op = "delete"], At("list"))
       PROVE  GroupBegun(j)
  BY <1>3, <1>7, <1>8, <1>12 DEF GroupFound, GroupOps
<1> QED BY <1>1, <1>9, <1>10, <1>11, <1>12 DEF req

LEMMA LinkBegins ==
    ASSUME TypeInv, NEW j \in Slot, Link(j)
    PROVE  \E req \in Request, next \in Job :
              /\ Begin(j, req, next) /\ Shaped(j, [next EXCEPT !.req = req])
              /\ req.op = "link" /\ req.s \in Subject /\ req.a \in Account /\ next.todo = {}
              /\ claim[req.a] = req.s /\ subject[req.s].made
              /\ \/ next.step = "link" /\ next.now = {} /\ subject[req.s].account = NoOne
                 \/ /\ next.step = "locate" /\ next.now = {Projection(subject[req.s])}
                    /\ subject[req.s].account = req.a
<1>1. PICK a \in Account :
         LET s == claim[a]
             req == [NoRequest EXCEPT !.op = "link", !.a = a, !.s = s]
         IN
         /\ s \in Made
         /\ \/ subject[s].account = NoOne /\ Begin(j, req, [At("link") EXCEPT !.fresh = TRUE])
            \/ subject[s].account = a /\ Begin(j, req, [At("locate") EXCEPT !.now = {Projection(subject[s])}])
  BY DEF Link
<1> DEFINE s == claim[a]
           req == [NoRequest EXCEPT !.op = "link", !.a = a, !.s = s]
           link == [At("link") EXCEPT !.fresh = TRUE]
           locate == [At("locate") EXCEPT !.now = {Projection(subject[s])}]
<1>2. s \in Subject /\ subject[s].made
  BY <1>1 DEF TypeInv, Made
<1>3. req \in Request /\ req.op = "link" /\ req.s = s /\ req.a = a
  BY <1>2 DEF NoRequest, Request
<1>4. link \in Job /\ link.step = "link" /\ link.todo = {} /\ link.now = {}
  BY AtType DEF Job
<1>5. ASSUME subject[s].account = a
      PROVE  locate \in Job /\ locate.step = "locate" /\ locate.todo = {}
             /\ locate.now = {Projection(subject[s])} /\ Projection(subject[s]) \in View
  <2>1. Projection(subject[s]) \in View
    BY <1>2, <1>5 DEF Projection, View, Record, TypeInv
  <2> QED BY <2>1, AtType DEF Job, Maybe
<1> HIDE DEF req, link, locate
<1>6. Shaped(j, [link EXCEPT !.req = req])
  BY <1>2, <1>3, <1>4 DEF Shaped, Job, GroupOps
<1>7. subject[s].account = a => Shaped(j, [locate EXCEPT !.req = req])
  BY <1>2, <1>3, <1>5 DEF Shaped, Job, GroupOps
<1>8. \/ subject[s].account = NoOne /\ Begin(j, req, link)
      \/ subject[s].account = a /\ Begin(j, req, locate)
  BY <1>1 DEF req, link, locate
<1> QED BY <1>2, <1>3, <1>4, <1>5, <1>6, <1>7, <1>8

LEMMA RequestTyped ==
    ASSUME TypeInv, NEW j \in Slot, UserRequest(j) \/ GroupRequest(j) \/ Link(j)
    PROVE  TypeInv'
BY UserBegins, GroupBegins, LinkBegins, BeginTyped DEF GroupBegun

(* A handler that only moves on. *)
LEMMA MarkTyped == ASSUME TypeInv, NEW j \in Slot, Mark(j) PROVE TypeInv'
<1> j \in Task
  BY DEF Task
<1>1. CASE job' = [job EXCEPT ![j] = Idle]
  BY <1>1, FinishTyped DEF Mark, TypeInv
<1>2. CASE job' = [job EXCEPT ![j].step = "list"]
  <2>1. job[j] \in Job /\ Shaped(j, job[j])
    BY DEF TypeInv, JobsTyped
  <2>2. [job[j] EXCEPT !.step = "list"] \in Job /\ Shaped(j, [job[j] EXCEPT !.step = "list"])
    BY <2>1 DEF Job, Shaped
  <2>3. JobsTyped(job')
    BY <1>2, <2>2, SetJob DEF TypeInv
  <2> QED BY <2>3 DEF Mark, TypeInv
<1> QED BY <1>1, <1>2 DEF Mark, Finish, Refuse

LEMMA CreateTyped == ASSUME TypeInv, NEW j \in Slot, CreateUser(j) PROVE TypeInv'
<1>1. JobsTyped(job')
  BY FinishTyped DEF CreateUser, Finish, Refuse, TypeInv, Task
<1>2. subject' \in [Subject -> Record]
  <2>1. CASE subject' = Provisioned(job[j].req.s, job[j].req.on)
    <3>1. job[j].req.on \in BOOLEAN
      BY DEF TypeInv, JobsTyped, Job, Request, Task
    <3>2. \A s \in Subject : [subject[s] EXCEPT !.made = TRUE, !.active = job[j].req.on,
                                !.granted = Granted(job[j].req.on, {})] \in Record
      BY <3>1, GrantedTyped DEF TypeInv, Record
    <3>3. subject' = [s \in Subject |->
             IF s = job[j].req.s
             THEN [subject[s] EXCEPT !.made = TRUE, !.active = job[j].req.on,
                                     !.granted = Granted(job[j].req.on, {})]
             ELSE subject[s]]
      BY <2>1 DEF Provisioned, TypeInv, Record
    <3> QED BY <3>2, <3>3 DEF TypeInv
  <2> QED BY <2>1 DEF CreateUser, TypeInv
<1> QED BY <1>1, <1>2 DEF CreateUser, TypeInv

LEMMA ListTyped == ASSUME TypeInv, NEW j \in Slot, ListMembers(j) \/ ListNothing(j) PROVE TypeInv'
<1> j \in Task
  BY DEF Task
<1>0. job[j] \in Job /\ Shaped(j, job[j])
  BY DEF TypeInv, JobsTyped
<1>1. CASE ListNothing(j)
  BY <1>1, AdvanceTyped DEF ListNothing, TypeInv
<1>2. CASE ListMembers(j)
  <2> DEFINE req == job[j].req
             groups(s) == IF s \in Wanted(req) THEN subject[s].groups \cup {req.g}
                          ELSE subject[s].groups \ {req.g}
             todo == {[s |-> s, active |-> subject[s].active, groups |-> groups(s)]
                        : s \in {x \in Made : (x \in Wanted(req)) # (x \in Members(req.g))}}
  <2>1. Advance(j, [job EXCEPT ![j].todo = todo])
    BY <1>2 DEF ListMembers
  <2>2. req.g \in Group
    BY <1>0, <1>2 DEF Shaped, ListMembers
  <2>3. \A s \in Made : s \in Subject /\ subject[s].active \in BOOLEAN /\ groups(s) \subseteq Group
    BY <2>2 DEF Made, TypeInv, Record
  <2>4. todo \subseteq Edit
    BY <2>3 DEF Edit
  <2> HIDE DEF todo
  <2>5. [job[j] EXCEPT !.todo = todo] \in Job /\ Shaped(j, [job[j] EXCEPT !.todo = todo])
    BY <1>0, <2>4, ScimAssumption DEF Job, Shaped
  <2>6. JobsTyped([job EXCEPT ![j].todo = todo])
    BY <2>5, SetJob DEF TypeInv
  <2> QED BY <1>2, <2>1, <2>6, AdvanceTyped DEF ListMembers, TypeInv
<1> QED BY <1>1, <1>2

LEMMA FindTyped == ASSUME TypeInv, NEW j \in Slot, FindSubject(j) PROVE TypeInv'
<1> j \in Task
  BY DEF Task
<1>0. job[j] \in Job /\ Shaped(j, job[j])
  BY DEF TypeInv, JobsTyped
<1>1. PICK t \in job[j].todo \cap Edit :
         job' = [job EXCEPT ![j].step = "patch", ![j].now = {t}, ![j].todo = @ \ {t},
                     ![j].put = [active |-> Change(t.active, subject[t.s].active),
                                 granted |-> Change(Granted(t.active, t.groups), subject[t.s].granted),
                                 add |-> t.groups \ subject[t.s].groups,
                                 drop |-> subject[t.s].groups \ t.groups]]
  BY DEF FindSubject
<1> DEFINE put == [active |-> Change(t.active, subject[t.s].active),
                   granted |-> Change(Granted(t.active, t.groups), subject[t.s].granted),
                   add |-> t.groups \ subject[t.s].groups,
                   drop |-> subject[t.s].groups \ t.groups]
           k == [job[j] EXCEPT !.step = "patch", !.now = {t}, !.todo = job[j].todo \ {t}, !.put = put]
<1>2. t.s \in Subject /\ t.active \in BOOLEAN /\ t.groups \subseteq Group
  BY DEF Edit
<1>3. subject[t.s].active \in BOOLEAN /\ subject[t.s].granted \in BOOLEAN /\ subject[t.s].groups \subseteq Group
  BY <1>2 DEF TypeInv, Record
<1>4. put \in Put
  BY <1>2, <1>3, ChangeTyped, GrantedTyped DEF Put
<1> HIDE DEF put
<1>5. k \in Job
  BY <1>0, <1>4 DEF Job, Maybe
<1>6. k.step = "patch" /\ k.now = {t} /\ k.todo = job[j].todo \ {t} /\ k.req = job[j].req
  BY <1>0 DEF Job
<1>7. Shaped(j, k)
  BY <1>0, <1>6 DEF Shaped
<1>8. job' = [job EXCEPT ![j] = k]
  BY <1>0, <1>1 DEF put, Job, TypeInv, JobsTyped
<1> HIDE DEF k
<1>9. JobsTyped(job')
  BY <1>5, <1>7, <1>8, SetJob DEF TypeInv
<1> QED BY <1>9 DEF FindSubject, TypeInv

(* A handler goes on to project what it has written, or has found linked. *)
LEMMA LocateTyped ==
    ASSUME NEW jobs, JobsTyped(jobs), NEW j \in Task, NEW v \in View,
           job' = [jobs EXCEPT ![j] = [jobs[j] EXCEPT !.step = "locate", !.put = NoPut, !.now = {v}]]
           \/ job' = [jobs EXCEPT ![j] = [jobs[j] EXCEPT !.step = "locate", !.now = {v}]]
    PROVE  JobsTyped(job')
<1>0. jobs[j] \in Job /\ Shaped(j, jobs[j])
  BY DEF JobsTyped
<1>1. PICK k : /\ k \in {[jobs[j] EXCEPT !.step = "locate", !.put = NoPut, !.now = {v}],
                         [jobs[j] EXCEPT !.step = "locate", !.now = {v}]}
               /\ job' = [jobs EXCEPT ![j] = k]
  OBVIOUS
<1>2. {v} \in Maybe(Edit \cup View)
  BY DEF Maybe
<1>3. k \in Job /\ k.step = "locate" /\ k.now = {v} /\ k.todo = jobs[j].todo /\ k.req = jobs[j].req
  BY <1>0, <1>1, <1>2, NullTypes DEF Job
<1>4. Shaped(j, k)
  BY <1>0, <1>3 DEF Shaped
<1> QED BY <1>1, <1>3, <1>4, SetJob

LEMMA PatchTyped == ASSUME TypeInv, NEW j \in Slot, PatchSubject(j) PROVE TypeInv'
<1> j \in Task
  BY DEF Task
<1>0. job[j] \in Job /\ Shaped(j, job[j]) /\ job[j].step = "patch"
  BY DEF TypeInv, JobsTyped, PatchSubject
<1>1. PICK t \in job[j].now :
         \/ /\ subject' = [subject EXCEPT
                   ![t.s].active = Applied(job[j].put.active, @),
                   ![t.s].granted = Applied(job[j].put.granted, @),
                   ![t.s].groups = (@ \ job[j].put.drop) \cup job[j].put.add]
            /\ \/ /\ Projected(t.s)
                  /\ job' = [Outdate(job, t.s) EXCEPT ![j].step = "locate", ![j].put = NoPut,
                                ![j].now = {Projection(subject'[t.s])}]
               \/ Advance(j, Outdate(job, t.s))
         \/ GiveUp(j) /\ UNCHANGED subject
  BY DEF PatchSubject
<1>2. t \in Edit /\ t.s \in Subject
  BY <1>0 DEF Shaped, Edit
<1>3. CASE GiveUp(j) /\ UNCHANGED subject
  BY <1>3, FinishTyped DEF GiveUp, PatchSubject, TypeInv
<1>4. CASE /\ subject' = [subject EXCEPT
                   ![t.s].active = Applied(job[j].put.active, @),
                   ![t.s].granted = Applied(job[j].put.granted, @),
                   ![t.s].groups = (@ \ job[j].put.drop) \cup job[j].put.add]
           /\ \/ /\ Projected(t.s)
                 /\ job' = [Outdate(job, t.s) EXCEPT ![j].step = "locate", ![j].put = NoPut,
                               ![j].now = {Projection(subject'[t.s])}]
              \/ Advance(j, Outdate(job, t.s))
  <2>1. subject[t.s] \in Record /\ job[j].put \in Put
    BY <1>0, <1>2 DEF TypeInv, Job
  <2> DEFINE new == [subject[t.s] EXCEPT
                        !.active = Applied(job[j].put.active, subject[t.s].active),
                        !.granted = Applied(job[j].put.granted, subject[t.s].granted),
                        !.groups = (subject[t.s].groups \ job[j].put.drop) \cup job[j].put.add]
  <2>2. /\ Applied(job[j].put.active, subject[t.s].active) \in BOOLEAN
        /\ Applied(job[j].put.granted, subject[t.s].granted) \in BOOLEAN
    BY <2>1, AppliedTyped DEF Put, Record
  <2>3. new \in Record /\ new.account = subject[t.s].account
    BY <2>1, <2>2 DEF Record, Put
  <2>4. subject' = [subject EXCEPT ![t.s] = new]
    BY <1>2, <1>4, <2>1 DEF Record, TypeInv
  <2> HIDE DEF new
  <2>5. subject' \in [Subject -> Record] /\ subject'[t.s] = new
    BY <1>2, <2>3, <2>4 DEF TypeInv
  <2>6. JobsTyped(Outdate(job, t.s))
    BY OutdateTyped DEF TypeInv
  <2>7. CASE Advance(j, Outdate(job, t.s))
    BY <2>5, <2>6, <2>7, AdvanceTyped DEF PatchSubject, TypeInv
  <2>8. CASE /\ Projected(t.s)
             /\ job' = [Outdate(job, t.s) EXCEPT ![j].step = "locate", ![j].put = NoPut,
                           ![j].now = {Projection(subject'[t.s])}]
    <3>1. Projection(subject'[t.s]) \in View
      BY <2>1, <2>3, <2>5, <2>8 DEF Projection, Projected, View, Record
    <3>2. job' = [Outdate(job, t.s) EXCEPT ![j] =
                    [Outdate(job, t.s)[j] EXCEPT !.step = "locate", !.put = NoPut,
                                                 !.now = {Projection(subject'[t.s])}]]
      <4>1. Outdate(job, t.s)[j] \in Job /\ Outdate(job, t.s) \in [Task -> Job]
        BY <2>6 DEF JobsTyped
      <4> QED BY <2>8, <4>1 DEF Job
    <3>3. JobsTyped(job')
      BY <2>6, <3>1, <3>2, LocateTyped
    <3> QED BY <2>5, <3>3 DEF PatchSubject, TypeInv
  <2> QED BY <1>4, <2>7, <2>8
<1> QED BY <1>1, <1>3, <1>4

LEMMA LinkWriteTyped == ASSUME TypeInv, NEW j \in Slot, LinkSubject(j) PROVE TypeInv'
<1> j \in Task
  BY DEF Task
<1>0. /\ job[j] \in Job /\ Shaped(j, job[j])
      /\ job[j].req.s \in Subject /\ job[j].req.a \in Account
  BY DEF TypeInv, JobsTyped, LinkSubject, Shaped
<1>1. CASE job' = [job EXCEPT ![j] = Idle] /\ UNCHANGED subject
  BY <1>1, FinishTyped DEF LinkSubject, TypeInv
<1>2. CASE /\ subject' = [subject EXCEPT ![job[j].req.s].account = job[j].req.a]
           /\ job' = [Outdate(job, job[j].req.s) EXCEPT ![j].step = "locate",
                         ![j].now = {Projection(subject'[job[j].req.s])}]
  <2> DEFINE s == job[j].req.s
             new == [subject[s] EXCEPT !.account = job[j].req.a]
  <2>1. subject[s] \in Record
    BY <1>0 DEF TypeInv
  <2>2. new \in Record /\ Projection(new) \in View
    BY <1>0, <2>1 DEF Record, Projection, View
  <2>3. subject' = [subject EXCEPT ![s] = new]
    BY <1>0, <1>2, <2>1 DEF Record, TypeInv
  <2> HIDE DEF new
  <2>4. subject' \in [Subject -> Record] /\ subject'[s] = new
    BY <1>0, <2>2, <2>3 DEF TypeInv
  <2>5. JobsTyped(Outdate(job, s))
    BY OutdateTyped DEF TypeInv
  <2>6. job' = [Outdate(job, s) EXCEPT ![j] =
                  [Outdate(job, s)[j] EXCEPT !.step = "locate", !.now = {Projection(subject'[s])}]]
    <3>1. Outdate(job, s)[j] \in Job /\ Outdate(job, s) \in [Task -> Job]
      BY <2>5 DEF JobsTyped
    <3> QED BY <1>2, <3>1 DEF Job
  <2>7. JobsTyped(job')
    BY <2>2, <2>4, <2>5, <2>6, LocateTyped
  <2> QED BY <2>4, <2>7 DEF LinkSubject, TypeInv
<1> QED BY <1>1, <1>2 DEF LinkSubject

LEMMA LocateStepTyped == ASSUME TypeInv, NEW j \in Task, Locate(j) PROVE TypeInv'
<1>0. job[j] \in Job /\ Shaped(j, job[j]) /\ job[j].step = "locate"
  BY DEF TypeInv, JobsTyped, Locate
<1>1. PICK v \in job[j].now :
         job' = [job EXCEPT ![j].step = "project",
                   ![j].put = [NoPut EXCEPT
                      !.active = IF account[v.a].known THEN Change(v.active, account[v.a].active)
                                 ELSE {v.active},
                      !.granted = Change(v.granted, account[v.a].granted)]]
  BY DEF Locate
<1> DEFINE put == [NoPut EXCEPT
                      !.active = IF account[v.a].known THEN Change(v.active, account[v.a].active)
                                 ELSE {v.active},
                      !.granted = Change(v.granted, account[v.a].granted)]
           k == [job[j] EXCEPT !.step = "project", !.put = put]
<1>2. v.a \in Account /\ v.active \in BOOLEAN /\ v.granted \in BOOLEAN
  BY <1>0 DEF Shaped, View
<1>3. {v.active} \in Maybe(BOOLEAN)
  BY <1>2 DEF Maybe
<1>4. put \in Put
  BY <1>2, <1>3, ChangeTyped, NullTypes DEF Put
<1> HIDE DEF put
<1>5. k \in Job /\ k.step = "project" /\ k.now = job[j].now /\ k.todo = job[j].todo /\ k.req = job[j].req
  BY <1>0, <1>4 DEF Job
<1>6. Shaped(j, k)
  BY <1>0, <1>5 DEF Shaped
<1>7. job' = [job EXCEPT ![j] = k]
  BY <1>0, <1>1 DEF put, Job, TypeInv, JobsTyped
<1> HIDE DEF k
<1>8. JobsTyped(job')
  BY <1>5, <1>6, <1>7, SetJob DEF TypeInv
<1> QED BY <1>8 DEF Locate, TypeInv

LEMMA ProjectTyped == ASSUME TypeInv, NEW j \in Task, Project(j) PROVE TypeInv'
<1>0. job[j] \in Job /\ Shaped(j, job[j]) /\ job[j].step = "project"
  BY DEF TypeInv, JobsTyped, Project
<1>1. PICK v \in job[j].now :
         \/ /\ account' = [account EXCEPT ![v.a] =
                  [known |-> TRUE, active |-> Applied(job[j].put.active, account[v.a].active),
                   granted |-> Applied(job[j].put.granted, account[v.a].granted)]]
            /\ Advance(j, job)
         \/ GiveUp(j) /\ UNCHANGED account
  BY DEF Project
<1>2. v.a \in Account /\ job[j].put \in Put /\ account[v.a] \in Identity
  BY <1>0 DEF Shaped, View, Job, TypeInv
<1>3. /\ Applied(job[j].put.active, account[v.a].active) \in BOOLEAN
      /\ Applied(job[j].put.granted, account[v.a].granted) \in BOOLEAN
  BY <1>2, AppliedTyped DEF Put, Identity
<1>4. account' \in [Account -> Identity]
  <2>1. [known |-> TRUE, active |-> Applied(job[j].put.active, account[v.a].active),
         granted |-> Applied(job[j].put.granted, account[v.a].granted)] \in Identity
    BY <1>3 DEF Identity
  <2> QED BY <1>1, <2>1 DEF TypeInv
<1>5. JobsTyped(job')
  BY <1>1, AdvanceTyped, FinishTyped DEF GiveUp, TypeInv
<1> QED BY <1>4, <1>5 DEF Project, TypeInv

LEMMA RevokeTyped == ASSUME TypeInv, Revoke PROVE TypeInv'
<1> DEFINE todo == {Withdrawn(s) : s \in Linked}
           k == [At("next") EXCEPT !.todo = todo]
<1>1. todo \subseteq View
  <2>1. \A s \in Linked : subject[s] \in Record /\ subject[s].account # NoOne
    BY DEF Linked, TypeInv
  <2>2. \A s \in Linked : subject[s].account \in Account
    BY <2>1 DEF Record
  <2>3. \A s \in Linked : Withdrawn(s) \in View
    BY <2>2 DEF Withdrawn, View
  <2> QED BY <2>3
<1> HIDE DEF todo
<1>2. k \in Job /\ k.step = "next" /\ k.todo = todo /\ k.req = NoRequest
  BY <1>1, NullTypes DEF At, Idle, Job
<1>3. Shaped("operator", k)
  BY <1>1, <1>2 DEF Shaped, NoRequest, GroupOps
<1> HIDE DEF k
<1>4. job' = [job EXCEPT !["operator"] = Idle] \/ job' = [job EXCEPT !["operator"] = k]
  BY DEF Revoke, k, todo
<1>5. JobsTyped(job')
  BY <1>2, <1>3, <1>4, SetJob, FinishTyped DEF TypeInv, Task
<1> QED BY <1>5 DEF Revoke, TypeInv

LEMMA RevokeNextTyped == ASSUME TypeInv, RevokeNext PROVE TypeInv'
<1> DEFINE j == "operator"
<1>0. job[j] \in Job /\ Shaped(j, job[j]) /\ j \in Task
  BY DEF TypeInv, JobsTyped, Task
<1>1. PICK v \in job[j].todo :
         job' = [job EXCEPT ![j].step = "locate", ![j].now = {v}, ![j].todo = @ \ {v}]
  BY DEF RevokeNext
<1> DEFINE k == [job[j] EXCEPT !.step = "locate", !.now = {v}, !.todo = job[j].todo \ {v}]
<1>2. v \in View /\ {v} \in Maybe(Edit \cup View)
  BY <1>0 DEF Shaped, Maybe
<1>3. /\ k \in Job /\ k.step = "locate" /\ k.now = {v}
      /\ k.todo = job[j].todo \ {v} /\ k.req = job[j].req
  BY <1>0, <1>2 DEF Job
<1>4. Shaped(j, k)
  BY <1>0, <1>2, <1>3 DEF Shaped
<1>5. job' = [job EXCEPT ![j] = k]
  BY <1>0, <1>1 DEF Job, TypeInv, JobsTyped
<1> HIDE DEF k
<1>6. JobsTyped(job')
  BY <1>0, <1>3, <1>4, <1>5, SetJob DEF TypeInv
<1> QED BY <1>6 DEF RevokeNext, TypeInv

LEMMA TypeInit == Init => TypeInv
<1> SUFFICES ASSUME Init PROVE TypeInv
  OBVIOUS
<1>1. account \in [Account -> Identity]
  <2> SUFFICES ASSUME NEW a \in Account
               PROVE  account[a] \in Identity
    BY DEF Init
  <2>1. subject[claim[a]] \in Record
    BY DEF Init
  <2>2. /\ [known |-> TRUE, active |-> subject[claim[a]].active,
            granted |-> subject[claim[a]].granted] \in Identity
        /\ [known |-> FALSE, active |-> FALSE, granted |-> FALSE] \in Identity
    BY <2>1 DEF Record, Identity
  <2> QED BY <2>2 DEF Init
<1>2. group \in [Group -> {"none", "live", "gone"}]
  BY DEF Init
<1>3. JobsTyped(job)
  BY NullTypes DEF Init, JobsTyped
<1> QED BY <1>1, <1>2, <1>3 DEF Init, TypeInv

(* What a slot, a task and the environment do. *)
LEMMA TypeStep == TypeInv /\ [Next]_vars => TypeInv'
<1> SUFFICES ASSUME TypeInv, [Next]_vars PROVE TypeInv'
  OBVIOUS
<1>1. CASE \E j \in Slot : UserRequest(j) \/ GroupRequest(j) \/ Link(j) \/ Step(j)
  BY <1>1, RequestTyped, CreateTyped, MarkTyped, ListTyped, FindTyped,
     PatchTyped, LinkWriteTyped DEF Step
<1>2. CASE \E j \in Task : Locate(j) \/ Project(j)
  BY <1>2, LocateStepTyped, ProjectTyped
<1>3. CASE \E j \in Task : Fail(j)
  BY <1>3, FinishTyped DEF Fail, GiveUp, TypeInv
<1>4. CASE Revoke \/ RevokeNext
  BY <1>4, RevokeTyped, RevokeNextTyped
<1>5. CASE RevokeSkip
  BY <1>5, AdvanceTyped DEF RevokeSkip, TypeInv, Task
<1>6. CASE RevokeBlind \/ Restart \/ Switch \/ UNCHANGED vars
  BY <1>6 DEF RevokeBlind, Restart, Switch, vars, TypeInv, JobsTyped
<1> QED BY <1>1, <1>2, <1>3, <1>4, <1>5, <1>6 DEF Next

(* The types of the directory, the accounts and the handlers, TypeOK, hold   *)
(* in every behaviour.                                                      *)
THEOREM TypeCorrect == Spec => []TypeOK
<1>1. TypeInv => TypeOK
  BY DEF TypeInv, TypeOK, JobsTyped, Job, Identity
<1> QED BY <1>1, TypeInit, TypeStep, PTL DEF Spec

(***************************************************************************)
(* The frame: a handler's step is its own.                                 *)
(***************************************************************************)

SameWork(k, l) ==
    /\ l.step = k.step /\ l.req = k.req /\ l.todo = k.todo /\ l.now = k.now /\ l.put = k.put
    /\ l.fresh => k.fresh

Others(j) == \A i \in Task \ {j} : SameWork(job[i], job'[i])

(* Whose a step is. *)
Request_(j) == j \in Slot /\ (UserRequest(j) \/ GroupRequest(j) \/ Link(j))
Own(j) ==
    \/ Request_(j)
    \/ j \in Slot /\ Step(j)
    \/ Locate(j) \/ Project(j) \/ Fail(j)
    \/ j = "operator" /\ (Revoke \/ RevokeSkip \/ RevokeNext)
Nobodys == RevokeBlind \/ Restart \/ Switch \/ UNCHANGED vars

LEMMA Actors == [Next]_vars => Nobodys \/ \E j \in Task : Own(j)
BY DEF Next, Nobodys, Own, Request_, Task

(* A write of a subject touches a copy of it at most. *)
LEMMA OutdateSame ==
    ASSUME TypeInv, NEW s, NEW i \in Task
    PROVE  SameWork(job[i], Outdate(job, s)[i])
<1>1. job[i] \in Job
  BY DEF TypeInv, JobsTyped
<1> QED BY <1>1 DEF Outdate, SameWork, Job

LEMMA AdvanceOthers ==
    ASSUME TypeInv, NEW j \in Task, NEW jobs \in [Task -> Job], Advance(j, jobs),
           \A i \in Task \ {j} : SameWork(job[i], jobs[i])
    PROVE  Others(j)
BY DEF Advance, Finish, Others

(* A list of the members goes on with the subjects it found. *)
LEMMA ListAdvances ==
    ASSUME TypeInv, NEW j \in Slot, ListMembers(j)
    PROVE  \E todo \in SUBSET Edit :
              /\ Advance(j, [job EXCEPT ![j].todo = todo])
              /\ [job EXCEPT ![j].todo = todo] \in [Task -> Job]
              /\ \A t \in todo :
                    /\ t.s \in Made /\ t.groups \subseteq subject[t.s].groups \cup {job[j].req.g}
                    /\ t.s \notin Wanted(job[j].req) => job[j].req.g \notin t.groups
              /\ \A s \in Members(job[j].req.g) \ Wanted(job[j].req) : \E t \in todo : t.s = s
<1> DEFINE todo == {[s |-> s, active |-> subject[s].active,
                     groups |-> IF s \in Wanted(job[j].req) THEN subject[s].groups \cup {job[j].req.g}
                                ELSE subject[s].groups \ {job[j].req.g}]
                      : s \in {x \in Made : (x \in Wanted(job[j].req)) # (x \in Members(job[j].req.g))}}
<1>1. j \in Task /\ job \in [Task -> Job] /\ job[j] \in Job /\ Shaped(j, job[j])
  BY DEF TypeInv, JobsTyped, Task
<1>2. Advance(j, [job EXCEPT ![j].todo = todo]) /\ job[j].req.g \in Group
  BY <1>1 DEF ListMembers, Shaped
<1>3. \A s \in Made : s \in Subject /\ subject[s].active \in BOOLEAN /\ subject[s].groups \subseteq Group
  BY DEF Made, TypeInv, Record
<1>4. todo \in SUBSET Edit
  BY <1>2, <1>3 DEF Edit
<1>5. /\ \A t \in todo :
            /\ t.s \in Made /\ t.groups \subseteq subject[t.s].groups \cup {job[j].req.g}
            /\ t.s \notin Wanted(job[j].req) => job[j].req.g \notin t.groups
      /\ \A s \in Members(job[j].req.g) \ Wanted(job[j].req) : \E t \in todo : t.s = s
  <2>1. ASSUME NEW t \in todo
        PROVE  /\ t.s \in Made /\ t.groups \subseteq subject[t.s].groups \cup {job[j].req.g}
               /\ t.s \notin Wanted(job[j].req) => job[j].req.g \notin t.groups
    <3>1. PICK s \in Made :
             t = [s |-> s, active |-> subject[s].active,
                  groups |-> IF s \in Wanted(job[j].req) THEN subject[s].groups \cup {job[j].req.g}
                             ELSE subject[s].groups \ {job[j].req.g}]
      BY <2>1
    <3>2. /\ t.s = s
          /\ t.groups = IF s \in Wanted(job[j].req) THEN subject[s].groups \cup {job[j].req.g}
                        ELSE subject[s].groups \ {job[j].req.g}
      BY <3>1
    <3> QED BY <3>2
  <2>2. ASSUME NEW s \in Members(job[j].req.g) \ Wanted(job[j].req)
        PROVE  \E t \in todo : t.s = s
    <3>1. s \in Made /\ s \in Members(job[j].req.g) /\ s \notin Wanted(job[j].req)
      BY DEF Members
    <3> DEFINE t == [s |-> s, active |-> subject[s].active,
                     groups |-> IF s \in Wanted(job[j].req) THEN subject[s].groups \cup {job[j].req.g}
                                ELSE subject[s].groups \ {job[j].req.g}]
    <3>2. t \in todo
      BY <3>1
    <3>3. t.s = s
      OBVIOUS
    <3> QED BY <3>2, <3>3
  <2> QED BY <2>1, <2>2
<1> HIDE DEF todo
<1>6. [job[j] EXCEPT !.todo = todo] \in Job
  BY <1>1, <1>4 DEF Job
<1>7. [job EXCEPT ![j].todo = todo] \in [Task -> Job]
  BY <1>1, <1>6
<1> QED BY <1>2, <1>4, <1>5, <1>7

LEMMA OwnOthers == ASSUME TypeInv, NEW j \in Task, Own(j) PROVE Others(j)
<1>0. job \in [Task -> Job] /\ \A i \in Task : SameWork(job[i], job[i])
  BY DEF TypeInv, JobsTyped, SameWork
<1>1. ASSUME NEW new, job' = [job EXCEPT ![j] = new] PROVE Others(j)
  BY <1>0, <1>1 DEF Others
<1>2. CASE Request_(j)
  BY <1>1, <1>2 DEF Request_, UserRequest, GroupRequest, Link, Begin
<1>3. CASE j \in Slot /\ (CreateUser(j) \/ Mark(j) \/ FindSubject(j))
  BY <1>0, <1>3 DEF CreateUser, Mark, FindSubject, Finish, Refuse, Others
<1>4. CASE j \in Slot /\ ListMembers(j)
  <2>1. PICK todo \in SUBSET Edit :
           /\ Advance(j, [job EXCEPT ![j].todo = todo])
           /\ [job EXCEPT ![j].todo = todo] \in [Task -> Job]
    BY <1>4, ListAdvances
  <2> QED BY <1>0, <2>1, AdvanceOthers
<1>5. CASE j \in Slot /\ ListNothing(j)
  BY <1>0, <1>5, AdvanceOthers DEF ListNothing
<1>6. CASE j \in Slot /\ (PatchSubject(j) \/ LinkSubject(j))
  <2>0. ASSUME NEW s PROVE Outdate(job, s) \in [Task -> Job] /\ \A i \in Task : SameWork(job[i], Outdate(job, s)[i])
    BY OutdateSame, OutdateTyped DEF TypeInv, JobsTyped
  <2>1. ASSUME NEW s, NEW v,
               \/ Advance(j, Outdate(job, s))
               \/ job' = [Outdate(job, s) EXCEPT ![j].step = "locate", ![j].put = NoPut, ![j].now = v]
               \/ job' = [Outdate(job, s) EXCEPT ![j].step = "locate", ![j].now = v]
        PROVE  Others(j)
    <3>1. CASE Advance(j, Outdate(job, s))
      BY <2>0, <3>1, AdvanceOthers
    <3>2. CASE \/ job' = [Outdate(job, s) EXCEPT ![j].step = "locate", ![j].put = NoPut, ![j].now = v]
               \/ job' = [Outdate(job, s) EXCEPT ![j].step = "locate", ![j].now = v]
      <4>1. \A i \in Task \ {j} : job'[i] = Outdate(job, s)[i]
        BY <2>0, <3>2
      <4> QED BY <2>0, <4>1 DEF Others
    <3> QED BY <2>1, <3>1, <3>2
  <2>2. CASE job' = [job EXCEPT ![j] = Idle]
    BY <1>1, <2>2
  <2>3. CASE PatchSubject(j)
    <3>1. PICK t \in job[j].now :
             \/ Advance(j, Outdate(job, t.s))
             \/ job' = [Outdate(job, t.s) EXCEPT ![j].step = "locate", ![j].put = NoPut,
                           ![j].now = {Projection(subject'[t.s])}]
             \/ job' = [job EXCEPT ![j] = Idle]
      BY <2>3 DEF PatchSubject, GiveUp
    <3> QED BY <2>1, <2>2, <3>1
  <2>4. CASE LinkSubject(j)
    BY <2>1, <2>2, <2>4 DEF LinkSubject
  <2> QED BY <1>6, <2>3, <2>4
<1>7. CASE Locate(j) \/ Project(j)
  BY <1>0, <1>7, AdvanceOthers DEF Locate, Project, GiveUp, Others
<1>8. CASE Fail(j)
  BY <1>1, <1>8 DEF Fail, GiveUp
<1>9. CASE j = "operator" /\ (Revoke \/ RevokeSkip \/ RevokeNext)
  BY <1>0, <1>9, AdvanceOthers DEF Revoke, RevokeSkip, RevokeNext, Others
<1> QED BY <1>2, <1>3, <1>4, <1>5, <1>6, <1>7, <1>8, <1>9 DEF Own, Step

(***************************************************************************)
(* Links.  A handler that may still write the link it has listed has listed *)
(* a subject that nobody has linked since.                                  *)
(***************************************************************************)

LinkInv ==
    \A j \in Task :
       job[j].step = "link" /\ job[j].fresh => subject[job[j].req.s].account = NoOne

Kept == \A s \in Subject : subject[s].account # NoOne => subject'[s].account = subject[s].account

(* Only a link writes status.account. *)
LEMMA AccountsKept ==
    ASSUME TypeInv, NEW j \in Task, Own(j), ~(j \in Slot /\ LinkSubject(j)), NEW s \in Subject
    PROVE  subject'[s].account = subject[s].account
<1>0. subject \in [Subject -> Record]
  BY DEF TypeInv
<1>1. CASE UNCHANGED subject
  BY <1>1
<1>2. CASE j \in Slot /\ CreateUser(j)
  BY <1>0, <1>2 DEF CreateUser, Provisioned, Record
<1>3. CASE j \in Slot /\ PatchSubject(j)
  BY <1>0, <1>3 DEF PatchSubject, Record
<1>4. UNCHANGED subject \/ (j \in Slot /\ CreateUser(j)) \/ (j \in Slot /\ PatchSubject(j))
  BY DEF Own, Request_, UserRequest, GroupRequest, Link, Begin, Step, Mark, ListMembers, ListNothing,
         FindSubject, Locate, Project, Fail, Revoke, RevokeSkip, RevokeNext
<1> QED BY <1>1, <1>2, <1>3, <1>4

(* Where a handler is after its step. *)
LEMMA BeginAt ==
    ASSUME TypeInv, NEW j \in Slot, NEW req, NEW next \in Job, Begin(j, req, next)
    PROVE  /\ job'[j].step = next.step /\ job'[j].req = req /\ job'[j].todo = next.todo
           /\ job'[j].now = next.now /\ job'[j].put = next.put /\ job'[j].was = next.was
<1>1. job'[j] = [next EXCEPT !.req = req]
  BY DEF Begin, TypeInv, JobsTyped, Task
<1> QED BY <1>1 DEF Job

LEMMA AdvanceAt ==
    ASSUME NEW jobs \in [Task -> Job], NEW j \in Task, Advance(j, jobs)
    PROVE  \/ /\ jobs[j].todo = {} /\ AfterMembers(jobs[j].req.op) = "idle" /\ job'[j] = Idle
           \/ /\ job'[j].step = IF jobs[j].todo # {} THEN "next" ELSE "mark"
              /\ jobs[j].todo = {} => jobs[j].req.op = "delete"
              /\ job'[j].todo = jobs[j].todo /\ job'[j].req = jobs[j].req
              /\ job'[j].now = {} /\ job'[j].was = jobs[j].was
<1>0. jobs[j] \in Job
  OBVIOUS
<1> DEFINE next == IF jobs[j].todo # {} THEN "next" ELSE AfterMembers(jobs[j].req.op)
<1>1. CASE next = "idle"
  <2>1. jobs[j].todo = {} /\ AfterMembers(jobs[j].req.op) = "idle"
    BY <1>1
  <2>2. job'[j] = Idle
    BY <1>1 DEF Advance, Finish
  <2> QED BY <2>1, <2>2
<1>2. CASE next # "idle"
  <2>1. job' = [jobs EXCEPT ![j] = [jobs[j] EXCEPT !.step = next, !.now = {}, !.put = NoPut]]
    BY <1>0, <1>2 DEF Advance, Job
  <2>2. job'[j] = [jobs[j] EXCEPT !.step = next, !.now = {}, !.put = NoPut]
    BY <2>1
  <2>3. next = (IF jobs[j].todo # {} THEN "next" ELSE "mark") /\ (jobs[j].todo = {} => jobs[j].req.op = "delete")
    BY <1>2 DEF AfterMembers
  <2> QED BY <1>0, <2>2, <2>3 DEF Job
<1> QED BY <1>1, <1>2

LEMMA IdleAt ==
    /\ Idle.step = "idle" /\ Idle.todo = {} /\ Idle.now = {} /\ Idle.req = NoRequest /\ ~Idle.fresh
    /\ Idle.req.op = "revoke" /\ Idle.put = NoPut
BY DEF Idle, NoRequest

(* Only a sign-in begins at the link it is to write. *)
LEMMA NotLinking ==
    ASSUME TypeInv, NEW j \in Task, Own(j), ~(j \in Slot /\ Link(j)), job'[j].step = "link"
    PROVE  FALSE
<1>0. job \in [Task -> Job] /\ job[j] \in Job /\ Idle.step = "idle"
  BY IdleAt DEF TypeInv, JobsTyped
<1>1. ASSUME NEW k, job' = [job EXCEPT ![j] = k], k.step # "link" PROVE FALSE
  BY <1>0, <1>1
<1>2. ASSUME NEW jobs \in [Task -> Job], Advance(j, jobs) PROVE FALSE
  BY <1>0, <1>2, AdvanceAt
<1>3. CASE j \in Slot /\ UserRequest(j)
  <2>1. PICK req \in Request, next \in Job : Begin(j, req, next) /\ next.step \in {"create", "next"}
    BY <1>3, UserBegins
  <2> QED BY <1>3, <2>1, BeginAt
<1>4. CASE j \in Slot /\ GroupRequest(j)
  <2>1. PICK req \in Request, next \in Job : Begin(j, req, next) /\ next.step \in {"mark", "list"}
    BY <1>4, GroupBegins DEF GroupBegun
  <2> QED BY <1>4, <2>1, BeginAt
<1>5. CASE CreateUser(j) \/ Mark(j) \/ FindSubject(j)
  <2>1. CASE CreateUser(j)
    <3>1. job' = [job EXCEPT ![j] = Idle]
      BY <2>1 DEF CreateUser, Finish, Refuse
    <3> QED BY <1>0, <1>1, <3>1
  <2>2. CASE Mark(j)
    <3>1. job' = [job EXCEPT ![j] = Idle] \/ job' = [job EXCEPT ![j].step = "list"]
      BY <2>2 DEF Mark, Finish, Refuse
    <3> QED BY <1>0, <1>1, <3>1 DEF Job
  <2>3. CASE FindSubject(j)
    <3>1. \E t, put : job' = [job EXCEPT ![j].step = "patch", ![j].now = {t}, ![j].todo = @ \ {t}, ![j].put = put]
      BY <2>3 DEF FindSubject
    <3> QED BY <1>0, <3>1 DEF Job
  <2> QED BY <1>5, <2>1, <2>2, <2>3
<1>6. CASE j \in Slot /\ (ListMembers(j) \/ ListNothing(j))
  <2>1. \E jobs \in [Task -> Job] : Advance(j, jobs)
    BY <1>0, <1>6, ListAdvances DEF ListNothing
  <2> QED BY <1>2, <2>1
<1>7. CASE PatchSubject(j) \/ LinkSubject(j)
  <2>0. ASSUME NEW s PROVE Outdate(job, s) \in [Task -> Job]
    BY OutdateTyped DEF TypeInv, JobsTyped
  <2>1. \E s : \/ Advance(j, Outdate(job, s))
               \/ \E v : job' = [Outdate(job, s) EXCEPT ![j].step = "locate", ![j].put = NoPut, ![j].now = v]
               \/ \E v : job' = [Outdate(job, s) EXCEPT ![j].step = "locate", ![j].now = v]
               \/ job' = [job EXCEPT ![j] = Idle]
    BY <1>7 DEF PatchSubject, LinkSubject, GiveUp
  <2>2. ASSUME NEW s, NEW v,
               \/ job' = [Outdate(job, s) EXCEPT ![j].step = "locate", ![j].put = NoPut, ![j].now = v]
               \/ job' = [Outdate(job, s) EXCEPT ![j].step = "locate", ![j].now = v]
        PROVE  job'[j].step = "locate"
    <3>1. Outdate(job, s)[j] \in Job /\ Outdate(job, s) \in [Task -> Job]
      BY <2>0
    <3> QED BY <2>2, <3>1 DEF Job
  <2> QED BY <1>0, <1>1, <1>2, <2>0, <2>1, <2>2
<1>8. CASE Locate(j)
  <2>1. \E put : job' = [job EXCEPT ![j].step = "project", ![j].put = put]
    BY <1>8 DEF Locate
  <2> QED BY <1>0, <2>1 DEF Job
<1>9. CASE Project(j) \/ Fail(j)
  <2>1. Advance(j, job) \/ job' = [job EXCEPT ![j] = Idle]
    BY <1>9 DEF Project, Fail, GiveUp
  <2> QED BY <1>0, <1>1, <1>2, <2>1
<1>10. CASE j = "operator" /\ Revoke
  <2> DEFINE next == IF Linked = {} THEN Idle ELSE [At("next") EXCEPT !.todo = {Withdrawn(s) : s \in Linked}]
  <2>1. job' = [job EXCEPT ![j] = next]
    BY <1>10 DEF Revoke
  <2>2. next.step # "link"
    BY <1>0, AtType DEF Job
  <2> HIDE DEF next
  <2> QED BY <1>1, <2>1, <2>2
<1>11. CASE j = "operator" /\ RevokeSkip
  BY <1>0, <1>2, <1>11 DEF RevokeSkip
<1>12. CASE j = "operator" /\ RevokeNext
  <2>1. \E v : job' = [job EXCEPT ![j].step = "locate", ![j].now = {v}, ![j].todo = @ \ {v}]
    BY <1>12 DEF RevokeNext
  <2> QED BY <1>0, <2>1 DEF Job
<1> QED BY <1>3, <1>4, <1>5, <1>6, <1>7, <1>8, <1>9, <1>10, <1>11, <1>12 DEF Own, Request_, Step

LEMMA LinkStep == TypeInv /\ LinkInv /\ [Next]_vars => LinkInv' /\ Kept
<1> SUFFICES ASSUME TypeInv, LinkInv, [Next]_vars PROVE LinkInv' /\ Kept
  OBVIOUS
<1>0. subject \in [Subject -> Record] /\ job \in [Task -> Job] /\ \A i \in Task : Shaped(i, job[i])
  BY DEF TypeInv, JobsTyped
<1>1. CASE Nobodys
  BY <1>1 DEF Nobodys, RevokeBlind, Restart, Switch, vars, LinkInv, Kept
<1>2. ASSUME NEW j \in Task, Own(j) PROVE LinkInv' /\ Kept
  <2>1. Others(j)
    BY <1>2, OwnOthers
  <2>2. CASE j \in Slot /\ LinkSubject(j)
    <3>1. CASE Accepted(job[j])
      <4> DEFINE req == job[j].req
      <4>1. job[j].step = "link" /\ job[j].fresh /\ req.s \in Subject /\ req.a \in Account
        BY <1>0, <2>2, <3>1 DEF LinkSubject, Accepted, Shaped
      <4>2. subject[req.s].account = NoOne
        BY <4>1 DEF LinkInv
      <4>3. subject' = [subject EXCEPT ![req.s].account = req.a]
        BY <2>2, <3>1 DEF LinkSubject
      <4>4. Kept
        BY <1>0, <4>2, <4>3 DEF Kept
      <4>5. ASSUME NEW i \in Task, job'[i].step = "link", job'[i].fresh
            PROVE  subject'[job'[i].req.s].account = NoOne
        <5>1. job' = [Outdate(job, req.s) EXCEPT ![j].step = "locate", ![j].now = {Projection(subject'[req.s])}]
          BY <2>2, <3>1 DEF LinkSubject
        <5>2. Outdate(job, req.s) \in [Task -> Job] /\ Outdate(job, req.s)[j] \in Job
          BY OutdateTyped DEF TypeInv, JobsTyped
        <5>3. job'[j].step = "locate"
          BY <5>1, <5>2 DEF Job
        <5>4. i # j /\ job'[i] = Outdate(job, req.s)[i]
          BY <4>5, <5>1, <5>2, <5>3
        <5>5. job[i].step = "link" /\ job[i].fresh /\ job'[i].req = job[i].req
          BY <2>1, <4>5, <5>4 DEF Others, SameWork
        <5>6. job[i].req.s # req.s
          BY <1>0, <4>5, <5>4, <5>5 DEF Outdate, Job
        <5>7. job[i].req.s \in Subject /\ subject[job[i].req.s].account = NoOne
          BY <1>0, <5>5 DEF LinkInv, Shaped
        <5> QED BY <1>0, <4>3, <5>5, <5>6, <5>7
      <4> QED BY <4>4, <4>5 DEF LinkInv
    <3>2. CASE ~Accepted(job[j])
      <4>1. job' = [job EXCEPT ![j] = Idle] /\ UNCHANGED subject
        BY <2>2, <3>2 DEF LinkSubject
      <4>2. \A i \in Task : job'[i].step = "link" => job'[i] = job[i]
        BY <1>0, <4>1, IdleAt
      <4> QED BY <4>1, <4>2 DEF LinkInv, Kept
    <3> QED BY <3>1, <3>2
  <2>3. CASE ~(j \in Slot /\ LinkSubject(j))
    <3>1. \A s \in Subject : subject'[s].account = subject[s].account
      BY <1>2, <2>3, AccountsKept
    <3>2. ASSUME NEW i \in Task, job'[i].step = "link", job'[i].fresh
          PROVE  subject'[job'[i].req.s].account = NoOne
      <4>1. CASE i # j
        <5>1. job[i].step = "link" /\ job[i].fresh /\ job'[i].req = job[i].req
          BY <2>1, <3>2, <4>1 DEF Others, SameWork
        <5>2. job[i].req.s \in Subject /\ subject[job[i].req.s].account = NoOne
          BY <1>0, <5>1 DEF LinkInv, Shaped
        <5> QED BY <3>1, <5>1, <5>2
      <4>2. CASE i = j
        <5>1. j \in Slot /\ Link(j)
          BY <1>2, <3>2, <4>2, NotLinking
        <5>2. PICK req \in Request, next \in Job :
                 /\ Begin(j, req, next) /\ req.s \in Subject
                 /\ next.step = "locate" \/ (next.step = "link" /\ subject[req.s].account = NoOne)
          BY <5>1, LinkBegins
        <5>3. job'[j].step = next.step /\ job'[j].req = req
          BY <5>1, <5>2, BeginAt
        <5> QED BY <3>1, <3>2, <4>2, <5>2, <5>3
      <4> QED BY <4>1, <4>2
    <3> QED BY <3>1, <3>2 DEF LinkInv, Kept
  <2> QED BY <2>2, <2>3
<1> QED BY <1>1, <1>2, Actors

(* A subject, once linked, stays with its account: status.account is written *)
(* with the version of the subject that was listed without an account, and   *)
(* every other writer leaves it alone.                                       *)
THEOREM LinksKept == Spec => LinkStable
<1>1. Init => LinkInv
  BY DEF Init, LinkInv, Idle
<1>2. TypeInv /\ LinkInv /\ [Next]_vars => [Kept]_vars
  BY LinkStep
<1> QED BY <1>1, <1>2, TypeInit, TypeStep, LinkStep, PTL DEF Spec, LinkStable, Kept

(***************************************************************************)
(* Groups, while handlers come one at a time: the subjects a handler is to  *)
(* write exist and are given no tombstone, what a patch carries is current, *)
(* and a deletion still has to write every member there is.                 *)
(***************************************************************************)

One == \A i, j \in Task : Busy(i) /\ Busy(j) => i = j
NoGone == \A g \in Group, s \in Subject : group[g] = "gone" => g \notin subject[s].groups
Bare == \A s \in Subject : ~subject[s].made => subject[s].groups = {}

Edits(j) == job[j].todo \cup (IF job[j].step = "patch" THEN job[j].now ELSE {})
Clean(t) == subject[t.s].made /\ \A g \in t.groups : group[g] # "gone"
Current(t, put) == put.add = t.groups \ subject[t.s].groups /\ put.drop = subject[t.s].groups \ t.groups
Deleting(j) ==
    LET g == job[j].req.g IN
    /\ group[g] = "live"
    /\ \A t \in Edits(j) : g \notin t.groups
    /\ job[j].step # "list" => \A s \in Subject : g \in subject[s].groups => \E t \in Edits(j) : t.s = s

Sound(j) ==
    /\ \A t \in Edits(j) : Clean(t)
    /\ job[j].step = "patch" => \A t \in job[j].now : Current(t, job[j].put)
    /\ job[j].step = "mark" => job[j].todo = {}
    /\ job[j].req.op \in GroupOps /\ job[j].step # "mark" => group[job[j].req.g] = "live"
    /\ job[j].req.op = "delete" => Deleting(j)

Kempt == NoGone /\ Bare /\ \A j \in Slot : Busy(j) => Sound(j)
GroupInv == ~lapped /\ ~blind => One /\ Kempt

(* A step that overlaps no other handler leaves every other idle. *)
LEMMA Alone ==
    ASSUME TypeInv, One, NEW j \in Task, Own(j), ~lapped'
    PROVE  \A i \in Task \ {j} : ~Busy(i) /\ ~Busy(i)'
<1>1. Others(j)
  BY OwnOthers
<1>2. CASE Request_(j) \/ Revoke
  <2>1. Calm
    BY <1>2 DEF Request_, UserRequest, GroupRequest, Link, Begin, Revoke
  <2> QED BY <1>1, <2>1 DEF Calm, Others, SameWork, Busy
<1>3. CASE ~(Request_(j) \/ Revoke)
  <2>1. Busy(j)
    BY <1>3 DEF Own, Step, CreateUser, Mark, ListMembers, ListNothing, FindSubject, PatchSubject,
                LinkSubject, Locate, Project, Fail, RevokeSkip, RevokeNext, Busy
  <2> QED BY <1>1, <2>1 DEF One, Others, SameWork, Busy
<1> QED BY <1>2, <1>3

LEMMA BeginGrows == ASSUME NEW j, NEW req, NEW next, Begin(j, req, next) PROVE (lapped => lapped') /\ blind' = blind
BY DEF Begin

LEMMA HistoryGrows == ASSUME [Next]_vars PROVE (lapped => lapped') /\ (blind => blind')
<1>1. ASSUME NEW j, UserRequest(j) \/ GroupRequest(j) \/ Link(j) PROVE (lapped => lapped') /\ (blind => blind')
  <2>1. \E req, next : Begin(j, req, next)
    BY <1>1 DEF UserRequest, GroupRequest, Link
  <2> QED BY <2>1, BeginGrows
<1>2. ASSUME NEW j, ListNothing(j) PROVE lapped' = lapped /\ blind'
  BY <1>2 DEF ListNothing
<1>3. ASSUME NEW j, CreateUser(j) \/ Mark(j) \/ ListMembers(j) PROVE lapped' = lapped /\ blind' = blind
  BY <1>3 DEF CreateUser, Mark, ListMembers
<1>4. ASSUME NEW j, FindSubject(j) PROVE lapped' = lapped /\ blind' = blind
  BY <1>4 DEF FindSubject
<1>5. ASSUME NEW j, PatchSubject(j) PROVE lapped' = lapped /\ blind' = blind
  BY <1>5 DEF PatchSubject
<1>6. ASSUME NEW j, LinkSubject(j) PROVE lapped' = lapped /\ blind' = blind
  BY <1>6 DEF LinkSubject
<1>7. ASSUME NEW j, Locate(j) \/ Project(j) \/ Fail(j) PROVE lapped' = lapped /\ blind' = blind
  BY <1>7 DEF Locate, Project, Fail
<1>8. CASE Revoke
  BY <1>8 DEF Revoke
<1>9. CASE RevokeBlind \/ RevokeSkip \/ RevokeNext \/ Restart \/ Switch \/ UNCHANGED vars
  <2>1. lapped' = lapped /\ blind' = blind
    BY <1>9 DEF RevokeBlind, RevokeSkip, RevokeNext, Restart, Switch, vars
  <2> QED BY <2>1
<1> QED BY <1>1, <1>2, <1>3, <1>4, <1>5, <1>6, <1>7, <1>8, <1>9 DEF Next, Step

(* A slot that is idle after its step leaves nothing to account for. *)
LEMMA Resting ==
    ASSUME Kempt, NEW j \in Slot, \A i \in Slot \ {j} : ~Busy(i)', NoGone', Bare', Busy(j)' => Sound(j)'
    PROVE  Kempt'
BY DEF Kempt

(* Nobody's groups and no group changed. *)
SameGroups ==
    /\ group' = group
    /\ \A s \in Subject : subject'[s].groups = subject[s].groups /\ (subject[s].made => subject'[s].made)

LEMMA SameGroupsKept == ASSUME NoGone, Bare, SameGroups PROVE NoGone' /\ Bare'
BY DEF SameGroups, NoGone, Bare

LEMMA BeginKempt ==
    ASSUME TypeInv, Kempt, NEW j \in Slot, Request_(j)
    PROVE  NoGone' /\ Bare' /\ Sound(j)'
<1>1. group' = group /\ subject' = subject
  BY DEF Request_, UserRequest, GroupRequest, Link, Begin
<1>2. NoGone' /\ Bare'
  BY <1>1, SameGroupsKept DEF SameGroups, Kempt
<1>3. CASE UserRequest(j)
  <2>1. PICK req \in Request, next \in Job :
           /\ Begin(j, req, next)
           /\ req.op \in {"active", "create"} /\ next.step \in {"create", "next"}
           /\ \A t \in next.todo : t \in Edit /\ t.s \in Made /\ t.groups = subject[t.s].groups
    BY <1>3, UserBegins
  <2>2. job'[j].step = next.step /\ job'[j].req = req /\ job'[j].todo = next.todo
    BY <2>1, BeginAt
  <2>3. req.op \notin GroupOps /\ next.step \notin {"patch", "mark"}
    BY <2>1 DEF GroupOps
  <2>4. \A t \in next.todo : t.s \in Subject /\ subject[t.s].made /\ t.groups \subseteq Group
    BY <2>1 DEF Made, Edit
  <2>5. \A t \in next.todo : Clean(t)'
    BY <1>1, <2>1, <2>4 DEF Clean, Kempt, NoGone
  <2> QED BY <1>2, <2>2, <2>3, <2>5 DEF Sound, Edits, GroupOps
<1>4. CASE GroupRequest(j)
  <2>1. PICK req \in Request, next \in Job :
           /\ Begin(j, req, next) /\ req.op \in GroupOps /\ next.todo = {}
           /\ \/ next.step = "mark" /\ req.op = "make"
              \/ next.step = "list" /\ group[req.g] = "live"
    BY <1>4, GroupBegins DEF GroupBegun
  <2>2. job'[j].step = next.step /\ job'[j].req = req /\ job'[j].todo = {}
    BY <2>1, BeginAt
  <2>3. Edits(j)' = {}
    BY <2>1, <2>2 DEF Edits
  <2> QED BY <1>1, <1>2, <2>1, <2>2, <2>3 DEF Sound, Deleting
<1>5. CASE Link(j)
  <2>1. PICK req \in Request, next \in Job :
           Begin(j, req, next) /\ req.op = "link" /\ next.todo = {} /\ next.step \in {"link", "locate"}
    BY <1>5, LinkBegins
  <2>2. job'[j].step = next.step /\ job'[j].req = req /\ job'[j].todo = {}
    BY <2>1, BeginAt
  <2>3. Edits(j)' = {}
    BY <2>1, <2>2 DEF Edits
  <2> QED BY <1>2, <2>1, <2>2, <2>3 DEF Sound, GroupOps
<1> QED BY <1>3, <1>4, <1>5 DEF Request_

(* A handler past its list that wrote no group goes on with the edits it has. *)
LEMMA OnwardSound ==
    ASSUME NEW j \in Slot, Sound(j), SameGroups, TypeInv,
           job[j].step \notin {"patch", "list", "mark"}, job'[j].step \notin {"patch", "list"},
           job'[j].todo = job[j].todo, job'[j].req = job[j].req,
           job'[j].step = "mark" => job[j].todo = {}
    PROVE  Sound(j)'
<1>1. Edits(j) = job[j].todo /\ Edits(j)' = job[j].todo
  BY DEF Edits
<1>2. job[j].todo \subseteq Edit
  BY ScimAssumption DEF TypeInv, JobsTyped, Shaped, Task
<1>3. \A t \in job[j].todo : t.s \in Subject /\ Clean(t)
  BY <1>1, <1>2 DEF Sound, Edit
<1>4. \A t \in job[j].todo : Clean(t)'
  BY <1>3 DEF Clean, SameGroups
<1>5. job[j].req.op = "delete" => Deleting(j)'
  BY <1>1 DEF Sound, Deleting, SameGroups
<1>6. job[j].req.op \in GroupOps => group'[job[j].req.g] = "live"
  BY DEF Sound, SameGroups
<1> QED BY <1>1, <1>4, <1>5, <1>6 DEF Sound

LEMMA MarkKempt ==
    ASSUME TypeInv, Kempt, NEW j \in Slot, Mark(j)
    PROVE  NoGone' /\ Bare' /\ (Busy(j)' => Sound(j)')
<1> DEFINE g == job[j].req.g
<1>0. /\ job \in [Task -> Job] /\ j \in Task /\ job[j] \in Job /\ job[j].step = "mark" /\ subject' = subject
      /\ group \in [Group -> {"none", "live", "gone"}] /\ Sound(j) /\ job[j].todo = {}
  BY DEF TypeInv, JobsTyped, Task, Mark, Kempt, Busy, Sound
<1>1. Edits(j) = {}
  BY <1>0 DEF Edits
<1>2. CASE group' = [group EXCEPT ![g] = "gone"] /\ job[j].req.op = "delete" /\ Finish(j, job)
  <2>1. ~Busy(j)'
    BY <1>0, <1>2, IdleAt DEF Finish, Busy
  <2>2. \A s \in Subject : g \notin subject[s].groups
    BY <1>0, <1>1, <1>2 DEF Sound, Deleting
  <2>3. NoGone'
    BY <1>0, <1>2, <2>2 DEF Kempt, NoGone
  <2> QED BY <1>0, <2>1, <2>3 DEF Kempt, Bare
<1>3. CASE /\ group' = [group EXCEPT ![g] = "live"] /\ job[j].req.op = "make"
           /\ job' = [job EXCEPT ![j].step = "list"]
  <2>1. job[j].req.g \in Group
    BY <1>0, <1>3 DEF TypeInv, JobsTyped, Shaped, GroupOps
  <2>2. job'[j].step = "list" /\ job'[j].req = job[j].req /\ job'[j].todo = {}
    BY <1>0, <1>3 DEF Job
  <2>3. Edits(j)' = {}
    BY <2>2 DEF Edits
  <2>4. group'[g] = "live"
    BY <1>0, <1>3, <2>1
  <2>5. Sound(j)'
    BY <1>3, <2>2, <2>3, <2>4 DEF Sound
  <2>6. NoGone'
    BY <1>0, <1>3 DEF Kempt, NoGone
  <2> QED BY <1>0, <2>5, <2>6 DEF Kempt, Bare
<1>4. CASE Refuse(j) /\ UNCHANGED group
  <2>1. ~Busy(j)'
    BY <1>0, <1>4, IdleAt DEF Refuse, Busy
  <2>2. SameGroups
    BY <1>0, <1>4 DEF SameGroups
  <2> QED BY <2>1, <2>2, SameGroupsKept DEF Kempt
<1> QED BY <1>2, <1>3, <1>4 DEF Mark

LEMMA ListKempt ==
    ASSUME TypeInv, Kempt, NEW j \in Slot, ListMembers(j)
    PROVE  NoGone' /\ Bare' /\ (Busy(j)' => Sound(j)')
<1> DEFINE req == job[j].req
<1>0. /\ subject' = subject /\ group' = group /\ j \in Task
      /\ job[j].step = "list" /\ req.op \in GroupOps /\ Sound(j)
      /\ req.g \in Group /\ group[req.g] = "live" /\ job[j] \in Job /\ job \in [Task -> Job]
  BY DEF TypeInv, JobsTyped, Shaped, Task, ListMembers, Kempt, Busy, Sound
<1>1. NoGone' /\ Bare'
  BY <1>0, SameGroupsKept DEF Kempt, SameGroups
<1>2. PICK todo \in SUBSET Edit :
         /\ Advance(j, [job EXCEPT ![j].todo = todo])
         /\ [job EXCEPT ![j].todo = todo] \in [Task -> Job]
         /\ \A t \in todo :
               /\ t.s \in Made /\ t.groups \subseteq subject[t.s].groups \cup {req.g}
               /\ t.s \notin Wanted(req) => req.g \notin t.groups
         /\ \A s \in Members(req.g) \ Wanted(req) : \E t \in todo : t.s = s
  BY ListAdvances
<1> DEFINE jobs == [job EXCEPT ![j].todo = todo]
<1>3. jobs[j].todo = todo /\ jobs[j].req = req
  BY <1>0 DEF Job
<1>4. \/ job'[j] = Idle
      \/ /\ job'[j].step = IF todo # {} THEN "next" ELSE "mark"
         /\ todo = {} => req.op = "delete"
         /\ job'[j].todo = todo /\ job'[j].req = req
  <2> HIDE DEF jobs, req
  <2> QED BY <1>0, <1>2, <1>3, AdvanceAt DEF jobs
<1>5. CASE job'[j] = Idle
  BY <1>1, <1>5, IdleAt DEF Busy
<1>6. CASE /\ job'[j].step = IF todo # {} THEN "next" ELSE "mark"
           /\ todo = {} => req.op = "delete"
           /\ job'[j].todo = todo /\ job'[j].req = req
  <2>1. Edits(j)' = todo
    BY <1>6 DEF Edits
  <2>2. ASSUME NEW t \in todo PROVE Clean(t)'
    <3>1. t.s \in Subject /\ subject[t.s].made /\ t.groups \subseteq Group
      BY <1>2 DEF Made, Edit
    <3>2. \A g \in t.groups : g = req.g \/ g \in subject[t.s].groups
      BY <1>2
    <3>3. \A g \in t.groups : group[g] # "gone"
      BY <1>0, <3>1, <3>2 DEF Kempt, NoGone
    <3> QED BY <1>0, <3>1, <3>3 DEF Clean
  <2>3. ASSUME req.op = "delete" PROVE Deleting(j)'
    <3>1. Wanted(req) = {}
      BY <2>3 DEF Wanted
    <3>2. \A t \in todo : req.g \notin t.groups
      BY <1>2, <3>1
    <3>3. \A s \in Subject : req.g \in subject[s].groups => s \in Members(req.g)
      BY DEF Members, Made, Kempt, Bare
    <3>4. \A s \in Subject : req.g \in subject[s].groups => \E t \in todo : t.s = s
      BY <1>2, <3>1, <3>3
    <3> QED BY <1>0, <1>6, <2>1, <3>2, <3>4 DEF Deleting
  <2>4. job'[j].step \in {"next", "mark"} /\ (job'[j].step = "mark" => job'[j].todo = {})
    BY <1>6
  <2> HIDE DEF req
  <2> QED BY <1>0, <1>1, <1>6, <2>1, <2>2, <2>3, <2>4 DEF Sound
<1> QED BY <1>4, <1>5, <1>6

LEMMA FindKempt ==
    ASSUME TypeInv, Kempt, NEW j \in Slot, FindSubject(j)
    PROVE  NoGone' /\ Bare' /\ Sound(j)'
<1>0. /\ subject' = subject /\ group' = group /\ j \in Task /\ job[j].step = "next" /\ Sound(j)
      /\ job[j] \in Job /\ job \in [Task -> Job]
  BY DEF TypeInv, JobsTyped, Task, FindSubject, Kempt, Busy
<1>1. NoGone' /\ Bare'
  BY <1>0, SameGroupsKept DEF Kempt, SameGroups
<1>2. PICK t \in job[j].todo :
         LET put == [active |-> Change(t.active, subject[t.s].active),
                     granted |-> Change(Granted(t.active, t.groups), subject[t.s].granted),
                     add |-> t.groups \ subject[t.s].groups, drop |-> subject[t.s].groups \ t.groups]
         IN
         job' = [job EXCEPT ![j].step = "patch", ![j].now = {t}, ![j].todo = @ \ {t}, ![j].put = put]
  BY DEF FindSubject
<1>3. /\ job'[j].step = "patch" /\ job'[j].now = {t} /\ job'[j].req = job[j].req
      /\ job'[j].todo = job[j].todo \ {t} /\ Current(t, job'[j].put)
  BY <1>0, <1>2 DEF Job, Current
<1>4. Edits(j)' = Edits(j)
  BY <1>0, <1>3 DEF Edits
<1>5. \A e \in Edits(j) : Clean(e)'
  BY <1>0 DEF Sound, Clean
<1>6. /\ job'[j].put.add = t.groups \ subject'[t.s].groups
      /\ job'[j].put.drop = subject'[t.s].groups \ t.groups
  BY <1>0, <1>3 DEF Current
<1>7. job[j].req.op = "delete" => Deleting(j)'
  BY <1>0, <1>3, <1>4 DEF Sound, Deleting
<1> QED BY <1>0, <1>1, <1>3, <1>4, <1>5, <1>6, <1>7 DEF Sound, Current

(* A patch that applies leaves the subject with the groups of its edit. *)
LEMMA PatchKempt ==
    ASSUME TypeInv, Kempt, NEW j \in Slot, PatchSubject(j)
    PROVE  NoGone' /\ Bare' /\ (Busy(j)' => Sound(j)')
<1>0. /\ group' = group /\ j \in Task /\ job[j].step = "patch" /\ Sound(j)
      /\ job[j] \in Job /\ job \in [Task -> Job] /\ job[j].now \subseteq Edit /\ job[j].todo \subseteq Edit
      /\ subject \in [Subject -> Record]
  BY ScimAssumption DEF TypeInv, JobsTyped, Shaped, Task, PatchSubject, Kempt, Busy
<1>1. PICK t \in job[j].now :
         \/ /\ subject' = [subject EXCEPT
                  ![t.s].active = Applied(job[j].put.active, @),
                  ![t.s].granted = Applied(job[j].put.granted, @),
                  ![t.s].groups = (@ \ job[j].put.drop) \cup job[j].put.add]
            /\ \/ job' = [Outdate(job, t.s) EXCEPT ![j].step = "locate", ![j].put = NoPut,
                             ![j].now = {Projection(subject'[t.s])}]
               \/ Advance(j, Outdate(job, t.s))
         \/ job' = [job EXCEPT ![j] = Idle] /\ UNCHANGED subject
  BY DEF PatchSubject, GiveUp
<1>2. CASE job' = [job EXCEPT ![j] = Idle] /\ UNCHANGED subject
  <2>1. ~Busy(j)'
    BY <1>0, <1>2, IdleAt DEF Busy
  <2>2. SameGroups
    BY <1>0, <1>2 DEF SameGroups
  <2> QED BY <2>1, <2>2, SameGroupsKept DEF Kempt
<1>3. CASE /\ subject' = [subject EXCEPT
                  ![t.s].active = Applied(job[j].put.active, @),
                  ![t.s].granted = Applied(job[j].put.granted, @),
                  ![t.s].groups = (@ \ job[j].put.drop) \cup job[j].put.add]
           /\ \/ job' = [Outdate(job, t.s) EXCEPT ![j].step = "locate", ![j].put = NoPut,
                            ![j].now = {Projection(subject'[t.s])}]
              \/ Advance(j, Outdate(job, t.s))
  <2>1. t.s \in Subject /\ t.groups \subseteq Group /\ t \in Edits(j) /\ job[j].now = {t}
    BY <1>0 DEF Edit, Edits, Job, Maybe
  <2>2. Clean(t) /\ Current(t, job[j].put)
    BY <1>0, <2>1 DEF Sound
  <2>3. /\ \A s \in Subject : subject'[s].groups = IF s = t.s THEN t.groups ELSE subject[s].groups
        /\ \A s \in Subject : subject'[s].made = subject[s].made
    <3>1. /\ \A s \in Subject : s # t.s => subject'[s] = subject[s]
          /\ subject'[t.s].made = subject[t.s].made
      BY <1>0, <1>3, <2>1 DEF Record
    <3>2. subject'[t.s].groups = (subject[t.s].groups \ job[j].put.drop) \cup job[j].put.add
      BY <1>0, <1>3, <2>1 DEF Record
    <3>3. (subject[t.s].groups \ job[j].put.drop) \cup job[j].put.add = t.groups
      BY <2>2 DEF Current
    <3> QED BY <3>1, <3>2, <3>3
  <2>4. NoGone'
    BY <1>0, <2>2, <2>3 DEF Kempt, NoGone, Clean
  <2>5. Bare'
    BY <2>2, <2>3 DEF Kempt, Bare, Clean
  <2>6. /\ Outdate(job, t.s) \in [Task -> Job] /\ Outdate(job, t.s)[j].todo = job[j].todo
        /\ Outdate(job, t.s)[j].req = job[j].req
    BY <1>0, OutdateTyped, OutdateSame DEF TypeInv, JobsTyped, SameWork
  <2>7. CASE Busy(j)'
    <3>1. /\ job'[j].todo = job[j].todo /\ job'[j].req = job[j].req
          /\ job'[j].step \in {"locate", "next", "mark"} /\ (job'[j].step = "mark" => job[j].todo = {})
      <4>1. CASE job' = [Outdate(job, t.s) EXCEPT ![j].step = "locate", ![j].put = NoPut,
                            ![j].now = {Projection(subject'[t.s])}]
        <5>1. Outdate(job, t.s)[j] \in Job
          BY <1>0, <2>6
        <5> QED BY <1>0, <2>6, <4>1, <5>1 DEF Job
      <4>2. CASE Advance(j, Outdate(job, t.s))
        BY <1>0, <2>6, <2>7, <4>2, AdvanceAt, IdleAt DEF Busy
      <4> QED BY <1>3, <4>1, <4>2
    <3>2. Edits(j)' = job[j].todo /\ Edits(j) = job[j].todo \cup {t}
      BY <1>0, <2>1, <3>1 DEF Edits
    <3>3. \A e \in job[j].todo : Clean(e)'
      BY <1>0, <2>3, <3>2 DEF Sound, Clean, Edit
    <3>4. ASSUME job[j].req.op = "delete" PROVE Deleting(j)'
      <4> DEFINE g == job[j].req.g
      <4>1. /\ group[g] = "live" /\ \A e \in job[j].todo \cup {t} : g \notin e.groups
            /\ \A s \in Subject : g \in subject[s].groups => \E e \in job[j].todo \cup {t} : e.s = s
        BY <1>0, <3>2, <3>4 DEF Sound, Deleting
      <4>2. ASSUME NEW s \in Subject, g \in subject'[s].groups
            PROVE  \E e \in job[j].todo : e.s = s
        <5>1. s # t.s /\ g \in subject[s].groups
          BY <2>3, <4>1, <4>2
        <5> QED BY <4>1, <5>1
      <4> QED BY <1>0, <3>1, <3>2, <4>1, <4>2 DEF Deleting
    <3> QED BY <1>0, <2>4, <2>5, <3>1, <3>2, <3>3, <3>4 DEF Sound
  <2> QED BY <2>4, <2>5, <2>7
<1> QED BY <1>1, <1>2, <1>3

(* The steps that write no group. *)
LEMMA OtherKempt ==
    ASSUME TypeInv, Kempt, NEW j \in Slot,
           CreateUser(j) \/ LinkSubject(j) \/ Locate(j) \/ Project(j) \/ Fail(j)
    PROVE  NoGone' /\ Bare' /\ (Busy(j)' => Sound(j)')
<1>0. /\ j \in Task /\ job[j] \in Job /\ job \in [Task -> Job] /\ job[j].req.s \in Subject \cup {NoOne}
      /\ subject \in [Subject -> Record]
  BY DEF TypeInv, JobsTyped, Task, Job, Request
<1>1. SameGroups
  <2>1. CASE CreateUser(j)
    BY <1>0, <2>1 DEF CreateUser, Provisioned, SameGroups, Record
  <2>2. CASE LinkSubject(j)
    BY <1>0, <2>2 DEF LinkSubject, SameGroups, Record
  <2>3. CASE Locate(j) \/ Project(j) \/ Fail(j)
    BY <2>3 DEF Locate, Project, Fail, SameGroups
  <2> QED BY <2>1, <2>2, <2>3
<1>2. NoGone' /\ Bare'
  BY <1>1, SameGroupsKept DEF Kempt
<1>3. CASE job' = [job EXCEPT ![j] = Idle]
  BY <1>0, <1>2, <1>3, IdleAt DEF Busy
<1>4. CASE LinkSubject(j) /\ Accepted(job[j])
  <2>1. Outdate(job, job[j].req.s)[j] \in Job /\ Outdate(job, job[j].req.s) \in [Task -> Job]
    BY <1>0, OutdateTyped DEF TypeInv, JobsTyped
  <2>2. Outdate(job, job[j].req.s)[j].todo = job[j].todo /\ Outdate(job, job[j].req.s)[j].req = job[j].req
    BY <1>0, OutdateSame DEF SameWork
  <2>3. job' = [Outdate(job, job[j].req.s) EXCEPT ![j].step = "locate",
                   ![j].now = {Projection(subject'[job[j].req.s])}]
    BY <1>4 DEF LinkSubject
  <2>4. job'[j].step = "locate" /\ job'[j].todo = job[j].todo /\ job'[j].req = job[j].req
    BY <1>0, <2>1, <2>2, <2>3 DEF Job
  <2>5. job[j].step = "link" /\ Sound(j)
    BY <1>4 DEF LinkSubject, Kempt, Busy
  <2> QED BY <1>1, <1>2, <2>4, <2>5, OnwardSound
<1>5. CASE Locate(j)
  <2>1. \E put : job' = [job EXCEPT ![j].step = "project", ![j].put = put]
    BY <1>5 DEF Locate
  <2>2. job'[j].step = "project" /\ job'[j].todo = job[j].todo /\ job'[j].req = job[j].req
    BY <1>0, <2>1 DEF Job
  <2>3. job[j].step = "locate" /\ Sound(j)
    BY <1>5 DEF Locate, Kempt, Busy
  <2> QED BY <1>1, <1>2, <2>2, <2>3, OnwardSound
<1>6. CASE Project(j) /\ Advance(j, job)
  <2>1. job[j].step = "project" /\ Sound(j)
    BY <1>6 DEF Project, Kempt, Busy
  <2>2. CASE Busy(j)'
    <3>1. /\ job'[j].todo = job[j].todo /\ job'[j].req = job[j].req
          /\ job'[j].step \in {"next", "mark"} /\ (job'[j].step = "mark" => job[j].todo = {})
      BY <1>0, <1>6, <2>2, AdvanceAt, IdleAt DEF Busy
    <3> QED BY <1>1, <1>2, <2>1, <3>1, OnwardSound
  <2> QED BY <1>2, <2>2
<1>7. \/ job' = [job EXCEPT ![j] = Idle]
      \/ LinkSubject(j) /\ Accepted(job[j])
      \/ Locate(j)
      \/ Project(j) /\ Advance(j, job)
  <2>1. CASE CreateUser(j)
    BY <2>1 DEF CreateUser, Finish, Refuse
  <2>2. CASE LinkSubject(j)
    BY <2>2 DEF LinkSubject
  <2>3. CASE Project(j)
    BY <2>3 DEF Project, GiveUp
  <2>4. CASE Fail(j)
    BY <2>4 DEF Fail, GiveUp
  <2> QED BY <2>1, <2>2, <2>3, <2>4
<1> QED BY <1>3, <1>4, <1>5, <1>6, <1>7

LEMMA GroupStep == TypeInv /\ GroupInv /\ [Next]_vars => GroupInv'
<1> SUFFICES ASSUME TypeInv, GroupInv, [Next]_vars, ~lapped', ~blind' PROVE One' /\ Kempt'
  BY DEF GroupInv
<1>0. One /\ Kempt
  BY HistoryGrows DEF GroupInv
<1>1. CASE Nobodys
  <2>1. subject' = subject /\ group' = group /\ job' = job
    BY <1>1 DEF Nobodys, RevokeBlind, Restart, Switch, vars
  <2> QED BY <1>0, <2>1 DEF One, Kempt, NoGone, Bare, Sound, Edits, Clean, Current, Deleting, Busy
<1>2. ASSUME NEW j \in Task, Own(j) PROVE One' /\ Kempt'
  <2>1. \A i \in Task \ {j} : ~Busy(i) /\ ~Busy(i)'
    BY <1>0, <1>2, Alone
  <2>2. One'
    BY <2>1 DEF One
  <2>3. CASE j \in Slot
    <3>1. \A i \in Slot \ {j} : ~Busy(i)'
      BY <2>1 DEF Task
    <3>2. j # "operator"
      BY <2>3, ScimAssumption
    <3>3. CASE Request_(j)
      BY <1>0, <2>2, <2>3, <3>1, <3>3, BeginKempt, Resting
    <3>4. CASE Mark(j)
      BY <1>0, <2>2, <2>3, <3>1, <3>4, MarkKempt, Resting
    <3>5. CASE ListMembers(j)
      BY <1>0, <2>2, <2>3, <3>1, <3>5, ListKempt, Resting
    <3>6. CASE FindSubject(j)
      BY <1>0, <2>2, <2>3, <3>1, <3>6, FindKempt, Resting
    <3>7. CASE PatchSubject(j)
      BY <1>0, <2>2, <2>3, <3>1, <3>7, PatchKempt, Resting
    <3>8. CASE CreateUser(j) \/ LinkSubject(j) \/ Locate(j) \/ Project(j) \/ Fail(j)
      BY <1>0, <2>2, <2>3, <3>1, <3>8, OtherKempt, Resting
    <3>9. ~ListNothing(j)
      BY DEF ListNothing
    <3> QED BY <1>2, <3>2, <3>3, <3>4, <3>5, <3>6, <3>7, <3>8, <3>9 DEF Own, Step
  <2>4. CASE j = "operator"
    <3>1. \A i \in Slot : ~Busy(i)'
      BY <2>1, <2>4, ScimAssumption DEF Task
    <3>2. subject' = subject /\ group' = group
      BY <1>2, <2>4, ScimAssumption DEF Own, Request_, Locate, Project, Fail, Revoke, RevokeSkip, RevokeNext
    <3> QED BY <1>0, <2>2, <3>1, <3>2 DEF Kempt, NoGone, Bare
  <2> QED BY <2>3, <2>4 DEF Task
<1> QED BY <1>1, <1>2, Actors

(* While handlers come one at a time and every list of subjects is answered, *)
(* a tombstoned group has no members at any moment, a deletion that failed   *)
(* half way included: a group is tombstoned after its last member is written *)
(* and is live again before its first one is.                                *)
THEOREM TombstonesEmpty == Spec => []GroupsLive
<1>1. Init => GroupInv
  <2> SUFFICES ASSUME Init PROVE One /\ Kempt
    BY DEF GroupInv
  <2>1. \A j \in Task : ~Busy(j)
    BY IdleAt DEF Init, Busy
  <2>2. NoGone /\ Bare
    BY DEF Init, NoGone, Bare
  <2> QED BY <2>1, <2>2 DEF One, Kempt, Task
<1>2. GroupInv => GroupsLive
  BY DEF GroupInv, GroupsLive, Kempt, NoGone
<1> QED BY <1>1, <1>2, TypeInit, TypeStep, GroupStep, PTL DEF Spec

(***************************************************************************)
(* Revocation.  Whatever is granted belongs to a linked subject; and unless *)
(* a handler was in flight as the connection was disabled, only the         *)
(* operator works from then on, and what is granted is what it has still to *)
(* withdraw.                                                                *)
(***************************************************************************)

Owned(a) == \E s \in Subject : subject[s].account = a
Viewed(j) == IF job[j].step \in {"locate", "project"} THEN job[j].now ELSE {}
Pending == job["operator"].todo \cup Viewed("operator")

OwnedInv ==
    /\ \A a \in Account : account[a].granted => Owned(a)
    /\ \A j \in Task : \A v \in Viewed(j) : Owned(v.a)
    /\ \A v \in job["operator"].todo : Owned(v.a)

Cleared == news \/ Busy("operator") \/ ~enabled => \A j \in Slot : ~Busy(j)
Withdrawing ==
    /\ \A v \in Pending : v.granted = FALSE
    /\ job["operator"].step = "project" => \A v \in job["operator"].now :
          job["operator"].put.granted = Change(FALSE, account[v.a].granted)
Covered ==
    ~missed /\ ~enabled /\ ~news =>
        \A a \in Account : account[a].granted => Busy("operator") /\ \E v \in Pending : v.a = a

RevokeInv == OwnedInv /\ (~late => Cleared /\ Withdrawing /\ Covered)

LEMMA OwnedKept == ASSUME Kept, NEW a \in Account, Owned(a) PROVE Owned(a)'
BY ScimAssumption DEF Kept, Owned

(* Where what a handler views comes from. *)
LEMMA ViewedFrom ==
    ASSUME TypeInv, NEW j \in Task, Own(j), NEW v, v \in Viewed(j)'
    PROVE  \/ v \in Viewed(j)
           \/ \E s \in Subject : subject'[s].account # NoOne /\ v = Projection(subject'[s])
           \/ j = "operator" /\ v \in job[j].todo
<1> DEFINE Goal == \/ v \in Viewed(j)
                   \/ \E s \in Subject : subject'[s].account # NoOne /\ v = Projection(subject'[s])
                   \/ j = "operator" /\ v \in job[j].todo
<1>0. job \in [Task -> Job] /\ job[j] \in Job /\ Idle.step = "idle"
  BY IdleAt DEF TypeInv, JobsTyped
<1>1. job'[j].step \in {"locate", "project"} /\ v \in job'[j].now
  BY DEF Viewed
<1>2. ASSUME NEW k, job' = [job EXCEPT ![j] = k], k.step \notin {"locate", "project"} PROVE FALSE
  BY <1>0, <1>1, <1>2
<1>3. ASSUME NEW jobs \in [Task -> Job], Advance(j, jobs) PROVE FALSE
  BY <1>0, <1>1, <1>3, AdvanceAt
<1>4. CASE j \in Slot /\ UserRequest(j)
  <2>1. PICK req \in Request, next \in Job : Begin(j, req, next) /\ next.step \in {"create", "next"}
    BY <1>4, UserBegins
  <2> QED BY <1>1, <1>4, <2>1, BeginAt
<1>5. CASE j \in Slot /\ GroupRequest(j)
  <2>1. PICK req \in Request, next \in Job : Begin(j, req, next) /\ next.step \in {"mark", "list"}
    BY <1>5, GroupBegins DEF GroupBegun
  <2> QED BY <1>1, <1>5, <2>1, BeginAt
<1>6. CASE j \in Slot /\ Link(j)
  <2>1. PICK req \in Request, next \in Job :
           /\ Begin(j, req, next) /\ req.s \in Subject /\ req.a \in Account
           /\ \/ next.step = "link"
              \/ next.now = {Projection(subject[req.s])} /\ subject[req.s].account = req.a
    BY <1>6, LinkBegins
  <2>2. job'[j].step = next.step /\ job'[j].now = next.now
    BY <1>6, <2>1, BeginAt
  <2>3. v = Projection(subject[req.s]) /\ subject[req.s].account # NoOne
    BY <1>1, <2>1, <2>2, ScimAssumption
  <2>4. subject' = subject
    BY <2>1 DEF Begin
  <2> QED BY <2>1, <2>3, <2>4
<1>7. CASE CreateUser(j) \/ Mark(j) \/ FindSubject(j)
  <2>1. CASE CreateUser(j)
    <3>1. job' = [job EXCEPT ![j] = Idle]
      BY <2>1 DEF CreateUser, Finish, Refuse
    <3> QED BY <1>0, <1>2, <3>1
  <2>2. CASE Mark(j)
    <3>1. job' = [job EXCEPT ![j] = Idle] \/ job' = [job EXCEPT ![j].step = "list"]
      BY <2>2 DEF Mark, Finish, Refuse
    <3> QED BY <1>0, <1>1, <1>2, <3>1 DEF Job
  <2>3. CASE FindSubject(j)
    <3>1. \E t, put : job' = [job EXCEPT ![j].step = "patch", ![j].now = {t}, ![j].todo = @ \ {t}, ![j].put = put]
      BY <2>3 DEF FindSubject
    <3> QED BY <1>0, <1>1, <3>1 DEF Job
  <2> QED BY <1>7, <2>1, <2>2, <2>3
<1>8. CASE j \in Slot /\ (ListMembers(j) \/ ListNothing(j))
  <2>1. \E jobs \in [Task -> Job] : Advance(j, jobs)
    BY <1>0, <1>8, ListAdvances DEF ListNothing
  <2> QED BY <1>3, <2>1
<1>9. CASE j \in Slot /\ PatchSubject(j)
  <2>0. job[j].step = "patch" /\ job[j].now \subseteq Edit
    BY <1>0, <1>9 DEF PatchSubject, TypeInv, JobsTyped, Shaped
  <2>1. PICK t \in job[j].now :
           \/ /\ Projected(t.s) /\ subject'[t.s].account = subject[t.s].account
              /\ job' = [Outdate(job, t.s) EXCEPT ![j].step = "locate", ![j].put = NoPut,
                            ![j].now = {Projection(subject'[t.s])}]
           \/ Advance(j, Outdate(job, t.s))
           \/ job' = [job EXCEPT ![j] = Idle]
    <3>1. ASSUME NEW t \in job[j].now
          PROVE  t.s \in Subject /\ subject'[t.s].account = subject[t.s].account
      <4>1. t.s \in Subject
        BY <2>0 DEF Edit
      <4>2. ~LinkSubject(j)
        BY <2>0 DEF LinkSubject
      <4> QED BY <4>1, <4>2, AccountsKept
    <3> QED BY <1>9, <3>1 DEF PatchSubject, GiveUp
  <2>2. Outdate(job, t.s) \in [Task -> Job] /\ Outdate(job, t.s)[j] \in Job /\ t.s \in Subject
    BY <2>0, OutdateTyped DEF TypeInv, JobsTyped, Edit
  <2>3. ASSUME Projected(t.s), subject'[t.s].account = subject[t.s].account,
               job' = [Outdate(job, t.s) EXCEPT ![j].step = "locate", ![j].put = NoPut,
                          ![j].now = {Projection(subject'[t.s])}]
        PROVE  Goal
    <3>1. job'[j].now = {Projection(subject'[t.s])}
      BY <1>0, <2>2, <2>3 DEF Job
    <3> QED BY <1>1, <2>2, <2>3, <3>1 DEF Projected
  <2> QED BY <1>0, <1>2, <1>3, <2>1, <2>2, <2>3
<1>10. CASE j \in Slot /\ LinkSubject(j)
  <2> DEFINE req == job[j].req
  <2>0. req.s \in Subject /\ req.a \in Account /\ subject \in [Subject -> Record]
    BY <1>0, <1>10 DEF LinkSubject, TypeInv, JobsTyped, Shaped
  <2>1. CASE Accepted(job[j])
    <3>1. /\ subject' = [subject EXCEPT ![req.s].account = req.a]
          /\ job' = [Outdate(job, req.s) EXCEPT ![j].step = "locate", ![j].now = {Projection(subject'[req.s])}]
      BY <1>10, <2>1 DEF LinkSubject
    <3>2. Outdate(job, req.s) \in [Task -> Job] /\ Outdate(job, req.s)[j] \in Job
      BY OutdateTyped DEF TypeInv, JobsTyped
    <3>3. job'[j].now = {Projection(subject'[req.s])}
      BY <1>0, <3>1, <3>2 DEF Job
    <3>4. subject'[req.s].account # NoOne
      BY <2>0, <3>1, ScimAssumption DEF Record
    <3> QED BY <1>1, <2>0, <3>3, <3>4
  <2>2. CASE ~Accepted(job[j])
    BY <1>0, <1>2, <1>10, <2>2 DEF LinkSubject
  <2> QED BY <2>1, <2>2
<1>11. CASE Locate(j)
  <2>1. job[j].step = "locate" /\ \E put : job' = [job EXCEPT ![j].step = "project", ![j].put = put]
    BY <1>11 DEF Locate
  <2>2. job'[j].now = job[j].now
    BY <1>0, <2>1 DEF Job
  <2> QED BY <1>1, <2>1, <2>2 DEF Viewed
<1>12. CASE Project(j) \/ Fail(j)
  <2>1. Advance(j, job) \/ job' = [job EXCEPT ![j] = Idle]
    BY <1>12 DEF Project, Fail, GiveUp
  <2> QED BY <1>0, <1>2, <1>3, <2>1
<1>13. CASE j = "operator" /\ Revoke
  <2> DEFINE next == IF Linked = {} THEN Idle ELSE [At("next") EXCEPT !.todo = {Withdrawn(s) : s \in Linked}]
  <2>1. job' = [job EXCEPT ![j] = next]
    BY <1>13 DEF Revoke
  <2>2. next.step \notin {"locate", "project"}
    BY <1>0, AtType DEF Job
  <2> HIDE DEF next
  <2> QED BY <1>2, <2>1, <2>2
<1>14. CASE j = "operator" /\ RevokeSkip
  BY <1>0, <1>3, <1>14 DEF RevokeSkip
<1>15. CASE j = "operator" /\ RevokeNext
  <2>1. PICK w \in job[j].todo : job' = [job EXCEPT ![j].step = "locate", ![j].now = {w}, ![j].todo = @ \ {w}]
    BY <1>15 DEF RevokeNext
  <2>2. job'[j].now = {w}
    BY <1>0, <2>1 DEF Job
  <2> QED BY <1>1, <1>15, <2>1, <2>2
<1> QED BY <1>4, <1>5, <1>6, <1>7, <1>8, <1>9, <1>10, <1>11, <1>12, <1>13, <1>14, <1>15 DEF Own, Request_, Step

(* What the operator does, step by step. *)
OperatorStep ==
    LET k == job["operator"]
        l == job'["operator"]
    IN
    \/ /\ Revoke /\ l.todo = {Withdrawn(s) : s \in Linked} /\ l.step = IF Linked = {} THEN "idle" ELSE "next"
    \/ /\ RevokeNext /\ k.step = "next" /\ l.step = "locate"
       /\ \E v \in k.todo : l.now = {v} /\ l.todo = k.todo \ {v}
    \/ /\ Locate("operator") /\ k.step = "locate" /\ l.step = "project" /\ l.todo = k.todo /\ l.now = k.now
       /\ \A v \in k.now : l.put.granted = Change(v.granted, account[v.a].granted)
    \/ /\ Project("operator") /\ k.step = "project" /\ l.todo = k.todo
       /\ l.step \notin {"locate", "project"} /\ (k.todo # {} => l.step = "next")
       /\ missed' \/ \E v \in k.now : account' = [account EXCEPT ![v.a] =
                [known |-> TRUE, active |-> Applied(k.put.active, account[v.a].active),
                 granted |-> Applied(k.put.granted, account[v.a].granted)]]
    \/ /\ missed' /\ account' = account /\ l.todo \subseteq k.todo /\ l.step \notin {"locate", "project"}
       /\ news' = news /\ Busy("operator")

LEMMA OperatorSteps == ASSUME TypeInv, Own("operator") PROVE OperatorStep
<1> DEFINE j == "operator"
<1>0. /\ j \in Task /\ job \in [Task -> Job] /\ job[j] \in Job /\ Idle.step = "idle" /\ Idle.todo = {}
      /\ j \notin Slot
  BY IdleAt, ScimAssumption DEF TypeInv, JobsTyped, Task
<1>1. CASE Revoke
  <2> DEFINE todo == {Withdrawn(s) : s \in Linked}
  <2>1. At("next").step = "next" /\ At("next") \in Job
    BY AtType
  <2>2. job'[j] = IF Linked = {} THEN Idle ELSE [At("next") EXCEPT !.todo = todo]
    BY <1>0, <1>1 DEF Revoke
  <2>3. Linked = {} => todo = {}
    OBVIOUS
  <2> HIDE DEF todo
  <2>4. [At("next") EXCEPT !.todo = todo].todo = todo /\ [At("next") EXCEPT !.todo = todo].step = "next"
    BY <2>1 DEF Job
  <2>5. job'[j].todo = todo /\ job'[j].step = IF Linked = {} THEN "idle" ELSE "next"
    BY <1>0, <2>2, <2>3, <2>4
  <2> QED BY <1>1, <2>5 DEF OperatorStep, todo
<1>2. CASE RevokeNext
  <2>1. PICK v \in job[j].todo :
           job[j].step = "next" /\ job' = [job EXCEPT ![j].step = "locate", ![j].now = {v}, ![j].todo = @ \ {v}]
    BY <1>2 DEF RevokeNext
  <2>2. job'[j].step = "locate" /\ job'[j].now = {v} /\ job'[j].todo = job[j].todo \ {v}
    BY <1>0, <2>1 DEF Job
  <2> QED BY <1>2, <2>1, <2>2 DEF OperatorStep
<1>3. CASE Locate(j)
  <2>1. PICK v \in job[j].now :
           /\ job[j].step = "locate"
           /\ job' = [job EXCEPT ![j].step = "project",
                 ![j].put = [NoPut EXCEPT
                    !.active = IF account[v.a].known THEN Change(v.active, account[v.a].active) ELSE {v.active},
                    !.granted = Change(v.granted, account[v.a].granted)]]
    BY <1>3 DEF Locate
  <2>2. job[j].now = {v}
    BY <1>0 DEF Job, Maybe
  <2>3. /\ job'[j].step = "project" /\ job'[j].todo = job[j].todo /\ job'[j].now = job[j].now
        /\ job'[j].put.granted = Change(v.granted, account[v.a].granted)
    BY <1>0, <2>1 DEF Job, NoPut
  <2> QED BY <1>3, <2>1, <2>2, <2>3 DEF OperatorStep
<1>4. CASE Project(j)
  <2>1. PICK v \in job[j].now :
           /\ job[j].step = "project"
           /\ \/ /\ account' = [account EXCEPT ![v.a] =
                        [known |-> TRUE, active |-> Applied(job[j].put.active, account[v.a].active),
                         granted |-> Applied(job[j].put.granted, account[v.a].granted)]]
                 /\ Advance(j, job)
              \/ GiveUp(j) /\ account' = account
    BY <1>4 DEF Project
  <2>2. CASE Advance(j, job) /\ account' = [account EXCEPT ![v.a] =
                        [known |-> TRUE, active |-> Applied(job[j].put.active, account[v.a].active),
                         granted |-> Applied(job[j].put.granted, account[v.a].granted)]]
    <3>1. /\ job'[j].todo = job[j].todo /\ job'[j].step \notin {"locate", "project"}
          /\ job[j].todo # {} => job'[j].step = "next"
      BY <1>0, <2>2, AdvanceAt
    <3> QED BY <1>4, <2>1, <2>2, <3>1 DEF OperatorStep
  <2>3. CASE GiveUp(j) /\ account' = account
    <3>1. missed' /\ news' = news /\ Busy(j)
      BY <1>4, <2>1, <2>3 DEF GiveUp, Project, Busy
    <3>2. job'[j].todo = {} /\ job'[j].step = "idle"
      BY <1>0, <2>3 DEF GiveUp
    <3> QED BY <2>3, <3>1, <3>2 DEF OperatorStep
  <2> QED BY <2>1, <2>2, <2>3
<1>5. CASE Fail(j)
  <2>1. missed' /\ account' = account /\ news' = news /\ Busy(j)
    BY <1>5 DEF Fail, GiveUp
  <2>2. job'[j].todo = {} /\ job'[j].step = "idle"
    BY <1>0, <1>5 DEF Fail, GiveUp
  <2> QED BY <2>1, <2>2 DEF OperatorStep
<1>6. CASE RevokeSkip
  <2>1. missed' /\ account' = account /\ news' = news /\ Busy(j) /\ Advance(j, job)
    BY <1>6 DEF RevokeSkip, Busy
  <2>2. job'[j].todo \subseteq job[j].todo /\ job'[j].step \notin {"locate", "project"}
    BY <1>0, <2>1, AdvanceAt
  <2> QED BY <2>1, <2>2 DEF OperatorStep
<1> QED BY <1>0, <1>1, <1>2, <1>3, <1>4, <1>5, <1>6 DEF Own, Request_

LEMMA OwnedStep == ASSUME TypeInv, LinkInv, OwnedInv, [Next]_vars PROVE OwnedInv'
<1>0. Kept /\ TypeInv'
  BY LinkStep, TypeStep
<1>1. CASE Nobodys
  <2>1. subject' = subject /\ account' = account /\ job' = job
    BY <1>1 DEF Nobodys, RevokeBlind, Restart, Switch, vars
  <2> QED BY <2>1 DEF OwnedInv, Owned, Viewed
<1>2. ASSUME NEW j \in Task, Own(j) PROVE OwnedInv'
  <2>1. Others(j)
    BY <1>2, OwnOthers
  <2>2. \A i \in Task : /\ Viewed(i) \subseteq View
                        /\ "operator" \in Task /\ job["operator"].todo \subseteq View
    BY DEF TypeInv, JobsTyped, Shaped, Viewed, Task
  <2>3. \A i \in Task : \A v \in Viewed(i) : Owned(v.a)'
    BY <1>0, <2>2, OwnedKept DEF OwnedInv, View
  <2>4. \A v \in job["operator"].todo : Owned(v.a)'
    BY <1>0, <2>2, OwnedKept DEF OwnedInv, View
  <2>5. ASSUME NEW a \in Account, account'[a].granted PROVE Owned(a)'
    <3>1. CASE account'[a] = account[a]
      BY <1>0, <2>5, <3>1, OwnedKept DEF OwnedInv
    <3>2. CASE account'[a] # account[a]
      <4>1. Project(j)
        BY <1>2, <3>2 DEF Own, Request_, UserRequest, GroupRequest, Link, Begin, Step, CreateUser, Mark,
                          ListMembers, ListNothing, FindSubject, PatchSubject, LinkSubject, Locate, Fail,
                          Revoke, RevokeSkip, RevokeNext
      <4>2. PICK v \in job[j].now : job[j].step = "project" /\ \A b \in Account : b # v.a => account'[b] = account[b]
        BY <4>1 DEF Project, TypeInv
      <4>3. a = v.a /\ v \in Viewed(j)
        BY <3>2, <4>2 DEF Viewed
      <4> QED BY <2>3, <4>3
    <3> QED BY <3>1, <3>2
  <2>6. ASSUME NEW i \in Task, NEW v \in Viewed(i)' PROVE Owned(v.a)'
    <3>1. CASE i # j
      <4>1. v \in Viewed(i)
        BY <2>1, <2>6, <3>1 DEF Others, SameWork, Viewed
      <4> QED BY <2>3, <4>1
    <3>2. CASE i = j
      <4>1. CASE v \in Viewed(j)
        BY <2>3, <4>1
      <4>2. CASE \E s \in Subject : subject'[s].account # NoOne /\ v = Projection(subject'[s])
        <5>1. PICK s \in Subject : v = Projection(subject'[s])
          BY <4>2
        <5>2. v.a = subject'[s].account
          BY <5>1 DEF Projection
        <5> QED BY <5>2 DEF Owned
      <4>3. CASE j = "operator" /\ v \in job[j].todo
        BY <2>4, <4>3
      <4> QED BY <1>2, <2>6, <3>2, <4>1, <4>2, <4>3, ViewedFrom
    <3> QED BY <3>1, <3>2
  <2>7. ASSUME NEW v \in job'["operator"].todo PROVE Owned(v.a)'
    <3>1. CASE v \in job["operator"].todo
      BY <2>4, <3>1
    <3>2. CASE v \notin job["operator"].todo
      <4>1. j = "operator"
        BY <2>1, <2>2, <2>7, <3>2 DEF Others, SameWork
      <4>2. Revoke /\ \E s \in Linked : v = Withdrawn(s)
        BY <1>2, <2>7, <3>2, <4>1, OperatorSteps DEF OperatorStep
      <4>3. PICK s \in Subject : v.a = subject[s].account
        BY <4>2 DEF Linked, Withdrawn
      <4> QED BY <4>2, <4>3 DEF Owned, Revoke
    <3> QED BY <3>1, <3>2
  <2> QED BY <2>5, <2>6, <2>7 DEF OwnedInv
<1> QED BY <1>1, <1>2, Actors

(* A request only works while the connection is enabled and the operator rests. *)
LEMMA SlotActs ==
    ASSUME TypeInv, Cleared, NEW j \in Slot, Own(j), ~late'
    PROVE  enabled' /\ ~news' /\ ~Busy("operator")'
<1>0. j # "operator" /\ "operator" \in Task /\ j \in Task
  BY ScimAssumption DEF Task
<1>1. enabled /\ ~news /\ ~Busy("operator")
  <2>1. CASE Request_(j)
    BY <2>1 DEF Request_, UserRequest, GroupRequest, Link, Begin
  <2>2. CASE ~Request_(j)
    <3>1. Busy(j)
      BY <1>0, <2>2 DEF Own, Step, CreateUser, Mark, ListMembers, ListNothing, FindSubject, PatchSubject,
                        LinkSubject, Locate, Project, Fail, Busy
    <3> QED BY <3>1 DEF Cleared
  <2> QED BY <2>1, <2>2
<1>2. enabled' = enabled /\ news' = news
  BY <1>0 DEF Own, Request_, UserRequest, GroupRequest, Link, Begin, Step, CreateUser, Mark, ListMembers,
              ListNothing, FindSubject, PatchSubject, LinkSubject, Locate, Project, Fail
<1>3. Busy("operator")' <=> Busy("operator")
  BY <1>0, OwnOthers DEF Others, SameWork, Busy
<1> QED BY <1>1, <1>2, <1>3

LEMMA LateGrows == ASSUME [Next]_vars, late PROVE late'
<1>1. ASSUME NEW j, UserRequest(j) \/ GroupRequest(j) \/ Link(j) PROVE late'
  <2>1. \E req, next : Begin(j, req, next)
    BY <1>1 DEF UserRequest, GroupRequest, Link
  <2> QED BY <2>1 DEF Begin
<1>2. ASSUME NEW j, CreateUser(j) \/ Mark(j) \/ ListMembers(j) \/ ListNothing(j) PROVE late' = late
  BY <1>2 DEF CreateUser, Mark, ListMembers, ListNothing
<1>3. ASSUME NEW j, FindSubject(j) PROVE late' = late
  BY <1>3 DEF FindSubject
<1>4. ASSUME NEW j, PatchSubject(j) PROVE late' = late
  BY <1>4 DEF PatchSubject
<1>5. ASSUME NEW j, LinkSubject(j) PROVE late' = late
  BY <1>5 DEF LinkSubject
<1>6. ASSUME NEW j, Locate(j) \/ Project(j) \/ Fail(j) PROVE late' = late
  BY <1>6 DEF Locate, Project, Fail
<1>7. CASE Switch
  BY <1>7 DEF Switch
<1>8. CASE Revoke \/ RevokeBlind \/ RevokeSkip \/ RevokeNext \/ Restart \/ UNCHANGED vars
  <2>1. late' = late
    BY <1>8 DEF Revoke, RevokeBlind, RevokeSkip, RevokeNext, Restart, vars
  <2> QED BY <2>1
<1> QED BY <1>1, <1>2, <1>3, <1>4, <1>5, <1>6, <1>7, <1>8 DEF Next, Step

(* What is withdrawn is no longer granted. *)
LEMMA AppliedFalse ==
    ASSUME NEW old \in BOOLEAN PROVE Applied(Change(FALSE, old), old) = FALSE
<1>1. CASE old = FALSE
  BY <1>1 DEF Applied, Change
<1>2. CASE old = TRUE
  <2>1. Change(FALSE, old) = {FALSE}
    BY <1>2 DEF Change
  <2>2. (CHOOSE new \in {FALSE} : TRUE) = FALSE
    OBVIOUS
  <2> QED BY <2>1, <2>2 DEF Applied
<1> QED BY <1>1, <1>2

LEMMA OperatorWithdraws ==
    ASSUME TypeInv, OwnedInv, Cleared, Withdrawing, Covered, Own("operator")
    PROVE  Cleared' /\ Withdrawing' /\ Covered'
<1> DEFINE j == "operator"
           k == job[j]
           l == job'[j]
<1>0. /\ j \in Task /\ j \notin Slot /\ k \in Job /\ k.todo \subseteq View /\ Others(j)
      /\ account \in [Account -> Identity]
  BY OwnOthers, ScimAssumption DEF TypeInv, JobsTyped, Shaped, Task
<1>1. enabled' = enabled /\ (Revoke \/ news' = news)
  BY <1>0 DEF Own, Request_, Locate, Project, Fail, Revoke, RevokeSkip, RevokeNext
<1>2. \A i \in Slot : ~Busy(i)'
  <2>1. news \/ Busy(j)
    BY <1>0 DEF Own, Request_, Locate, Project, Fail, Revoke, RevokeSkip, RevokeNext, Busy
  <2> QED BY <1>0, <2>1 DEF Cleared, Others, SameWork, Task, Busy
<1>3. Cleared'
  BY <1>2 DEF Cleared
<1>4. CASE Revoke /\ l.todo = {Withdrawn(s) : s \in Linked} /\ l.step = IF Linked = {} THEN "idle" ELSE "next"
  <2>1. account' = account
    BY <1>4 DEF Revoke
  <2>2. Pending' = {Withdrawn(s) : s \in Linked}
    BY <1>4 DEF Pending, Viewed
  <2>3. Withdrawing'
    BY <1>4, <2>2 DEF Withdrawing, Withdrawn
  <2>4. ASSUME NEW a \in Account, account[a].granted PROVE Busy(j)' /\ \E v \in Pending' : v.a = a
    <3>1. PICK s \in Subject : subject[s].account = a
      BY <2>4 DEF OwnedInv, Owned
    <3>2. s \in Linked
      BY <3>1, ScimAssumption DEF Linked
    <3>3. Withdrawn(s).a = a
      BY <3>1 DEF Withdrawn
    <3>4. l.step = "next"
      BY <1>4, <3>2
    <3> QED BY <2>2, <3>2, <3>3, <3>4 DEF Busy
  <2> QED BY <1>3, <2>1, <2>3, <2>4 DEF Covered
<1>5. CASE /\ RevokeNext /\ k.step = "next" /\ l.step = "locate"
           /\ \E v \in k.todo : l.now = {v} /\ l.todo = k.todo \ {v}
  <2>1. account' = account /\ missed' = missed /\ news' = news
    BY <1>5 DEF RevokeNext
  <2>2. Pending' = Pending
    BY <1>5 DEF Pending, Viewed
  <2>3. Busy(j)'
    BY <1>5 DEF Busy
  <2> QED BY <1>1, <1>3, <1>5, <2>1, <2>2, <2>3 DEF Withdrawing, Covered
<1>6. CASE /\ Locate(j) /\ k.step = "locate" /\ l.step = "project" /\ l.todo = k.todo /\ l.now = k.now
           /\ \A v \in k.now : l.put.granted = Change(v.granted, account[v.a].granted)
  <2>1. account' = account /\ missed' = missed /\ news' = news
    BY <1>6 DEF Locate
  <2>2. Pending' = Pending /\ k.now \subseteq Pending
    BY <1>6 DEF Pending, Viewed
  <2>3. Busy(j)'
    BY <1>6 DEF Busy
  <2>4. \A v \in k.now : l.put.granted = Change(FALSE, account[v.a].granted)
    BY <1>6, <2>2 DEF Withdrawing
  <2> QED BY <1>1, <1>3, <1>6, <2>1, <2>2, <2>3, <2>4 DEF Withdrawing, Covered
<1>7. CASE /\ Project(j) /\ k.step = "project" /\ l.todo = k.todo
           /\ l.step \notin {"locate", "project"} /\ (k.todo # {} => l.step = "next")
           /\ missed' \/ \E v \in k.now : account' = [account EXCEPT ![v.a] =
                    [known |-> TRUE, active |-> Applied(k.put.active, account[v.a].active),
                     granted |-> Applied(k.put.granted, account[v.a].granted)]]
  <2>1. Pending' = k.todo /\ Pending = k.todo \cup k.now
    BY <1>7 DEF Pending, Viewed
  <2>2. Withdrawing'
    BY <1>7, <2>1 DEF Withdrawing
  <2>3. CASE missed'
    BY <1>3, <2>2, <2>3 DEF Covered
  <2>4. CASE ~missed'
    <3>1. PICK v \in k.now : account' = [account EXCEPT ![v.a] =
                    [known |-> TRUE, active |-> Applied(k.put.active, account[v.a].active),
                     granted |-> Applied(k.put.granted, account[v.a].granted)]]
      BY <1>7, <2>4
    <3>2. v \in View /\ k.now = {v} /\ ~missed
      <4>1. k.now \subseteq View
        BY <1>0, <1>7 DEF TypeInv, JobsTyped, Shaped
      <4>2. k.now = {v}
        BY <1>0 DEF Job, Maybe
      <4>3. missed' = missed
        BY <1>7, <2>4 DEF Project, GiveUp
      <4> QED BY <2>4, <4>1, <4>2, <4>3
    <3>3. v.a \in Account /\ account[v.a].granted \in BOOLEAN
      BY <1>0, <3>2 DEF View, Identity
    <3>4. k.put.granted = Change(FALSE, account[v.a].granted)
      BY <1>7 DEF Withdrawing
    <3>5. account'[v.a].granted = FALSE
      BY <1>0, <3>1, <3>3, <3>4, AppliedFalse
    <3>6. ASSUME ~enabled, ~news, NEW a \in Account, account'[a].granted
          PROVE  Busy(j)' /\ \E w \in Pending' : w.a = a
      <4>1. a # v.a /\ account[a].granted
        BY <1>0, <3>1, <3>3, <3>5, <3>6
      <4>2. PICK w \in Pending : w.a = a
        BY <3>2, <3>6, <4>1 DEF Covered
      <4>3. w \in k.todo
        BY <2>1, <3>2, <4>1, <4>2
      <4>4. l.step = "next"
        BY <1>7, <4>3
      <4> QED BY <2>1, <4>2, <4>3, <4>4 DEF Busy
    <3>7. news' = news
      BY <1>7 DEF Project
    <3> QED BY <1>1, <1>3, <2>2, <3>6, <3>7 DEF Covered
  <2> QED BY <2>3, <2>4
<1>8. CASE /\ missed' /\ account' = account /\ l.todo \subseteq k.todo /\ l.step \notin {"locate", "project"}
           /\ news' = news /\ Busy(j)
  <2>1. Pending' \subseteq Pending
    BY <1>8 DEF Pending, Viewed
  <2> QED BY <1>3, <1>8, <2>1 DEF Withdrawing, Covered
<1> QED BY <1>4, <1>5, <1>6, <1>7, <1>8, OperatorSteps DEF OperatorStep

LEMMA RevokeStep == ASSUME TypeInv, LinkInv, RevokeInv, [Next]_vars PROVE RevokeInv'
<1>1. OwnedInv'
  BY OwnedStep DEF RevokeInv
<1>2. ASSUME ~late' PROVE Cleared' /\ Withdrawing' /\ Covered'
  <2>1. OwnedInv /\ Cleared /\ Withdrawing /\ Covered
    BY <1>2, LateGrows DEF RevokeInv
  <2>2. CASE Nobodys
    <3>1. job' = job /\ account' = account
      BY <2>2 DEF Nobodys, RevokeBlind, Restart, Switch, vars
    <3>2. Withdrawing'
      BY <2>1, <3>1 DEF Withdrawing, Pending, Viewed
    <3>3. CASE RevokeBlind
      BY <2>1, <3>1, <3>2, <3>3 DEF RevokeBlind, Cleared, Covered, Busy
    <3>4. CASE Restart
      BY <2>1, <3>1, <3>2, <3>4 DEF Restart, Cleared, Covered, Busy
    <3>5. CASE Switch
      BY <1>2, <2>1, <3>1, <3>2, <3>5 DEF Switch, Cleared, Covered, Busy
    <3>6. CASE UNCHANGED vars
      BY <2>1, <3>1, <3>2, <3>6 DEF vars, Cleared, Covered, Pending, Viewed, Busy
    <3> QED BY <2>2, <3>3, <3>4, <3>5, <3>6 DEF Nobodys
  <2>3. ASSUME NEW j \in Slot, Own(j) PROVE Cleared' /\ Withdrawing' /\ Covered'
    <3>1. enabled' /\ ~news' /\ ~Busy("operator")'
      BY <1>2, <2>1, <2>3, SlotActs
    <3>2. "operator" \in Task \ {j} /\ Others(j)
      BY <2>3, OwnOthers, ScimAssumption DEF Task
    <3>3. SameWork(job["operator"], job'["operator"])
      BY <3>2 DEF Others
    <3>4. Pending' = Pending
      BY <3>3 DEF SameWork, Pending, Viewed
    <3> QED BY <2>1, <3>1, <3>4 DEF Cleared, Withdrawing, Covered, Busy
  <2>4. CASE Own("operator")
    BY <2>1, <2>4, OperatorWithdraws
  <2> QED BY <2>2, <2>3, <2>4, Actors DEF Task
<1> QED BY <1>1, <1>2 DEF RevokeInv

(* Once the revocation of a disabled connection is done, no account holds a  *)
(* grant of it, unless a handler was in flight as it was disabled or the     *)
(* revocation itself was cut short.                                          *)
THEOREM DisabledRevoked == Spec => []Revoked
<1>1. Init => LinkInv /\ RevokeInv
  <2> SUFFICES ASSUME Init PROVE LinkInv /\ RevokeInv
    OBVIOUS
  <2>1. \A j \in Task : job[j] = Idle /\ ~Busy(j) /\ Viewed(j) = {}
    BY IdleAt DEF Init, Busy, Viewed
  <2>2. "operator" \in Task /\ Pending = {}
    BY <2>1, IdleAt DEF Pending, Task
  <2>3. \A a \in Account : account[a].granted => Owned(a)
    BY DEF Init, Owned
  <2> QED BY <2>1, <2>2, <2>3, IdleAt DEF Init, LinkInv, RevokeInv, OwnedInv, Cleared, Withdrawing, Covered, Task
<1>2. TypeInv /\ LinkInv /\ RevokeInv /\ [Next]_vars => LinkInv' /\ RevokeInv'
  BY LinkStep, RevokeStep
<1>3. RevokeInv => Revoked
  <2> SUFFICES ASSUME RevokeInv, Quiet, ~enabled, ~late, ~missed, NEW a \in Account, account[a].granted PROVE FALSE
    BY DEF Revoked
  <2>1. ~Busy("operator") /\ ~news
    BY DEF Quiet, Calm, Task
  <2> QED BY <2>1 DEF RevokeInv, Covered
<1> QED BY <1>1, <1>2, <1>3, TypeInit, TypeStep, PTL DEF Spec

(***************************************************************************)
(* Settling.  While handlers come one at a time and the connection is never *)
(* switched, an account that does not show its subject is the one a handler *)
(* is about to project into, or a request of that subject failed and has    *)
(* not succeeded since.                                                     *)
(***************************************************************************)

(* An account is linked to the subject its upstream claims name. *)
ClaimInv ==
    /\ \A s \in Subject : subject[s].account # NoOne => claim[subject[s].account] = s
    /\ \A j \in Task : job[j].step = "link" => claim[job[j].req.a] = job[j].req.s

(* Nobody but the requests works on a connection that stays enabled. *)
StillInv == spent.switch = 0 => enabled /\ ~news /\ ~Busy("operator")

(* A subject has the grant its groups give, and is made before it has any. *)
Firm(s) ==
    LET u == subject[s] IN
    /\ u.granted = Granted(u.active, u.groups)
    /\ ~u.made => u.groups = {} /\ u.account = NoOne

(* What a patch of a subject, or of an account, carries is what differs. *)
Exact(t, put) ==
    LET u == subject[t.s] IN
    /\ put.active = Change(t.active, u.active)
    /\ put.granted = Change(Granted(t.active, t.groups), u.granted)
    /\ Current(t, put)
ExactView(v, put) ==
    LET i == account[v.a] IN
    /\ put.active = IF i.known THEN Change(v.active, i.active) ELSE {v.active}
    /\ put.granted = Change(v.granted, i.granted)

(* A view is of a subject that is linked, as it is. *)
Faithful(v, s) == subject[s].account = v.a /\ v = Projection(subject[s])

(* A request of one subject, and all it writes is of that subject. *)
Single(k) == k.req.op \notin GroupOps
Aimed(j) ==
    LET k == job[j] IN
    /\ \A t \in Edits(j) : subject[t.s].made /\ (Single(k) => t.s = k.req.s)
    /\ k.step = "patch" => \A t \in k.now : Exact(t, k.put)
    /\ k.step \in {"mark", "list"} => ~Single(k)
    /\ k.step = "link" => Single(k) /\ subject[k.req.s].made
    /\ \A v \in Viewed(j) : \E s \in Subject : Faithful(v, s) /\ (Single(k) => s = k.req.s)
    /\ k.step = "project" => \A v \in k.now : ExactView(v, k.put)
Plain == (\A s \in Subject : Firm(s)) /\ \A j \in Slot : Busy(j) => Aimed(j)
PlainInv == ~lapped => One /\ Plain

Right(s) ==
    LET u == subject[s] IN
    account[u.account] = [known |-> TRUE, active |-> u.active, granted |-> u.granted]
InHand(s) == \E j \in Slot : \E v \in Viewed(j) : v.a = subject[s].account
Repeatable(s) == \E r \in unmet : r.s = s /\ r.op \notin GroupOps
Owed == \A s \in Linked : Right(s) \/ InHand(s) \/ Repeatable(s)
OwedInv == ~lapped /\ ~sore /\ spent.switch = 0 => Owed

(* The links follow the claims, which stay. *)
LEMMA ClaimStep == ASSUME TypeInv, ClaimInv, [Next]_vars PROVE ClaimInv'
<1>0. /\ subject \in [Subject -> Record] /\ job \in [Task -> Job] /\ Idle.step = "idle"
      /\ \A i \in Task : Shaped(i, job[i])
  BY IdleAt DEF TypeInv, JobsTyped
<1>1. CASE Nobodys
  <2>1. subject' = subject /\ claim' = claim /\ job' = job
    BY <1>1 DEF Nobodys, RevokeBlind, Restart, Switch, vars
  <2> QED BY <2>1 DEF ClaimInv
<1>2. ASSUME NEW j \in Task, Own(j) PROVE ClaimInv'
  <2>0. claim' = claim
    <3>1. CASE Request_(j)
      BY <3>1 DEF Request_, UserRequest, GroupRequest, Link, Begin
    <3>2. CASE ~Request_(j)
      BY <1>2, <3>2 DEF Own, Step, CreateUser, Mark, ListMembers, ListNothing, FindSubject,
                        PatchSubject, LinkSubject, Locate, Project, Fail, Revoke, RevokeSkip, RevokeNext
    <3> QED BY <3>1, <3>2
  <2>1. Others(j)
    BY <1>2, OwnOthers
  <2>2. ASSUME NEW s \in Subject, subject'[s].account # NoOne
        PROVE  claim[subject'[s].account] = s
    <3>1. CASE j \in Slot /\ LinkSubject(j)
      <4>1. job[j].step = "link" /\ job[j].req.s \in Subject
        BY <1>0, <3>1 DEF LinkSubject, Shaped
      <4>2. claim[job[j].req.a] = job[j].req.s
        BY <4>1 DEF ClaimInv
      <4>3. subject' = [subject EXCEPT ![job[j].req.s].account = job[j].req.a] \/ subject' = subject
        BY <3>1 DEF LinkSubject
      <4>4. \/ s = job[j].req.s /\ subject'[s].account = job[j].req.a
            \/ subject'[s].account = subject[s].account
        BY <1>0, <4>1, <4>3 DEF Record
      <4> QED BY <2>2, <4>2, <4>4 DEF ClaimInv
    <3>2. CASE ~(j \in Slot /\ LinkSubject(j))
      <4>1. subject'[s].account = subject[s].account
        BY <1>2, <3>2, AccountsKept
      <4> QED BY <2>2, <4>1 DEF ClaimInv
    <3> QED BY <3>1, <3>2
  <2>3. ASSUME NEW i \in Task, job'[i].step = "link"
        PROVE  claim[job'[i].req.a] = job'[i].req.s
    <3>1. CASE i # j
      <4>1. job[i].step = "link" /\ job'[i].req = job[i].req
        BY <2>1, <2>3, <3>1 DEF Others, SameWork
      <4> QED BY <4>1 DEF ClaimInv
    <3>2. CASE i = j
      <4>1. j \in Slot /\ Link(j)
        BY <1>2, <2>3, <3>2, NotLinking
      <4>2. PICK req \in Request, next \in Job : Begin(j, req, next) /\ claim[req.a] = req.s
        BY <4>1, LinkBegins
      <4>3. job'[j].req = req
        BY <4>1, <4>2, BeginAt
      <4> QED BY <3>2, <4>2, <4>3
    <3> QED BY <3>1, <3>2
  <2> QED BY <2>0, <2>2, <2>3 DEF ClaimInv
<1> QED BY <1>1, <1>2, Actors

(* Two subjects are not linked to one account. *)
LEMMA OneSubject ==
    ASSUME ClaimInv, NEW s \in Subject, NEW x \in Subject,
           subject[s].account # NoOne, subject[s].account = subject[x].account
    PROVE  s = x
BY DEF ClaimInv

(* Bounds are counters. *)
Counters == [request : Nat, overlap : Nat, fault : Nat, switch : Nat]
SpentInv == spent \in Counters

LEMMA Counting ==
    ASSUME NEW c \in Counters
    PROVE  /\ [c EXCEPT !.fault = @ + 1] \in Counters /\ [c EXCEPT !.fault = @ + 1].switch = c.switch
           /\ [c EXCEPT !.request = @ + 1] \in Counters /\ [c EXCEPT !.request = @ + 1].switch = c.switch
           /\ [c EXCEPT !.request = @ + 1, !.overlap = @ + 1] \in Counters
           /\ [c EXCEPT !.request = @ + 1, !.overlap = @ + 1].switch = c.switch
           /\ [c EXCEPT !.switch = @ + 1] \in Counters /\ [c EXCEPT !.switch = @ + 1].switch # 0
<1>1. c.request + 1 \in Nat /\ c.overlap + 1 \in Nat /\ c.fault + 1 \in Nat /\ c.switch + 1 \in Nat \ {0}
  BY DEF Counters
<1>2. [c EXCEPT !.fault = @ + 1] \in Counters /\ [c EXCEPT !.fault = @ + 1].switch = c.switch
  BY <1>1 DEF Counters
<1>3. [c EXCEPT !.request = @ + 1] \in Counters /\ [c EXCEPT !.request = @ + 1].switch = c.switch
  BY <1>1 DEF Counters
<1>4. /\ [c EXCEPT !.request = @ + 1, !.overlap = @ + 1] \in Counters
      /\ [c EXCEPT !.request = @ + 1, !.overlap = @ + 1].switch = c.switch
  BY <1>1 DEF Counters
<1>5. [c EXCEPT !.switch = @ + 1] \in Counters /\ [c EXCEPT !.switch = @ + 1].switch # 0
  BY <1>1 DEF Counters
<1> QED BY <1>2, <1>3, <1>4, <1>5

(* No handler switches the connection, or counts a switch. *)
Spends ==
    /\ enabled' = enabled /\ (news' = news \/ news' = FALSE)
    /\ \/ spent' = spent
       \/ spent' = [spent EXCEPT !.fault = @ + 1]
       \/ spent' = [spent EXCEPT !.request = @ + 1]
       \/ spent' = [spent EXCEPT !.request = @ + 1, !.overlap = @ + 1]

LEMMA OwnSpends == ASSUME NEW j \in Task, Own(j) PROVE Spends
<1>1. CASE Request_(j)
  <2>1. PICK req, next : Begin(j, req, next)
    BY <1>1 DEF Request_, UserRequest, GroupRequest, Link
  <2> QED BY <2>1 DEF Begin, Spends
<1>2. CASE CreateUser(j)
  BY <1>2 DEF CreateUser, Spends
<1>3. CASE Mark(j)
  BY <1>3 DEF Mark, Spends
<1>4. CASE ListMembers(j)
  BY <1>4 DEF ListMembers, Spends
<1>5. CASE ListNothing(j)
  BY <1>5 DEF ListNothing, Spends
<1>6. CASE FindSubject(j)
  BY <1>6 DEF FindSubject, Spends
<1>7. CASE PatchSubject(j)
  BY <1>7 DEF PatchSubject, Spends
<1>8. CASE LinkSubject(j)
  BY <1>8 DEF LinkSubject, Spends
<1>9. CASE Locate(j) \/ Project(j)
  BY <1>9 DEF Locate, Project, Spends
<1>10. CASE Fail(j)
  BY <1>10 DEF Fail, Spends
<1>11. CASE Revoke \/ RevokeSkip \/ RevokeNext
  BY <1>11 DEF Revoke, RevokeSkip, RevokeNext, Spends
<1> QED BY <1>1, <1>2, <1>3, <1>4, <1>5, <1>6, <1>7, <1>8, <1>9, <1>10, <1>11 DEF Own, Step

LEMMA SlotStill ==
    ASSUME SpentInv, NEW j \in Task, Own(j)
    PROVE  /\ SpentInv' /\ spent'.switch = spent.switch
           /\ enabled' = enabled /\ (news' = news \/ news' = FALSE)
BY OwnSpends, Counting DEF Spends, SpentInv

LEMMA StillStep == ASSUME TypeInv, SpentInv, StillInv, [Next]_vars PROVE SpentInv' /\ StillInv'
<1>1. CASE Nobodys
  <2>1. CASE RevokeBlind
    BY <2>1, Counting DEF RevokeBlind, SpentInv, StillInv, Busy
  <2>2. CASE Restart
    BY <2>2, Counting DEF Restart, SpentInv, StillInv, Busy
  <2>3. CASE Switch
    BY <2>3, Counting DEF Switch, SpentInv, StillInv
  <2>4. CASE UNCHANGED vars
    BY <2>4 DEF vars, SpentInv, StillInv, Busy
  <2> QED BY <1>1, <2>1, <2>2, <2>3, <2>4 DEF Nobodys
<1>2. ASSUME NEW j \in Task, Own(j) PROVE SpentInv' /\ StillInv'
  <2>1. /\ SpentInv' /\ spent'.switch = spent.switch
        /\ enabled' = enabled /\ (news' = news \/ news' = FALSE)
    BY <1>2, SlotStill
  <2>2. ASSUME spent.switch = 0 PROVE ~Busy("operator")'
    <3>1. enabled /\ ~news /\ ~Busy("operator")
      BY <2>2 DEF StillInv
    <3>2. j # "operator"
      BY <1>2, <3>1, ScimAssumption DEF Own, Request_, Locate, Project, Fail, Revoke, RevokeSkip, RevokeNext, Busy
    <3>3. "operator" \in Task \ {j} /\ Others(j)
      BY <1>2, <3>2, OwnOthers DEF Task
    <3> QED BY <3>1, <3>3 DEF Others, SameWork, Busy
  <2> QED BY <2>1, <2>2 DEF StillInv
<1> QED BY <1>1, <1>2, Actors

(* A change applied is the value it was made for. *)
LEMMA AppliedChange ==
    ASSUME NEW new \in BOOLEAN, NEW old \in BOOLEAN
    PROVE  Applied(Change(new, old), old) = new /\ Applied({new}, old) = new
<1>1. (CHOOSE x \in {new} : TRUE) = new
  OBVIOUS
<1> QED BY <1>1 DEF Applied, Change

(* What a handler may forget as it goes on. *)
Forgets(j) == unmet \subseteq unmet' \cup {job[j].req}

(* A handler that is done with a subject goes on with the edits it has. *)
LEMMA AdvanceAimed ==
    ASSUME TypeInv, NEW j \in Slot, NEW jobs \in [Task -> Job], Advance(j, jobs),
           jobs[j].req = job[j].req,
           \A t \in jobs[j].todo : subject'[t.s].made /\ (Single(job[j]) => t.s = job[j].req.s)
    PROVE  (Busy(j)' => Aimed(j)') /\ Viewed(j)' = {} /\ Forgets(j)
<1>0. j \in Task /\ Idle.step = "idle"
  BY IdleAt DEF Task
<1>1. Forgets(j)
  BY DEF Advance, Finish, Forgets
<1>2. \/ job'[j] = Idle
      \/ /\ job'[j].step = IF jobs[j].todo # {} THEN "next" ELSE "mark"
         /\ jobs[j].todo = {} => jobs[j].req.op = "delete"
         /\ job'[j].todo = jobs[j].todo /\ job'[j].req = jobs[j].req
  BY <1>0, AdvanceAt
<1>3. CASE job'[j] = Idle
  BY <1>0, <1>1, <1>3 DEF Busy, Viewed
<1>4. CASE /\ job'[j].step = IF jobs[j].todo # {} THEN "next" ELSE "mark"
           /\ jobs[j].todo = {} => jobs[j].req.op = "delete"
           /\ job'[j].todo = jobs[j].todo /\ job'[j].req = jobs[j].req
  <2>1. job'[j].step \in {"next", "mark"} /\ Edits(j)' = jobs[j].todo /\ Viewed(j)' = {}
    BY <1>4 DEF Edits, Viewed
  <2>2. job'[j].step = "mark" => ~Single(job'[j])
    BY <1>4 DEF Single, GroupOps
  <2>3. \A t \in Edits(j)' : subject'[t.s].made /\ (Single(job'[j]) => t.s = job'[j].req.s)
    BY <1>4, <2>1 DEF Single
  <2> QED BY <1>1, <2>1, <2>2, <2>3 DEF Aimed
<1> QED BY <1>2, <1>3, <1>4

(* Without a write of an account only the linked subjects that changed, or   *)
(* that a request forgets, are to be looked at.                              *)
LEMMA OwedOn ==
    ASSUME NEW j \in Slot, Owed, account' = account, Forgets(j),
           \A i \in Slot \ {j} : ~Busy(i),
           \A s \in Subject : subject'[s].account # NoOne =>
              \/ subject'[s] = subject[s] /\ (Single(job[j]) => s # job[j].req.s)
              \/ subject'[s] = subject[s] /\ unmet \subseteq unmet'
              \/ InHand(s)',
           \A v \in Viewed(j) : v \in Viewed(j)' \/ \E s \in Subject : v.a = subject[s].account /\ Repeatable(s)',
           ClaimInv
    PROVE  Owed'
<1> SUFFICES ASSUME NEW s \in Subject, subject'[s].account # NoOne, ~InHand(s)'
             PROVE  Right(s)' \/ Repeatable(s)'
  BY DEF Owed, Linked
<1>1. /\ subject'[s] = subject[s]
      /\ (Single(job[j]) => s # job[j].req.s) \/ unmet \subseteq unmet'
  OBVIOUS
<1>2. Right(s) \/ InHand(s) \/ Repeatable(s)
  BY <1>1 DEF Owed, Linked
<1>3. CASE Right(s)
  BY <1>1, <1>3 DEF Right
<1>4. CASE InHand(s)
  <2>1. \A i \in Slot \ {j} : Viewed(i) = {}
    BY DEF Busy, Viewed
  <2>2. PICK v \in Viewed(j) : v.a = subject[s].account
    BY <1>4, <2>1 DEF InHand
  <2>3. v \notin Viewed(j)'
    BY <1>1, <2>2 DEF InHand
  <2>4. PICK x \in Subject : v.a = subject[x].account /\ Repeatable(x)'
    BY <2>3
  <2>5. x = s
    BY <1>1, <2>2, <2>4, OneSubject
  <2> QED BY <2>4, <2>5
<1>5. CASE Repeatable(s)
  <2>1. PICK r \in unmet : r.s = s /\ r.op \notin GroupOps
    BY <1>5 DEF Repeatable
  <2>2. r \in unmet'
    BY <1>1, <2>1 DEF Forgets, Single
  <2> QED BY <2>1, <2>2 DEF Repeatable
<1> QED BY <1>2, <1>3, <1>4, <1>5

(* A step of a request keeps the subjects firm, its aim, and what is owed. *)
Settles(j) ==
    /\ \A s \in Subject : Firm(s)'
    /\ Busy(j)' => Aimed(j)'
    /\ Owed /\ ~sore' => Owed'

Undisturbed(j) == \A i \in Slot \ {j} : ~Busy(i)

LEMMA FirmSame == ASSUME Plain, subject' = subject PROVE \A s \in Subject : Firm(s)'
BY DEF Plain, Firm

(* A step that writes neither a subject nor an account. *)
LEMMA MovesOn ==
    ASSUME ClaimInv, Plain, NEW j \in Slot, Undisturbed(j), subject' = subject, account' = account,
           Busy(j)' => Aimed(j)', Forgets(j), Single(job[j]) => unmet \subseteq unmet',
           Viewed(j) \subseteq Viewed(j)'
    PROVE  Settles(j)
<1>1. \A s \in Subject : Firm(s)'
  BY FirmSame
<1>2. ASSUME Owed PROVE Owed'
  <2>1. \A s \in Subject : \/ subject'[s] = subject[s] /\ (Single(job[j]) => s # job[j].req.s)
                           \/ subject'[s] = subject[s] /\ unmet \subseteq unmet'
    OBVIOUS
  <2> QED BY <1>2, <2>1, OwedOn DEF Undisturbed
<1> QED BY <1>1, <1>2 DEF Settles

LEMMA BeginSettles ==
    ASSUME TypeInv, ClaimInv, Plain, NEW j \in Slot, Undisturbed(j), Request_(j)
    PROVE  Settles(j)
<1>1. PICK req, next : Begin(j, req, next)
  BY DEF Request_, UserRequest, GroupRequest, Link
<1>2. subject' = subject /\ account' = account /\ unmet' = unmet /\ ~Busy(j)
  BY <1>1 DEF Begin
<1>3. Viewed(j) = {} /\ Forgets(j)
  BY <1>2 DEF Viewed, Busy, Forgets
<1>4. Aimed(j)'
  <2>1. CASE UserRequest(j)
    <3>1. PICK r \in Request, n \in Job :
             /\ Begin(j, r, n) /\ Shaped(j, [n EXCEPT !.req = r])
             /\ r.op \in {"active", "create"} /\ n.step \in {"create", "next"} /\ n.now = {}
             /\ \A t \in n.todo :
                   t \in Edit /\ t.s \in Made /\ t.groups = subject[t.s].groups /\ t.s = r.s
      BY <2>1, UserBegins
    <3>2. job'[j].step = n.step /\ job'[j].req = r /\ job'[j].todo = n.todo /\ job'[j].now = n.now
      BY <3>1, BeginAt
    <3>3. Edits(j)' = n.todo /\ Viewed(j)' = {}
      BY <3>1, <3>2 DEF Edits, Viewed
    <3>4. \A t \in n.todo : subject'[t.s].made /\ t.s = r.s
      BY <1>2, <3>1 DEF Made
    <3> QED BY <3>1, <3>2, <3>3, <3>4 DEF Aimed
  <2>2. CASE GroupRequest(j)
    <3>1. PICK r \in Request, n \in Job :
             /\ Begin(j, r, n) /\ r.op \in GroupOps /\ n.todo = {} /\ n.now = {}
             /\ n.step \in {"mark", "list"}
      BY <2>2, GroupBegins DEF GroupBegun
    <3>2. job'[j].step = n.step /\ job'[j].req = r /\ job'[j].todo = {} /\ job'[j].now = {}
      BY <3>1, BeginAt
    <3>3. Edits(j)' = {} /\ Viewed(j)' = {} /\ ~Single(job'[j])
      BY <3>1, <3>2 DEF Edits, Viewed, Single
    <3> QED BY <3>1, <3>2, <3>3 DEF Aimed
  <2>3. CASE Link(j)
    <3>1. PICK r \in Request, n \in Job :
             /\ Begin(j, r, n) /\ r.op = "link" /\ r.s \in Subject /\ r.a \in Account /\ n.todo = {}
             /\ subject[r.s].made
             /\ \/ n.step = "link" /\ n.now = {}
                \/ /\ n.step = "locate" /\ n.now = {Projection(subject[r.s])}
                   /\ subject[r.s].account = r.a
      BY <2>3, LinkBegins
    <3>2. job'[j].step = n.step /\ job'[j].req = r /\ job'[j].todo = {} /\ job'[j].now = n.now
      BY <3>1, BeginAt
    <3>3. Edits(j)' = {} /\ Single(job'[j])
      BY <3>1, <3>2 DEF Edits, Single, GroupOps
    <3>4. ASSUME NEW v \in Viewed(j)' PROVE Faithful(v, r.s)'
      <4>1. v = Projection(subject[r.s])
        BY <3>1, <3>2 DEF Viewed
      <4>2. v.a = subject[r.s].account
        BY <4>1 DEF Projection
      <4> QED BY <1>2, <4>1, <4>2 DEF Faithful
    <3> QED BY <1>2, <3>1, <3>2, <3>3, <3>4 DEF Aimed
  <2> QED BY <2>1, <2>2, <2>3 DEF Request_
<1> QED BY <1>2, <1>3, <1>4, MovesOn

LEMMA CreateSettles ==
    ASSUME TypeInv, ClaimInv, Plain, NEW j \in Slot, Undisturbed(j), CreateUser(j)
    PROVE  Settles(j)
<1> DEFINE req == job[j].req
<1>0. /\ subject \in [Subject -> Record] /\ job \in [Task -> Job] /\ j \in Task /\ job[j] \in Job
      /\ req.on \in BOOLEAN /\ req.s \in Subject \cup {NoOne}
      /\ job[j].step = "create" /\ account' = account /\ Viewed(j) = {}
  BY DEF TypeInv, JobsTyped, Task, CreateUser, Viewed, Job, Request
<1>1. ~Busy(j)' /\ Viewed(j)' = {} /\ Forgets(j)
  BY <1>0, IdleAt DEF CreateUser, Finish, Refuse, Busy, Viewed, Forgets
<1>2. CASE Refuse(j) /\ UNCHANGED subject
  BY <1>0, <1>1, <1>2, MovesOn DEF Refuse
<1>3. CASE req.s \notin Made /\ subject' = Provisioned(req.s, req.on)
  <2>1. ASSUME NEW s \in Subject
        PROVE  \/ s # req.s /\ subject'[s] = subject[s]
               \/ s = req.s /\ subject'[s] = [subject[s] EXCEPT !.made = TRUE, !.active = req.on,
                                                                !.granted = Granted(req.on, {})]
    BY <1>0, <1>3 DEF Provisioned, Record
  <2>2. ASSUME NEW s \in Subject, s = req.s
        PROVE  subject[s].groups = {} /\ subject[s].account = NoOne
    BY <1>3, <2>2 DEF Made, Plain, Firm
  <2>3. ASSUME NEW s \in Subject, s = req.s
        PROVE  /\ subject'[s].made /\ subject'[s].active = req.on /\ subject'[s].granted = Granted(req.on, {})
               /\ subject'[s].groups = {} /\ subject'[s].account = NoOne
    <3> DEFINE g == Granted(req.on, {})
    <3>1. g \in BOOLEAN
      BY GrantedTyped
    <3>2. subject'[s] = [subject[s] EXCEPT !.made = TRUE, !.active = req.on, !.granted = g]
      BY <2>1, <2>3
    <3>3. subject[s] \in Record
      BY <1>0
    <3> HIDE DEF g
    <3>4. /\ subject'[s].made /\ subject'[s].active = req.on /\ subject'[s].granted = g
          /\ subject'[s].groups = subject[s].groups /\ subject'[s].account = subject[s].account
      BY <3>2, <3>3 DEF Record
    <3> QED BY <2>2, <2>3, <3>4 DEF g
  <2>4. \A s \in Subject : Firm(s)'
    BY <2>1, <2>3 DEF Plain, Firm
  <2>5. ASSUME Owed PROVE Owed'
    <3>1. \A s \in Subject : subject'[s].account # NoOne => subject'[s] = subject[s] /\ s # req.s
      BY <2>1, <2>3
    <3> QED BY <1>0, <1>1, <2>5, <3>1, OwedOn DEF Undisturbed
  <2> QED BY <1>1, <2>4, <2>5 DEF Settles
<1> QED BY <1>2, <1>3 DEF CreateUser

LEMMA ListSettles ==
    ASSUME TypeInv, ClaimInv, Plain, NEW j \in Slot, Undisturbed(j), Mark(j) \/ ListMembers(j) \/ ListNothing(j)
    PROVE  Settles(j)
<1>0. /\ job \in [Task -> Job] /\ j \in Task /\ job[j] \in Job /\ job[j].step \in {"mark", "list"}
      /\ subject' = subject /\ account' = account /\ Aimed(j)
  BY DEF TypeInv, JobsTyped, Task, Mark, ListMembers, ListNothing, Plain, Busy
<1>1. ~Single(job[j]) /\ Viewed(j) = {}
  BY <1>0 DEF Aimed, Viewed
<1>2. CASE Mark(j)
  <2>1. Forgets(j)
    BY <1>2 DEF Mark, Finish, Refuse, Forgets
  <2>2. job' = [job EXCEPT ![j] = Idle] \/ job' = [job EXCEPT ![j].step = "list"]
    BY <1>2 DEF Mark, Finish, Refuse
  <2>3. CASE job' = [job EXCEPT ![j] = Idle]
    <3>1. ~Busy(j)'
      BY <1>0, <2>3, IdleAt DEF Busy
    <3> QED BY <1>0, <1>1, <2>1, <3>1, MovesOn
  <2>4. CASE job' = [job EXCEPT ![j].step = "list"]
    <3>1. job'[j].step = "list" /\ job'[j].req = job[j].req /\ job'[j].todo = job[j].todo
      BY <1>0, <2>4 DEF Job
    <3>2. Edits(j)' = job[j].todo /\ Edits(j) = job[j].todo /\ Viewed(j)' = {}
      BY <1>0, <3>1 DEF Edits, Viewed
    <3>3. \A t \in Edits(j)' : subject'[t.s].made
      BY <1>0, <3>2 DEF Aimed
    <3>4. Aimed(j)'
      BY <1>1, <3>1, <3>2, <3>3 DEF Aimed, Single
    <3> QED BY <1>0, <1>1, <2>1, <3>4, MovesOn
  <2> QED BY <2>2, <2>3, <2>4
<1>3. CASE ListMembers(j)
  <2>1. PICK todo \in SUBSET Edit :
           /\ Advance(j, [job EXCEPT ![j].todo = todo])
           /\ [job EXCEPT ![j].todo = todo] \in [Task -> Job]
           /\ \A t \in todo : t.s \in Made
    BY <1>3, ListAdvances
  <2> DEFINE jobs == [job EXCEPT ![j].todo = todo]
  <2>2. jobs[j].todo = todo /\ jobs[j].req = job[j].req
    BY <1>0 DEF Job
  <2>3. \A t \in jobs[j].todo : subject'[t.s].made
    BY <1>0, <2>1, <2>2 DEF Made
  <2>4. jobs \in [Task -> Job] /\ Advance(j, jobs)
    BY <2>1
  <2> HIDE DEF jobs
  <2>5. (Busy(j)' => Aimed(j)') /\ Forgets(j)
    BY <1>1, <2>2, <2>3, <2>4, AdvanceAimed
  <2> QED BY <1>0, <1>1, <2>5, MovesOn
<1>4. CASE ListNothing(j)
  <2>1. Advance(j, job)
    BY <1>4 DEF ListNothing
  <2>2. \A t \in job[j].todo : subject'[t.s].made
    BY <1>0 DEF Aimed, Edits
  <2>3. (Busy(j)' => Aimed(j)') /\ Forgets(j)
    BY <1>0, <1>1, <2>1, <2>2, AdvanceAimed
  <2> QED BY <1>0, <1>1, <2>3, MovesOn
<1> QED BY <1>2, <1>3, <1>4

LEMMA FindSettles ==
    ASSUME TypeInv, ClaimInv, Plain, NEW j \in Slot, Undisturbed(j), FindSubject(j)
    PROVE  Settles(j)
<1>0. /\ subject' = subject /\ account' = account /\ unmet' = unmet /\ j \in Task /\ job[j].step = "next"
      /\ job[j] \in Job /\ job \in [Task -> Job] /\ Aimed(j)
  BY DEF TypeInv, JobsTyped, Task, FindSubject, Plain, Busy
<1>1. PICK t \in job[j].todo :
         LET put == [active |-> Change(t.active, subject[t.s].active),
                     granted |-> Change(Granted(t.active, t.groups), subject[t.s].granted),
                     add |-> t.groups \ subject[t.s].groups, drop |-> subject[t.s].groups \ t.groups]
         IN
         job' = [job EXCEPT ![j].step = "patch", ![j].now = {t}, ![j].todo = @ \ {t}, ![j].put = put]
  BY DEF FindSubject
<1> DEFINE put == [active |-> Change(t.active, subject[t.s].active),
                   granted |-> Change(Granted(t.active, t.groups), subject[t.s].granted),
                   add |-> t.groups \ subject[t.s].groups, drop |-> subject[t.s].groups \ t.groups]
<1>2. /\ put.active = Change(t.active, subject[t.s].active)
      /\ put.granted = Change(Granted(t.active, t.groups), subject[t.s].granted)
      /\ put.add = t.groups \ subject[t.s].groups /\ put.drop = subject[t.s].groups \ t.groups
  OBVIOUS
<1>3. job' = [job EXCEPT ![j].step = "patch", ![j].now = {t}, ![j].todo = @ \ {t}, ![j].put = put]
  BY <1>1
<1> HIDE DEF put
<1>4. /\ job'[j].step = "patch" /\ job'[j].now = {t} /\ job'[j].req = job[j].req
      /\ job'[j].todo = job[j].todo \ {t} /\ job'[j].put = put
  BY <1>0, <1>3 DEF Job
<1>5. Edits(j)' = Edits(j) /\ Viewed(j) = {} /\ Viewed(j)' = {} /\ Forgets(j)
  BY <1>0, <1>4 DEF Edits, Viewed, Forgets
<1>6. Exact(t, put)
  BY <1>2 DEF Exact, Current
<1>7. (\A e \in job[j].now : Exact(e, job[j].put))'
  BY <1>0, <1>4, <1>6 DEF Exact, Current
<1>8. \A e \in Edits(j)' : subject'[e.s].made /\ (Single(job'[j]) => e.s = job'[j].req.s)
  BY <1>0, <1>4, <1>5 DEF Aimed, Single
<1>9. Aimed(j)'
  BY <1>4, <1>5, <1>7, <1>8 DEF Aimed
<1> QED BY <1>0, <1>5, <1>9, MovesOn

LEMMA LocateSettles ==
    ASSUME TypeInv, ClaimInv, Plain, NEW j \in Slot, Undisturbed(j), Locate(j)
    PROVE  Settles(j)
<1>0. /\ subject' = subject /\ account' = account /\ unmet' = unmet /\ j \in Task /\ job[j].step = "locate"
      /\ job[j] \in Job /\ job \in [Task -> Job] /\ Aimed(j)
  BY DEF TypeInv, JobsTyped, Task, Locate, Plain, Busy
<1>1. PICK v \in job[j].now :
         job' = [job EXCEPT ![j].step = "project",
                     ![j].put = [NoPut EXCEPT
                        !.active = IF account[v.a].known THEN Change(v.active, account[v.a].active) ELSE {v.active},
                        !.granted = Change(v.granted, account[v.a].granted)]]
  BY DEF Locate
<1> DEFINE active == IF account[v.a].known THEN Change(v.active, account[v.a].active) ELSE {v.active}
           granted == Change(v.granted, account[v.a].granted)
           put == [NoPut EXCEPT !.active = active, !.granted = granted]
<1>2. put.active = active /\ put.granted = granted
  BY DEF NoPut
<1>3. job' = [job EXCEPT ![j].step = "project", ![j].put = put]
  BY <1>1
<1> HIDE DEF put
<1>4. /\ job'[j].step = "project" /\ job'[j].now = job[j].now /\ job'[j].req = job[j].req
      /\ job'[j].todo = job[j].todo /\ job'[j].put = put
  BY <1>0, <1>3 DEF Job
<1>5. /\ Edits(j)' = job[j].todo /\ Edits(j) = job[j].todo
      /\ Viewed(j) = job[j].now /\ Viewed(j)' = job[j].now /\ Forgets(j)
  BY <1>0, <1>4 DEF Edits, Viewed, Forgets
<1>6. job[j].now = {v}
  BY <1>0 DEF Job, Maybe
<1>7. (\A w \in job[j].now : ExactView(w, job[j].put))'
  BY <1>0, <1>2, <1>4, <1>6 DEF ExactView
<1>8. \A e \in Edits(j)' : subject'[e.s].made /\ (Single(job'[j]) => e.s = job'[j].req.s)
  BY <1>0, <1>4, <1>5 DEF Aimed, Single
<1>9. ASSUME NEW w \in Viewed(j)'
      PROVE  \E s \in Subject : Faithful(w, s)' /\ (Single(job'[j]) => s = job'[j].req.s)
  <2>1. PICK s \in Subject : Faithful(w, s) /\ (Single(job[j]) => s = job[j].req.s)
    BY <1>0, <1>5 DEF Aimed
  <2>2. Faithful(w, s)'
    BY <1>0, <2>1 DEF Faithful
  <2> QED BY <1>4, <2>1, <2>2 DEF Single
<1>10. Aimed(j)'
  BY <1>4, <1>7, <1>8, <1>9 DEF Aimed
<1> QED BY <1>0, <1>5, <1>10, MovesOn

(* A request that fails is owed to its subject, or to the members of its     *)
(* group.                                                                    *)
LEMMA GivenUp ==
    ASSUME TypeInv, ClaimInv, Plain, NEW j \in Slot, Undisturbed(j), Busy(j), GiveUp(j),
           subject' = subject, account' = account
    PROVE  Settles(j)
<1>0. job \in [Task -> Job] /\ j \in Task /\ Aimed(j)
  BY DEF TypeInv, JobsTyped, Task, Plain
<1>1. ~Busy(j)' /\ Viewed(j)' = {} /\ unmet' = unmet \cup {job[j].req}
  BY <1>0, IdleAt DEF GiveUp, Busy, Viewed
<1>2. \A s \in Subject : Firm(s)'
  BY FirmSame
<1>3. ASSUME Owed, ~sore' PROVE Owed'
  <2>1. Single(job[j])
    BY <1>3 DEF GiveUp, Single
  <2>2. ASSUME NEW v \in Viewed(j)
        PROVE  \E s \in Subject : v.a = subject[s].account /\ Repeatable(s)'
    <3>1. PICK s \in Subject : Faithful(v, s) /\ s = job[j].req.s
      BY <1>0, <2>1 DEF Aimed
    <3>2. Repeatable(s)'
      BY <1>1, <2>1, <3>1 DEF Repeatable, Single
    <3> QED BY <3>1, <3>2 DEF Faithful
  <2>3. Forgets(j) /\ unmet \subseteq unmet'
    BY <1>1 DEF Forgets
  <2>4. \A s \in Subject : subject'[s] = subject[s] /\ unmet \subseteq unmet'
    BY <2>3
  <2> QED BY <1>3, <2>2, <2>3, <2>4, OwedOn DEF Undisturbed
<1> QED BY <1>1, <1>2, <1>3 DEF Settles

LEMMA FailSettles ==
    ASSUME TypeInv, ClaimInv, Plain, NEW j \in Slot, Undisturbed(j), Fail(j)
    PROVE  Settles(j)
<1>1. Busy(j) /\ GiveUp(j) /\ subject' = subject /\ account' = account
  BY DEF Fail
<1> QED BY <1>1, GivenUp

LEMMA LinkSettles ==
    ASSUME TypeInv, ClaimInv, Plain, NEW j \in Slot, Undisturbed(j), LinkSubject(j)
    PROVE  Settles(j)
<1>1. PICK x, a : x = job[j].req.s /\ a = job[j].req.a
  OBVIOUS
<1>0. /\ account' = account /\ j \in Task /\ job[j].step = "link" /\ job[j] \in Job /\ job \in [Task -> Job]
      /\ Aimed(j) /\ x \in Subject /\ a \in Account /\ subject \in [Subject -> Record]
      /\ job[j].todo \subseteq Edit
  BY <1>1, ScimAssumption DEF TypeInv, JobsTyped, Shaped, Task, LinkSubject, Plain, Busy
<1>2. Viewed(j) = {} /\ Edits(j) = job[j].todo
  BY <1>0 DEF Viewed, Edits
<1>3. CASE ~Accepted(job[j])
  <2>1. job' = [job EXCEPT ![j] = Idle] /\ subject' = subject /\ unmet \subseteq unmet'
    BY <1>3 DEF LinkSubject
  <2>2. ~Busy(j)' /\ Forgets(j)
    BY <1>0, <2>1, IdleAt DEF Busy, Forgets
  <2> QED BY <1>0, <1>2, <2>1, <2>2, MovesOn
<1>4. CASE Accepted(job[j])
  <2>1. /\ subject' = [subject EXCEPT ![x].account = a] /\ unmet' = unmet
        /\ job' = [Outdate(job, x) EXCEPT ![j].step = "locate", ![j].now = {Projection(subject'[x])}]
    BY <1>1, <1>4 DEF LinkSubject
  <2>2. ASSUME NEW s \in Subject
        PROVE  /\ subject'[s].made = subject[s].made /\ subject'[s].active = subject[s].active
               /\ subject'[s].granted = subject[s].granted /\ subject'[s].groups = subject[s].groups
               /\ s # x => subject'[s] = subject[s]
    BY <1>0, <2>1 DEF Record
  <2>3. Outdate(job, x)[j] \in Job /\ Outdate(job, x) \in [Task -> Job]
    BY <1>0, OutdateTyped DEF TypeInv, JobsTyped
  <2>4. Outdate(job, x)[j].todo = job[j].todo /\ Outdate(job, x)[j].req = job[j].req
    BY <1>0, OutdateSame DEF SameWork
  <2>5. /\ job'[j].step = "locate" /\ job'[j].todo = job[j].todo /\ job'[j].req = job[j].req
        /\ job'[j].now = {Projection(subject'[x])}
    BY <1>0, <2>1, <2>3, <2>4 DEF Job
  <2>6. Single(job[j]) /\ subject[x].made
    BY <1>1, <1>0 DEF Aimed
  <2>7. \A s \in Subject : Firm(s)'
    BY <2>2, <2>6 DEF Plain, Firm
  <2>8. Edits(j)' = job[j].todo /\ Viewed(j)' = {Projection(subject'[x])} /\ Forgets(j)
    BY <2>1, <2>5 DEF Edits, Viewed, Forgets
  <2>9. \A t \in Edits(j)' : subject'[t.s].made /\ (Single(job'[j]) => t.s = job'[j].req.s)
    BY <1>0, <1>2, <2>2, <2>5, <2>6, <2>8 DEF Aimed, Edit
  <2>10. \A v \in Viewed(j)' : Faithful(v, x)'
    BY <2>8 DEF Faithful, Projection
  <2>11. Aimed(j)'
    BY <1>1, <1>0, <2>5, <2>9, <2>10 DEF Aimed
  <2>12. InHand(x)'
    <3>1. Projection(subject'[x]).a = subject'[x].account
      BY DEF Projection
    <3> QED BY <2>8, <3>1 DEF InHand
  <2>13. ASSUME Owed PROVE Owed'
    <3>1. \A s \in Subject : (subject'[s] = subject[s] /\ unmet \subseteq unmet') \/ InHand(s)'
      BY <2>1, <2>2, <2>12
    <3> QED BY <1>0, <1>2, <2>8, <2>13, <3>1, OwedOn DEF Undisturbed
  <2> QED BY <2>7, <2>11, <2>13 DEF Settles
<1> QED BY <1>3, <1>4

LEMMA PatchSettles ==
    ASSUME TypeInv, ClaimInv, Plain, NEW j \in Slot, Undisturbed(j), PatchSubject(j)
    PROVE  Settles(j)
<1>0. /\ account' = account /\ j \in Task /\ job[j].step = "patch" /\ job[j] \in Job /\ job \in [Task -> Job]
      /\ Aimed(j) /\ job[j].now \subseteq Edit /\ job[j].todo \subseteq Edit /\ subject \in [Subject -> Record]
      /\ Busy(j) /\ Viewed(j) = {}
  BY ScimAssumption DEF TypeInv, JobsTyped, Shaped, Task, PatchSubject, Plain, Busy, Viewed
<1>1. PICK t \in job[j].now :
         \/ /\ subject' = [subject EXCEPT
                  ![t.s].active = Applied(job[j].put.active, @),
                  ![t.s].granted = Applied(job[j].put.granted, @),
                  ![t.s].groups = (@ \ job[j].put.drop) \cup job[j].put.add]
            /\ \/ /\ Projected(t.s) /\ UNCHANGED unmet
                  /\ job' = [Outdate(job, t.s) EXCEPT ![j].step = "locate", ![j].put = NoPut,
                                ![j].now = {Projection(subject'[t.s])}]
               \/ ~Projected(t.s) /\ Advance(j, Outdate(job, t.s))
         \/ GiveUp(j) /\ UNCHANGED subject
  BY DEF PatchSubject
<1>2. CASE GiveUp(j) /\ UNCHANGED subject
  BY <1>0, <1>2, GivenUp
<1>3. CASE /\ subject' = [subject EXCEPT
                  ![t.s].active = Applied(job[j].put.active, @),
                  ![t.s].granted = Applied(job[j].put.granted, @),
                  ![t.s].groups = (@ \ job[j].put.drop) \cup job[j].put.add]
           /\ \/ /\ Projected(t.s) /\ UNCHANGED unmet
                 /\ job' = [Outdate(job, t.s) EXCEPT ![j].step = "locate", ![j].put = NoPut,
                               ![j].now = {Projection(subject'[t.s])}]
              \/ ~Projected(t.s) /\ Advance(j, Outdate(job, t.s))
  <2>1. t.s \in Subject /\ t.active \in BOOLEAN /\ t.groups \subseteq Group /\ t \in Edits(j)
    BY <1>0 DEF Edit, Edits
  <2>2. /\ subject[t.s].made /\ (Single(job[j]) => t.s = job[j].req.s) /\ Exact(t, job[j].put)
    BY <1>0, <2>1 DEF Aimed
  <2>3. ASSUME NEW s \in Subject
        PROVE  /\ s # t.s => subject'[s] = subject[s]
               /\ subject'[s].made = subject[s].made /\ subject'[s].account = subject[s].account
    BY <1>0, <1>3, <2>1 DEF Record
  <2>4. subject'[t.s].active = t.active
    <3>1. subject'[t.s].active = Applied(job[j].put.active, subject[t.s].active)
      BY <1>0, <1>3, <2>1 DEF Record
    <3>2. subject[t.s].active \in BOOLEAN
      BY <1>0, <2>1 DEF Record
    <3> QED BY <2>1, <2>2, <3>1, <3>2, AppliedChange DEF Exact
  <2>5. subject'[t.s].granted = Granted(t.active, t.groups)
    <3>1. subject'[t.s].granted = Applied(job[j].put.granted, subject[t.s].granted)
      BY <1>0, <1>3, <2>1 DEF Record
    <3>2. subject[t.s].granted \in BOOLEAN /\ Granted(t.active, t.groups) \in BOOLEAN
      BY <1>0, <2>1, GrantedTyped DEF Record
    <3> QED BY <2>2, <3>1, <3>2, AppliedChange DEF Exact
  <2>6. subject'[t.s].groups = t.groups
    <3>1. subject'[t.s].groups = (subject[t.s].groups \ job[j].put.drop) \cup job[j].put.add
      BY <1>0, <1>3, <2>1 DEF Record
    <3> QED BY <2>2, <3>1 DEF Exact, Current
  <2>7. \A s \in Subject : Firm(s)'
    <3>1. Firm(t.s)'
      BY <2>2, <2>3, <2>4, <2>5, <2>6, <2>1 DEF Firm
    <3>2. ASSUME NEW s \in Subject, s # t.s PROVE Firm(s)'
      BY <2>3, <3>2 DEF Plain, Firm
    <3> QED BY <3>1, <3>2
  <2>8. /\ Outdate(job, t.s) \in [Task -> Job] /\ Outdate(job, t.s)[j].todo = job[j].todo
        /\ Outdate(job, t.s)[j].req = job[j].req
    BY <1>0, OutdateTyped, OutdateSame DEF TypeInv, JobsTyped, SameWork
  <2>9. \A e \in job[j].todo : subject'[e.s].made /\ (Single(job[j]) => e.s = job[j].req.s)
    BY <1>0, <2>3 DEF Aimed, Edits, Edit
  <2>10. CASE ~Projected(t.s) /\ Advance(j, Outdate(job, t.s))
    <3>1. (Busy(j)' => Aimed(j)') /\ Forgets(j)
      BY <2>8, <2>9, <2>10, AdvanceAimed
    <3>2. ASSUME Owed PROVE Owed'
      <4>1. subject'[t.s].account = NoOne
        BY <2>1, <2>3, <2>10 DEF Projected
      <4>2. \A s \in Subject : subject'[s].account # NoOne =>
               subject'[s] = subject[s] /\ (Single(job[j]) => s # job[j].req.s)
        BY <2>2, <2>3, <4>1
      <4> QED BY <1>0, <3>1, <3>2, <4>2, OwedOn DEF Undisturbed
    <3> QED BY <2>7, <3>1, <3>2 DEF Settles
  <2>11. CASE /\ Projected(t.s) /\ UNCHANGED unmet
              /\ job' = [Outdate(job, t.s) EXCEPT ![j].step = "locate", ![j].put = NoPut,
                            ![j].now = {Projection(subject'[t.s])}]
    <3>0. Outdate(job, t.s)[j] \in Job
      BY <1>0, <2>8
    <3>1. /\ job'[j].step = "locate" /\ job'[j].todo = job[j].todo /\ job'[j].req = job[j].req
          /\ job'[j].now = {Projection(subject'[t.s])}
      BY <1>0, <2>8, <2>11, <3>0 DEF Job
    <3>2. Edits(j)' = job[j].todo /\ Viewed(j)' = {Projection(subject'[t.s])} /\ Forgets(j)
      BY <2>11, <3>1 DEF Edits, Viewed, Forgets
    <3>3. \A e \in Edits(j)' : subject'[e.s].made /\ (Single(job'[j]) => e.s = job'[j].req.s)
      BY <2>9, <3>1, <3>2 DEF Single
    <3>4. ASSUME NEW v \in Viewed(j)'
          PROVE  \E s \in Subject : Faithful(v, s)' /\ (Single(job'[j]) => s = job'[j].req.s)
      <4>1. v = Projection(subject'[t.s]) /\ v.a = subject'[t.s].account
        BY <3>2 DEF Projection
      <4>2. \E s \in Subject : subject'[s].account = v.a /\ v = Projection(subject'[s])
                               /\ (Single(job'[j]) => s = job'[j].req.s)
        BY <2>1, <2>2, <3>1, <4>1 DEF Single
      <4> QED BY <4>2 DEF Faithful
    <3>5. Aimed(j)'
      BY <3>1, <3>3, <3>4 DEF Aimed
    <3>6. InHand(t.s)'
      <4>1. Projection(subject'[t.s]).a = subject'[t.s].account
        BY DEF Projection
      <4>2. \E v \in Viewed(j)' : v.a = subject'[t.s].account
        BY <3>2, <4>1
      <4> QED BY <4>2, <1>1 DEF InHand
    <3>7. ASSUME Owed PROVE Owed'
      <4>1. \A s \in Subject : (subject'[s] = subject[s] /\ unmet \subseteq unmet') \/ InHand(s)'
        BY <2>3, <2>11, <3>6
      <4> QED BY <1>0, <3>2, <3>7, <4>1, OwedOn DEF Undisturbed
    <3> QED BY <2>7, <3>5, <3>7 DEF Settles
  <2> QED BY <1>3, <2>10, <2>11
<1> QED BY <1>1, <1>2, <1>3

LEMMA ProjectSettles ==
    ASSUME TypeInv, ClaimInv, Plain, NEW j \in Slot, Undisturbed(j), Project(j)
    PROVE  Settles(j)
<1>0. /\ subject' = subject /\ j \in Task /\ job[j].step = "project" /\ job[j] \in Job /\ job \in [Task -> Job]
      /\ Aimed(j) /\ Busy(j) /\ job[j].now \subseteq View /\ account \in [Account -> Identity]
      /\ Viewed(j) = job[j].now /\ Edits(j) = job[j].todo
  BY DEF TypeInv, JobsTyped, Shaped, Task, Project, Plain, Busy, Viewed, Edits
<1>1. PICK v \in job[j].now :
         \/ /\ account' = [account EXCEPT ![v.a] =
                  [known |-> TRUE, active |-> Applied(job[j].put.active, account[v.a].active),
                   granted |-> Applied(job[j].put.granted, account[v.a].granted)]]
            /\ Advance(j, job)
         \/ GiveUp(j) /\ UNCHANGED account
  BY DEF Project
<1>2. CASE GiveUp(j) /\ UNCHANGED account
  BY <1>0, <1>2, GivenUp
<1>3. CASE /\ account' = [account EXCEPT ![v.a] =
                  [known |-> TRUE, active |-> Applied(job[j].put.active, account[v.a].active),
                   granted |-> Applied(job[j].put.granted, account[v.a].granted)]]
           /\ Advance(j, job)
  <2>1. \A s \in Subject : Firm(s)'
    BY <1>0, FirmSame
  <2>2. \A e \in job[j].todo : subject'[e.s].made /\ (Single(job[j]) => e.s = job[j].req.s)
    BY <1>0 DEF Aimed
  <2>3. (Busy(j)' => Aimed(j)') /\ Forgets(j)
    BY <1>0, <1>3, <2>2, AdvanceAimed
  <2>4. v.a \in Account /\ v.active \in BOOLEAN /\ v.granted \in BOOLEAN /\ Viewed(j) = {v}
    BY <1>0 DEF View, Job, Maybe
  <2>5. PICK x \in Subject : Faithful(v, x) /\ (Single(job[j]) => x = job[j].req.s)
    BY <1>0 DEF Aimed
  <2>6. Right(x)'
    <3>1. account[v.a].active \in BOOLEAN /\ account[v.a].granted \in BOOLEAN
      BY <1>0, <2>4 DEF Identity
    <3>2. ExactView(v, job[j].put)
      BY <1>0 DEF Aimed
    <3>3. Applied(job[j].put.active, account[v.a].active) = v.active
      BY <2>4, <3>1, <3>2, AppliedChange DEF ExactView
    <3>4. Applied(job[j].put.granted, account[v.a].granted) = v.granted
      BY <2>4, <3>1, <3>2, AppliedChange DEF ExactView
    <3>5. account'[v.a] = [known |-> TRUE, active |-> v.active, granted |-> v.granted]
      BY <1>0, <1>3, <2>4, <3>3, <3>4
    <3>6. v.a = subject[x].account /\ v.active = subject[x].active /\ v.granted = subject[x].granted
      BY <2>5 DEF Faithful, Projection
    <3> QED BY <1>0, <3>5, <3>6 DEF Right
  <2>7. ASSUME Owed, NEW s \in Linked' PROVE Right(s)' \/ Repeatable(s)'
    <3>1. s \in Subject /\ subject[s].account # NoOne
      BY <1>0 DEF Linked
    <3>2. CASE s = x
      BY <2>6, <3>2
    <3>3. CASE s # x
      <4>1. subject[s].account # v.a
        BY <2>5, <3>1, <3>3, OneSubject DEF Faithful
      <4>2. ~InHand(s)
        <5>1. \A i \in Slot \ {j} : Viewed(i) = {}
          BY DEF Undisturbed, Busy, Viewed
        <5> QED BY <2>4, <4>1, <5>1 DEF InHand
      <4>3. CASE Right(s)
        <5>1. account'[subject[s].account] = account[subject[s].account]
          BY <1>0, <1>3, <4>1, <2>4
        <5> QED BY <1>0, <4>3, <5>1 DEF Right
      <4>4. CASE Repeatable(s)
        <5>1. PICK r \in unmet : r.s = s /\ r.op \notin GroupOps
          BY <4>4 DEF Repeatable
        <5>2. r # job[j].req
          BY <2>5, <3>3, <5>1 DEF Single
        <5> QED BY <2>3, <5>1, <5>2 DEF Forgets, Repeatable
      <4> QED BY <2>7, <3>1, <4>2, <4>3, <4>4 DEF Owed, Linked
    <3> QED BY <3>2, <3>3
  <2> QED BY <2>1, <2>3, <2>7 DEF Settles, Owed
<1> QED BY <1>1, <1>2, <1>3

(* Every step of a request settles. *)
LEMMA SlotSettles ==
    ASSUME TypeInv, ClaimInv, Plain, NEW j \in Slot, Undisturbed(j), Own(j)
    PROVE  Settles(j)
<1>1. j # "operator"
  BY ScimAssumption
<1> QED BY <1>1, BeginSettles, CreateSettles, ListSettles, FindSettles, PatchSettles, LinkSettles,
           LocateSettles, ProjectSettles, FailSettles DEF Own, Step

LEMMA SoreGrows == ASSUME NEW j \in Task, Own(j), sore PROVE sore'
<1>1. CASE Request_(j)
  BY <1>1 DEF Request_, UserRequest, GroupRequest, Link, Begin
<1>2. CASE Step(j)
  <2>1. CASE CreateUser(j) \/ Mark(j) \/ ListMembers(j) \/ ListNothing(j) \/ LinkSubject(j)
    BY <2>1 DEF CreateUser, Mark, ListMembers, ListNothing, LinkSubject
  <2>2. CASE FindSubject(j) \/ PatchSubject(j)
    BY <2>2 DEF FindSubject, PatchSubject, GiveUp
  <2> QED BY <1>2, <2>1, <2>2 DEF Step
<1>3. CASE Locate(j) \/ Project(j) \/ Fail(j)
  BY <1>3 DEF Locate, Project, Fail, GiveUp
<1>4. CASE Revoke \/ RevokeSkip \/ RevokeNext
  BY <1>4 DEF Revoke, RevokeSkip, RevokeNext
<1> QED BY <1>1, <1>2, <1>3, <1>4 DEF Own

LEMMA SettleStep ==
    ASSUME TypeInv, SpentInv, StillInv, ClaimInv, PlainInv, OwedInv, [Next]_vars
    PROVE  PlainInv' /\ OwedInv'
<1> SUFFICES ASSUME ~lapped' PROVE One' /\ Plain' /\ OwedInv'
  BY DEF PlainInv, OwedInv
<1>0. ~lapped /\ One /\ Plain
  BY HistoryGrows DEF PlainInv
<1>1. CASE Nobodys
  <2>1. /\ subject' = subject /\ account' = account /\ job' = job /\ unmet' = unmet /\ sore' = sore
        /\ spent'.switch = 0 => spent.switch = 0
    <3>1. CASE RevokeBlind
      BY <3>1, Counting DEF RevokeBlind, SpentInv
    <3>2. CASE Restart
      BY <3>2, Counting DEF Restart, SpentInv
    <3>3. CASE Switch
      BY <3>3, Counting DEF Switch, SpentInv
    <3>4. CASE UNCHANGED vars
      BY <3>4 DEF vars
    <3> QED BY <1>1, <3>1, <3>2, <3>3, <3>4 DEF Nobodys
  <2>2. One'
    BY <1>0, <2>1 DEF One, Busy
  <2>3. Plain'
    BY <1>0, <2>1 DEF Plain, Firm, Busy, Aimed, Edits, Viewed, Exact, Current, ExactView, Faithful
  <2>4. OwedInv'
    BY <1>0, <2>1 DEF OwedInv, Owed, Linked, Right, InHand, Viewed, Repeatable
  <2> QED BY <2>2, <2>3, <2>4
<1>2. ASSUME NEW j \in Task, Own(j) PROVE One' /\ Plain' /\ OwedInv'
  <2>1. \A i \in Task \ {j} : ~Busy(i) /\ ~Busy(i)'
    BY <1>0, <1>2, Alone
  <2>2. One'
    BY <2>1 DEF One
  <2>3. CASE j \in Slot
    <3>1. \A i \in Slot \ {j} : ~Busy(i) /\ ~Busy(i)'
      BY <2>1 DEF Task
    <3>2. Settles(j)
      BY <1>0, <1>2, <2>3, <3>1, SlotSettles DEF Undisturbed
    <3>3. Plain'
      BY <3>1, <3>2 DEF Plain, Settles
    <3>4. OwedInv'
      <4>1. (sore => sore') /\ spent'.switch = spent.switch
        BY <1>2, SoreGrows, SlotStill
      <4> QED BY <1>0, <3>2, <4>1 DEF OwedInv, Settles
    <3> QED BY <2>2, <3>3, <3>4
  <2>4. CASE j = "operator"
    <3>1. \A i \in Slot : ~Busy(i)'
      BY <2>1, <2>4, ScimAssumption DEF Task
    <3>2. subject' = subject
      BY <1>2, <2>4, ScimAssumption DEF Own, Request_, Locate, Project, Fail, Revoke, RevokeSkip, RevokeNext
    <3>3. Plain'
      BY <1>0, <3>1, <3>2, FirmSame DEF Plain
    <3>4. spent.switch # 0
      BY <1>2, <2>4, ScimAssumption DEF StillInv, Own, Request_, Locate, Project, Fail, Revoke, RevokeSkip,
                                        RevokeNext, Busy
    <3>5. spent'.switch = spent.switch
      BY <1>2, SlotStill
    <3> QED BY <2>2, <3>3, <3>4, <3>5 DEF OwedInv
  <2> QED BY <2>3, <2>4 DEF Task
<1> QED BY <1>1, <1>2, Actors

(* While handlers come one at a time and the connection is not switched, at  *)
(* rest every linked account shows its subject as the directory wrote it,    *)
(* once the directory has repeated what failed and no group change failed.   *)
(* A subject whose account does not show it is in the hands of the one       *)
(* handler, which is about to project it, or is named by a request that      *)
(* failed: only that request, repeated, forgets it, and it projects first.   *)
THEOREM DirectorySettles == Spec => []Settled
<1>1. Init => SpentInv /\ StillInv /\ ClaimInv /\ PlainInv /\ OwedInv
  <2> SUFFICES ASSUME Init PROVE SpentInv /\ StillInv /\ ClaimInv /\ PlainInv /\ OwedInv
    OBVIOUS
  <2>1. \A j \in Task : ~Busy(j) /\ job[j].step = "idle"
    BY IdleAt DEF Init, Busy
  <2>2. SpentInv /\ StillInv
    BY <2>1 DEF Init, SpentInv, StillInv, Counters, Task
  <2>3. ClaimInv
    <3>1. \A s \in Subject : subject[s].account # NoOne => claim[subject[s].account] = s
      BY DEF Init
    <3> QED BY <2>1, <3>1 DEF ClaimInv
  <2>4. PlainInv
    <3>1. \A s \in Subject : Firm(s)
      BY DEF Init, Firm
    <3> QED BY <2>1, <3>1 DEF PlainInv, Plain, One, Task
  <2>5. OwedInv
    <3>1. ASSUME NEW s \in Subject, subject[s].account # NoOne PROVE Right(s)
      <4>1. subject[s].account \in Account /\ claim[subject[s].account] = s
        BY <3>1 DEF Init
      <4> QED BY <4>1 DEF Init, Right
    <3> QED BY <3>1 DEF OwedInv, Owed, Linked
  <2> QED BY <2>2, <2>3, <2>4, <2>5
<1>2. TypeInv /\ SpentInv /\ StillInv /\ ClaimInv /\ PlainInv /\ OwedInv /\ [Next]_vars
         => (SpentInv /\ StillInv /\ ClaimInv /\ PlainInv /\ OwedInv)'
  BY StillStep, ClaimStep, SettleStep
<1>3. PlainInv /\ OwedInv => Settled
  <2> SUFFICES ASSUME PlainInv, OwedInv, Quiet, ~lapped, unmet = {}, ~sore, spent.switch = 0,
                      NEW s \in Linked
               PROVE  account[subject[s].account] =
                         [known |-> TRUE, active |-> subject[s].active,
                          granted |-> Granted(subject[s].active, subject[s].groups)]
    BY DEF Settled
  <2>1. s \in Subject /\ Firm(s)
    BY DEF Linked, PlainInv, Plain
  <2>2. ~InHand(s) /\ ~Repeatable(s)
    BY DEF InHand, Viewed, Quiet, Calm, Busy, Task, Repeatable
  <2>3. Right(s)
    BY <2>2 DEF OwedInv, Owed
  <2> QED BY <2>1, <2>3 DEF Right, Firm
<1> QED BY <1>1, <1>2, <1>3, TypeInit, TypeStep, PTL DEF Spec

=============================================================================
