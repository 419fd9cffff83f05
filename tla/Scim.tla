-------------------------------- MODULE Scim --------------------------------
(***************************************************************************)
(* One SCIM connection: the directory client's requests that provision     *)
(* subjects and groups, the sign-ins that link an account to the subject    *)
(* its upstream claims name, the projection of a subject into the account   *)
(* it is linked to, and the connection operator that revokes every          *)
(* projection when the connection is disabled.                              *)
(***************************************************************************)
EXTENDS Naturals, FiniteSets

CONSTANTS
    Subject,    \* SCIMSubjects, also the external ids a claim may name
    Account,    \* OIDCUsers
    Group,      \* SCIMGroups
    NoOne,
    AllUsers,   \* grantMode is all-users, not mapped-groups
    Slot,       \* bounds the requests and sign-ins in flight
    MaxRequest, \* requests and sign-ins
    MaxEvent    \* overlaps of requests, calls that fail, restarts of the
                \* operator and changes of spec.disabled, together

ASSUME ScimAssumption ==
    /\ AllUsers \in BOOLEAN /\ "operator" \notin Slot
    /\ NoOne \notin Subject \cup Account \cup Group
    /\ {MaxRequest, MaxEvent} \subseteq Nat

VARIABLES
    subject, \* the SCIMSubjects, whom each is linked to
    group,   \* the SCIMGroups: none, live, or a tombstone
    account, \* the identity this connection has in each OIDCUser
    claim,   \* the subject each account's upstream claims name
    enabled, \* spec.disabled is false
    news,    \* an event of the disabled connection to deliver
    job,     \* handlers in flight, the operator's among them
    spent,
    \* History.
    lapped,  \* two handlers were in flight at once
    late,    \* a handler was in flight when the connection was disabled
    unmet,   \* requests that failed and have not succeeded since
    sore,    \* one that failed was of a group
    blind,   \* a list call failed, and was taken for an empty list
    missed   \* the last revocation was cut short

vars == <<subject, group, account, claim, enabled, news, job, spent, lapped, late, unmet, sore, blind, missed>>

Maybe(S) == {{}} \cup {{x} : x \in S}
GroupOps == {"make", "members", "add", "drop", "delete"}
Request == [op : {"create", "active", "link", "revoke"} \cup GroupOps, s : Subject \cup {NoOne},
            g : Group \cup {NoOne}, a : Account \cup {NoOne}, on : BOOLEAN, of : SUBSET Subject]
NoRequest == [op |-> "revoke", s |-> NoOne, g |-> NoOne, a |-> NoOne, on |-> FALSE, of |-> {}]

(* A SCIMSubject: the identity of its spec, the account of its status. *)
Record == [made : BOOLEAN, active : BOOLEAN, granted : BOOLEAN, groups : SUBSET Group,
           account : Account \cup {NoOne}]

(* A subject to write, and an account to project into. *)
Edit == [s : Subject, active : BOOLEAN, groups : SUBSET Group]
View == [a : Account, active : BOOLEAN, granted : BOOLEAN]
(* The diff that a patch carries: what it sets, adds and removes. *)
Put == [active : Maybe(BOOLEAN), granted : Maybe(BOOLEAN), add : SUBSET Group, drop : SUBSET Group]
NoPut == [active |-> {}, granted |-> {}, add |-> {}, drop |-> {}]

Task == Slot \cup {"operator"}
Job == [step : {"idle", "create", "mark", "list", "next", "patch", "link", "locate", "project"},
        req : Request, was : {"none", "live", "gone"}, todo : SUBSET (Edit \cup View),
        now : Maybe(Edit \cup View), put : Put, fresh : BOOLEAN]
Idle == [step |-> "idle", req |-> NoRequest, was |-> "none", todo |-> {}, now |-> {},
         put |-> NoPut, fresh |-> FALSE]

Busy(j) == job[j].step # "idle"
Granted(active, groups) == active /\ (AllUsers \/ groups # {})
Projection(u) == [a |-> u.account, active |-> u.active, granted |-> u.granted]
Made == {s \in Subject : subject[s].made}

(* A directory that requests made before, one after another. *)
Init ==
    /\ claim \in [Account -> Subject]
    /\ group \in [Group -> {"none", "live"}]
    /\ subject \in [Subject -> Record]
    /\ \A s \in Subject : LET u == subject[s] IN
          /\ \A g \in u.groups : group[g] = "live"
          /\ u.granted = Granted(u.active, u.groups)
          /\ u.made \/ (~u.active /\ u.groups = {} /\ u.account = NoOne)
          /\ u.account \in {NoOne} \cup {a \in Account : claim[a] = s}
    /\ account = [a \in Account |->
                     IF subject[claim[a]].account = a
                     THEN [known |-> TRUE, active |-> subject[claim[a]].active,
                           granted |-> subject[claim[a]].granted]
                     ELSE [known |-> FALSE, active |-> FALSE, granted |-> FALSE]]
    /\ enabled = TRUE /\ news = FALSE
    /\ job = [j \in Task |-> Idle]
    /\ spent = [request |-> 0, overlap |-> 0, fault |-> 0, switch |-> 0]
    /\ lapped = FALSE /\ late = FALSE /\ unmet = {}
    /\ sore = FALSE /\ blind = FALSE /\ missed = FALSE

(***************************************************************************)
(* A request begins: the connection is read, the caller authenticated.     *)
(***************************************************************************)

Calm == \A i \in Task : ~Busy(i)
Spare == spent.overlap + spent.fault + spent.switch < MaxEvent

Begin(j, req, next) ==
    /\ ~Busy(j) /\ enabled /\ spent.request < MaxRequest
    /\ job' = [job EXCEPT ![j] = [next EXCEPT !.req = req]]
    /\ IF Calm THEN spent' = [spent EXCEPT !.request = @ + 1]
       ELSE Spare /\ spent' = [spent EXCEPT !.request = @ + 1, !.overlap = @ + 1]
    /\ lapped' = (lapped \/ ~Calm)
    /\ late' = (late \/ news \/ Busy("operator"))
    /\ UNCHANGED <<subject, group, account, claim, enabled, news, unmet, sore, blind, missed>>

At(step) == [Idle EXCEPT !.step = step]

UserRequest(j) ==
    \E s \in Subject, on \in BOOLEAN :
       LET req == [NoRequest EXCEPT !.op = IF s \in Made THEN "active" ELSE "create",
                                    !.s = s, !.on = on] IN
       Begin(j, req, IF s \in Made
                     THEN [At("next") EXCEPT !.todo = {[s |-> s, active |-> on,
                                                        groups |-> subject[s].groups]}]
                     ELSE At("create"))

(* A tombstone is not found. *)
GroupFound(g) == group[g] = "live"

(* Members are only ever subjects that exist. *)
GroupRequest(j) ==
    \E g \in Group :
       LET req == [NoRequest EXCEPT !.g = g] IN
       \/ /\ ~GroupFound(g)
          /\ \E of \in SUBSET Made :
                Begin(j, [req EXCEPT !.op = "make", !.of = of],
                      [At("mark") EXCEPT !.was = group[g]])
       \/ /\ GroupFound(g)
          /\ \/ \E of \in SUBSET Made : Begin(j, [req EXCEPT !.op = "members", !.of = of], At("list"))
             \/ \E s \in Made, op \in {"add", "drop"} :
                   Begin(j, [req EXCEPT !.op = op, !.s = s], At("list"))
             \/ Begin(j, [req EXCEPT !.op = "delete"], At("list"))

(* linkAccount, from the subjects as they are listed. *)
Link(j) ==
    \E a \in Account :
       LET s == claim[a]
           req == [NoRequest EXCEPT !.op = "link", !.a = a, !.s = s]
       IN
       /\ s \in Made
       /\ \/ subject[s].account = NoOne /\ Begin(j, req, [At("link") EXCEPT !.fresh = TRUE])
          \/ subject[s].account = a /\ Begin(j, req, [At("locate") EXCEPT !.now = {Projection(subject[s])}])

(* Any write of a subject outdates the copies held of it. *)
Outdate(jobs, s) ==
    [i \in Task |-> IF jobs[i].step = "link" /\ jobs[i].req.s = s
                    THEN [jobs[i] EXCEPT !.fresh = FALSE] ELSE jobs[i]]

Finish(j, jobs) ==
    /\ job' = [jobs EXCEPT ![j] = Idle]
    /\ unmet' = unmet \ {job[j].req}

Refuse(j) == job' = [job EXCEPT ![j] = Idle] /\ UNCHANGED unmet

(* After the members: a deleted group becomes a tombstone. *)
AfterMembers(op) == IF op = "delete" THEN "mark" ELSE "idle"

(* The handler throws: the request is answered with an error. *)
GiveUp(j) ==
    /\ job' = [job EXCEPT ![j] = Idle]
    /\ unmet' = unmet \cup {job[j].req}
    /\ sore' = (sore \/ job[j].req.op \in GroupOps)
    /\ missed' = (missed \/ j = "operator")

Advance(j, jobs) ==
    LET next == IF jobs[j].todo # {} THEN "next" ELSE AfterMembers(jobs[j].req.op) IN
    IF next = "idle" THEN Finish(j, jobs)
    ELSE /\ job' = [jobs EXCEPT ![j].step = next, ![j].now = {}, ![j].put = NoPut]
         /\ UNCHANGED unmet

(***************************************************************************)
(* The steps of a request.                                                 *)
(***************************************************************************)

(* createProvisionedUser. *)
Provisioned(s, on) ==
    [subject EXCEPT ![s].made = TRUE, ![s].active = on, ![s].granted = Granted(on, {})]

CreateUser(j) ==
    LET req == job[j].req IN
    /\ job[j].step = "create"
    /\ \/ /\ req.s \notin Made
          /\ subject' = Provisioned(req.s, req.on)
          /\ Finish(j, job)
       \/ req.s \in Made /\ Refuse(j) /\ UNCHANGED subject
    /\ UNCHANGED <<group, account, claim, enabled, news, spent, lapped, late, sore, blind, missed>>

(* A group is created, reactivated or tombstoned. *)
Mark(j) ==
    LET k == job[j]
        g == k.req.g
    IN
    /\ k.step = "mark"
    /\ \/ /\ k.req.op = "delete"
          /\ group' = [group EXCEPT ![g] = "gone"] /\ Finish(j, job)
       \/ /\ k.req.op = "make" /\ (k.was = "gone" \/ group[g] = "none")
          /\ group' = [group EXCEPT ![g] = "live"]
          /\ job' = [job EXCEPT ![j].step = "list"] /\ UNCHANGED unmet
       \/ /\ k.req.op = "make" /\ k.was = "none" /\ group[g] # "none"
          /\ Refuse(j) /\ UNCHANGED group
    /\ UNCHANGED <<subject, account, claim, enabled, news, spent, lapped, late, sore, blind, missed>>

Members(g) == {s \in Made : g \in subject[s].groups}

(* Mutant: the members of a deleted group are left alone. *)
WantedKept(req) == IF req.op = "add" THEN {req.s} ELSE Members(req.g)
Wanted(req) ==
    CASE req.op = "add" -> Members(req.g) \cup {req.s}
      [] req.op = "drop" -> Members(req.g) \ {req.s}
      [] req.op = "delete" -> {}
      [] OTHER -> req.of

(* #replaceMembers: the subjects whose membership changes. *)
ListMembers(j) ==
    LET req == job[j].req
        todo == {[s |-> s, active |-> subject[s].active,
                  groups |-> IF s \in Wanted(req) THEN subject[s].groups \cup {req.g}
                             ELSE subject[s].groups \ {req.g}]
                   : s \in {x \in Made : (x \in Wanted(req)) # (x \in Members(req.g))}}
    IN
    /\ job[j].step = "list" /\ req.op \in GroupOps
    /\ Advance(j, [job EXCEPT ![j].todo = todo])
    /\ UNCHANGED <<subject, group, account, claim, enabled, news, spent, lapped, late, sore, blind, missed>>

(* The list call fails: users is [], and only an unknown member is refused. *)
ListNothing(j) ==
    LET req == job[j].req IN
    /\ job[j].step = "list" /\ Spare
    /\ req.op \in {"drop", "delete"} \/ (req.op # "add" /\ req.of = {})
    /\ Advance(j, job)
    /\ spent' = [spent EXCEPT !.fault = @ + 1]
    /\ blind' = TRUE
    /\ UNCHANGED <<subject, group, account, claim, enabled, news, lapped, late, sore, missed>>

Change(new, old) == IF new = old THEN {} ELSE {new}

(* updateUserSpecs of the directory: the record is read again for the diff. *)
FindSubject(j) ==
    \E t \in job[j].todo \cap Edit :
       LET u == subject[t.s] IN
       /\ job[j].step = "next"
       /\ job' = [job EXCEPT ![j].step = "patch", ![j].now = {t}, ![j].todo = @ \ {t},
                     ![j].put = [active |-> Change(t.active, u.active),
                                 granted |-> Change(Granted(t.active, t.groups), u.granted),
                                 add |-> t.groups \ u.groups, drop |-> u.groups \ t.groups]]
       /\ UNCHANGED <<subject, group, account, claim, enabled, news, spent, lapped, late, unmet, sore, blind, missed>>

Applied(change, old) == IF change = {} THEN old ELSE CHOOSE new \in change : TRUE

(* What a patch takes out of an array must still be in it. *)
Applies(put, granted, groups) == put.drop \subseteq groups /\ (put.granted = {FALSE} => granted)

(* Mutant: a changed subject is not projected. *)
ProjectedNever(s) == FALSE
(* Mutant: a changed subject is projected without an account of its own. *)
ProjectedAlways(s) == TRUE
(* onChange: a linked subject is projected into its account. *)
Projected(s) == subject[s].account # NoOne

PatchSubject(j) ==
    \E t \in job[j].now :
       LET put == job[j].put
           u == subject[t.s]
       IN
       /\ job[j].step = "patch"
       /\ \/ /\ Applies(put, u.granted, u.groups)
             /\ subject' = [subject EXCEPT
                   ![t.s].active = Applied(put.active, @),
                   ![t.s].granted = Applied(put.granted, @),
                   ![t.s].groups = (@ \ put.drop) \cup put.add]
             /\ IF Projected(t.s)
                THEN /\ job' = [Outdate(job, t.s) EXCEPT ![j].step = "locate", ![j].put = NoPut,
                                   ![j].now = {Projection(subject'[t.s])}]
                     /\ UNCHANGED unmet
                ELSE Advance(j, Outdate(job, t.s))
             /\ UNCHANGED <<sore, missed>>
          \/ /\ ~Applies(put, u.granted, u.groups)
             /\ GiveUp(j)
             /\ UNCHANGED subject
       /\ UNCHANGED <<group, account, claim, enabled, news, spent, lapped, late, blind>>

(* Mutant: the link is written without the version that was listed. *)
AcceptedAnyVersion(k) == TRUE
Accepted(k) == k.fresh

LinkSubject(j) ==
    LET req == job[j].req IN
    /\ job[j].step = "link"
    /\ \/ /\ Accepted(job[j])
          /\ subject' = [subject EXCEPT ![req.s].account = req.a]
          /\ job' = [Outdate(job, req.s) EXCEPT ![j].step = "locate", ![j].now = {Projection(subject'[req.s])}]
       \/ ~Accepted(job[j]) /\ job' = [job EXCEPT ![j] = Idle] /\ UNCHANGED subject
    /\ unmet' = IF Accepted(job[j]) THEN unmet ELSE unmet \cup {req}
    /\ UNCHANGED <<group, account, claim, enabled, news, spent, lapped, late, sore, blind, missed>>

(* project, and revokeConnection: the account is read and patched. *)
Locate(j) ==
    \E v \in job[j].now :
       LET i == account[v.a] IN
       /\ job[j].step = "locate"
       /\ job' = [job EXCEPT ![j].step = "project",
                     ![j].put = [NoPut EXCEPT
                        !.active = IF i.known THEN Change(v.active, i.active) ELSE {v.active},
                        !.granted = Change(v.granted, i.granted)]]
       /\ UNCHANGED <<subject, group, account, claim, enabled, news, spent, lapped, late, unmet, sore, blind, missed>>

Project(j) ==
    \E v \in job[j].now :
       LET put == job[j].put
           i == account[v.a]
       IN
       /\ job[j].step = "project"
       /\ \/ /\ Applies(put, i.granted, {})
             /\ account' = [account EXCEPT ![v.a] =
                   [known |-> TRUE, active |-> Applied(put.active, i.active),
                    granted |-> Applied(put.granted, i.granted)]]
             /\ Advance(j, job) /\ UNCHANGED <<sore, missed>>
          \/ /\ ~Applies(put, i.granted, {})
             /\ GiveUp(j)
             /\ UNCHANGED account
       /\ UNCHANGED <<subject, group, claim, enabled, news, spent, lapped, late, blind>>

(***************************************************************************)
(* The connection operator.                                                *)
(***************************************************************************)

Linked == {s \in Subject : subject[s].account # NoOne}

(* Mutant: the groups are not part of what a revocation writes. *)
WithdrawnKeeping(s) == [a |-> subject[s].account, active |-> FALSE, granted |-> subject[s].granted]
Withdrawn(s) == [a |-> subject[s].account, active |-> FALSE, granted |-> FALSE]

Revoke ==
    /\ news /\ ~Busy("operator")
    /\ news' = FALSE
    /\ job' = [job EXCEPT !["operator"] =
                  IF Linked = {} THEN Idle
                  ELSE [At("next") EXCEPT !.todo = {Withdrawn(s) : s \in Linked}]]
    /\ lapped' = (lapped \/ ~Calm) /\ missed' = FALSE
    /\ UNCHANGED <<subject, group, account, claim, enabled, spent, late, unmet, sore, blind>>

(* A failed list revokes nothing, a failed read of an account leaves it out. *)
RevokeBlind ==
    /\ news /\ ~Busy("operator") /\ Spare
    /\ news' = FALSE
    /\ missed' = TRUE
    /\ spent' = [spent EXCEPT !.fault = @ + 1]
    /\ UNCHANGED <<subject, group, account, claim, enabled, job, lapped, late, unmet, sore, blind>>

RevokeSkip ==
    /\ job["operator"].step = "locate" /\ Spare
    /\ Advance("operator", job)
    /\ missed' = TRUE
    /\ spent' = [spent EXCEPT !.fault = @ + 1]
    /\ UNCHANGED <<subject, group, account, claim, enabled, news, lapped, late, sore, blind>>

RevokeNext ==
    \E v \in job["operator"].todo :
       /\ job["operator"].step = "next"
       /\ job' = [job EXCEPT !["operator"].step = "locate", !["operator"].now = {v},
                             !["operator"].todo = @ \ {v}]
       /\ UNCHANGED <<subject, group, account, claim, enabled, news, spent, lapped, late, unmet, sore, blind, missed>>

(* The operator's watch opens again, with the connection as it is. *)
Restart ==
    /\ Spare /\ ~Busy("operator")
    /\ spent' = [spent EXCEPT !.fault = @ + 1]
    /\ news' = ~enabled
    /\ UNCHANGED <<subject, group, account, claim, enabled, job, lapped, late, unmet, sore, blind, missed>>

(***************************************************************************)
(* The environment.                                                        *)
(***************************************************************************)

Switch ==
    /\ Spare
    /\ spent' = [spent EXCEPT !.switch = @ + 1]
    /\ enabled' = ~enabled
    /\ news' = (news \/ enabled)
    /\ late' = (late \/ \E j \in Slot : Busy(j))
    /\ UNCHANGED <<subject, group, account, claim, job, lapped, unmet, sore, blind, missed>>

(* A call fails, and the handler throws. *)
Fail(j) ==
    /\ Busy(j) /\ ~(j = "operator" /\ job[j].step = "next") /\ Spare
    /\ spent' = [spent EXCEPT !.fault = @ + 1]
    /\ GiveUp(j)
    /\ UNCHANGED <<subject, group, account, claim, enabled, news, lapped, late, blind>>

Step(j) ==
    CreateUser(j) \/ Mark(j) \/ ListMembers(j) \/ ListNothing(j) \/ FindSubject(j) \/ PatchSubject(j) \/ LinkSubject(j)

Next ==
    \/ \E j \in Slot : UserRequest(j) \/ GroupRequest(j) \/ Link(j) \/ Step(j)
    \/ \E j \in Task : Locate(j) \/ Project(j) \/ Fail(j)
    \/ Revoke \/ RevokeBlind \/ RevokeSkip \/ RevokeNext \/ Restart \/ Switch

Spec == Init /\ [][Next]_vars
-----------------------------------------------------------------------------

(* Types. *)
TypeOK ==
    /\ subject \in [Subject -> Record]
    /\ group \in [Group -> {"none", "live", "gone"}]
    /\ account \in [Account -> [known : BOOLEAN, active : BOOLEAN, granted : BOOLEAN]]
    /\ \A j \in Task : job[j].put \in Put /\ job[j].req \in Request /\ job[j].now \in Maybe(Edit \cup View)

(* A subject, once linked, stays with its account, however the sign-ins and *)
(* the directory's writes overlap.                                          *)
LinkStable ==
    [][\A s \in Subject : subject[s].account # NoOne => subject'[s].account = subject[s].account]_vars

(* At every moment a tombstoned group has no members, even when its deletion *)
(* or its re-creation failed half way, if handlers come one at a time and no *)
(* list of subjects failed.                                                  *)
GroupsLive ==
    ~lapped /\ ~blind => \A g \in Group, s \in Subject : group[g] = "gone" => g \notin subject[s].groups

Quiet == ~news /\ Calm

(* Handlers that come one at a time leave every linked account with what the *)
(* directory says, failures that a later success repeats included; those of  *)
(* a group change are not repeated by the code.                              *)
Settled ==
    Quiet /\ ~lapped /\ unmet = {} /\ ~sore /\ spent.switch = 0 =>
        \A s \in Linked : account[subject[s].account] =
            [known |-> TRUE, active |-> subject[s].active,
             granted |-> Granted(subject[s].active, subject[s].groups)]

(* A disabled connection grants nothing once its revocation is done, unless  *)
(* a handler was in flight as it was disabled.                               *)
Revoked ==
    Quiet /\ ~enabled /\ ~late /\ ~missed => \A a \in Account : ~account[a].granted

(* An active user has the group only while it belongs to a live group, once  *)
(* the directory has repeated every request that failed.                     *)
OnlyWhileMember ==
    Quiet /\ ~lapped /\ unmet = {} =>
        \A s \in Linked : account[subject[s].account].granted
            => Granted(subject[s].active, {g \in subject[s].groups : group[g] = "live"})
=============================================================================
