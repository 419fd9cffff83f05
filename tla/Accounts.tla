------------------------------ MODULE Accounts ------------------------------
(***************************************************************************)
(* OIDCUsers: the sign-ins and the administrators that create, link and    *)
(* edit them, the status every writer reconciles with an optimistic retry, *)
(* and the user operator, whose e-mail reconcile marks the users that      *)
(* claim an address of an older one.  A person has one mailbox and one     *)
(* identity at each upstream, all three named by the person.               *)
(***************************************************************************)
EXTENDS Naturals, FiniteSets, Sequences

CONSTANTS
    Account,    \* the names an OIDCUser may have
    Person,     \* who signs in; also a person's mailbox and upstream identities
    Nobody,     \* no person, no address
    Prompt,     \* USERNAME_SOURCE asks for a name, or generates one
    Slot,       \* bounds the handlers of the process that overlap
    MaxRequest, \* sign-ins and invitations
    MaxBorn,    \* users ever made
    MaxEvent    \* overlaps of requests, edits and deletes by others, calls that
                \* fail, restarts, together

ASSUME AccountsAssumption ==
    /\ Prompt \in BOOLEAN
    /\ Nobody \notin Person \cup Account
    /\ "mailer" \notin Slot
    /\ {MaxRequest, MaxBorn, MaxEvent} \subseteq Nat

VARIABLES
    user,    \* the OIDCUsers the API server has
    job,     \* the handlers in flight, the e-mail reconcile among them
    news,    \* users with an ADDED, or a MODIFIED of others, to deliver
    again,   \* reconcileEmailPending
    verdict, \* what the e-mail reconcile found and has not written yet
    word,    \* the address each person's OIDC upstream asserted last, and
             \* whether it once asserted another (history)
    spent,   \* what the bounds count, and the births that order the users
    \* History.
    holder,  \* whom each user was made for
    entered, \* who signed in to what, as long as the requests are
    clean,   \* one at a time and run to their end
    missed,  \* a status was given up after three conflicts, or a call failed
    failed,  \* a call failed
    unseen   \* a patch of ours changed what a user claims, and the e-mail
             \* reconcile has not listed since

vars == <<user, job, news, again, verdict, word, spent, holder, entered, clean, missed, failed, unseen>>

Address == Person \cup {Nobody}
Evidence == [mail : Address, sure : BOOLEAN]
Word == [mail : Address, moved : BOOLEAN]
NoEvidence == [mail |-> Nobody, sure |-> FALSE]
Sources == [github : Evidence, identity : Evidence]
Nothing == [github |-> NoEvidence, identity |-> NoEvidence]
Condition == {"none", "True", "False"}
Shown == [emails : SUBSET Person, proven : SUBSET Person, unique : Condition]
Blank == [emails |-> {}, proven |-> {}, unique |-> "none"]

User == [born : Nat, spec : Address, bare : Address, github : Evidence, gid : Address,
         sub : Address, identity : Evidence, status : Shown]
Absent == [born |-> 0, spec |-> Nobody, bare |-> Nobody, github |-> NoEvidence,
           gid |-> Nobody, sub |-> Nobody, identity |-> NoEvidence, status |-> Blank]

Task == Slot \cup {"mailer"}
Kind == {"link", "oidc", "github", "invite", "watch", "unique"}

(* The edits of a handler, each a patch with its reconcile or a reconcile;  *)
(* those of what is left out (slack, onboardedBy, UsernameCommitted) are    *)
(* left out: another edit of the same user follows each.                    *)
Edit == {"proof", "identity", "github", "approve", "created", "condition", "again"}
EditOf(kind) ==
    CASE kind = "link" -> "proof"
      [] kind = "oidc" -> "identity"
      [] kind = "github" -> "github"
      [] kind = "invite" -> "approve"
      [] kind = "watch" -> "created"
      [] kind = "unique" -> "condition"

(* After enter-username the login of an upstream runs again. *)
Prompted(kind) == Prompt /\ kind \in {"oidc", "github"}
Creation(kind) == <<"created", IF Prompted(kind) THEN "again" ELSE EditOf(kind)>>
Todo == {<<>>} \cup {<<e>> : e \in Edit} \cup {<<"created", e>> : e \in Edit}
Job == [step : {"idle", "list", "resolve", "create", "look", "find", "patch", "read", "write"},
        kind : Kind, who : Address, mail : Address, sure : BOOLEAN, at : Account \cup {Nobody},
        todo : Todo, old : Sources, put : Sources, try : 1 .. 3, fresh : BOOLEAN,
        want : Shown]
Idle == [step |-> "idle", kind |-> "watch", who |-> Nobody, mail |-> Nobody, sure |-> FALSE,
         at |-> Nobody, todo |-> <<>>, old |-> Nothing, put |-> Nothing, try |-> 1,
         fresh |-> FALSE, want |-> Blank]

Live(a) == user[a].born # 0
(* Mutant: the addresses that are not there are not filtered out. *)
ClaimedRaw(u) == {u.spec, u.bare, u.github.mail, u.identity.mail}
Claimed(u) == {u.spec, u.bare, u.github.mail, u.identity.mail} \ {Nobody}
Verified(u) == u.status.proven \cup {e.mail : e \in {f \in {u.github, u.identity} : f.sure}}

(* Mutant: any address an account claims may link to it. *)
LinkableClaimed(u, e) == e \in Claimed(u)

(* isEmailLinkable: the address is held on more than an upstream's word. *)
Linkable(u, e) ==
    /\ e \in Claimed(u)
    /\ e \in Verified(u) \/ e = u.spec \/ e # u.identity.mail

Claimants(e) == {a \in Account : Live(a) /\ e \in Claimed(user[a])}
Owners(e) == {a \in Claimants(e) : \A b \in Claimants(e) : user[a].born <= user[b].born}
Eligible(a) == \A e \in Claimed(user[a]) : a \in Owners(e)

Busy(j) == job[j].step # "idle"
Request(j) == Busy(j) /\ job[j].kind \in {"link", "oidc", "github", "invite"}

Init ==
    /\ user = [a \in Account |-> Absent]
    /\ job = [j \in Task |-> Idle]
    /\ news = {} /\ again = FALSE
    /\ verdict = [a \in Account |-> "none"]
    /\ word = [p \in Person |-> [mail |-> Nobody, moved |-> FALSE]]
    /\ spent = [born |-> 0, request |-> 0, event |-> 0]
    /\ holder = [a \in Account |-> Nobody] /\ entered = {}
    /\ clean = TRUE /\ missed = FALSE /\ failed = FALSE /\ unseen = FALSE

(***************************************************************************)
(* A request resolves the account: by upstream identity, then by address.  *)
(***************************************************************************)

Known(k) ==
    CASE k.kind = "oidc" -> {a \in Account : Live(a) /\ user[a].sub = k.who}
      [] k.kind = "github" -> {a \in Account : Live(a) /\ user[a].gid = k.who}
      [] OTHER -> {}

(* IdentityIntegrityError: what the identity and the address say disagrees. *)
Blocked(k) ==
    \/ \E a, b \in Known(k) : a # b
    \/ \E a \in Known(k) \cup Owners(k.mail) : ~Eligible(a)
    \/ Known(k) # {} /\ \E a \in Owners(k.mail) : a \notin Known(k)

Found(k) ==
    IF Known(k) # {} THEN Known(k)
    ELSE {a \in Owners(k.mail) : k.sure /\ Linkable(user[a], k.mail)}

IsPrompted(k) == Prompt /\ k.kind # "invite" /\ Head(k.todo) = "created"

(* The first call an edit makes. *)
Opens(edit) ==
    CASE edit = "approve" -> "look"
      [] edit = "again" -> "resolve"
      [] edit \in {"identity", "github"} -> "find"
      [] OTHER -> "read"

At(k, a, todo) ==
    IF todo = <<>> THEN Idle
    ELSE [k EXCEPT !.step = Opens(Head(todo)), !.at = a, !.todo = todo, !.try = 1,
                     !.fresh = FALSE, !.want = Blank]

(* The jobs k may become: refused, at the account found, about to create.   *)
Resolved(k) ==
    IF Blocked(k) THEN {Idle}
    ELSE IF Found(k) # {} THEN {At(k, a, <<EditOf(k.kind)>>) : a \in Found(k)}
    ELSE IF Owners(k.mail) # {} THEN {Idle}
    ELSE {[k EXCEPT !.step = "create", !.at = Nobody, !.todo = Creation(k.kind)]}

SpoiledIf(spoiled) ==
    /\ clean' = (clean /\ ~spoiled)
    /\ entered' = IF clean' THEN entered ELSE {}

Start(j, kind, p, e, sure) ==
    /\ ~Busy(j) /\ spent.request < MaxRequest
    /\ \E k \in Resolved([Idle EXCEPT !.kind = kind, !.who = p, !.mail = e, !.sure = sure]) :
          job' = [job EXCEPT ![j] = k]
    /\ LET laps == \E i \in Slot : Request(i) IN
       /\ laps => spent.event < MaxEvent
       /\ spent' = [spent EXCEPT !.request = @ + 1, !.event = IF laps THEN @ + 1 ELSE @]
       /\ SpoiledIf(laps)
    /\ UNCHANGED <<user, news, again, verdict, holder, missed, failed, unseen>>

Heard(p, e) == [mail |-> e, moved |-> word[p].moved \/ word[p].mail \notin {Nobody, e}]

(* A magic link and GitHub prove the mailbox; an OIDC upstream asserts one, *)
(* at every sign-in the one it then has for the person.                     *)
SignIn(j) ==
    \E p \in Person :
       \/ \E kind \in {"link", "github"} : Start(j, kind, p, p, TRUE) /\ UNCHANGED word
       \/ \E e \in Person, sure \in BOOLEAN :
            /\ sure => e = p
            /\ Start(j, "oidc", p, e, sure)
            /\ word' = [word EXCEPT ![p] = Heard(p, e)]

(* The administrator's form refuses an address that is taken. *)
Invite(j) ==
    /\ \E e \in Person : Claimants(e) = {} /\ Start(j, "invite", e, e, TRUE)
    /\ UNCHANGED word

(* The login of the upstream that runs again after enter-username. *)
Resolve(j) ==
    /\ job[j].step = "resolve"
    /\ \E k \in Resolved(job[j]) : job' = [job EXCEPT ![j] = k] /\ SpoiledIf(k = Idle)
    /\ UNCHANGED <<user, news, again, verdict, word, spent, holder, missed, failed, unseen>>

NewUser(k, born) ==
    [Absent EXCEPT !.born = born,
                   !.bare = IF k.kind = "github" THEN Nobody ELSE k.mail,
                   !.github = IF k.kind \in {"oidc", "github"}
                              THEN [mail |-> k.mail, sure |-> k.sure] ELSE NoEvidence,
                   !.sub = IF k.kind = "oidc" THEN k.who ELSE Nobody,
                   !.gid = IF k.kind = "github" THEN k.who ELSE Nobody]

(* The form asks again for a name that is taken; otherwise it is a refusal. *)
Create(j) ==
    LET k == job[j] IN
    /\ k.step = "create"
    /\ \/ \E a \in Account :
            /\ ~Live(a) /\ spent.born < MaxBorn
            /\ user' = [user EXCEPT ![a] = NewUser(k, spent.born + 1)]
            /\ spent' = [spent EXCEPT !.born = @ + 1]
            /\ news' = news \cup {a}
            /\ holder' = [holder EXCEPT ![a] = k.who]
            /\ job' = [job EXCEPT ![j] = At(k, a, k.todo)]
       \/ /\ ~IsPrompted(k) /\ \E a \in Account : Live(a)
          /\ job' = [job EXCEPT ![j] = Idle]
          /\ UNCHANGED <<user, news, spent, holder>>
    /\ UNCHANGED <<again, verdict, word, entered, clean, missed, failed, unseen>>

(***************************************************************************)
(* updateUserSpecs reads the user, patches what differs, without a         *)
(* version, and reconciles the status; mutateUserStatus does the last.     *)
(***************************************************************************)

(* Any write of a user outdates the copies held of it. *)
Outdate(jobs, a) ==
    [i \in Task |-> IF jobs[i].at = a THEN [jobs[i] EXCEPT !.fresh = FALSE] ELSE jobs[i]]

(* Account.approve reads the whole spec before updateUserSpecs does. *)
Look(j) ==
    LET k == job[j] IN
    /\ k.step = "look" /\ Live(k.at)
    /\ job' = [job EXCEPT ![j].step = "find",
                          ![j].old = [github |-> user[k.at].github,
                                      identity |-> user[k.at].identity]]
    /\ UNCHANGED <<user, news, again, verdict, word, spent, holder, entered, clean, missed, failed, unseen>>

Unless(new, found) == IF new = found THEN NoEvidence ELSE new
Mine(k) == [mail |-> k.mail, sure |-> k.sure]

(* What differs from what was found; NoEvidence leaves the field alone. *)
Difference(k, u) ==
    CASE Head(k.todo) = "identity" ->
            [Nothing EXCEPT !.identity = IF u.sub = k.who THEN Unless(Mine(k), u.identity) ELSE Mine(k)]
      [] Head(k.todo) = "github" ->
            [Nothing EXCEPT !.github = IF u.gid = k.who THEN Unless(Mine(k), u.github) ELSE Mine(k)]
      [] Head(k.todo) = "approve" ->
            [github |-> Unless(k.old.github, u.github),
             identity |-> Unless(k.old.identity, u.identity)]
      [] OTHER -> Nothing

Find(j) ==
    LET k == job[j] IN
    /\ k.step = "find" /\ Live(k.at)
    /\ job' = [job EXCEPT ![j].step = "patch", ![j].put = Difference(k, user[k.at])]
    /\ UNCHANGED <<user, news, again, verdict, word, spent, holder, entered, clean, missed, failed, unseen>>

Patched(k, u) ==
    [u EXCEPT !.github = IF k.put.github = NoEvidence THEN @ ELSE k.put.github,
              !.gid = IF Head(k.todo) = "github" THEN k.who ELSE @,
              !.identity = IF k.put.identity = NoEvidence THEN @ ELSE k.put.identity,
              !.sub = IF Head(k.todo) = "identity" THEN k.who ELSE @]

AfterPatch(k) == [k EXCEPT !.step = "read", !.put = Nothing, !.old = Nothing]

Patch(j) ==
    LET k == job[j]
        u == Patched(k, user[k.at])
    IN
    /\ k.step = "patch" /\ Live(k.at)
    /\ user' = [user EXCEPT ![k.at] = u]
    /\ job' = [(IF u = user[k.at] THEN job ELSE Outdate(job, k.at)) EXCEPT ![j] = AfterPatch(k)]
    /\ unseen' = (unseen \/ Claimed(u) # Claimed(user[k.at]))
    /\ UNCHANGED <<news, again, verdict, word, spent, holder, entered, clean, missed, failed>>

(* Mutant: the addresses are set only once. *)
IntendedOnce(k, u) ==
    [emails |-> IF u.status.emails = {} THEN Claimed(u) ELSE u.status.emails,
     proven |-> IF Head(k.todo) = "proof" THEN u.status.proven \cup ({k.mail} \cap Claimed(u))
                ELSE u.status.proven,
     unique |-> IF Head(k.todo) = "condition" THEN verdict[k.at] ELSE u.status.unique]

(* getIntendedStatus of the mutated user. *)
Intended(k, u) ==
    [emails |-> Claimed(u),
     proven |-> IF Head(k.todo) = "proof" THEN u.status.proven \cup ({k.mail} \cap Claimed(u))
                ELSE u.status.proven,
     unique |-> IF Head(k.todo) = "condition" THEN verdict[k.at] ELSE u.status.unique]

(* The e-mail reconcile runs, or is told to run again. *)
Listing == [Idle EXCEPT !.step = "list", !.kind = "unique"]
Scheduled(jobs) ==
    IF jobs["mailer"].step = "idle"
    THEN [jobs EXCEPT !["mailer"] = Listing]
    ELSE jobs

(* Mutant: an event that comes while the reconcile runs does not count. *)
NextFlagOnce(found, more) ==
    LET wrong == {a \in Account : found[a] # "none"} IN
    IF wrong # {} THEN {At(Listing, a, <<"condition">>) : a \in wrong} ELSE {Idle}

(* The e-mail reconcile goes on with any user it found wrong; with none     *)
(* left it ends, or lists again.                                            *)
NextFlag(found, more) ==
    LET wrong == {a \in Account : found[a] # "none"} IN
    IF wrong # {} THEN {At(Listing, a, <<"condition">>) : a \in wrong}
    ELSE {IF more THEN Listing ELSE Idle}

(* An edit is done: the next one, or the end of the handler. *)
Done(j, jobs) ==
    LET k == job[j] IN
    CASE k.kind = "watch" ->
            /\ job' = Scheduled([jobs EXCEPT ![j] = Idle])
            /\ again' = (again \/ Busy("mailer"))
            /\ UNCHANGED <<verdict, entered>>
      [] k.kind = "unique" ->
            /\ verdict' = [verdict EXCEPT ![k.at] = "none"]
            /\ \E next \in NextFlag(verdict', again) : job' = [jobs EXCEPT ![j] = next]
            /\ again' = (again /\ job'[j].step # "list")
            /\ UNCHANGED entered
      [] OTHER ->
            /\ job' = [jobs EXCEPT ![j] = At(k, k.at, Tail(k.todo))]
            /\ entered' = IF clean /\ Len(k.todo) = 1 /\ k.kind # "invite" /\ Live(k.at)
                          THEN entered \cup {<<k.who, k.at>>} ELSE entered
            /\ UNCHANGED <<again, verdict>>

(* The status came back empty.  A request whose account that is stops, or   *)
(* shows the form again for the user it has made.                           *)
Unmet(j) ==
    LET k == job[j] IN
    IF Head(k.todo) = "created" /\ k.kind # "watch"
    THEN /\ job' = [job EXCEPT ![j] = IF IsPrompted(k) THEN [k EXCEPT !.step = "create", !.at = Nobody]
                                      ELSE Idle]
         /\ SpoiledIf(TRUE)
         /\ UNCHANGED <<again, verdict>>
    ELSE Done(j, job) /\ UNCHANGED clean

Read(j) ==
    LET k == job[j]
        u == user[k.at]
    IN
    /\ k.step = "read"
    /\ \/ /\ Live(k.at) /\ Intended(k, u) = u.status
          /\ Done(j, job) /\ UNCHANGED clean
       \/ /\ Live(k.at) /\ Intended(k, u) # u.status
          /\ job' = [job EXCEPT ![j].step = "write", ![j].fresh = TRUE,
                                ![j].want = Intended(k, u)]
          /\ UNCHANGED <<again, verdict, entered, clean>>
       \/ ~Live(k.at) /\ Unmet(j)
    /\ UNCHANGED <<user, news, word, spent, holder, missed, failed, unseen>>

(* Mutant: a status replace without a resourceVersion. *)
AcceptedAnyVersion(k) == Live(k.at)
Accepted(k) == Live(k.at) /\ k.fresh

Write(j) ==
    LET k == job[j] IN
    /\ k.step = "write" /\ Accepted(k)
    /\ user' = [user EXCEPT ![k.at].status = k.want]
    /\ Done(j, Outdate(job, k.at))
    /\ UNCHANGED <<news, word, spent, holder, clean, missed, failed, unseen>>

(* A conflict is tried again twice; a 404 is not. *)
Refused(j) ==
    LET k == job[j] IN
    /\ k.step = "write" /\ ~Accepted(k)
    /\ IF Live(k.at) /\ k.try < 3
       THEN /\ job' = [job EXCEPT ![j].step = "read", ![j].try = @ + 1,
                                     ![j].want = Blank]
            /\ UNCHANGED <<again, verdict, entered, clean, missed>>
       ELSE Unmet(j) /\ missed' = (missed \/ Live(k.at))
    /\ UNCHANGED <<user, news, word, spent, holder, failed, unseen>>

(* updateUserSpecs throws when the user is gone. *)
Vanished(j) ==
    /\ job[j].step \in {"look", "find", "patch"} /\ ~Live(job[j].at)
    /\ job' = [job EXCEPT ![j] = Idle]
    /\ SpoiledIf(TRUE)
    /\ UNCHANGED <<user, news, again, verdict, word, spent, holder, missed, failed, unseen>>

(***************************************************************************)
(* The user operator.                                                      *)
(***************************************************************************)

(* A MODIFIED of our own write is not in news. *)
Deliver(j) ==
    \E a \in news :
        /\ ~Busy(j)
        /\ news' = news \ {a}
        /\ job' = IF a \in Account
                  THEN [job EXCEPT ![j] = At([Idle EXCEPT !.kind = "watch"], a, <<"created">>)]
                  ELSE Scheduled(job)
        /\ again' = (again \/ (a \notin Account /\ Busy("mailer")))
        /\ UNCHANGED <<user, verdict, word, spent, holder, entered, clean, missed, failed, unseen>>

Flag(a) == IF Eligible(a) THEN "True" ELSE "False"

(* reconcileEmailUniqueness: list, then the users whose condition differs. *)
Mailer ==
    /\ job["mailer"].step = "list"
    /\ verdict' = [a \in Account |-> IF Live(a) /\ user[a].status.unique # Flag(a)
                                     THEN Flag(a) ELSE "none"]
    /\ \E next \in NextFlag(verdict', again) : job' = [job EXCEPT !["mailer"] = next]
    /\ again' = (again /\ job'["mailer"].step # "list")
    /\ unseen' = FALSE
    /\ UNCHANGED <<user, news, word, spent, holder, entered, clean, missed, failed>>

(***************************************************************************)
(* The environment.                                                        *)
(***************************************************************************)

(* Somebody else sets or clears spec.email: the mailbox of its person. *)
Vouch(a) ==
    /\ Live(a) /\ spent.event < MaxEvent
    /\ user' = [user EXCEPT ![a].spec = IF @ = Nobody THEN holder[a] ELSE Nobody]
    /\ news' = news \cup {a}
    /\ job' = Outdate(job, a)
    /\ spent' = [spent EXCEPT !.event = @ + 1]
    /\ UNCHANGED <<again, verdict, word, holder, entered, clean, missed, failed, unseen>>

Delete(a) ==
    /\ Live(a) /\ spent.event < MaxEvent
    /\ user' = [user EXCEPT ![a] = Absent]
    /\ news' = news \cup {Nobody}
    /\ job' = Outdate(job, a)
    /\ spent' = [spent EXCEPT !.event = @ + 1]
    /\ holder' = [holder EXCEPT ![a] = Nobody]
    /\ entered' = {e \in entered : e[2] # a}
    /\ UNCHANGED <<again, verdict, word, clean, missed, failed, unseen>>

(* Any call may fail: a status comes back empty, the others throw.  The    *)
(* e-mail reconcile that throws lists again if it was told to.             *)
Fail(j) ==
    /\ Busy(j) /\ spent.event < MaxEvent
    /\ spent' = [spent EXCEPT !.event = @ + 1]
    /\ missed' = TRUE /\ failed' = TRUE
    /\ IF job[j].step \in {"read", "write"}
       THEN Unmet(j)
       ELSE /\ job' = [job EXCEPT ![j] = IF j = "mailer" /\ again THEN Listing ELSE Idle]
            /\ again' = (again /\ j # "mailer")
            /\ SpoiledIf(j # "mailer")
            /\ UNCHANGED verdict
    /\ UNCHANGED <<user, news, word, holder, unseen>>

(* A restart replays every user as ADDED. *)
Restart ==
    /\ spent.event < MaxEvent
    /\ spent' = [spent EXCEPT !.event = @ + 1]
    /\ job' = [j \in Task |-> Idle]
    /\ news' = {a \in Account : Live(a)}
    /\ again' = FALSE
    /\ verdict' = [a \in Account |-> "none"]
    /\ SpoiledIf(\E j \in Slot : Request(j))
    /\ UNCHANGED <<user, word, holder, missed, failed, unseen>>

Step(j) == Look(j) \/ Find(j) \/ Patch(j) \/ Read(j) \/ Write(j) \/ Refused(j) \/ Vanished(j)

Next ==
    \/ \E j \in Slot : SignIn(j) \/ Invite(j) \/ Resolve(j) \/ Create(j) \/ Deliver(j)
    \/ \E j \in Task : Step(j) \/ Fail(j)
    \/ Mailer
    \/ \E a \in Account : Vouch(a) \/ Delete(a)
    \/ Restart

Spec == Init /\ [][Next]_vars
-----------------------------------------------------------------------------

(* Types. *)
TypeOK ==
    /\ user \in [Account -> User]
    /\ spent \in [born : Nat, request : Nat, event : Nat]
    /\ job \in [Task -> Job]
    /\ news \subseteq Account \cup {Nobody} /\ again \in BOOLEAN
    /\ verdict \in [Account -> Condition]
    /\ word \in [Person -> Word] /\ holder \in [Account -> Address]
    /\ entered \subseteq Person \X Account /\ {clean, missed, failed, unseen} \subseteq BOOLEAN

Quiet == news = {} /\ \A j \in Task : ~Busy(j)

(* Once nothing is in flight the status shows what the spec says, however  *)
(* the writers of both overlapped and even if they gave up on a conflict.  *)
StatusCurrent ==
    Quiet /\ ~failed =>
        \A a \in Account : Live(a) => user[a].status.emails = Claimed(user[a])

(* Once nothing is in flight, exactly the users that claim an address of an *)
(* older one are marked, unless a status was given up or a patch of our own *)
(* has changed a claim since the e-mail reconcile listed last.              *)
FlagsRight ==
    Quiet /\ ~missed /\ ~unseen =>
        \A a \in Account : Live(a) => user[a].status.unique = Flag(a)

(* Requests that come one at a time and run to their end never sign a       *)
(* person in to a user that was made for somebody else, even if an upstream *)
(* asserts an address that is not its person's.  Only the user of a person  *)
(* whose upstream has asserted two addresses is left out.                   *)
HomeOnly == \A e \in entered : holder[e[2]] = e[1] \/ word[holder[e[2]]].moved

(* A verification once written stays, through every overlapping reconcile. *)
ProofKept ==
    [][\A a \in Account :
          Live(a) /\ user'[a].born = user[a].born
              => user[a].status.proven \subseteq user'[a].status.proven]_vars
=============================================================================
