---------------------------- MODULE SignInProofs ----------------------------
(***************************************************************************)
(* What SignIn keeps for any persons, texts, policies, devices and bounds: *)
(* its types, that whoever is logged in was proved as long as no flag was  *)
(* carried to another address, and that only a shown text is accepted.     *)
(***************************************************************************)
EXTENDS SignIn, TLAPS

(***************************************************************************)
(* Results, field by field.                                                *)
(***************************************************************************)

LEMMA Bounds ==
    /\ MaxUid \in Nat /\ MaxFlow \in Nat /\ MaxLink \in Nat /\ MaxEvent \in Nat
    /\ Nobody \notin Person /\ NoText \notin Text /\ "browser" \notin Device
    /\ Guest \notin Person /\ Guest # Nobody /\ Nobody \notin Account /\ Guest \in Account
BY SignInAssumption DEF Account

LEMMA NullTypes ==
    /\ Blank \in Facts /\ Denied \in Facts /\ NoInteraction \in Interaction /\ Idle \in Job
    /\ Full \in User /\ Absent \in User
<1>1. 0 \in 0 .. MaxUid /\ 0 \in 0 .. MaxFlow /\ 0 \in 0 .. MaxLink
  BY Bounds
<1>2. Blank \in Facts
  BY <1>1 DEF Blank, Facts, Somebody, Holder, Texts
<1>3. Denied \in Facts
  BY <1>2 DEF Denied, Facts
<1>4. NoInteraction \in Interaction
  BY <1>1, <1>2 DEF NoInteraction, Interaction
<1>5. Idle \in Job
  BY <1>1, <1>2 DEF Idle, Job, Holder
<1>6. Full \in User /\ Absent \in User
  BY DEF Full, Absent, User, Texts
<1> QED BY <1>2, <1>3, <1>4, <1>5, <1>6

LEMMA NullFields ==
    /\ Blank.state = 0 /\ Blank.github = Nobody /\ Blank.oidc = Nobody /\ Blank.mail = Nobody
    /\ Blank.token = 0 /\ ~Blank.sure /\ ~Blank.ask /\ Blank.text = NoText
    /\ Blank.login = Nobody /\ ~Blank.consent /\ ~Blank.error
    /\ Denied.github = Nobody /\ Denied.oidc = Nobody /\ Denied.mail = Nobody
    /\ Denied.token = 0 /\ ~Denied.sure /\ ~Denied.ask /\ Denied.text = NoText
    /\ Denied.login = Nobody /\ Denied.error
    /\ NoInteraction.uid = 0 /\ NoInteraction.result = Blank /\ NoInteraction.last = Blank
    /\ ~NoInteraction.done /\ Idle.step = "idle"
BY DEF Blank, Denied, NoInteraction, Idle

LEMMA MergeIs ==
    ASSUME NEW new \in Facts, NEW old \in Facts
    PROVE  /\ Merge(new, old) \in Facts
           /\ Merge(new, old).state = IF new.state = 0 THEN old.state ELSE new.state
           /\ Merge(new, old).github = IF new.github = Nobody THEN old.github ELSE new.github
           /\ Merge(new, old).oidc = IF new.oidc = Nobody THEN old.oidc ELSE new.oidc
           /\ Merge(new, old).mail = IF new.mail = Nobody THEN old.mail ELSE new.mail
           /\ Merge(new, old).token = IF new.token = 0 THEN old.token ELSE new.token
           /\ Merge(new, old).sure = (new.sure \/ old.sure)
           /\ Merge(new, old).ask = (new.ask \/ old.ask)
           /\ Merge(new, old).text = IF new.text = NoText THEN old.text ELSE new.text
           /\ Merge(new, old).login = IF new.login = Nobody THEN old.login ELSE new.login
           /\ Merge(new, old).consent = (new.consent \/ old.consent)
           /\ Merge(new, old).error = (new.error \/ old.error)
<1> DEFINE m == Merge(new, old)
<1>1. DOMAIN Blank = {"state", "github", "oidc", "mail", "token", "sure", "ask", "text",
                      "login", "consent", "error"}
  BY DEF Blank
<1>2. m = [f \in {"state", "github", "oidc", "mail", "token", "sure", "ask", "text",
                   "login", "consent", "error"} |->
              IF new[f] = Blank[f] THEN old[f] ELSE new[f]]
  BY <1>1 DEF Merge
<1>3. /\ m.state = IF new.state = 0 THEN old.state ELSE new.state
      /\ m.github = IF new.github = Nobody THEN old.github ELSE new.github
      /\ m.oidc = IF new.oidc = Nobody THEN old.oidc ELSE new.oidc
      /\ m.mail = IF new.mail = Nobody THEN old.mail ELSE new.mail
      /\ m.token = IF new.token = 0 THEN old.token ELSE new.token
      /\ m.text = IF new.text = NoText THEN old.text ELSE new.text
      /\ m.login = IF new.login = Nobody THEN old.login ELSE new.login
  BY <1>2 DEF Blank
<1>4. /\ m.sure = (new.sure \/ old.sure) /\ m.ask = (new.ask \/ old.ask)
      /\ m.consent = (new.consent \/ old.consent) /\ m.error = (new.error \/ old.error)
  BY <1>2 DEF Blank, Facts
<1>5. m \in Facts
  BY <1>2, <1>3, <1>4 DEF Facts
<1> HIDE DEF m
<1> QED BY <1>3, <1>4, <1>5 DEF m

(***************************************************************************)
(* What a result may say, given who was proved, the texts shown, who has   *)
(* an account, the links under way and how many were sent.                 *)
(***************************************************************************)

Upstreamed(f) == f.github # Nobody \/ f.oidc # Nobody

SoundFor(f, known, seen, living, sent, count) ==
    /\ {f.github, f.oidc, f.login} \subseteq known \cup {Nobody}
    /\ f.login \in living \cup {Nobody}
    /\ f.sure => f.mail \in known
    /\ f.ask => Upstreamed(f) \/ f.sure
    /\ f.text \in seen \cup {NoText}
    /\ (f.mail = Nobody) <=> (f.token = 0)
    /\ f.token <= count
    /\ \A link \in sent : f.token = link.token => f.mail = link.to

(* Whom the chain may log in: anybody, once a flag stands beside another   *)
(* address.                                                                *)
Trusted == IF mixed THEN Account ELSE proved
Living == {p \in Account : account[p].live}
Sound(f) == SoundFor(f, Trusted, shown, Living, links, spent.link)

(* An address in it is confirmed, or comes after an identity.              *)
Backed(f) == Upstreamed(f) \/ f.sure \/ f.mail = Nobody

LEMMA SoundGrows ==
    ASSUME NEW f \in Facts, NEW known, NEW seen, NEW living, NEW sent, NEW count \in Nat,
           NEW known2, NEW seen2, NEW living2, NEW sent2, NEW count2 \in Nat,
           SoundFor(f, known, seen, living, sent, count),
           known \subseteq known2, seen \subseteq seen2, living \subseteq living2,
           count <= count2, \A link \in sent2 : link \in sent \/ link.token > count,
           \A link \in sent2 : link.token \in Nat
    PROVE  SoundFor(f, known2, seen2, living2, sent2, count2)
<1>1. f.token \in Nat
  BY Bounds DEF Facts
<1>2. f.token <= count2
  BY <1>1 DEF SoundFor
<1>3. \A link \in sent2 : f.token = link.token => f.mail = link.to
  BY <1>1 DEF SoundFor
<1> QED BY <1>2, <1>3 DEF SoundFor

LEMMA NullSound ==
    ASSUME NEW known, NEW seen, NEW living, NEW sent, NEW count \in Nat,
           \A link \in sent : link.token \in Nat \ {0}
    PROVE  /\ SoundFor(Blank, known, seen, living, sent, count)
           /\ SoundFor(Denied, known, seen, living, sent, count)
BY NullFields DEF SoundFor

(* A flag that is known already is kept beside a new address, which then   *)
(* has to be one that was proved.                                          *)
LEMMA MergeSound ==
    ASSUME NEW new \in Facts, NEW old \in Facts,
           NEW known \in SUBSET Account, NEW seen \in SUBSET Text, NEW living \in SUBSET Account,
           NEW sent, NEW count,
           SoundFor(new, known, seen, living, sent, count),
           SoundFor(old, known, seen, living, sent, count),
           old.sure => new.mail \in known \cup {Nobody}
    PROVE  /\ SoundFor(Merge(new, old), known, seen, living, sent, count)
           /\ Upstreamed(Merge(new, old)) <=> Upstreamed(new) \/ Upstreamed(old)
           /\ Backed(new) /\ Backed(old) => Backed(Merge(new, old))
<1> DEFINE m == Merge(new, old)
<1>0. Nobody \notin known /\ NoText \notin seen
  BY Bounds
<1>f. /\ m.github = IF new.github = Nobody THEN old.github ELSE new.github
      /\ m.oidc = IF new.oidc = Nobody THEN old.oidc ELSE new.oidc
      /\ m.mail = IF new.mail = Nobody THEN old.mail ELSE new.mail
      /\ m.token = IF new.token = 0 THEN old.token ELSE new.token
      /\ m.sure = (new.sure \/ old.sure) /\ m.ask = (new.ask \/ old.ask)
      /\ m.text \in {new.text, old.text} /\ m.login \in {new.login, old.login}
  BY MergeIs
<1> HIDE DEF m
<1>1. m.github \in {new.github, old.github} /\ m.oidc \in {new.oidc, old.oidc}
  BY <1>f
<1>2. (m.mail = new.mail /\ m.token = new.token) \/ (m.mail = old.mail /\ m.token = old.token)
  BY <1>f DEF SoundFor
<1>3. m.sure => m.mail \in known
  BY <1>f, <1>0 DEF SoundFor
<1>4. Upstreamed(m) <=> Upstreamed(new) \/ Upstreamed(old)
  BY <1>f DEF Upstreamed
<1>5. m.ask => Upstreamed(m) \/ m.sure
  BY <1>f, <1>4 DEF SoundFor
<1>6. SoundFor(m, known, seen, living, sent, count)
  BY <1>f, <1>1, <1>2, <1>3, <1>5 DEF SoundFor
<1>7. Backed(new) /\ Backed(old) => Backed(m)
  BY <1>f, <1>4 DEF Backed
<1> QED BY <1>4, <1>6, <1>7 DEF m

(* A username prompt is stashed beside an identity or a confirmed address. *)
AskOnly == [Blank EXCEPT !.ask = TRUE]

LEMMA AskSound ==
    ASSUME NEW r \in Facts, NEW known \in SUBSET Account, NEW seen \in SUBSET Text,
           NEW living \in SUBSET Account, NEW sent, NEW count,
           SoundFor(r, known, seen, living, sent, count)
    PROVE  LET a == Merge(r, AskOnly) IN
           /\ a \in Facts /\ a.ask /\ a.github = r.github /\ a.oidc = r.oidc /\ a.mail = r.mail
           /\ a.token = r.token /\ a.sure = r.sure /\ a.text = r.text /\ a.login = r.login
           /\ a.error = r.error
<1> DEFINE a == Merge(r, AskOnly)
<1>1. AskOnly \in Facts /\ AskOnly.ask
  BY NullTypes DEF AskOnly, Facts
<1>2. /\ AskOnly.github = Nobody /\ AskOnly.oidc = Nobody /\ AskOnly.mail = Nobody
      /\ AskOnly.token = 0 /\ AskOnly.sure = FALSE /\ AskOnly.text = NoText
      /\ AskOnly.login = Nobody /\ AskOnly.error = FALSE
  BY NullTypes, NullFields DEF AskOnly, Facts, Blank
<1>3. /\ a \in Facts /\ a.ask = (r.ask \/ AskOnly.ask) /\ a.sure = (r.sure \/ AskOnly.sure)
      /\ a.error = (r.error \/ AskOnly.error)
      /\ a.github = IF r.github = Nobody THEN AskOnly.github ELSE r.github
      /\ a.oidc = IF r.oidc = Nobody THEN AskOnly.oidc ELSE r.oidc
      /\ a.mail = IF r.mail = Nobody THEN AskOnly.mail ELSE r.mail
      /\ a.token = IF r.token = 0 THEN AskOnly.token ELSE r.token
      /\ a.text = IF r.text = NoText THEN AskOnly.text ELSE r.text
      /\ a.login = IF r.login = Nobody THEN AskOnly.login ELSE r.login
  BY <1>1, MergeIs
<1> HIDE DEF a
<1>4. r.sure \in BOOLEAN /\ r.error \in BOOLEAN
  BY DEF Facts
<1>5. a.ask /\ a.sure = r.sure /\ a.error = r.error
  BY <1>1, <1>2, <1>3, <1>4
<1>6. a \in Facts /\ a.github = r.github /\ a.oidc = r.oidc /\ a.mail = r.mail
      /\ a.token = r.token /\ a.text = r.text /\ a.login = r.login
  BY <1>2, <1>3
<1> QED BY <1>5, <1>6 DEF a

(***************************************************************************)
(* The inductive invariant.                                                *)
(***************************************************************************)

(* The result so far; with a flag that is kept it names nobody unproved.   *)
ResultInv ==
    /\ Sound(inter.result)
    /\ inter.last.sure => inter.result.mail \in Trusted \cup {Nobody}
    /\ inter.done => Backed(inter.result)
    /\ inter.result.error => inter.result.token = 0

(* What the chain has handed on. *)
ChainInv ==
    /\ Sound(inter.last) /\ Backed(inter.last) /\ ~inter.last.error
    /\ inter.uid <= spent.uid
    /\ inter.uid = 0 => inter = NoInteraction

LinkInv == \A link \in links : link.token <= spent.link

(* The browser's own request, about the interaction it has. *)
BrowserInv ==
    LET b == job["browser"] IN
    /\ b.step # "idle" => inter.uid # 0 /\ ~inter.done /\ b.uid = inter.uid
    /\ ~inter.done /\ b.step # "finish" => ~inter.result.error
    /\ b.step = "exchange" => b.who \in Person /\ b.kind \in Upstream
    /\ b.step = "resolve" =>
         /\ b.who \in Trusted
         /\ Upstreamed(inter.result) \/ Upstreamed(inter.last) \/ inter.result.sure
    /\ b.step = "finish" => b.at \in (Trusted \cap Living) \cup {Nobody}
    /\ b.step = "accept" => b.who = signed /\ inter.prompt = "tos" /\ b.copy.text \in shown

(* A copy about to be saved, if its interaction is still there. *)
SaveInv(j) ==
    job[j].step = "save" =>
        /\ job[j].uid \in 1 .. spent.uid
        /\ job[j].uid = inter.uid => Sound(job[j].copy) /\ job[j].copy.sure
                                      /\ ~job[j].copy.error

(* A device only opens links. *)
TaskInv == \A j \in Task : SaveInv(j) /\ (j # "browser" => job[j].step \in {"idle", "save"})

PeopleInv ==
    /\ signed \in (Trusted \cap Living) \cup {Nobody}
    /\ \A p \in Account : ~account[p].live => account[p].tos = NoText

Inv == TypeOK /\ ResultInv /\ ChainInv /\ LinkInv /\ BrowserInv /\ TaskInv /\ PeopleInv

LEMMA InitInv ==
    ASSUME Init PROVE Inv
<1>1. 0 \in 0 .. MaxUid /\ 0 \in 0 .. MaxFlow /\ 0 \in 0 .. MaxLink /\ 0 \in 0 .. MaxEvent
  BY Bounds
<1>2. TypeOK
  <2>1. account \in [Account -> User]
    BY NullTypes DEF Init
  <2>2. inter \in Interaction /\ job \in [Task -> Job] /\ inter.uid = 0
    BY NullTypes, NullFields DEF Init
  <2>3. spent \in [uid : 0 .. MaxUid, flow : 0 .. MaxFlow, link : 0 .. MaxLink,
                   event : 0 .. MaxEvent]
    BY <1>1 DEF Init
  <2> QED BY <1>1, <2>1, <2>2, <2>3 DEF Init, TypeOK, Holder
<1>3. Sound(Blank) /\ Backed(Blank) /\ ~Blank.sure
  BY NullSound, NullFields DEF Init, Sound, Backed
<1>4. /\ inter = NoInteraction /\ inter.result = Blank /\ inter.last = Blank /\ inter.uid = 0
      /\ ~inter.done /\ Blank.mail = Nobody /\ ~Blank.error
  BY NullFields DEF Init
<1>5. ResultInv /\ ChainInv
  BY <1>3, <1>4 DEF ResultInv, ChainInv, Init
<1>6. \A j \in Task : job[j].step = "idle"
  BY NullFields DEF Init
<1>7. BrowserInv /\ TaskInv
  BY <1>4, <1>6 DEF BrowserInv, TaskInv, SaveInv, Task
<1>8. PeopleInv /\ LinkInv
  BY DEF PeopleInv, LinkInv, Init, Absent, Full
<1> QED BY <1>2, <1>5, <1>7, <1>8 DEF Inv

(***************************************************************************)
(* The steps of a page.                                                    *)
(***************************************************************************)

(* The chain goes on: the same interaction, more who are proved, shown or   *)
(* have an account, and links newer than any the results may name.          *)
Onward ==
    /\ inter'.uid = inter.uid /\ inter'.prompt = inter.prompt /\ inter'.last = inter.last
    /\ signed' = signed /\ spent'.uid = spent.uid
    /\ Trusted \subseteq Trusted' /\ shown \subseteq shown' /\ Living \subseteq Living'
    /\ spent.link <= spent'.link
    /\ \A link \in links' : link \in links \/ link.token > spent.link

LEMMA InvTypes ==
    ASSUME TypeOK
    PROVE  /\ inter \in Interaction /\ inter.result \in Facts /\ inter.last \in Facts
           /\ inter.uid \in 0 .. MaxUid /\ inter.uid \in Nat /\ inter.done \in BOOLEAN
           /\ job \in [Task -> Job] /\ \A j \in Task : job[j] \in Job /\ job[j].copy \in Facts
           /\ "browser" \in Task /\ job["browser"] \in Job
           /\ spent.link \in Nat /\ spent.uid \in Nat /\ spent.flow \in Nat /\ spent.event \in Nat
           /\ Trusted \in SUBSET Account /\ shown \in SUBSET Text /\ Living \in SUBSET Account
           /\ \A link \in links : link.token \in Nat \ {0}
<1>1. inter \in Interaction /\ inter.result \in Facts /\ inter.last \in Facts
      /\ inter.uid \in 0 .. MaxUid /\ inter.done \in BOOLEAN
  BY DEF TypeOK, Interaction
<1>2. "browser" \in Task
  BY DEF Task
<1>3. job \in [Task -> Job] /\ \A j \in Task : job[j] \in Job /\ job[j].copy \in Facts
  BY DEF TypeOK, Job
<1>4. spent.link \in Nat /\ spent.uid \in Nat /\ spent.flow \in Nat /\ spent.event \in Nat
  BY Bounds DEF TypeOK
<1>5. Trusted \in SUBSET Account /\ shown \in SUBSET Text /\ Living \in SUBSET Account
  BY DEF TypeOK, Living, Trusted
<1>6. \A link \in links : link.token \in Nat \ {0}
  BY Bounds DEF TypeOK
<1> QED BY <1>1, <1>2, <1>3, <1>4, <1>5, <1>6, Bounds

(* Nobody is forgotten where a step leaves who was proved alone, or adds to  *)
(* it, and no flag is taken back.                                          *)
LEMMA TrustGrows ==
    ASSUME TypeOK, TypeOK', proved \subseteq proved', mixed => mixed'
    PROVE  Trusted \subseteq Trusted' /\ (~mixed' => Trusted' = proved')
BY DEF TypeOK, Trusted

LEMMA StillSound ==
    ASSUME TypeOK, TypeOK', Onward, NEW f \in Facts, Sound(f)
    PROVE  SoundFor(f, Trusted', shown', Living', links', spent'.link)
<1>1. spent.link \in Nat /\ spent'.link \in Nat /\ \A link \in links' : link.token \in Nat
  BY InvTypes, Bounds DEF TypeOK
<1> QED BY <1>1, SoundGrows DEF Onward, Sound

LEMMA ResultStays ==
    ASSUME Inv, TypeOK', Onward, inter'.result = inter.result, inter'.done = inter.done
    PROVE  ResultInv'
<1>1. inter.result \in Facts
  BY InvTypes DEF Inv
<1>2. Sound(inter.result)'
  BY <1>1, StillSound DEF Inv, ResultInv, Sound
<1>3. Backed(inter.result) => Backed(inter.result)'
  BY DEF Backed, Upstreamed
<1> QED BY <1>2, <1>3 DEF Inv, ResultInv, Onward

LEMMA ChainStays ==
    ASSUME Inv, TypeOK', Onward, inter.uid # 0 \/ inter' = inter
    PROVE  ChainInv'
<1>1. inter.last \in Facts
  BY InvTypes DEF Inv
<1>2. Sound(inter.last)'
  BY <1>1, StillSound DEF Inv, ChainInv, Sound, Onward
<1>3. Backed(inter.last)'
  BY DEF Backed, Upstreamed, Inv, ChainInv, Onward
<1> QED BY <1>2, <1>3 DEF Inv, ChainInv, Onward

LEMMA TaskStays ==
    ASSUME Inv, TypeOK', Onward, NEW j \in Task, job'[j] = job[j]
    PROVE  SaveInv(j)' /\ (j # "browser" => job'[j].step \in {"idle", "save"})
<1>1. job[j].copy \in Facts
  BY InvTypes DEF Inv
<1>2. Sound(job[j].copy) => SoundFor(job[j].copy, Trusted', shown', Living', links', spent'.link)
  BY <1>1, StillSound DEF Inv
<1>3. SaveInv(j) /\ (j # "browser" => job[j].step \in {"idle", "save"})
  BY DEF Inv, TaskInv
<1>4. SaveInv(j)'
  BY <1>2, <1>3 DEF SaveInv, Sound, Onward
<1> QED BY <1>3, <1>4

LEMMA LinkStays ==
    ASSUME Inv, TypeOK', spent.link <= spent'.link, links' \subseteq links
    PROVE  LinkInv'
<1>1. spent.link \in Nat /\ spent'.link \in Nat
  BY InvTypes, Bounds DEF Inv, TypeOK
<1>2. \A link \in links : link.token \in Nat
  BY InvTypes DEF Inv
<1> QED BY <1>1, <1>2 DEF Inv, LinkInv

LEMMA SignedStays ==
    ASSUME Inv, Onward PROVE signed' \in (Trusted' \cap Living') \cup {Nobody}
BY DEF Inv, PeopleInv, Onward

LEMMA PeopleStay ==
    ASSUME Inv, Onward, account' = account PROVE PeopleInv'
BY SignedStays DEF Inv, PeopleInv

(* The whole invariant, where the result or the browser's request changes. *)
LEMMA PageStep ==
    ASSUME Inv, TypeOK', Onward, LinkInv', PeopleInv', inter.uid # 0 \/ inter' = inter,
           ResultInv', BrowserInv', NEW t \in Task, \A j \in Task \ {t} : job'[j] = job[j],
           SaveInv(t)' /\ (t # "browser" => job'[t].step \in {"idle", "save"})
    PROVE  Inv'
<1>1. ChainInv'
  BY ChainStays
<1>2. \A j \in Task : SaveInv(j)' /\ (j # "browser" => job'[j].step \in {"idle", "save"})
  BY TaskStays
<1> QED BY <1>1, <1>2 DEF Inv, TaskInv

(* A step that leaves the interaction and the requests alone. *)
LEMMA BrowserStays ==
    ASSUME Inv, Onward, inter' = inter, job'["browser"] = job["browser"]
    PROVE  BrowserInv'
BY DEF Inv, BrowserInv, Onward, Upstreamed

LEMMA OthersStep ==
    ASSUME Inv, TypeOK', Onward, LinkInv', PeopleInv', inter' = inter, job' = job
    PROVE  Inv'
<1>1. ResultInv' /\ ChainInv' /\ BrowserInv'
  BY ResultStays, ChainStays, BrowserStays
<1>2. \A j \in Task : SaveInv(j)' /\ (j # "browser" => job'[j].step \in {"idle", "save"})
  BY TaskStays
<1> QED BY <1>1, <1>2 DEF Inv, TaskInv

(* A step of a page with no request in flight, which stores a result or ends *)
(* the interaction with one.                                                *)
LEMMA StoreStep ==
    ASSUME Inv, TypeOK', Onward, LinkInv', PeopleInv', inter.uid # 0, ResultInv',
           ~inter'.done => ~inter'.result.error,
           job'["browser"].step = "idle", \A j \in Task \ {"browser"} : job'[j] = job[j]
    PROVE  Inv'
<1>1. BrowserInv' /\ SaveInv("browser")' /\ "browser" \in Task
  BY DEF BrowserInv, SaveInv, Task
<1> QED BY <1>1, PageStep

(* The browser's next request. *)
LEMMA BusyStep ==
    ASSUME Inv, TypeOK', Onward, LinkInv', PeopleInv', inter.uid # 0, ResultInv', BrowserInv',
           job'["browser"].step # "save", \A j \in Task \ {"browser"} : job'[j] = job[j]
    PROVE  Inv'
<1>1. SaveInv("browser")' /\ "browser" \in Task
  BY DEF SaveInv, Task
<1> QED BY <1>1, PageStep

(* What a page stores: what it adds, merged with what the chain knew. *)
LEMMA PutIs ==
    ASSUME TypeOK, NEW result \in Facts, NEW done \in BOOLEAN, Put(result, done)
    PROVE  /\ inter' \in Interaction /\ inter'.result = result /\ inter'.done = done
           /\ inter'.uid = inter.uid /\ inter'.prompt = inter.prompt /\ inter'.last = inter.last
BY InvTypes DEF Put, Interaction

Kinds == Upstream \cup {"link", "passkey", "acting"}

LEMMA BusyIs ==
    ASSUME TypeOK, NEW j \in Task, NEW step \in {"exchange", "resolve", "finish", "save", "accept"},
           NEW kind \in Kinds, NEW who \in Holder,
           NEW at \in Holder, NEW copy \in Facts, Busy(j, step, kind, who, at, copy)
    PROVE  /\ job' \in [Task -> Job] /\ \A i \in Task \ {j} : job'[i] = job[i]
           /\ job'[j].step = step /\ job'[j].kind = kind /\ job'[j].who = who
           /\ job'[j].at = at /\ job'[j].uid = inter.uid /\ job'[j].copy = copy
<1>1. [step |-> step, kind |-> kind, who |-> who, at |-> at, uid |-> inter.uid, copy |-> copy]
         \in Job
  BY InvTypes DEF Job, Kinds
<1> QED BY <1>1 DEF Busy, TypeOK

(* The browser's request that carries no copy. *)
LEMMA BrowserBusy ==
    ASSUME TypeOK, NEW step \in {"exchange", "resolve", "finish"}, NEW kind \in Kinds,
           NEW who \in Holder, NEW at \in Holder, Busy("browser", step, kind, who, at, Blank)
    PROVE  /\ job' \in [Task -> Job] /\ \A i \in Task \ {"browser"} : job'[i] = job[i]
           /\ job'["browser"].step = step /\ job'["browser"].kind = kind
           /\ job'["browser"].who = who /\ job'["browser"].at = at
           /\ job'["browser"].uid = inter.uid
<1>1. "browser" \in Task /\ Blank \in Facts
  BY NullTypes DEF Task
<1> QED BY <1>1, BusyIs

LEMMA RestIs ==
    ASSUME TypeOK, NEW j \in Task, Rest(j)
    PROVE  /\ job' \in [Task -> Job] /\ \A i \in Task \ {j} : job'[i] = job[i]
           /\ job'[j] = Idle /\ job'[j].step = "idle"
BY NullTypes, NullFields DEF Rest, TypeOK

LEMMA MergeBlank ==
    ASSUME NEW old \in Facts PROVE Merge(Blank, old) = old
BY DEF Merge, Blank, Facts

(* What a step adds is sound; beside a flag that is kept it asks for nobody *)
(* unproved, and nothing unconfirmed ends the interaction.                 *)
LEMMA MergedResult ==
    ASSUME Inv, TypeOK', Onward, NEW new \in Facts, ~new.error, NEW done \in BOOLEAN,
           Put(Merged(new), done),
           SoundFor(new, Trusted', shown', Living', links', spent'.link),
           inter.last.sure => new.mail \in Trusted' \cup {Nobody}, done => Backed(new)
    PROVE  /\ ResultInv' /\ inter' \in Interaction
           /\ inter'.result = Merge(new, inter.last) /\ inter'.done = done
           /\ ~inter'.result.error
           /\ Upstreamed(inter'.result) <=> Upstreamed(new) \/ Upstreamed(inter.last)
<1> DEFINE m == Merge(new, inter.last)
<1>1. inter.last \in Facts
  BY InvTypes DEF Inv
<1>2. m \in Facts
  BY <1>1, MergeIs
<1>3. /\ m.mail \in {new.mail, inter.last.mail}
      /\ m.error = (new.error \/ inter.last.error)
  BY <1>1, MergeIs
<1>4. Put(m, done)
  BY DEF Merged
<1>6. SoundFor(inter.last, Trusted', shown', Living', links', spent'.link)
  BY <1>1, StillSound DEF Inv, ChainInv
<1>8. Trusted' \in SUBSET Account /\ shown' \in SUBSET Text /\ Living' \in SUBSET Account
  BY DEF TypeOK, Living, Trusted
<1>9. /\ SoundFor(m, Trusted', shown', Living', links', spent'.link)
      /\ Upstreamed(m) <=> Upstreamed(new) \/ Upstreamed(inter.last)
      /\ Backed(new) /\ Backed(inter.last) => Backed(m)
  BY <1>1, <1>6, <1>8, MergeSound
<1> HIDE DEF m
<1>5. inter' \in Interaction /\ inter'.result = m /\ inter'.done = done /\ inter'.last = inter.last
  BY <1>2, <1>4, PutIs DEF Inv
<1>10. inter.last.sure => m.mail \in Trusted' \cup {Nobody}
  BY <1>3, <1>6 DEF SoundFor
<1>11. done => Backed(m)
  BY <1>9 DEF Inv, ChainInv
<1>15. Sound(inter.result)'
  BY <1>5, <1>9 DEF Sound
<1>16. ~m.error
  BY <1>3 DEF Inv, ChainInv
<1>17. ResultInv'
  BY <1>5, <1>10, <1>11, <1>15, <1>16 DEF ResultInv, Backed, Upstreamed
<1> QED BY <1>5, <1>9, <1>16, <1>17 DEF m

LEMMA PlainSound ==
    ASSUME TypeOK', NEW new, {new.github, new.oidc, new.login} \subseteq Trusted' \cup {Nobody},
           new.login \in Living' \cup {Nobody}, ~new.sure, ~new.ask,
           new.text \in shown' \cup {NoText}, new.mail = Nobody, new.token = 0
    PROVE  SoundFor(new, Trusted', shown', Living', links', spent'.link)
<1>1. spent'.link \in Nat /\ \A link \in links' : link.token \in Nat \ {0}
  BY Bounds DEF TypeOK
<1> QED BY <1>1 DEF SoundFor

LEMMA DeniedResult ==
    ASSUME Inv, TypeOK', Onward, NEW done \in BOOLEAN, Put(Denied, done)
    PROVE  ResultInv' /\ inter'.result = Denied /\ inter'.done = done
<1>1. inter'.result = Denied /\ inter'.done = done
  BY NullTypes, PutIs DEF Inv
<1>2. spent'.link \in Nat /\ \A link \in links' : link.token \in Nat \ {0}
  BY Bounds DEF TypeOK
<1>3. SoundFor(Denied, Trusted', shown', Living', links', spent'.link)
  BY <1>2, NullSound
<1> QED BY <1>1, <1>3, NullFields DEF ResultInv, Sound, Backed, Upstreamed

LEMMA DeniedTyped ==
    ASSUME TypeOK, NEW done \in BOOLEAN, Put(Denied, done)
    PROVE  /\ inter' \in Interaction /\ inter'.done = done
           /\ inter'.uid = inter.uid /\ inter'.prompt = inter.prompt /\ inter'.last = inter.last
BY NullTypes, PutIs

(* A page is about an open interaction. *)
LEMMA PageIs ==
    ASSUME Inv, Here
    PROVE  /\ job["browser"].step = "idle" /\ inter.uid # 0 /\ inter.uid \in 1 .. MaxUid
           /\ ~inter.done /\ ~inter.result.error
BY InvTypes DEF Here, Free, Inv, TypeOK, BrowserInv

(***************************************************************************)
(* GitHub and the OIDC upstreams.                                          *)
(***************************************************************************)

LEMMA RedirectInv ==
    ASSUME Inv, NEW kind \in Upstream, Redirect(kind) PROVE Inv'
<1> DEFINE new == [Blank EXCEPT !.state = spent.flow + 1]
<1>1. /\ Here /\ spent.flow < MaxFlow /\ Put(Merged(new), inter.done)
      /\ flows' = flows \cup {[uid |-> inter.uid, state |-> spent.flow + 1, kind |-> kind]}
      /\ spent' = [spent EXCEPT !["flow"] = @ + 1]
      /\ UNCHANGED <<job, people, config, links, challenge, acting, history>>
  BY DEF Redirect, Unknown, At, Store, Spend
<1>2. spent.flow + 1 \in 1 .. MaxFlow /\ spent.flow + 1 \in 0 .. MaxFlow
  BY <1>1, Bounds, InvTypes DEF Inv
<1>3. /\ new \in Facts /\ new.github = Nobody /\ new.oidc = Nobody /\ new.mail = Nobody
      /\ new.token = 0 /\ ~new.sure /\ ~new.ask /\ new.text = NoText /\ new.login = Nobody
      /\ ~new.error
  BY <1>2, NullTypes, NullFields DEF Facts
<1> HIDE DEF new
<1>4. spent' \in [uid : 0 .. MaxUid, flow : 0 .. MaxFlow, link : 0 .. MaxLink,
                  event : 0 .. MaxEvent] /\ spent'.uid = spent.uid /\ spent'.link = spent.link
  BY <1>1, <1>2 DEF Inv, TypeOK
<1>5. Merged(new) \in Facts
  BY <1>3, MergeIs, InvTypes DEF Merged, Inv
<1>6. /\ inter' \in Interaction /\ inter'.uid = inter.uid /\ inter'.prompt = inter.prompt
      /\ inter'.last = inter.last
  BY <1>1, <1>5, PutIs, InvTypes DEF Inv
<1>7. flows' \subseteq [uid : 1 .. MaxUid, state : 1 .. MaxFlow, kind : Upstream]
  BY <1>1, <1>2, PageIs DEF Inv, TypeOK
<1>8. TypeOK'
  BY <1>1, <1>4, <1>6, <1>7 DEF Inv, TypeOK, people, config, history
<1>9. Onward
  BY <1>1, <1>4, <1>6, InvTypes DEF Onward, Living, Trusted, people, history, Inv
<1>10. SoundFor(new, Trusted', shown', Living', links', spent'.link)
  BY <1>3, <1>8, PlainSound
<1>b. new.mail \in Trusted' \cup {Nobody} /\ ~inter.done
  BY <1>1, <1>3, PageIs
<1>11. ResultInv' /\ ~inter'.result.error
  BY <1>1, <1>3, <1>8, <1>9, <1>10, <1>b, InvTypes, MergedResult DEF Inv
<1>12. LinkInv' /\ PeopleInv'
  BY <1>1, <1>4, <1>8, <1>9, LinkStays, PeopleStay, InvTypes DEF Inv, people
<1> QED BY <1>1, <1>8, <1>9, <1>11, <1>12, PageIs, StoreStep

(* What the last submission knows is taken for the upstream's answer. *)
LEMMA RevisitInv ==
    ASSUME Inv, NEW kind \in Upstream, Revisit(kind) PROVE Inv'
<1> DEFINE p == inter.last[kind]
<1>1. /\ Here /\ p # Nobody /\ Busy("browser", "resolve", kind, p, Nobody, Blank)
      /\ UNCHANGED <<inter, people, config, pending, acting, spent, history>>
  BY DEF Revisit, Remembered, At
<1>2. p \in {inter.last.github, inter.last.oidc} /\ Upstreamed(inter.last)
  BY <1>1 DEF Upstream, Upstreamed
<1>3. p \in Trusted
  <2>1. {inter.last.github, inter.last.oidc} \subseteq Trusted \cup {Nobody}
    BY DEF Inv, ChainInv, Sound, SoundFor
  <2> HIDE DEF p
  <2> QED BY <1>1, <1>2, <2>1
<1> HIDE DEF p
<1>4. p \in Holder /\ Nobody \in Holder /\ kind \in Kinds
  BY <1>3, InvTypes DEF Inv, Holder, Kinds
<1>5. /\ job' \in [Task -> Job] /\ \A i \in Task \ {"browser"} : job'[i] = job[i]
      /\ job'["browser"].step = "resolve" /\ job'["browser"].who = p
      /\ job'["browser"].uid = inter.uid
  BY <1>1, <1>4, BrowserBusy DEF Inv
<1>6. TypeOK'
  BY <1>1, <1>5 DEF Inv, TypeOK, people, config, pending, history
<1>7. Onward
  BY <1>1, InvTypes DEF Inv, people, pending, history, Onward, Living, Trusted
<1>8. LinkInv' /\ PeopleInv' /\ ResultInv'
  BY <1>1, <1>6, <1>7, LinkStays, PeopleStay, ResultStays, InvTypes DEF Inv, people, pending
<1>9. p \in Trusted'
  BY <1>3, <1>7 DEF Onward
<1>10. BrowserInv'
  BY <1>1, <1>2, <1>5, <1>9, PageIs DEF BrowserInv, Upstreamed
<1> QED BY <1>1, <1>5, <1>6, <1>7, <1>8, <1>10, PageIs, BusyStep

(* A failure ends the interaction. *)
LEMMA DeniedStep ==
    ASSUME Inv, TypeOK', Onward, LinkInv', PeopleInv', inter.uid # 0, AccessDenied,
           job'["browser"].step = "idle", \A j \in Task \ {"browser"} : job'[j] = job[j]
    PROVE  Inv'
BY DeniedResult, StoreStep DEF AccessDenied

LEMMA SpendEvent ==
    ASSUME TypeOK, MayFail, Spend("event")
    PROVE  /\ spent' \in [uid : 0 .. MaxUid, flow : 0 .. MaxFlow, link : 0 .. MaxLink,
                          event : 0 .. MaxEvent]
           /\ spent'.uid = spent.uid /\ spent'.link = spent.link
<1>1. spent.event + 1 \in 0 .. MaxEvent
  BY Bounds, InvTypes DEF MayFail
<1> QED BY <1>1 DEF Spend, TypeOK

LEMMA CallbackInv ==
    ASSUME Inv, NEW flow \in flows, NEW p \in Person, Callback(flow, p) PROVE Inv'
<1>1. /\ Here /\ flows' = flows \ {flow}
      /\ UNCHANGED <<people, config, links, challenge, acting, spent, history>>
  BY DEF Callback, Unknown, At
<1>2. /\ job["browser"].step = "idle" /\ inter.uid # 0 /\ ~inter.done
  BY <1>1, PageIs
<1>3. CASE inter.result.state # flow.state
  <2>1. AccessDenied /\ UNCHANGED job
    BY <1>3 DEF Callback
  <2>2. /\ inter' \in Interaction /\ inter'.uid = inter.uid /\ inter'.prompt = inter.prompt
        /\ inter'.last = inter.last
    BY <2>1, DeniedTyped DEF AccessDenied, Inv
  <2>3. TypeOK' /\ Onward
    BY <1>1, <2>1, <2>2, InvTypes DEF Inv, TypeOK, people, config, history, Onward, Living, Trusted
  <2>4. LinkInv' /\ PeopleInv'
    BY <1>1, <2>3, LinkStays, PeopleStay, InvTypes DEF Inv, people
  <2> QED BY <2>1, <2>3, <2>4, <1>2, DeniedStep
<1>4. CASE inter.result.state = flow.state
  <2>1. Busy("browser", "exchange", flow.kind, p, Nobody, Blank) /\ UNCHANGED inter
    BY <1>4 DEF Callback
  <2>2. flow.kind \in Upstream /\ flow.kind \in Kinds /\ p \in Holder /\ Nobody \in Holder
    BY DEF Inv, TypeOK, Kinds, Holder, Account
  <2>3. /\ job' \in [Task -> Job] /\ \A i \in Task \ {"browser"} : job'[i] = job[i]
        /\ job'["browser"].step = "exchange" /\ job'["browser"].kind = flow.kind
        /\ job'["browser"].who = p /\ job'["browser"].uid = inter.uid
    BY <2>1, <2>2, BrowserBusy DEF Inv
  <2>4. TypeOK' /\ Onward
    BY <1>1, <2>1, <2>3, InvTypes DEF Inv, TypeOK, people, config, history, Onward, Living, Trusted
  <2>5. LinkInv' /\ PeopleInv' /\ ResultInv'
    BY <1>1, <2>1, <2>4, LinkStays, PeopleStay, ResultStays, InvTypes DEF Inv, people
  <2>6. BrowserInv'
    BY <1>2, <2>1, <2>2, <2>3, PageIs, <1>1 DEF BrowserInv
  <2> QED BY <2>3, <2>4, <2>5, <2>6, <1>2, BusyStep
<1> QED BY <1>3, <1>4

(* Who the upstream says. *)
LEMMA Identified ==
    ASSUME NEW kind \in Upstream, NEW p \in Person
    PROVE  LET f == [Blank EXCEPT ![kind] = p] IN
           /\ f \in Facts /\ {f.github, f.oidc} \subseteq {p, Nobody} /\ p \in {f.github, f.oidc}
           /\ f.mail = Nobody /\ f.token = 0 /\ ~f.sure /\ ~f.ask /\ f.text = NoText
           /\ f.login = Nobody /\ ~f.error
<1>1. CASE kind = "github"
  BY <1>1, NullTypes, NullFields DEF Facts, Somebody
<1>2. CASE kind = "oidc"
  BY <1>2, NullTypes, NullFields DEF Facts, Somebody
<1> QED BY <1>1, <1>2 DEF Upstream

LEMMA ExchangeInv ==
    ASSUME Inv, Exchange PROVE Inv'
<1> DEFINE b == job["browser"]
           new == [Blank EXCEPT ![b.kind] = b.who]
<1>1. b.step = "exchange" /\ UNCHANGED <<people, config, pending, acting, shown, mixed>>
  BY DEF Exchange
<1>2. b.who \in Person /\ b.kind \in Upstream /\ inter.uid # 0 /\ ~inter.done
  BY <1>1 DEF Inv, BrowserInv
<1>3. CASE ExchangeFails
  <2>1. /\ MayFail /\ Spend("event") /\ AccessDenied /\ Rest("browser") /\ UNCHANGED proved
    BY <1>3 DEF ExchangeFails
  <2>2. /\ inter' \in Interaction /\ inter'.uid = inter.uid /\ inter'.prompt = inter.prompt
        /\ inter'.last = inter.last
    BY <2>1, DeniedTyped DEF AccessDenied, Inv
  <2>3. /\ job' \in [Task -> Job] /\ \A i \in Task \ {"browser"} : job'[i] = job[i]
        /\ job'["browser"].step = "idle"
    BY <2>1, RestIs, InvTypes DEF Inv
  <2>4. /\ spent' \in [uid : 0 .. MaxUid, flow : 0 .. MaxFlow, link : 0 .. MaxLink,
                       event : 0 .. MaxEvent]
        /\ spent'.uid = spent.uid /\ spent'.link = spent.link
    BY <2>1, SpendEvent DEF Inv
  <2>5. TypeOK'
    BY <1>1, <2>1, <2>2, <2>3, <2>4 DEF Inv, TypeOK, people, config, pending
  <2>6. Onward
    BY <1>1, <2>1, <2>2, <2>4, InvTypes DEF Inv, people, pending, Onward, Living, Trusted
  <2>7. LinkInv' /\ PeopleInv'
    BY <1>1, <2>4, <2>5, <2>6, LinkStays, PeopleStay, InvTypes DEF Inv, people, pending
  <2> QED BY <2>1, <2>3, <2>5, <2>6, <2>7, <1>2, DeniedStep
<1>4. CASE /\ Store(new) /\ Busy("browser", "resolve", b.kind, b.who, Nobody, Blank)
           /\ Prove(b.who) /\ UNCHANGED spent
  <2>1. /\ new \in Facts /\ {new.github, new.oidc} \subseteq {b.who, Nobody}
        /\ b.who \in {new.github, new.oidc}
        /\ new.mail = Nobody /\ new.token = 0 /\ ~new.sure /\ ~new.ask /\ new.text = NoText
        /\ new.login = Nobody /\ ~new.error
    BY <1>2, Identified
  <2>2. /\ Put(Merged(new), inter.done) /\ spent' = spent
        /\ proved' = proved \cup {b.who}
        /\ Busy("browser", "resolve", b.kind, b.who, Nobody, Blank)
    BY <1>4 DEF Store, Prove
  <2> HIDE DEF new
  <2>3. Merged(new) \in Facts
    BY <2>1, MergeIs, InvTypes DEF Merged, Inv
  <2>4. /\ inter' \in Interaction /\ inter'.uid = inter.uid /\ inter'.prompt = inter.prompt
        /\ inter'.last = inter.last
    BY <2>2, <2>3, PutIs, InvTypes DEF Inv
  <2>5. /\ job' \in [Task -> Job] /\ \A i \in Task \ {"browser"} : job'[i] = job[i]
        /\ job'["browser"].step = "resolve" /\ job'["browser"].who = b.who
        /\ job'["browser"].uid = inter.uid
    <3>1. b.who \in Holder /\ Nobody \in Holder /\ b.kind \in Kinds
      BY <1>2 DEF Holder, Account, Kinds
    <3> QED BY <2>2, <3>1, BrowserBusy DEF Inv
  <2>6. TypeOK'
    BY <1>1, <1>2, <2>2, <2>4, <2>5 DEF Inv, TypeOK, people, config, pending, Account
  <2>7. Onward
    BY <1>1, <2>2, <2>4, InvTypes DEF Inv, people, pending, Onward, Living, Trusted
  <2>8. b.who \in Trusted'
    BY <1>2, <2>2 DEF Trusted, Account
  <2>9. SoundFor(new, Trusted', shown', Living', links', spent'.link)
    BY <2>1, <2>6, <2>8, PlainSound
  <2>10. new.mail \in Trusted' \cup {Nobody}
    BY <2>1
  <2>11. /\ ResultInv' /\ inter'.done = inter.done /\ ~inter'.result.error
         /\ Upstreamed(inter'.result) <=> Upstreamed(new) \/ Upstreamed(inter.last)
    BY <1>2, <2>1, <2>2, <2>6, <2>7, <2>9, <2>10, InvTypes, MergedResult DEF Inv
  <2>12. LinkInv' /\ PeopleInv'
    BY <1>1, <2>2, <2>6, <2>7, LinkStays, PeopleStay, InvTypes DEF Inv, people, pending
  <2>13. Upstreamed(inter'.result)
    BY <1>2, <2>1, <2>11, Bounds DEF Upstreamed
  <2>14. BrowserInv'
    BY <1>2, <2>4, <2>5, <2>8, <2>11, <2>13 DEF BrowserInv, Upstreamed
  <2> QED BY <1>2, <2>5, <2>6, <2>7, <2>11, <2>12, <2>14, BusyStep
<1> QED BY <1>3, <1>4 DEF Exchange

(***************************************************************************)
(* E-mail links.                                                           *)
(***************************************************************************)

LEMMA Denial ==
    ASSUME Inv, AccessDenied, inter.uid # 0, job["browser"].step = "idle", UNCHANGED job,
           spent' \in [uid : 0 .. MaxUid, flow : 0 .. MaxFlow, link : 0 .. MaxLink,
                       event : 0 .. MaxEvent],
           spent'.uid = spent.uid, spent'.link = spent.link,
           UNCHANGED <<people, config, pending, acting, history>>
    PROVE  Inv'
<1>1. /\ inter' \in Interaction /\ inter'.uid = inter.uid /\ inter'.prompt = inter.prompt
      /\ inter'.last = inter.last
  BY DeniedTyped DEF AccessDenied, Inv
<1>2. TypeOK'
  BY <1>1 DEF Inv, TypeOK, people, config, pending, history
<1>3. Onward
  BY <1>1, InvTypes DEF Inv, people, pending, history, Onward, Living, Trusted
<1>4. LinkInv' /\ PeopleInv'
  BY <1>2, <1>3, LinkStays, PeopleStay, InvTypes DEF Inv, people, pending
<1> QED BY <1>2, <1>3, <1>4, DeniedStep

LEMMA Asked ==
    ASSUME NEW a \in Person, NEW n \in 1 .. MaxLink
    PROVE  LET f == [Blank EXCEPT !.mail = a, !.token = n] IN
           /\ f \in Facts /\ f.mail = a /\ f.token = n /\ f.github = Nobody /\ f.oidc = Nobody
           /\ ~f.sure /\ ~f.ask /\ f.text = NoText /\ f.login = Nobody /\ ~f.error
<1>1. n \in 0 .. MaxLink
  BY Bounds
<1> QED BY <1>1, NullTypes, NullFields DEF Facts, Somebody

LEMMA SendLinkInv ==
    ASSUME Inv, NEW a \in Person, SendLink(a) PROVE Inv'
<1> DEFINE n == spent.link + 1
           new == [Blank EXCEPT !.mail = a, !.token = n]
<1>1. Here /\ UNCHANGED <<job, people, config, flows, challenge, acting, proved, shown>>
  BY DEF SendLink
<1>2. /\ job["browser"].step = "idle" /\ inter.uid # 0 /\ ~inter.done
      /\ inter.uid \in 1 .. MaxUid
  BY <1>1, PageIs
<1>3. CASE policy = "closed" /\ ~account[a].live /\ AccessDenied
           /\ UNCHANGED <<links, spent, mixed>>
  <2>1. UNCHANGED <<people, config, pending, acting, history>> /\ UNCHANGED job
    BY <1>1, <1>3 DEF pending, history
  <2>2. spent' \in [uid : 0 .. MaxUid, flow : 0 .. MaxFlow, link : 0 .. MaxLink,
                    event : 0 .. MaxEvent] /\ spent' = spent
    BY <1>3 DEF Inv, TypeOK
  <2> QED BY <1>2, <1>3, <2>1, <2>2, Denial
<1>4. CASE MayFail /\ Spend("event") /\ AccessDenied /\ UNCHANGED <<links, mixed>>
  <2>1. UNCHANGED <<people, config, pending, acting, history>> /\ UNCHANGED job
    BY <1>1, <1>4 DEF pending, history
  <2> QED BY <1>2, <1>4, <2>1, SpendEvent, Denial DEF Inv
<1>5. CASE /\ spent.link < MaxLink /\ Spend("link")
           /\ Store([Blank EXCEPT !.mail = a, !.token = spent.link + 1]) /\ Sent(a)
           /\ mixed' = (mixed \/ inter.last.sure)
  <2>1. spent.link \in Nat /\ n \in 1 .. MaxLink
    BY <1>5, Bounds, InvTypes DEF Inv
  <2>2. /\ new \in Facts /\ new.mail = a /\ new.token = n /\ new.github = Nobody
        /\ new.oidc = Nobody /\ ~new.sure /\ ~new.ask /\ new.text = NoText /\ new.login = Nobody
        /\ ~new.error
    BY <2>1, Asked
  <2>3. /\ Put(Merged(new), inter.done) /\ spent' = [spent EXCEPT !["link"] = @ + 1]
        /\ links' = links \cup {[uid |-> inter.uid, token |-> n, to |-> a]}
    BY <1>5 DEF Store, Spend, Sent
  <2> HIDE DEF new
  <2>4. /\ spent' \in [uid : 0 .. MaxUid, flow : 0 .. MaxFlow, link : 0 .. MaxLink,
                       event : 0 .. MaxEvent]
        /\ spent'.uid = spent.uid /\ spent'.link = n
    BY <2>1, <2>3, Bounds DEF Inv, TypeOK
  <2> HIDE DEF n
  <2>5. Merged(new) \in Facts
    BY <2>2, MergeIs, InvTypes DEF Merged, Inv
  <2>6. /\ inter' \in Interaction /\ inter'.uid = inter.uid /\ inter'.prompt = inter.prompt
        /\ inter'.last = inter.last
    BY <2>3, <2>5, PutIs, InvTypes DEF Inv
  <2>7. links' \subseteq [uid : 1 .. MaxUid, token : 1 .. MaxLink, to : Person]
    BY <1>2, <2>1, <2>3 DEF Inv, TypeOK
  <2>t. mixed' \in BOOLEAN /\ (mixed => mixed')
    BY <1>5, InvTypes DEF Inv, TypeOK, Facts
  <2>8. TypeOK'
    BY <2>t, <1>1, <2>4, <2>6, <2>7 DEF Inv, TypeOK, people, config
  <2>9. spent.link < n
    BY <2>1 DEF n
  <2>10. Onward
    <3>1. Trusted \subseteq Trusted'
      BY <1>1, <2>t, <2>8, TrustGrows DEF Inv
    <3> QED BY <1>1, <2>1, <2>3, <2>4, <2>6, <2>9, <3>1 DEF Inv, people, Onward, Living
  <2>11. \A link \in links : link.token \in Nat /\ link.token <= spent.link
    BY InvTypes DEF Inv, LinkInv
  <2>12. LinkInv'
    BY <2>1, <2>3, <2>4, <2>9, <2>11 DEF LinkInv
  <2>13. \A link \in links' : n = link.token => a = link.to
    BY <2>1, <2>3, <2>9, <2>11
  <2>14. a # Nobody /\ n # 0 /\ n <= n
    BY <2>1, Bounds
  <2>15. SoundFor(new, Trusted', shown', Living', links', spent'.link)
    BY <2>2, <2>4, <2>13, <2>14 DEF SoundFor
  <2>a. inter.last.sure => new.mail \in Trusted' \cup {Nobody}
    <3>1. inter.last.sure => Trusted' = Account
      BY <1>5 DEF Trusted
    <3> QED BY <2>2, <3>1 DEF Account
  <2>16. ResultInv' /\ ~inter'.result.error
    BY <1>2, <2>2, <2>3, <2>8, <2>10, <2>15, <2>a, InvTypes, MergedResult DEF Inv
  <2>17. PeopleInv'
    BY <1>1, <2>10, PeopleStay DEF people
  <2> QED BY <1>1, <1>2, <2>8, <2>10, <2>12, <2>16, <2>17, StoreStep
<1> QED BY <1>1, <1>3, <1>4, <1>5 DEF SendLink

LEMMA OpenLinkInv ==
    ASSUME Inv, NEW j \in Task, NEW link \in links, OpenLink(j, link) PROVE Inv'
<1> DEFINE copy == [inter.result EXCEPT !.sure = TRUE]
<1>1. /\ job[j] = Idle /\ link.uid = inter.uid /\ inter.result.token = link.token
      /\ j = "browser" => Here
      /\ Busy(j, "save", "link", link.to, Nobody, copy) /\ proved' = proved \cup {link.to}
      /\ UNCHANGED <<inter, people, config, pending, acting, spent, shown, mixed>>
  BY DEF OpenLink, Opens, Prove
<1>2. link.to \in Person /\ inter.uid \in 1 .. MaxUid /\ inter.uid # 0 /\ inter.uid \in Nat
  BY <1>1, InvTypes DEF Inv, TypeOK
<1>3. /\ copy \in Facts /\ copy.sure /\ copy.mail = inter.result.mail
      /\ copy.github = inter.result.github /\ copy.oidc = inter.result.oidc
      /\ copy.login = inter.result.login /\ copy.text = inter.result.text
      /\ copy.token = inter.result.token /\ copy.ask = inter.result.ask
      /\ copy.error = inter.result.error
  BY InvTypes DEF Facts, Inv
<1> HIDE DEF copy
<1>e. ~copy.error
  BY <1>1, <1>3, InvTypes DEF Inv, ResultInv
<1>4. /\ link.to \in Holder /\ Nobody \in Holder /\ "link" \in Kinds /\ copy \in Facts
      /\ Busy(j, "save", "link", link.to, Nobody, copy)
  BY <1>1, <1>2, <1>3 DEF Holder, Account, Kinds
<1>5. /\ job' \in [Task -> Job] /\ \A i \in Task \ {j} : job'[i] = job[i]
      /\ job'[j].step = "save" /\ job'[j].uid = inter.uid /\ job'[j].copy = copy
  BY <1>4, BusyIs DEF Inv
<1>6. TypeOK'
  BY <1>1, <1>2, <1>5 DEF Inv, TypeOK, people, config, pending, Account
<1>7. Onward
  BY <1>1, InvTypes DEF Inv, people, pending, Onward, Living, Trusted
<1>8. LinkInv' /\ PeopleInv' /\ ResultInv'
  BY <1>1, <1>6, <1>7, LinkStays, PeopleStay, ResultStays, InvTypes DEF Inv, people, pending
<1>9. Sound(inter.result)' /\ inter' = inter
  BY <1>1, <1>8 DEF ResultInv
<1>10. inter.result.mail = link.to
  BY <1>1 DEF Inv, ResultInv, Sound, SoundFor
<1>11. copy.mail \in Trusted'
  BY <1>1, <1>2, <1>3, <1>10 DEF Trusted, Account
<1>13. SoundFor(copy, Trusted', shown', Living', links', spent'.link)
  BY <1>3, <1>9, <1>11 DEF Sound, SoundFor, Upstreamed
<1>14. inter.uid <= spent.uid /\ spent' = spent
  BY <1>1 DEF Inv, ChainInv
<1>15. SaveInv(j)'
  BY <1>2, <1>3, <1>5, <1>13, <1>14, <1>e, InvTypes DEF SaveInv, Sound, Inv
<1>16. BrowserInv'
  <2>1. CASE j = "browser"
    BY <2>1, <1>1, <1>5, PageIs DEF BrowserInv
  <2>2. CASE j # "browser"
    BY <2>2, <1>1, <1>5, <1>7, BrowserStays DEF Task
  <2> QED BY <2>1, <2>2
<1> QED BY <1>2, <1>5, <1>6, <1>7, <1>8, <1>15, <1>16, PageStep

LEMMA SaveLinkInv ==
    ASSUME Inv, NEW j \in Task, SaveLink(j) PROVE Inv'
<1>1. /\ job[j].step = "save"
      /\ UNCHANGED <<people, config, pending, acting, spent, history>>
  BY DEF SaveLink
<1>2. /\ job[j].uid \in 1 .. spent.uid
      /\ job[j].uid = inter.uid => /\ Sound(job[j].copy) /\ job[j].copy.sure
                                    /\ job[j].copy.mail \in Trusted
  BY <1>1 DEF Inv, TaskInv, SaveInv, Sound, SoundFor
<1>3. job[j].copy \in Facts /\ job[j].uid # 0
  BY <1>2, InvTypes DEF Inv
<1>4. /\ inter' \in Interaction /\ inter'.uid = inter.uid /\ inter'.prompt = inter.prompt
      /\ inter'.last = inter.last
      /\ inter.uid = job[j].uid => inter'.result = job[j].copy /\ inter'.done = inter.done
      /\ inter.uid # job[j].uid => inter' = inter
  BY <1>3, PutIs, InvTypes DEF SaveLink, Inv
<1>e. inter.uid = job[j].uid => ~job[j].copy.error
  BY <1>1 DEF Inv, TaskInv, SaveInv
<1>5. j = "browser" => inter.uid = job[j].uid
  BY <1>1 DEF Inv, BrowserInv
<1>6. /\ job' \in [Task -> Job] /\ \A i \in Task \ {j} : job'[i] = job[i]
      /\ j # "browser" => job'[j].step = "idle"
      /\ j = "browser" => /\ job'[j].step = "resolve" /\ job'[j].uid = inter.uid
                          /\ job'[j].who = job[j].copy.mail
  <2>1. CASE j # "browser"
    BY <2>1, RestIs DEF SaveLink, Inv
  <2>2. CASE j = "browser"
    <3>1. job[j].copy.mail \in Holder /\ Nobody \in Holder /\ "link" \in Kinds
      BY <1>3 DEF Facts, Somebody, Holder, Account, Kinds
    <3>2. Busy("browser", "resolve", "link", job[j].copy.mail, Nobody, Blank)
      BY <2>2 DEF SaveLink
    <3> QED BY <2>2, <3>1, <3>2, BrowserBusy DEF Inv
  <2> QED BY <2>1, <2>2
<1>7. TypeOK'
  BY <1>1, <1>4, <1>6 DEF Inv, TypeOK, people, config, pending, history
<1>8. Onward
  BY <1>1, <1>4, InvTypes DEF Inv, people, pending, history, Onward, Living, Trusted
<1>9. LinkInv' /\ PeopleInv'
  BY <1>1, <1>7, <1>8, LinkStays, PeopleStay, InvTypes DEF Inv, people, pending
<1>10. SaveInv(j)' /\ (j # "browser" => job'[j].step \in {"idle", "save"})
  BY <1>6 DEF SaveInv
<1>11. CASE inter.uid = job[j].uid
  <2>1. Sound(inter.result)'
    BY <1>2, <1>3, <1>4, <1>7, <1>8, <1>11, StillSound DEF Sound, Inv
  <2>2. inter'.result.mail \in Trusted' /\ inter'.result.sure
    BY <1>2, <1>4, <1>8, <1>11 DEF Onward
  <2>3. ResultInv'
    BY <1>4, <1>11, <2>1, <2>2, <1>e DEF ResultInv, Backed
  <2>4. BrowserInv'
    <3>1. CASE j = "browser"
      <4>1. inter.uid # 0 /\ ~inter.done
        BY <3>1, <1>1 DEF Inv, BrowserInv
      <4>2. job'["browser"].who \in Trusted'
        BY <3>1, <1>4, <1>6, <1>11, <2>2
      <4> QED BY <3>1, <4>1, <4>2, <1>4, <1>6, <1>11, <2>2, <1>e DEF BrowserInv
    <3>2. CASE j # "browser"
      <4>1. job'["browser"] = job["browser"] /\ signed' = signed
        BY <3>2, <1>1, <1>6 DEF Task, people
      <4> QED BY <4>1, <1>4, <1>8, <1>11, <2>2, <1>e DEF BrowserInv, Inv, Onward
    <3> QED BY <3>1, <3>2
  <2> QED BY <1>3, <1>6, <1>7, <1>8, <1>9, <1>10, <1>11, <2>3, <2>4, PageStep
<1>12. CASE inter.uid # job[j].uid
  <2>1. inter' = inter /\ j # "browser"
    BY <1>4, <1>5, <1>12
  <2>2. job'["browser"] = job["browser"]
    BY <2>1, <1>6 DEF Task
  <2>3. ResultInv' /\ BrowserInv'
    BY <1>7, <1>8, <2>1, <2>2, ResultStays, BrowserStays
  <2> QED BY <1>6, <1>7, <1>8, <1>9, <1>10, <2>1, <2>3, PageStep
<1> QED BY <1>11, <1>12

LEMMA CompleteInv ==
    ASSUME Inv, Complete PROVE Inv'
<1>1. /\ Here /\ inter.result.sure
      /\ Busy("browser", "resolve", "link", inter.result.mail, Nobody, Blank)
      /\ UNCHANGED <<inter, people, config, pending, acting, spent, history>>
  BY DEF Complete
<1>2. inter.uid # 0 /\ ~inter.done /\ Sound(inter.result)
  BY <1>1, PageIs DEF Inv, ResultInv
<1>3. inter.result.mail \in Trusted
  BY <1>1, <1>2 DEF Sound, SoundFor
<1>4. inter.result.mail \in Holder /\ Nobody \in Holder /\ "link" \in Kinds
  BY <1>3, InvTypes DEF Inv, Holder, Kinds
<1>5. /\ job' \in [Task -> Job] /\ \A i \in Task \ {"browser"} : job'[i] = job[i]
      /\ job'["browser"].step = "resolve" /\ job'["browser"].who = inter.result.mail
      /\ job'["browser"].uid = inter.uid
  BY <1>1, <1>4, BrowserBusy DEF Inv
<1>6. TypeOK'
  BY <1>1, <1>5 DEF Inv, TypeOK, people, config, pending, history
<1>7. Onward
  BY <1>1, InvTypes DEF Inv, people, pending, history, Onward, Living, Trusted
<1>8. LinkInv' /\ PeopleInv' /\ ResultInv'
  BY <1>1, <1>6, <1>7, LinkStays, PeopleStay, ResultStays, InvTypes DEF Inv, people, pending
<1>9. inter.result.mail \in Trusted'
  BY <1>3, <1>7 DEF Onward
<1>10. BrowserInv'
  BY <1>1, <1>2, <1>3, <1>5, <1>9, PageIs DEF BrowserInv
<1> QED BY <1>2, <1>5, <1>6, <1>7, <1>8, <1>10, BusyStep

(***************************************************************************)
(* The account is determined and the login recorded.                       *)
(***************************************************************************)

LEMMA CreatedIs ==
    ASSUME TypeOK, PeopleInv, NEW p \in Account, ~account[p].live, NEW lack \in Lacks,
           account' = Created(p, lack)
    PROVE  /\ account' \in [Account -> User] /\ Living \subseteq Living' /\ p \in Living'
           /\ \A q \in Account : account'[q].tos = account[q].tos
           /\ \A q \in Account : ~account'[q].live => account'[q].tos = NoText
<1> DEFINE new == IF lack = "none" THEN Full ELSE [Full EXCEPT ![lack] = FALSE]
<1>1. new \in User /\ new.live /\ new.tos = NoText
  <2>1. Full \in User /\ Full.live /\ Full.tos = NoText
    BY NullTypes DEF Full
  <2>2. CASE lack = "none"
    BY <2>1, <2>2
  <2>3. CASE lack = "approved"
    BY <2>1, <2>3 DEF User
  <2>4. CASE lack = "named"
    BY <2>1, <2>4 DEF User
  <2>5. CASE lack = "member"
    BY <2>1, <2>5 DEF User
  <2> QED BY <2>2, <2>3, <2>4, <2>5 DEF Lacks
<1>2. account' = [account EXCEPT ![p] = new] /\ account \in [Account -> User]
  BY DEF Created, TypeOK
<1> HIDE DEF new
<1>3. account'[p] = new /\ \A q \in Account \ {p} : account'[q] = account[q]
  BY <1>2
<1>4. account' \in [Account -> User]
  BY <1>1, <1>2
<1>5. Living \subseteq Living' /\ p \in Living'
  BY <1>1, <1>3 DEF Living
<1> QED BY <1>1, <1>3, <1>4, <1>5 DEF PeopleInv

LEMMA PeopleGrow ==
    ASSUME Inv, Onward, \A p \in Account : ~account'[p].live => account'[p].tos = NoText
    PROVE  PeopleInv'
BY SignedStays DEF PeopleInv

(* The browser's request goes on with a login, the interaction as it is. *)
LEMMA GoesOn ==
    ASSUME Inv, job["browser"].step = "resolve", NEW at \in (Trusted \cap Living') \cup {Nobody},
           Busy("browser", "finish", job["browser"].kind, job["browser"].who, at, Blank),
           account' \in [Account -> User], Living \subseteq Living',
           \A p \in Account : ~account'[p].live => account'[p].tos = NoText,
           spent' \in [uid : 0 .. MaxUid, flow : 0 .. MaxFlow, link : 0 .. MaxLink,
                       event : 0 .. MaxEvent],
           spent'.uid = spent.uid, spent'.link = spent.link,
           inter' \in Interaction, inter'.uid = inter.uid, inter'.prompt = inter.prompt,
           inter'.last = inter.last, ~inter'.done, TypeOK' /\ Onward => ResultInv',
           UNCHANGED <<signed, config, pending, acting, history>>
    PROVE  Inv'
<1>1. inter.uid # 0
  BY DEF Inv, BrowserInv
<1>2. at \in Holder /\ job["browser"].who \in Holder /\ job["browser"].kind \in Kinds
  BY InvTypes DEF Inv, Holder, Account, Job, Kinds, Living
<1>3. /\ job' \in [Task -> Job] /\ \A i \in Task \ {"browser"} : job'[i] = job[i]
      /\ job'["browser"].step = "finish" /\ job'["browser"].at = at
      /\ job'["browser"].uid = inter.uid
  BY <1>2, BrowserBusy DEF Inv
<1>4. TypeOK'
  BY <1>3 DEF Inv, TypeOK, config, pending, history
<1>5. Onward
  BY InvTypes DEF Inv, pending, history, Onward, Trusted
<1>6. LinkInv' /\ PeopleInv'
  BY <1>4, <1>5, LinkStays, PeopleGrow, InvTypes DEF Inv, pending
<1>7. BrowserInv'
  BY <1>1, <1>3 DEF BrowserInv, history, Trusted
<1> QED BY <1>1, <1>3, <1>4, <1>5, <1>6, <1>7, BusyStep

LEMMA ResolveInv ==
    ASSUME Inv, Resolve PROVE Inv'
<1> DEFINE b == job["browser"]
<1>1. /\ b.step = "resolve" /\ UNCHANGED <<signed, config, pending, acting, history>>
  BY DEF Resolve
<1>2. /\ inter.uid # 0 /\ ~inter.done /\ b.who \in Trusted
      /\ Upstreamed(inter.result) \/ Upstreamed(inter.last) \/ inter.result.sure
      /\ ~inter.result.error
  BY <1>1 DEF Inv, BrowserInv
<1>3. /\ b.who \in Account /\ inter \in Interaction /\ account \in [Account -> User]
      /\ spent \in [uid : 0 .. MaxUid, flow : 0 .. MaxFlow, link : 0 .. MaxLink,
                    event : 0 .. MaxEvent]
      /\ \A p \in Account : ~account[p].live => account[p].tos = NoText
  BY <1>2, InvTypes DEF Inv, TypeOK, PeopleInv
<1>4. ASSUME NEW at \in (Trusted \cap Living') \cup {Nobody},
             Busy("browser", "finish", b.kind, b.who, at, Blank),
             account' \in [Account -> User], Living \subseteq Living',
             \A p \in Account : ~account'[p].live => account'[p].tos = NoText,
             UNCHANGED <<inter, spent>>
      PROVE  Inv'
  <2>1. TypeOK' /\ Onward => ResultInv'
    BY <1>4, ResultStays
  <2> QED BY <1>1, <1>2, <1>3, <1>4, <2>1, GoesOn
<1>5. CASE /\ account[b.who].live
           /\ Busy("browser", "finish", b.kind, b.who, b.who, Blank)
           /\ UNCHANGED <<inter, account, spent>>
  <2>1. Living' = Living /\ b.who \in (Trusted \cap Living') \cup {Nobody}
    BY <1>2, <1>3, <1>5 DEF Living
  <2> QED BY <1>3, <1>5, <2>1, <1>4
<1>6. CASE /\ ~account[b.who].live /\ \E lack \in Lacks : account' = Created(b.who, lack)
           /\ Busy("browser", "finish", b.kind, b.who, b.who, Blank)
           /\ UNCHANGED <<inter, spent>>
  <2>1. /\ account' \in [Account -> User] /\ Living \subseteq Living' /\ b.who \in Living'
        /\ \A q \in Account : ~account'[q].live => account'[q].tos = NoText
    BY <1>3, <1>6, CreatedIs DEF Inv
  <2> QED BY <1>2, <1>6, <2>1, <1>4
<1>7. CASE /\ Busy("browser", "finish", b.kind, b.who, Nobody, Blank)
           /\ UNCHANGED <<inter, account, spent>>
  <2>1. Living' = Living
    BY <1>7 DEF Living
  <2> QED BY <1>3, <1>7, <2>1, <1>4
<1>8. CASE /\ Store(Merge(inter.result, [Blank EXCEPT !.ask = TRUE]))
           /\ Busy("browser", "finish", b.kind, b.who, Nobody, Blank)
           /\ UNCHANGED <<account, spent>>
  <2> DEFINE a == Merge(inter.result, AskOnly)
             m == Merge(a, inter.last)
  <2>1. inter.result \in Facts /\ inter.last \in Facts /\ spent.link \in Nat
    BY InvTypes DEF Inv
  <2>2. Sound(inter.result) /\ Sound(inter.last) /\ Backed(inter.last) /\ ~inter.last.error
    BY DEF Inv, ResultInv, ChainInv
  <2>3. /\ a \in Facts /\ a.ask /\ a.github = inter.result.github /\ a.oidc = inter.result.oidc
        /\ a.mail = inter.result.mail /\ a.token = inter.result.token
        /\ a.sure = inter.result.sure /\ a.text = inter.result.text
        /\ a.login = inter.result.login /\ a.error = inter.result.error
    BY <2>1, <2>2, AskSound, InvTypes DEF Sound, Inv
  <2>4. Put(m, inter.done)
    BY <1>2, <1>8, <2>3 DEF Store, Merged, AskOnly
  <2> HIDE DEF a
  <2>5. /\ m \in Facts /\ m.error = (a.error \/ inter.last.error)
        /\ m.ask = (a.ask \/ inter.last.ask) /\ m.sure = (a.sure \/ inter.last.sure)
        /\ m.github = IF a.github = Nobody THEN inter.last.github ELSE a.github
        /\ m.oidc = IF a.oidc = Nobody THEN inter.last.oidc ELSE a.oidc
        /\ m.mail = IF a.mail = Nobody THEN inter.last.mail ELSE a.mail
        /\ m.token = IF a.token = 0 THEN inter.last.token ELSE a.token
        /\ m.text = IF a.text = NoText THEN inter.last.text ELSE a.text
        /\ m.login = IF a.login = Nobody THEN inter.last.login ELSE a.login
    <3>1. a \in Facts /\ inter.last \in Facts
      BY <2>1, <2>3
    <3> QED BY <3>1, MergeIs
  <2> HIDE DEF m
  <2>7. /\ ~m.error /\ m.mail \in {inter.result.mail, inter.last.mail}
        /\ inter.last.sure => m.mail \in Trusted \cup {Nobody}
    BY <1>2, <2>2, <2>3, <2>5 DEF Inv, ResultInv, Sound, SoundFor
  <2>8. Sound(m)
    <3>1. m.sure => m.mail \in Trusted
      BY <2>2, <2>3, <2>5, <2>7, InvTypes, Bounds DEF Inv, Sound, SoundFor
    <3>2. Upstreamed(m) \/ m.sure
      BY <1>2, <2>3, <2>5 DEF Upstreamed
    <3>3. /\ (m.mail = Nobody) <=> (m.token = 0)
          /\ m.token <= spent.link
          /\ \A link \in links : m.token = link.token => m.mail = link.to
      BY <2>2, <2>3, <2>5 DEF Sound, SoundFor
    <3>4. /\ {m.github, m.oidc, m.login} \subseteq Trusted \cup {Nobody}
          /\ m.login \in Living \cup {Nobody} /\ m.text \in shown \cup {NoText}
      BY <2>2, <2>3, <2>5 DEF Sound, SoundFor
    <3> QED BY <3>1, <3>2, <3>3, <3>4 DEF Sound, SoundFor
  <2>9. /\ inter' \in Interaction /\ inter'.result = m /\ ~inter'.done /\ inter'.uid = inter.uid
        /\ inter'.prompt = inter.prompt /\ inter'.last = inter.last
    BY <1>2, <2>4, <2>5, PutIs, InvTypes DEF Inv
  <2>10. TypeOK' /\ Onward => ResultInv'
    <3> HAVE TypeOK' /\ Onward
    <3>1. Sound(inter.result)'
      BY <2>5, <2>8, <2>9, StillSound DEF Sound, Inv
    <3> QED BY <2>7, <2>9, <3>1 DEF ResultInv, Onward
  <2>11. Living' = Living
    BY <1>8 DEF Living
  <2> QED BY <1>1, <1>3, <1>8, <2>9, <2>10, <2>11, GoesOn
<1>9. CASE /\ MayFail /\ Spend("event")
           /\ Put(Denied, inter.done) \/ UNCHANGED inter
           /\ Busy("browser", "finish", b.kind, b.who, Nobody, Blank) /\ UNCHANGED account
  <2>1. inter.done \in BOOLEAN
    BY InvTypes DEF Inv
  <2>2. /\ inter' \in Interaction /\ ~inter'.done /\ inter'.uid = inter.uid
        /\ inter'.prompt = inter.prompt /\ inter'.last = inter.last
    BY <1>2, <1>3, <1>9, <2>1, DeniedTyped DEF Inv
  <2>3. TypeOK' /\ Onward => ResultInv'
    BY <1>9, <2>1, DeniedResult, ResultStays
  <2>4. Living' = Living
    BY <1>9 DEF Living
  <2>5. /\ spent' \in [uid : 0 .. MaxUid, flow : 0 .. MaxFlow, link : 0 .. MaxLink,
                       event : 0 .. MaxEvent]
        /\ spent'.uid = spent.uid /\ spent'.link = spent.link
    BY <1>9, SpendEvent DEF Inv
  <2>6. /\ account' \in [Account -> User] /\ Living \subseteq Living'
        /\ \A p \in Account : ~account'[p].live => account'[p].tos = NoText
    BY <1>3, <1>9, <2>4
  <2>7. Busy("browser", "finish", b.kind, b.who, Nobody, Blank)
    BY <1>9
  <2> QED BY <1>1, <2>2, <2>3, <2>5, <2>6, <2>7, GoesOn
<1> QED BY <1>5, <1>6, <1>7, <1>8, <1>9 DEF Resolve

(* A login is finished with a result of its own. *)
LEMMA NewResult ==
    ASSUME Inv, TypeOK', Onward, NEW r \in Facts, Put(r, TRUE), Sound(r), Backed(r),
           ~r.error, inter.last.sure => r.mail \in Trusted \cup {Nobody}
    PROVE  ResultInv'
<1>1. inter'.result = r /\ inter'.done = TRUE /\ inter'.last = inter.last
  BY PutIs DEF Inv
<1>2. Sound(inter.result)'
  BY <1>1, StillSound DEF Sound, Inv
<1>3. Backed(inter.result)'
  BY <1>1 DEF Backed, Upstreamed
<1> QED BY <1>1, <1>2, <1>3 DEF ResultInv, Onward

LEMMA LoggedIn ==
    ASSUME NEW p \in Account
    PROVE  LET f == [Blank EXCEPT !.login = p] IN
           /\ f \in Facts /\ f.login = p /\ f.github = Nobody /\ f.oidc = Nobody
           /\ f.mail = Nobody /\ f.token = 0 /\ ~f.sure /\ ~f.ask /\ f.text = NoText /\ ~f.error
BY NullTypes, NullFields DEF Facts, Holder

LEMMA FinishInv ==
    ASSUME Inv, Finish PROVE Inv'
<1> DEFINE b == job["browser"]
           r == LoginResult(b.at)
<1>1. /\ b.step = "finish" /\ Rest("browser")
      /\ IF b.kind \in Upstream THEN Put(r, TRUE) ELSE Put(Merged(r), TRUE)
      /\ UNCHANGED <<people, config, pending, acting, spent, history>>
  BY DEF Finish, Finished
<1>2. inter.uid # 0 /\ b.at \in (Trusted \cap Living) \cup {Nobody}
  BY <1>1 DEF Inv, BrowserInv
<1>3. /\ job' \in [Task -> Job] /\ \A i \in Task \ {"browser"} : job'[i] = job[i]
      /\ job'["browser"].step = "idle"
  BY <1>1, RestIs, InvTypes DEF Inv
<1>4. /\ r \in Facts /\ Sound(r) /\ Backed(r) /\ (r = Denied \/ ~r.error)
      /\ inter.last.sure => r.mail \in Trusted \cup {Nobody}
  <2>1. CASE b.at # Nobody /\ ~account[b.at].barred
    <3>1. r = [Blank EXCEPT !.login = b.at]
      BY <2>1 DEF LoginResult
    <3>2. b.at \in Account
      BY <1>2, <2>1 DEF Living
    <3>3. /\ r \in Facts /\ r.login = b.at /\ r.github = Nobody /\ r.oidc = Nobody
          /\ r.mail = Nobody /\ r.token = 0 /\ ~r.sure /\ ~r.ask /\ r.text = NoText /\ ~r.error
      BY <3>1, <3>2, LoggedIn
    <3> HIDE DEF r
    <3>4. Sound(r)
      BY <1>2, <2>1, <3>3, InvTypes DEF Sound, SoundFor, Inv
    <3> QED BY <2>1, <3>3, <3>4 DEF Backed
  <2>2. CASE b.at = Nobody /\ inter.result.ask /\ ~inter.result.error
    <3>1. r = inter.result
      BY <2>2 DEF LoginResult
    <3>2. Sound(inter.result) /\ inter.result \in Facts
      BY InvTypes DEF Inv, ResultInv
    <3>3. Backed(inter.result)
      BY <2>2, <3>2 DEF Sound, SoundFor, Backed
    <3> QED BY <2>2, <3>1, <3>2, <3>3 DEF Inv, ResultInv
  <2>3. CASE /\ ~(b.at # Nobody /\ ~account[b.at].barred)
             /\ ~(b.at = Nobody /\ inter.result.ask /\ ~inter.result.error)
    <3>1. r = Denied
      BY <2>3 DEF LoginResult
    <3>2. Sound(Denied)
      BY NullSound, InvTypes DEF Sound, Inv
    <3>3. Backed(Denied)
      BY NullFields DEF Backed
    <3> QED BY <3>1, <3>2, <3>3, NullTypes, NullFields
  <2> QED BY <2>1, <2>2, <2>3
<1> HIDE DEF r
<1>5. Merged(r) \in Facts
  BY <1>4, MergeIs, InvTypes DEF Merged, Inv
<1>6. /\ inter' \in Interaction /\ inter'.uid = inter.uid /\ inter'.prompt = inter.prompt
      /\ inter'.last = inter.last /\ inter'.done = TRUE
  BY <1>1, <1>4, <1>5, PutIs DEF Inv
<1>7. TypeOK'
  BY <1>1, <1>3, <1>6 DEF Inv, TypeOK, people, config, pending, history
<1>8. Onward
  BY <1>1, <1>6, InvTypes DEF Inv, people, pending, history, Onward, Living, Trusted
<1>9. LinkInv' /\ PeopleInv'
  BY <1>1, <1>7, <1>8, LinkStays, PeopleStay, InvTypes DEF Inv, people, pending
<1>10. ResultInv'
  <2>1. CASE r = Denied
    <3>1. Put(Denied, TRUE)
      BY <1>1, <2>1, NullFields DEF Merged
    <3> QED BY <1>7, <1>8, <3>1, DeniedResult
  <2>2. CASE r # Denied /\ b.kind \in Upstream
    BY <1>1, <1>4, <1>7, <1>8, <2>2, NewResult
  <2>3. CASE r # Denied /\ b.kind \notin Upstream
    <3>1. SoundFor(r, Trusted', shown', Living', links', spent'.link)
      BY <1>4, <1>7, <1>8, StillSound DEF Inv
    <3>2. inter.last.sure => r.mail \in Trusted' \cup {Nobody}
      BY <1>4, <1>8 DEF Onward
    <3>3. Put(Merged(r), TRUE) /\ ~r.error
      BY <1>1, <1>4, <2>3
    <3> QED BY <1>4, <1>7, <1>8, <3>1, <3>2, <3>3, MergedResult
  <2> QED BY <2>1, <2>2, <2>3
<1> QED BY <1>2, <1>3, <1>6, <1>7, <1>8, <1>9, <1>10, StoreStep

(***************************************************************************)
(* What a prompt adds.                                                     *)
(***************************************************************************)

(* The page of a prompt ends with, or stores, what it has learnt: nothing   *)
(* about addresses.                                                        *)
LEMMA PageStores ==
    ASSUME Inv, inter.uid # 0, NEW new \in Facts, NEW done \in BOOLEAN, Put(Merged(new), done),
           ~new.error, new.github = Nobody, new.oidc = Nobody, new.mail = Nobody, new.token = 0,
           ~new.sure, ~new.ask, new.login \in (Trusted' \cap Living') \cup {Nobody},
           new.text \in shown' \cup {NoText}, shown \subseteq shown', shown' \subseteq Text,
           job' \in [Task -> Job], job'["browser"].step = "idle",
           \A j \in Task \ {"browser"} : job'[j] = job[j],
           account' \in [Account -> User], Living \subseteq Living',
           \A p \in Account : ~account'[p].live => account'[p].tos = NoText,
           spent' \in [uid : 0 .. MaxUid, flow : 0 .. MaxFlow, link : 0 .. MaxLink,
                       event : 0 .. MaxEvent],
           spent'.uid = spent.uid, spent'.link = spent.link,
           acting' \in Holder, proved \subseteq proved', proved' \subseteq Account,
           UNCHANGED <<signed, config, pending, mixed>>
    PROVE  Inv'
<1>1. inter.last \in Facts
  BY InvTypes DEF Inv
<1>2. Merge(new, inter.last) \in Facts
  BY <1>1, MergeIs
<1>3. Merged(new) = Merge(new, inter.last)
  BY DEF Merged
<1>4. /\ inter' \in Interaction /\ inter'.uid = inter.uid /\ inter'.prompt = inter.prompt
      /\ inter'.last = inter.last
  BY <1>2, <1>3, PutIs DEF Inv
<1>5. TypeOK'
  BY <1>4 DEF Inv, TypeOK, config, pending
<1>6. Onward
  <2>1. Trusted \subseteq Trusted'
    BY <1>5, TrustGrows DEF Inv
  <2> QED BY <1>4, <2>1, InvTypes DEF Inv, pending, Onward
<1>7. LinkInv' /\ PeopleInv'
  BY <1>5, <1>6, LinkStays, PeopleGrow, InvTypes DEF Inv, pending
<1>8. new.login \in Trusted' \cup {Nobody} /\ new.login \in Living' \cup {Nobody}
  OBVIOUS
<1>9. SoundFor(new, Trusted', shown', Living', links', spent'.link)
  BY <1>5, <1>8, PlainSound
<1>10. ResultInv' /\ ~inter'.result.error
  <2>1. new.mail \in Trusted' \cup {Nobody} /\ Backed(new)
    BY DEF Backed
  <2> QED BY <1>5, <1>6, <1>9, <2>1, MergedResult
<1> QED BY <1>5, <1>6, <1>7, <1>10, StoreStep

(* The ones that change nothing but the interaction. *)
LEMMA PageEnds ==
    ASSUME Inv, Here, NEW new \in Facts, NEW done \in BOOLEAN, Put(Merged(new), done),
           ~new.error, new.github = Nobody, new.oidc = Nobody, new.mail = Nobody, new.token = 0,
           ~new.sure, ~new.ask, new.login = Nobody,
           new.text \in shown' \cup {NoText}, shown \subseteq shown', shown' \subseteq Text,
           acting' \in Holder,
           UNCHANGED <<job, people, config, pending, spent, proved, mixed>>
    PROVE  Inv'
<1>1. /\ job' \in [Task -> Job] /\ job'["browser"].step = "idle" /\ inter.uid # 0
      /\ \A j \in Task \ {"browser"} : job'[j] = job[j]
  BY PageIs DEF Inv, TypeOK
<1>2. /\ account' \in [Account -> User] /\ Living \subseteq Living'
      /\ \A p \in Account : ~account'[p].live => account'[p].tos = NoText
  BY DEF people, Living, Inv, PeopleInv, TypeOK
<1>3. /\ spent' \in [uid : 0 .. MaxUid, flow : 0 .. MaxFlow, link : 0 .. MaxLink,
                     event : 0 .. MaxEvent]
      /\ spent'.uid = spent.uid /\ spent'.link = spent.link
  BY DEF Inv, TypeOK
<1>4. /\ UNCHANGED <<signed, config, pending, mixed>>
      /\ proved \subseteq proved' /\ proved' \subseteq Account
  BY DEF people, Inv, TypeOK
<1>5. new.login \in (Trusted' \cap Living') \cup {Nobody}
  OBVIOUS
<1> QED BY <1>1, <1>2, <1>3, <1>4, <1>5, PageStores

(* With nothing more than that it is done. *)
LEMMA PageDone ==
    ASSUME Inv, Here, Finished(Blank), acting' \in Holder,
           UNCHANGED <<job, people, config, pending, spent, history>>
    PROVE  Inv'
<1>1. /\ Blank \in Facts /\ Put(Merged(Blank), TRUE)
      /\ ~Blank.error /\ Blank.github = Nobody /\ Blank.oidc = Nobody /\ Blank.mail = Nobody
      /\ Blank.token = 0 /\ ~Blank.sure /\ ~Blank.ask /\ Blank.login = Nobody
      /\ Blank.text = NoText
  BY NullTypes, NullFields DEF Finished
<1>2. shown' = shown /\ shown \subseteq Text /\ UNCHANGED <<proved, mixed>>
  BY DEF history, Inv, TypeOK
<1>3. Blank.text \in shown' \cup {NoText} /\ shown \subseteq shown' /\ shown' \subseteq Text
  BY <1>1, <1>2
<1> QED BY <1>1, <1>2, <1>3, PageEnds

(* A prompt after the login is of somebody who is signed in. *)
LEMMA PromptIs ==
    ASSUME Inv, NEW prompt, prompt # "login", At(prompt)
    PROVE  Here /\ signed \in Account /\ signed \in Living
BY PageIs DEF At, Inv, TypeOK, PeopleInv, Living

LEMMA EnterUsernameInv ==
    ASSUME Inv, EnterUsername PROVE Inv'
<1> DEFINE p == Stashed(inter.last)
<1>1. /\ At("login") /\ p # Nobody
      /\ UNCHANGED <<signed, config, pending, acting, spent, history>>
  BY DEF EnterUsername
<1>2. Here /\ inter.prompt = "login"
  BY <1>1 DEF At
<1>3. /\ job["browser"].step = "idle" /\ inter.uid # 0 /\ ~inter.done /\ ~inter.result.error
  BY <1>2, PageIs
<1>4. p \in Trusted /\ p \in Account /\ p \in Holder
  <2>1. /\ {inter.last.github, inter.last.oidc} \subseteq Trusted \cup {Nobody}
        /\ Backed(inter.last) /\ (inter.last.sure => inter.last.mail \in Trusted)
    BY DEF Inv, ChainInv, Sound, SoundFor
  <2>2. p \in Trusted
    BY <1>1, <2>1 DEF Stashed, Backed, Upstreamed
  <2> QED BY <2>2, InvTypes DEF Inv, Holder
<1> HIDE DEF p
<1>7. /\ account' \in [Account -> User] /\ Living \subseteq Living' /\ p \in Living'
      /\ \A q \in Account : ~account'[q].live => account'[q].tos = NoText
  <2>1. CASE account[p].live
    <3>1. account' = account
      BY <2>1 DEF EnterUsername, p
    <3> QED BY <1>4, <2>1, <3>1 DEF Inv, TypeOK, PeopleInv, Living
  <2>2. CASE ~account[p].live
    <3>1. \E lack \in Lacks : account' = Created(p, lack)
      BY <2>2 DEF EnterUsername, p
    <3> QED BY <1>4, <2>2, <3>1, CreatedIs DEF Inv
  <2> QED BY <2>1, <2>2
<1>8. /\ spent' \in [uid : 0 .. MaxUid, flow : 0 .. MaxFlow, link : 0 .. MaxLink,
                     event : 0 .. MaxEvent]
      /\ spent'.uid = spent.uid /\ spent'.link = spent.link
  BY <1>1 DEF Inv, TypeOK
<1>9. ASSUME NEW kind \in Kinds, Busy("browser", "resolve", kind, p, Nobody, Blank),
             UNCHANGED inter, Upstreamed(inter.last)
      PROVE  Inv'
  <2>1. Nobody \in Holder
    BY DEF Holder
  <2>2. /\ job' \in [Task -> Job] /\ \A i \in Task \ {"browser"} : job'[i] = job[i]
        /\ job'["browser"].step = "resolve" /\ job'["browser"].who = p
        /\ job'["browser"].uid = inter.uid
    BY <1>4, <1>9, <2>1, BrowserBusy DEF Inv
  <2>3. TypeOK'
    BY <1>1, <1>7, <1>9, <2>2 DEF Inv, TypeOK, config, pending, history
  <2>4. Onward
    BY <1>1, <1>7, <1>9, InvTypes DEF Inv, pending, history, Onward, Trusted
  <2>5. LinkInv' /\ PeopleInv' /\ ResultInv'
    BY <1>1, <1>7, <1>9, <2>3, <2>4, LinkStays, PeopleGrow, ResultStays, InvTypes
    DEF Inv, pending
  <2>6. p \in Trusted'
    BY <1>4, <2>4 DEF Onward
  <2>7. BrowserInv'
    BY <1>3, <1>9, <2>2, <2>6 DEF BrowserInv, Upstreamed
  <2> QED BY <1>3, <2>2, <2>3, <2>4, <2>5, <2>7, BusyStep
<1>10. CASE Finished([Blank EXCEPT !.login = p]) /\ UNCHANGED job
  <2> DEFINE new == [Blank EXCEPT !.login = p]
  <2>1. /\ new \in Facts /\ new.login = p /\ new.github = Nobody /\ new.oidc = Nobody
        /\ new.mail = Nobody /\ new.token = 0 /\ ~new.sure /\ ~new.ask /\ new.text = NoText
        /\ ~new.error
    BY <1>4, LoggedIn
  <2>2. Put(Merged(new), TRUE)
    BY <1>10 DEF Finished
  <2> HIDE DEF new
  <2>3. /\ new.login \in (Trusted' \cap Living') \cup {Nobody}
        /\ new.text \in shown' \cup {NoText} /\ shown \subseteq shown' /\ shown' \subseteq Text
    BY <1>1, <1>4, <1>7, <2>1 DEF history, Inv, TypeOK, Trusted
  <2>4. /\ job' \in [Task -> Job] /\ job'["browser"].step = "idle"
        /\ \A j \in Task \ {"browser"} : job'[j] = job[j]
    BY <1>3, <1>10 DEF Inv, TypeOK
  <2>5. /\ acting' \in Holder /\ UNCHANGED <<signed, config, pending, mixed>>
        /\ proved \subseteq proved' /\ proved' \subseteq Account
    BY <1>1 DEF history, Inv, TypeOK
  <2> QED BY <1>3, <1>7, <1>8, <2>1, <2>2, <2>3, <2>4, <2>5, PageStores
<1>11. "github" \in Kinds /\ "oidc" \in Kinds
  BY DEF Kinds, Upstream
<1> QED BY <1>9, <1>10, <1>11 DEF EnterUsername, Upstreamed, p

LEMMA EnterAsGuestInv ==
    ASSUME Inv, EnterAsGuest PROVE Inv'
<1> DEFINE new == [Blank EXCEPT !.login = Guest]
<1>1. /\ Here /\ ~account[Guest].live /\ Put(Merged(new), TRUE)
      /\ proved' = proved \cup {Guest}
      /\ UNCHANGED <<job, signed, config, pending, acting, spent, shown, mixed>>
  BY DEF EnterAsGuest, At, Finished, Prove
<1>2. inter.uid # 0 /\ job["browser"].step = "idle" /\ Guest \in Account
  BY <1>1, PageIs, Bounds
<1>3. /\ account' \in [Account -> User] /\ Living \subseteq Living' /\ Guest \in Living'
      /\ \A q \in Account : ~account'[q].live => account'[q].tos = NoText
  <2>1. \E lack \in Lacks : account' = Created(Guest, lack)
    BY DEF EnterAsGuest
  <2> QED BY <1>1, <1>2, <2>1, CreatedIs DEF Inv
<1>4. /\ new \in Facts /\ new.login = Guest /\ new.github = Nobody /\ new.oidc = Nobody
      /\ new.mail = Nobody /\ new.token = 0 /\ ~new.sure /\ ~new.ask /\ new.text = NoText
      /\ ~new.error
  BY <1>2, LoggedIn
<1> HIDE DEF new
<1>5. /\ job' \in [Task -> Job] /\ job'["browser"].step = "idle"
      /\ \A j \in Task \ {"browser"} : job'[j] = job[j]
  BY <1>1, <1>2 DEF Inv, TypeOK
<1>6. /\ spent' \in [uid : 0 .. MaxUid, flow : 0 .. MaxFlow, link : 0 .. MaxLink,
                     event : 0 .. MaxEvent]
      /\ spent'.uid = spent.uid /\ spent'.link = spent.link /\ acting' \in Holder
      /\ proved \subseteq proved' /\ proved' \subseteq Account
      /\ shown \subseteq shown' /\ shown' \subseteq Text
  BY <1>1, <1>2 DEF Inv, TypeOK
<1>7. new.login \in (Trusted' \cap Living') \cup {Nobody}
  BY <1>1, <1>2, <1>3, <1>4 DEF Trusted
<1>8. new.text \in shown' \cup {NoText}
  BY <1>4
<1> QED BY <1>1, <1>2, <1>3, <1>4, <1>5, <1>6, <1>7, <1>8, PageStores

(***************************************************************************)
(* Passkeys and impersonation.                                             *)
(***************************************************************************)

(* Nothing changes for the interaction. *)
LEMMA Elsewhere ==
    ASSUME Inv, TypeOK', UNCHANGED <<inter, job, people, links, history>>,
           spent'.uid = spent.uid, spent'.link = spent.link
    PROVE  Inv'
<1>1. Onward
  BY InvTypes DEF Inv, people, history, Onward, Living, Trusted
<1>2. LinkInv' /\ PeopleInv'
  BY <1>1, LinkStays, PeopleStay, InvTypes DEF Inv, people
<1> QED BY <1>1, <1>2, OthersStep

LEMMA PasskeyStartInv ==
    ASSUME Inv, PasskeyStart PROVE Inv'
<1>1. TypeOK'
  BY InvTypes DEF PasskeyStart, Inv, TypeOK, people, config, history
<1> QED BY <1>1, Elsewhere DEF PasskeyStart

(* Somebody who is proved logs in directly. *)
LEMMA LogsIn ==
    ASSUME Inv, Here, NEW p \in Account, NEW at \in {p, Nobody} \cap (Living \cup {Nobody}),
           NEW kind \in Kinds, proved' = proved \cup {p},
           Busy("browser", "finish", kind, p, at, Blank),
           challenge' \in 0 .. MaxUid,
           UNCHANGED <<inter, people, config, flows, links, acting, spent, shown, mixed>>
    PROVE  Inv'
<1>1. inter.uid # 0 /\ ~inter.done
  BY PageIs
<1>2. p \in Holder /\ at \in Holder
  BY DEF Holder
<1>3. /\ job' \in [Task -> Job] /\ \A i \in Task \ {"browser"} : job'[i] = job[i]
      /\ job'["browser"].step = "finish" /\ job'["browser"].at = at
      /\ job'["browser"].uid = inter.uid
  BY <1>2, BrowserBusy DEF Inv
<1>4. TypeOK'
  BY <1>3 DEF Inv, TypeOK, people, config
<1>5. Onward
  BY InvTypes DEF Inv, people, Onward, Living, Trusted
<1>6. LinkInv' /\ PeopleInv' /\ ResultInv'
  BY <1>4, <1>5, LinkStays, PeopleStay, ResultStays, InvTypes DEF Inv, people
<1>7. at \in (Trusted' \cap Living') \cup {Nobody}
  BY DEF people, Living, Trusted
<1>8. BrowserInv'
  BY <1>1, <1>3, <1>7 DEF BrowserInv
<1> QED BY <1>1, <1>3, <1>4, <1>5, <1>6, <1>8, BusyStep

LEMMA PasskeyFinishInv ==
    ASSUME Inv, NEW p \in Account, PasskeyFinish(p) PROVE Inv'
<1>1. /\ Here /\ account[p].live /\ challenge' = 0 /\ proved' = proved \cup {p}
      /\ Busy("browser", "finish", "passkey", p, p, Blank)
      /\ UNCHANGED <<inter, people, config, flows, links, acting, spent, shown, mixed>>
  BY DEF PasskeyFinish, Answered, Prove, At
<1>2. p \in {p, Nobody} \cap (Living \cup {Nobody}) /\ "passkey" \in Kinds
  BY <1>1 DEF Living, Kinds
<1>3. challenge' \in 0 .. MaxUid
  BY <1>1, Bounds
<1> QED BY <1>1, <1>2, <1>3, LogsIn

LEMMA ImpersonateInv ==
    ASSUME Inv, Impersonate PROVE Inv'
<1> DEFINE at == IF account[acting].live THEN acting ELSE Nobody
<1>1. /\ Here /\ acting # Nobody /\ proved' = proved \cup {acting}
      /\ Busy("browser", "finish", "acting", acting, at, Blank)
      /\ UNCHANGED <<inter, people, config, pending, acting, spent, shown, mixed>>
  BY DEF Impersonate, Impersonating, Prove
<1>2. acting \in Account
  BY <1>1 DEF Inv, TypeOK, Holder
<1>3. at \in {acting, Nobody} \cap (Living \cup {Nobody}) /\ "acting" \in Kinds
  BY <1>2 DEF Living, Kinds
<1>4. /\ challenge' \in 0 .. MaxUid
      /\ UNCHANGED <<inter, people, config, flows, links, acting, spent, shown, mixed>>
  BY <1>1 DEF Inv, TypeOK, pending
<1> HIDE DEF at
<1> QED BY <1>1, <1>2, <1>3, <1>4, LogsIn

LEMMA ActivateInv ==
    ASSUME Inv, NEW p \in Account, Activate(p) PROVE Inv'
<1>1. /\ MayFail /\ Spend("event") /\ acting' = p
      /\ UNCHANGED <<inter, job, people, config, pending, history>>
  BY DEF Activate, Activated
<1>2. /\ spent' \in [uid : 0 .. MaxUid, flow : 0 .. MaxFlow, link : 0 .. MaxLink,
                     event : 0 .. MaxEvent]
      /\ spent'.uid = spent.uid /\ spent'.link = spent.link
  BY <1>1, SpendEvent DEF Inv
<1>3. TypeOK'
  BY <1>1, <1>2 DEF Inv, TypeOK, people, config, pending, history, Holder
<1> QED BY <1>1, <1>2, <1>3, Elsewhere DEF pending

LEMMA EndImpersonationInv ==
    ASSUME Inv, EndImpersonation PROVE Inv'
<1>1. /\ Here /\ acting' = Nobody /\ Finished(Blank)
      /\ UNCHANGED <<job, people, config, pending, spent, history>>
  BY DEF EndImpersonation
<1> QED BY <1>1, PageDone DEF Holder

(***************************************************************************)
(* The prompts after the login.                                            *)
(***************************************************************************)

LEMMA RecheckInv ==
    ASSUME Inv, Recheck PROVE Inv'
<1>1. /\ Here /\ Finished(Blank)
      /\ UNCHANGED <<job, people, config, pending, acting, spent, history>>
  BY DEF Recheck, At
<1>2. acting' \in Holder
  BY <1>1 DEF Inv, TypeOK
<1> QED BY <1>1, <1>2, PageDone

(* The text a page names. *)
LEMMA Named ==
    ASSUME NEW x \in Text
    PROVE  LET f == [Blank EXCEPT !.text = x] IN
           /\ f \in Facts /\ f.text = x /\ f.github = Nobody /\ f.oidc = Nobody
           /\ f.mail = Nobody /\ f.token = 0 /\ ~f.sure /\ ~f.ask /\ f.login = Nobody /\ ~f.error
BY NullTypes, NullFields DEF Facts, Texts

LEMMA RenderInv ==
    ASSUME Inv, At("tos"), text # NoText, Render,
           UNCHANGED <<job, people, config, pending, acting, spent, proved, mixed>>
    PROVE  Inv'
<1> DEFINE new == [Blank EXCEPT !.text = text]
<1>1. Here /\ signed # Nobody
  BY PromptIs, Bounds
<1>2. text \in Text /\ shown' = shown \cup {text} /\ Put(Merged(new), inter.done)
  BY DEF Inv, TypeOK, Texts, Render, Store
<1>3. /\ new \in Facts /\ new.text = text /\ new.github = Nobody /\ new.oidc = Nobody
      /\ new.mail = Nobody /\ new.token = 0 /\ ~new.sure /\ ~new.ask /\ new.login = Nobody
      /\ ~new.error
  BY <1>2, Named
<1> HIDE DEF new
<1>4. /\ new.text \in shown' \cup {NoText} /\ shown \subseteq shown' /\ shown' \subseteq Text
      /\ acting' \in Holder /\ inter.done \in BOOLEAN
  BY <1>2, <1>3, InvTypes DEF Inv, TypeOK
<1> QED BY <1>1, <1>2, <1>3, <1>4, PageEnds

LEMMA ShowTosInv ==
    ASSUME Inv, ShowTos PROVE Inv'
BY RenderInv DEF ShowTos

LEMMA ConfirmTosInv ==
    ASSUME Inv, ConfirmTos PROVE Inv'
<1>1. /\ At("tos") /\ inter.result.text # NoText
      /\ UNCHANGED <<people, config, pending, acting, spent, proved, mixed>>
  BY DEF ConfirmTos
<1>2. Here /\ signed \in Account /\ inter.prompt = "tos"
  BY <1>1, PromptIs DEF At
<1>3. CASE Finished(Blank) /\ UNCHANGED <<job, shown>>
  <2>1. /\ UNCHANGED <<job, people, config, pending, spent, history>> /\ acting' \in Holder
    BY <1>1, <1>3 DEF Inv, TypeOK, history
  <2> QED BY <1>2, <1>3, <2>1, PageDone
<1>4. CASE text \notin {NoText, inter.result.text} /\ Render /\ UNCHANGED job
  BY <1>1, <1>4, RenderInv
<1>5. CASE /\ Busy("browser", "accept", "link", signed, Nobody, inter.result)
           /\ UNCHANGED <<inter, shown>>
  <2>1. "browser" \in Task /\ "link" \in Kinds /\ signed \in Holder /\ Nobody \in Holder
        /\ inter.result \in Facts
    BY <1>2, InvTypes DEF Kinds, Holder, Inv
  <2>2. /\ job' \in [Task -> Job] /\ \A i \in Task \ {"browser"} : job'[i] = job[i]
        /\ job'["browser"].step = "accept" /\ job'["browser"].who = signed
        /\ job'["browser"].uid = inter.uid /\ job'["browser"].copy = inter.result
    BY <1>5, <2>1, BusyIs DEF Inv
  <2>3. TypeOK'
    BY <1>1, <1>5, <2>2 DEF Inv, TypeOK, people, config, pending
  <2>4. Onward
    BY <1>1, <1>5, InvTypes DEF Inv, people, pending, Onward, Living, Trusted
  <2>5. LinkInv' /\ PeopleInv' /\ ResultInv'
    BY <1>1, <1>5, <2>3, <2>4, LinkStays, PeopleStay, ResultStays, InvTypes
    DEF Inv, people, pending
  <2>6. inter.uid # 0 /\ ~inter.done /\ ~inter.result.error
    BY <1>2, PageIs
  <2>7. inter.result.text \in shown
    BY <1>1 DEF Inv, ResultInv, Sound, SoundFor
  <2>8. BrowserInv'
    BY <1>1, <1>2, <1>5, <2>2, <2>6, <2>7 DEF BrowserInv, people
  <2> QED BY <2>2, <2>3, <2>4, <2>5, <2>6, <2>8, BusyStep
<1> QED BY <1>3, <1>4, <1>5 DEF ConfirmTos

(* Only a text that was shown is recorded, for whoever is signed in. *)
LEMMA AcceptIs ==
    ASSUME Inv, Accept
    PROVE  LET j == job["browser"] IN
           /\ inter.uid # 0 /\ signed \in Account /\ signed \in Living
           /\ j.copy.text \in shown /\ j.copy.text \in Text
           /\ account' = [account EXCEPT ![signed].tos = j.copy.text]
<1> DEFINE j == job["browser"]
<1>1. j.step = "accept" /\ account' = [account EXCEPT ![j.who].tos = j.copy.text]
  BY DEF Accept, Accepted
<1>2. inter.uid # 0 /\ j.who = signed /\ inter.prompt = "tos" /\ j.copy.text \in shown
  BY <1>1 DEF Inv, BrowserInv
<1>3. signed # Nobody
  BY <1>2 DEF Inv, TypeOK
<1> QED BY <1>1, <1>2, <1>3 DEF Inv, TypeOK, PeopleInv, Living

LEMMA AcceptInv ==
    ASSUME Inv, Accept PROVE Inv'
<1> DEFINE j == job["browser"]
<1>1. /\ Put(Merged(Blank), TRUE) /\ Rest("browser")
      /\ UNCHANGED <<signed, config, pending, acting, spent, history>>
  BY DEF Accept, Finished
<1>2. /\ inter.uid # 0 /\ signed \in Account /\ signed \in Living /\ j.copy.text \in Text
      /\ account' = [account EXCEPT ![signed].tos = j.copy.text]
  BY AcceptIs
<1>3. /\ account' \in [Account -> User]
      /\ \A p \in Account : account'[p].live = account[p].live
      /\ \A p \in Account : p # signed => account'[p] = account[p]
  BY <1>2 DEF Inv, TypeOK, User, Texts
<1>4. Living' = Living
  BY <1>3 DEF Living
<1>5. \A p \in Account : ~account'[p].live => account'[p].tos = NoText
  BY <1>2, <1>3 DEF Inv, PeopleInv, Living
<1>6. /\ job' \in [Task -> Job] /\ job'["browser"].step = "idle"
      /\ \A i \in Task \ {"browser"} : job'[i] = job[i]
  BY <1>1, RestIs, InvTypes DEF Inv
<1>7. /\ Blank \in Facts /\ ~Blank.error /\ Blank.github = Nobody /\ Blank.oidc = Nobody
      /\ Blank.mail = Nobody /\ Blank.token = 0 /\ ~Blank.sure /\ ~Blank.ask
      /\ Blank.login \in (Trusted' \cap Living') \cup {Nobody} /\ Blank.text = NoText
  BY NullTypes, NullFields
<1>8. /\ shown' = shown /\ shown \subseteq Text /\ acting' \in Holder
      /\ UNCHANGED <<signed, config, pending, mixed>>
      /\ proved \subseteq proved' /\ proved' \subseteq Account
      /\ spent' \in [uid : 0 .. MaxUid, flow : 0 .. MaxFlow, link : 0 .. MaxLink,
                     event : 0 .. MaxEvent]
      /\ spent'.uid = spent.uid /\ spent'.link = spent.link
  BY <1>1 DEF Inv, TypeOK, history
<1>9. Blank.text \in shown' \cup {NoText} /\ shown \subseteq shown' /\ shown' \subseteq Text
  BY <1>7, <1>8
<1> QED BY <1>1, <1>2, <1>3, <1>4, <1>5, <1>6, <1>7, <1>8, <1>9, PageStores

LEMMA UpdateNameInv ==
    ASSUME Inv, UpdateName PROVE Inv'
<1>1. /\ At("name") /\ Put(Merged(Blank), TRUE)
      /\ UNCHANGED <<job, signed, config, pending, acting, history>>
  BY DEF UpdateName, Finished
<1>2. Here /\ signed \in Account
  BY <1>1, PromptIs
<1>3. inter.uid # 0 /\ job["browser"].step = "idle"
  BY <1>2, PageIs
<1>4. /\ account' \in [Account -> User]
      /\ \A p \in Account : account'[p].live = account[p].live /\ account'[p].tos = account[p].tos
      /\ spent' \in [uid : 0 .. MaxUid, flow : 0 .. MaxFlow, link : 0 .. MaxLink,
                     event : 0 .. MaxEvent]
      /\ spent'.uid = spent.uid /\ spent'.link = spent.link
  <2>1. CASE account' = [account EXCEPT ![signed].named = TRUE] /\ UNCHANGED spent
    BY <1>2, <2>1 DEF Inv, TypeOK, User
  <2>2. CASE MayFail /\ Spend("event") /\ UNCHANGED account
    BY <2>2, SpendEvent DEF Inv, TypeOK
  <2> QED BY <2>1, <2>2 DEF UpdateName
<1>5. Living' = Living /\ \A p \in Account : ~account'[p].live => account'[p].tos = NoText
  BY <1>4 DEF Living, Inv, PeopleInv
<1>6. /\ job' \in [Task -> Job] /\ job'["browser"].step = "idle"
      /\ \A i \in Task \ {"browser"} : job'[i] = job[i]
  BY <1>1, <1>3 DEF Inv, TypeOK
<1>7. /\ Blank \in Facts /\ ~Blank.error /\ Blank.github = Nobody /\ Blank.oidc = Nobody
      /\ Blank.mail = Nobody /\ Blank.token = 0 /\ ~Blank.sure /\ ~Blank.ask
      /\ Blank.login \in (Trusted' \cap Living') \cup {Nobody} /\ Blank.text = NoText
  BY NullTypes, NullFields
<1>8. /\ shown' = shown /\ shown \subseteq Text /\ acting' \in Holder
      /\ UNCHANGED <<signed, config, pending, mixed>>
      /\ proved \subseteq proved' /\ proved' \subseteq Account
  BY <1>1 DEF Inv, TypeOK, history
<1>9. Blank.text \in shown' \cup {NoText} /\ shown \subseteq shown' /\ shown' \subseteq Text
  BY <1>7, <1>8
<1> QED BY <1>1, <1>3, <1>4, <1>5, <1>6, <1>7, <1>8, <1>9, PageStores

LEMMA ConsentInv ==
    ASSUME Inv, Consent PROVE Inv'
<1> DEFINE new == [Blank EXCEPT !.consent = TRUE]
<1>1. /\ At("consent") /\ Put(Merged(new), TRUE)
      /\ UNCHANGED <<job, people, config, pending, acting, spent, history>>
  BY DEF Consent, Finished
<1>2. Here /\ signed # Nobody
  BY <1>1, PromptIs, Bounds
<1>3. /\ new \in Facts /\ ~new.error /\ new.github = Nobody /\ new.oidc = Nobody
      /\ new.mail = Nobody /\ new.token = 0 /\ ~new.sure /\ ~new.ask /\ new.login = Nobody
      /\ new.text = NoText
  BY NullTypes, NullFields DEF Facts
<1> HIDE DEF new
<1>4. /\ new.text \in shown' \cup {NoText} /\ shown \subseteq shown' /\ shown' \subseteq Text
      /\ acting' \in Holder /\ UNCHANGED <<job, people, config, pending, spent, proved, mixed>>
  BY <1>1, <1>3 DEF Inv, TypeOK, history
<1> QED BY <1>1, <1>2, <1>3, <1>4, PageEnds

LEMMA AbortInv ==
    ASSUME Inv, Abort PROVE Inv'
<1>1. /\ Here /\ AccessDenied
      /\ UNCHANGED <<job, people, config, pending, acting, spent, history>>
  BY DEF Abort
<1>2. inter.uid # 0 /\ job["browser"].step = "idle"
  BY <1>1, PageIs
<1>3. spent' \in [uid : 0 .. MaxUid, flow : 0 .. MaxFlow, link : 0 .. MaxLink,
                  event : 0 .. MaxEvent] /\ spent' = spent
  BY <1>1 DEF Inv, TypeOK
<1> QED BY <1>1, <1>2, <1>3, Denial

(***************************************************************************)
(* The authorization endpoint.                                             *)
(***************************************************************************)

(* An interaction that is gone leaves nothing behind but stale copies. *)
LEMMA ClosedIs ==
    ASSUME Inv, Close PROVE LinkInv' /\ flows' = {} /\ links' = {} /\ challenge' = 0
BY DEF Close, LinkInv

LEMMA NoInteractionInv ==
    ASSUME TypeOK', inter' = NoInteraction
    PROVE  ResultInv' /\ (0 <= spent'.uid => ChainInv')
<1>1. spent'.link \in Nat /\ \A link \in links' : link.token \in Nat \ {0}
  BY Bounds DEF TypeOK
<1>2. SoundFor(Blank, Trusted', shown', Living', links', spent'.link)
  BY <1>1, NullSound
<1> QED BY <1>2, NullFields DEF ResultInv, ChainInv, Sound, Backed

LEMMA NextPromptIs ==
    ASSUME NEW p \in Holder, NEW facts, NEW prompt \in NextPrompt(p, facts)
    PROVE  /\ prompt \in {"none", "login", "approval_required", "name", "tos",
                          "groups_required", "consent"}
           /\ p = Nobody => prompt = "login"
BY DEF NextPrompt, Due

(* A copy of an interaction that is gone is never saved over its successor. *)
LEMMA CopiesStale ==
    ASSUME Inv, job' = job, job["browser"].step = "idle", spent'.uid \in Nat,
           spent.uid <= spent'.uid,
           \A j \in Task : job[j].step = "save" => job[j].uid # inter'.uid
    PROVE  TaskInv'
<1> SUFFICES ASSUME NEW j \in Task
             PROVE  SaveInv(j)' /\ (j # "browser" => job'[j].step \in {"idle", "save"})
  BY DEF TaskInv
<1>1. SaveInv(j) /\ (j # "browser" => job[j].step \in {"idle", "save"})
  BY DEF Inv, TaskInv
<1>2. spent.uid \in Nat
  BY InvTypes DEF Inv
<1> QED BY <1>1, <1>2 DEF SaveInv

(* The next interaction, or none: what is known passes on. *)
LEMMA OpenNextInv ==
    ASSUME Inv, NEW p \in Holder, NEW facts \in Facts, OpenNext(p, facts), signed' = p,
           job["browser"].step = "idle", ~facts.error, Backed(facts),
           SoundFor(facts, Trusted', shown', Living', {}, spent.link),
           p \in (Trusted' \cap Living) \cup {Nobody},
           proved' \subseteq Account, shown' \subseteq Text, mixed' \in BOOLEAN,
           UNCHANGED <<job, account, config, acting>>
    PROVE  Inv'
<1>0. PICK prompt \in NextPrompt(p, facts) :
         IF prompt = "none" THEN inter' = NoInteraction /\ UNCHANGED spent
         ELSE /\ spent.uid < MaxUid /\ Spend("uid")
              /\ inter' = [uid |-> spent.uid + 1, prompt |-> prompt,
                           result |-> Blank, last |-> facts, done |-> FALSE]
  BY DEF OpenNext
<1>1. /\ prompt \in {"none", "login", "approval_required", "name", "tos",
                     "groups_required", "consent"}
      /\ p = Nobody => prompt = "login"
  BY NextPromptIs
<1>2. flows' = {} /\ links' = {} /\ challenge' = 0 /\ LinkInv'
  BY ClosedIs DEF OpenNext
<1>3. Living' = Living
  BY DEF Living
<1>4. PeopleInv'
  BY <1>3 DEF Inv, PeopleInv
<1>5. \A j \in Task : job[j].step = "save" => job[j].uid \in 1 .. spent.uid
  BY DEF Inv, TaskInv, SaveInv
<1>6. spent.uid \in Nat /\ 0 \in 0 .. MaxUid
  BY InvTypes, Bounds DEF Inv
<1>7. CASE prompt = "none"
  <2>1. inter' = NoInteraction /\ spent' = spent /\ inter'.uid = 0
    BY <1>0, <1>7, NullFields
  <2>2. TypeOK'
    BY <1>2, <1>6, <2>1, NullTypes DEF Inv, TypeOK, config
  <2>3. ResultInv' /\ ChainInv'
    BY <1>6, <2>1, <2>2, NoInteractionInv
  <2>4. TaskInv'
    BY <1>5, <1>6, <2>1, CopiesStale
  <2>5. BrowserInv'
    BY <2>1, NullFields DEF BrowserInv
  <2> QED BY <1>2, <1>4, <2>2, <2>3, <2>4, <2>5 DEF Inv
<1>8. CASE prompt # "none"
  <2> DEFINE n == spent.uid + 1
  <2>1. /\ spent.uid < MaxUid /\ spent' = [spent EXCEPT !["uid"] = @ + 1]
        /\ inter' = [uid |-> n, prompt |-> prompt, result |-> Blank, last |-> facts,
                     done |-> FALSE]
    BY <1>0, <1>8 DEF Spend
  <2>2. n \in 1 .. MaxUid /\ n \in 0 .. MaxUid /\ n \in Nat /\ n # 0 /\ spent.uid < n
    BY <1>6, <2>1, Bounds
  <2>3. /\ spent' \in [uid : 0 .. MaxUid, flow : 0 .. MaxFlow, link : 0 .. MaxLink,
                       event : 0 .. MaxEvent]
        /\ spent'.uid = n /\ spent'.link = spent.link
    BY <2>1, <2>2 DEF Inv, TypeOK
  <2> HIDE DEF n
  <2>4. /\ inter'.uid = n /\ inter'.prompt = prompt /\ inter'.result = Blank
        /\ inter'.last = facts /\ inter'.done = FALSE
    BY <2>1
  <2>5. inter' \in Interaction
    BY <1>1, <2>1, <2>2, NullTypes DEF Interaction
  <2>6. TypeOK'
    BY <1>1, <1>2, <1>6, <2>3, <2>4, <2>5 DEF Inv, TypeOK, config
  <2>7. spent.link \in Nat
    BY InvTypes DEF Inv
  <2>8. SoundFor(Blank, Trusted', shown', Living', links', spent'.link)
    BY <1>2, <2>3, <2>7, NullSound
  <2>9. ResultInv'
    BY <2>4, <2>8, NullFields DEF ResultInv, Sound
  <2>10. ChainInv'
    BY <1>2, <2>2, <2>3, <2>4 DEF ChainInv, Sound, Backed, Upstreamed
  <2>11. TaskInv'
    BY <1>5, <1>6, <2>2, <2>3, <2>4, CopiesStale
  <2>12. BrowserInv'
    BY <2>4, NullFields DEF BrowserInv
  <2> QED BY <1>2, <1>4, <2>6, <2>9, <2>10, <2>11, <2>12 DEF Inv
<1> QED BY <1>7, <1>8

LEMMA AuthorizeInv ==
    ASSUME Inv, Authorize PROVE Inv'
<1>1. /\ job["browser"].step = "idle" /\ OpenNext(signed, Blank) /\ shown' = {}
      /\ proved' = {signed} \ {Nobody} /\ mixed' = FALSE
      /\ UNCHANGED <<job, account, signed, config, acting>>
  BY DEF Authorize, Free, people
<1>2. /\ signed \in Holder /\ signed \in Living \cup {Nobody}
      /\ proved' \subseteq Account /\ shown' \subseteq Text
  BY <1>1, InvTypes DEF Inv, TypeOK, PeopleInv, Holder
<1>3. spent.link \in Nat
  BY InvTypes DEF Inv
<1>4. SoundFor(Blank, Trusted', shown', Living', {}, spent.link)
  BY <1>3, NullSound
<1>5. signed \in (Trusted' \cap Living) \cup {Nobody} /\ Backed(Blank)
  BY <1>1, <1>2, NullFields DEF Trusted, Backed
<1> QED BY <1>1, <1>2, <1>4, <1>5, NullTypes, NullFields, OpenNextInv

(* The browser has no session or no interaction any more. *)
LEMMA Gone ==
    ASSUME Inv, job["browser"].step = "idle", signed' = Nobody, inter' = NoInteraction, Close,
           UNCHANGED <<job, account, config, acting, spent, history>>
    PROVE  Inv'
<1>1. inter'.uid = 0 /\ 0 \in 0 .. MaxUid /\ spent.uid \in Nat
  BY NullFields, Bounds, InvTypes DEF Inv
<1>2. flows' = {} /\ links' = {} /\ challenge' = 0 /\ LinkInv'
  BY ClosedIs
<1>3. TypeOK'
  BY <1>1, <1>2, NullTypes DEF Inv, TypeOK, config, history, Holder
<1>4. ResultInv' /\ ChainInv'
  BY <1>1, <1>3, NoInteractionInv
<1>5. \A j \in Task : job[j].step = "save" => job[j].uid \in 1 .. spent.uid
  BY DEF Inv, TaskInv, SaveInv
<1>6. TaskInv'
  BY <1>1, <1>5, CopiesStale
<1>7. BrowserInv' /\ PeopleInv'
  BY NullFields DEF BrowserInv, Inv, PeopleInv
<1> QED BY <1>2, <1>3, <1>4, <1>6, <1>7 DEF Inv

LEMMA ResumeInv ==
    ASSUME Inv, Resume PROVE Inv'
<1> DEFINE result == inter.result
           who == IF result.login # Nobody THEN result.login ELSE signed
<1>1. /\ job["browser"].step = "idle" /\ inter.done
      /\ UNCHANGED <<job, account, config, acting, history>>
  BY DEF Resume, Free
<1>2. CASE result.error /\ inter' = NoInteraction /\ signed' = Nobody /\ Close /\ UNCHANGED spent
  BY <1>1, <1>2, Gone
<1>3. CASE ~result.error /\ OpenNext(who, result) /\ signed' = who
  <2>1. result \in Facts /\ Sound(result) /\ Backed(result)
    BY <1>1, InvTypes DEF Inv, ResultInv
  <2>2. who \in (Trusted \cap Living) \cup {Nobody}
    BY <2>1, InvTypes DEF Sound, SoundFor, Inv, PeopleInv
  <2>3. who \in Holder
    BY <2>2 DEF Holder, Living
  <2>5. Trusted' = Trusted /\ shown' = shown /\ Living' = Living
    BY <1>1 DEF history, Living, Trusted
  <2>6. SoundFor(result, Trusted', shown', Living', {}, spent.link)
    BY <2>1, <2>5 DEF Sound, SoundFor
  <2>7. /\ who \in (Trusted' \cap Living) \cup {Nobody}
        /\ proved' \subseteq Account /\ shown' \subseteq Text /\ mixed' \in BOOLEAN
    BY <1>1, <2>2, <2>5 DEF Inv, TypeOK, history
  <2> HIDE DEF who, result
  <2> QED BY <1>1, <1>3, <2>1, <2>3, <2>6, <2>7, OpenNextInv
<1> QED BY <1>2, <1>3 DEF Resume

LEMMA ExpelInv ==
    ASSUME Inv, Expel PROVE Inv'
BY Gone DEF Expel, Free

(***************************************************************************)
(* Everybody else.                                                         *)
(***************************************************************************)

LEMMA EditInv ==
    ASSUME Inv, NEW p \in Account, Edit(p) PROVE Inv'
<1>1. /\ MayFail /\ Spend("event")
      /\ UNCHANGED <<inter, job, signed, config, pending, acting, history>>
  BY DEF Edit
<1>2. PICK field \in {"approved", "member", "barred"} :
         account' = [account EXCEPT ![p][field] = ~@]
  BY DEF Edit
<1>3. /\ account' \in [Account -> User]
      /\ \A q \in Account : account'[q].live = account[q].live /\ account'[q].tos = account[q].tos
  <2>1. account \in [Account -> User]
    BY DEF Inv, TypeOK
  <2>2. account[p] \in User
    BY <2>1
  <2>3. CASE field = "approved"
    BY <1>2, <2>1, <2>2, <2>3 DEF User
  <2>4. CASE field = "member"
    BY <1>2, <2>1, <2>2, <2>4 DEF User
  <2>5. CASE field = "barred"
    BY <1>2, <2>1, <2>2, <2>5 DEF User
  <2> QED BY <2>3, <2>4, <2>5
<1>4. /\ spent' \in [uid : 0 .. MaxUid, flow : 0 .. MaxFlow, link : 0 .. MaxLink,
                     event : 0 .. MaxEvent]
      /\ spent'.uid = spent.uid /\ spent'.link = spent.link
  BY <1>1, SpendEvent DEF Inv
<1>5. TypeOK'
  BY <1>1, <1>3, <1>4 DEF Inv, TypeOK, config, pending, history
<1>6. Living' = Living
  BY <1>3 DEF Living
<1>7. Onward
  BY <1>1, <1>4, <1>6, InvTypes DEF Inv, pending, history, Onward, Trusted
<1>8. \A q \in Account : ~account'[q].live => account'[q].tos = NoText
  BY <1>3 DEF Inv, PeopleInv
<1>9. LinkInv' /\ PeopleInv'
  BY <1>1, <1>4, <1>5, <1>7, <1>8, LinkStays, PeopleGrow, InvTypes DEF Inv, pending
<1> QED BY <1>1, <1>5, <1>7, <1>9, OthersStep

LEMMA ChangeTextInv ==
    ASSUME Inv, ChangeText PROVE Inv'
<1>1. /\ MayFail /\ Spend("event") /\ text' \in Texts
      /\ UNCHANGED <<inter, job, people, policy, pending, acting, history>>
  BY DEF ChangeText
<1>2. /\ spent' \in [uid : 0 .. MaxUid, flow : 0 .. MaxFlow, link : 0 .. MaxLink,
                     event : 0 .. MaxEvent]
      /\ spent'.uid = spent.uid /\ spent'.link = spent.link
  BY <1>1, SpendEvent DEF Inv
<1>3. TypeOK'
  BY <1>1, <1>2 DEF Inv, TypeOK, people, pending, history
<1> QED BY <1>1, <1>2, <1>3, Elsewhere DEF pending

LEMMA ExpireChallengeInv ==
    ASSUME Inv, ExpireChallenge PROVE Inv'
<1>1. /\ MayFail /\ Spend("event") /\ challenge' = 0
      /\ UNCHANGED <<inter, job, people, config, flows, links, acting, history>>
  BY DEF ExpireChallenge
<1>2. /\ spent' \in [uid : 0 .. MaxUid, flow : 0 .. MaxFlow, link : 0 .. MaxLink,
                     event : 0 .. MaxEvent]
      /\ spent'.uid = spent.uid /\ spent'.link = spent.link
  BY <1>1, SpendEvent DEF Inv
<1>3. 0 \in 0 .. MaxUid
  BY Bounds
<1>4. TypeOK'
  BY <1>1, <1>2, <1>3 DEF Inv, TypeOK, people, config, history
<1> QED BY <1>1, <1>2, <1>4, Elsewhere

LEMMA SignOutInv ==
    ASSUME Inv, SignOut PROVE Inv'
<1>1. /\ MayFail /\ Spend("event") /\ job["browser"].step = "idle" /\ inter.uid = 0
      /\ signed' = Nobody /\ UNCHANGED <<inter, job, account, config, pending, acting, history>>
  BY DEF SignOut, Free
<1>2. /\ spent' \in [uid : 0 .. MaxUid, flow : 0 .. MaxFlow, link : 0 .. MaxLink,
                     event : 0 .. MaxEvent]
      /\ spent'.uid = spent.uid /\ spent'.link = spent.link
  BY <1>1, SpendEvent DEF Inv
<1>3. TypeOK'
  BY <1>1, <1>2 DEF Inv, TypeOK, config, pending, history, Holder
<1>4. inter' = NoInteraction /\ inter'.uid = 0 /\ spent.uid \in Nat
  BY <1>1, InvTypes DEF Inv, ChainInv
<1>5. ResultInv' /\ ChainInv'
  BY <1>2, <1>3, <1>4, NoInteractionInv
<1>6. \A j \in Task : job[j].step = "save" => job[j].uid \in 1 .. spent.uid
  BY DEF Inv, TaskInv, SaveInv
<1>7. TaskInv'
  BY <1>1, <1>2, <1>4, <1>6, CopiesStale
<1>8. BrowserInv' /\ PeopleInv' /\ LinkInv'
  BY <1>1, <1>2, <1>4, NullFields DEF BrowserInv, Inv, PeopleInv, LinkInv, pending
<1> QED BY <1>3, <1>5, <1>7, <1>8 DEF Inv

(***************************************************************************)
(* The theorems.                                                           *)
(***************************************************************************)

LEMMA NextInv ==
    ASSUME Inv, [Next]_vars PROVE Inv'
<1>1. ASSUME Upstreams PROVE Inv'
  BY <1>1, RedirectInv, RevisitInv, CallbackInv, ExchangeInv DEF Upstreams
<1>2. ASSUME Mail PROVE Inv'
  BY <1>2, SendLinkInv, OpenLinkInv, SaveLinkInv, CompleteInv DEF Mail
<1>3. ASSUME Login PROVE Inv'
  BY <1>3, ResolveInv, FinishInv, EnterUsernameInv, EnterAsGuestInv, PasskeyStartInv,
     PasskeyFinishInv, ActivateInv, ImpersonateInv, EndImpersonationInv DEF Login
<1>4. ASSUME Prompts PROVE Inv'
  BY <1>4, RecheckInv, ShowTosInv, ConfirmTosInv, AcceptInv, UpdateNameInv, ConsentInv,
     AbortInv DEF Prompts
<1>5. ASSUME Authorize \/ Resume \/ Expel PROVE Inv'
  BY <1>5, AuthorizeInv, ResumeInv, ExpelInv
<1>6. ASSUME Others PROVE Inv'
  BY <1>6, EditInv, ChangeTextInv, ExpireChallengeInv, SignOutInv DEF Others
<1>7. CASE UNCHANGED vars
  <2>1. TypeOK'
    BY <1>7 DEF Inv, TypeOK, vars, people, config, pending, history
  <2> QED BY <1>7, <2>1, Elsewhere DEF vars, pending
<1> QED BY <1>1, <1>2, <1>3, <1>4, <1>5, <1>6, <1>7 DEF Next

LEMMA Invariant == Spec => []Inv
<1>1. Init => Inv
  BY InitInv
<1>2. Inv /\ [Next]_vars => Inv'
  BY NextInv
<1> QED BY <1>1, <1>2, PTL DEF Spec

(* Whatever the persons, texts and bounds: every variable of the sign-in    *)
(* keeps its type, and without a session an interaction asks for a login    *)
(* and for nothing else.                                                   *)
THEOREM TypeCorrect == Spec => []TypeOK
<1>1. Inv => TypeOK
  BY DEF Inv
<1> QED BY <1>1, Invariant, PTL

(* Whatever the interleaving of pages, links opened elsewhere and edits:    *)
(* who is logged in was proved in the chain that logged them in, unless a   *)
(* link was asked for where the last submission had confirmed an address.   *)
THEOREM OnlyTheProved == Spec => []LoginProved
<1>1. ASSUME Inv, ~mixed PROVE Proven
  <2>1. Trusted = proved
    BY <1>1 DEF Trusted
  <2>2. {inter.result.login, inter.last.login, signed} \subseteq Trusted \cup {Nobody}
    BY <1>1 DEF Inv, ResultInv, ChainInv, PeopleInv, Sound, SoundFor
  <2> QED BY <2>1, <2>2 DEF Proven
<1>2. Inv => LoginProved
  BY <1>1 DEF LoginProved
<1> QED BY <1>2, Invariant, PTL

(* Only the acceptance of a text records one, and that one was shown. *)
LEMMA Recorded ==
    ASSUME Inv, [Next]_vars, NEW p \in Account, account'[p].tos # account[p].tos
    PROVE  account'[p].tos \in shown
<1>1. account \in [Account -> User]
  BY DEF Inv, TypeOK
<1>2. CASE Accept
  <2>1. /\ signed \in Account /\ job["browser"].copy.text \in shown
        /\ account' = [account EXCEPT ![signed].tos = job["browser"].copy.text]
    BY <1>2, AcceptIs
  <2>2. p # signed => account'[p] = account[p]
    BY <1>1, <2>1
  <2>3. account'[signed].tos = job["browser"].copy.text
    BY <1>1, <2>1 DEF User
  <2> QED BY <2>1, <2>2, <2>3
<1>3. CASE UpdateName
  BY <1>1, <1>3 DEF UpdateName, User
<1>4. ASSUME NEW q \in Account, Edit(q) PROVE FALSE
  <2>1. PICK field \in {"approved", "member", "barred"} :
           account' = [account EXCEPT ![q][field] = ~@]
    BY <1>4 DEF Edit
  <2> QED BY <1>1, <2>1 DEF User
<1>5. ASSUME NEW q \in Account, NEW lack \in Lacks, ~account[q].live, account' = Created(q, lack)
      PROVE  FALSE
  BY <1>5, CreatedIs DEF Inv
<1>6. CASE Resolve
  <2>1. job["browser"].who \in Account
    BY <1>6, InvTypes DEF Resolve, Inv, BrowserInv
  <2> QED BY <1>5, <1>6, <2>1 DEF Resolve
<1>7. CASE EnterUsername
  <2>1. Stashed(inter.last) \in Account
    <3>1. inter.last \in Facts /\ Stashed(inter.last) # Nobody
      BY <1>7, InvTypes DEF EnterUsername, Inv
    <3> QED BY <3>1 DEF Stashed, Facts, Somebody, Account
  <2> QED BY <1>5, <1>7, <2>1 DEF EnterUsername
<1>g. CASE EnterAsGuest
  BY <1>5, <1>g, Bounds DEF EnterAsGuest
<1>8. CASE UNCHANGED account
  BY <1>8
<1>9. ASSUME Upstreams PROVE UNCHANGED account
  BY <1>9 DEF Upstreams, Redirect, Revisit, Callback, Exchange, people
<1>10. ASSUME Mail PROVE UNCHANGED account
  BY <1>10 DEF Mail, SendLink, OpenLink, SaveLink, Complete, people
<1>11. ASSUME Login PROVE Resolve \/ EnterUsername \/ EnterAsGuest \/ UNCHANGED account
  BY <1>11 DEF Login, Finish, PasskeyStart, PasskeyFinish, Activate, Impersonate,
     EndImpersonation, people
<1>12. ASSUME Prompts PROVE Accept \/ UpdateName \/ UNCHANGED account
  BY <1>12 DEF Prompts, Recheck, ShowTos, ConfirmTos, Consent, Abort, people
<1>13. ASSUME Authorize \/ Resume \/ Expel PROVE UNCHANGED account
  BY <1>13 DEF Authorize, Resume, Expel, people
<1>14. ASSUME Others PROVE (\E q \in Account : Edit(q)) \/ UNCHANGED account
  BY <1>14 DEF Others, ChangeText, ExpireChallenge, SignOut, people
<1> QED BY <1>2, <1>3, <1>4, <1>6, <1>7, <1>g, <1>8, <1>9, <1>10, <1>11, <1>12, <1>13, <1>14
        DEF Next, vars, people

(* Whatever the texts configured meanwhile: an acceptance is recorded only  *)
(* for a text the chain has shown.                                          *)
THEOREM AcceptedShown == Spec => TosShown
<1>1. Inv /\ [Next]_vars =>
        [\A p \in Account : account'[p].tos # account[p].tos => account'[p].tos \in shown]_vars
  BY Recorded
<1> QED BY <1>1, Invariant, PTL DEF Spec, TosShown

=============================================================================
