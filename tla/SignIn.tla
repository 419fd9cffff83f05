------------------------------- MODULE SignIn -------------------------------
(***************************************************************************)
(* One browser's sign-in to one client: the chain of interactions that     *)
(* oidc-provider opens, one prompt each, and the handlers that answer the  *)
(* prompts.  What the chain has learnt is the result of the interaction,   *)
(* handed on as the lastSubmission of the next.  The browser makes one     *)
(* request at a time; an e-mailed link may be opened on other devices      *)
(* meanwhile, and administrators edit accounts and the Terms of Service.   *)
(***************************************************************************)
EXTENDS Naturals, FiniteSets

CONSTANTS
    Person,   \* also a person's mailbox, upstream identity, passkey, account
    Nobody,
    Guest,    \* a user of no address and no identity
    Text,     \* versions of the Terms of Service
    NoText,   \* none is configured
    Policy,   \* how a deployment may name a new user, "closed" for not at all
    Device,   \* where else a link may be opened
    MaxUid,   \* interactions
    MaxFlow,  \* redirects to an upstream
    MaxLink,  \* links sent
    MaxEvent  \* edits by others, failures, sign-outs

(* A name asked for, or one made up or taken from the upstream. *)
UsernameSource == {"prompt", "generate"}

ASSUME SignInAssumption ==
    /\ Nobody \notin Person /\ Guest \notin Person \cup {Nobody} /\ NoText \notin Text /\ "browser" \notin Device
    /\ Policy \subseteq UsernameSource \cup {"closed"}
    /\ {MaxUid, MaxFlow, MaxLink, MaxEvent} \subseteq Nat

VARIABLES
    inter,     \* the interaction of the browser's cookie
    job,       \* the handlers in flight
    account,   \* the OIDCUsers, as the policy checks see them
    signed,    \* whose session the browser has
    text,      \* the Terms of Service configured
    policy,    \* ENROLL_USERS and USERNAME_SOURCE
    flows,     \* the redirects to upstreams that may still come back to inter
    links,     \* the links delivered that find inter
    challenge, \* the interaction that has a passkey challenge
    acting,    \* whom an activated impersonation cookie names
    spent,     \* what the bounds count
    \* History.
    proved,    \* who has been proved to sit at the browser
    shown,     \* the texts this chain has shown
    mixed      \* a link was asked for where the last submission had confirmed
               \* an address

people == <<account, signed>>
config == <<text, policy>>
pending == <<flows, links, challenge>>
history == <<proved, shown, mixed>>
vars == <<inter, job, people, config, pending, acting, spent, history>>

Account == Person \cup {Guest}
Somebody == Person \cup {Nobody}
Holder == Account \cup {Nobody}
Texts == Text \cup {NoText}
Upstream == {"github", "oidc"}

(* The interaction result: what each handler may put there. *)
Facts == [state : 0 .. MaxFlow, github : Somebody, oidc : Somebody, mail : Somebody,
          token : 0 .. MaxLink, sure : BOOLEAN, ask : BOOLEAN, text : Texts,
          login : Holder, consent : BOOLEAN, error : BOOLEAN]
Blank == [state |-> 0, github |-> Nobody, oidc |-> Nobody, mail |-> Nobody, token |-> 0,
          sure |-> FALSE, ask |-> FALSE, text |-> NoText, login |-> Nobody,
          consent |-> FALSE, error |-> FALSE]
Denied == [Blank EXCEPT !.error = TRUE]

Interaction == [uid : 0 .. MaxUid, prompt : {"none", "login", "approval_required", "name",
                "tos", "groups_required", "consent"}, result : Facts, last : Facts,
                done : BOOLEAN]
NoInteraction == [uid |-> 0, prompt |-> "none", result |-> Blank, last |-> Blank,
                  done |-> FALSE]

User == [live : BOOLEAN, barred : BOOLEAN, approved : BOOLEAN, named : BOOLEAN,
         member : BOOLEAN, tos : Texts]
Absent == [live |-> FALSE, barred |-> FALSE, approved |-> FALSE, named |-> FALSE,
           member |-> FALSE, tos |-> NoText]
Full == [live |-> TRUE, barred |-> FALSE, approved |-> TRUE, named |-> TRUE,
         member |-> TRUE, tos |-> NoText]

Task == Device \cup {"browser"}
Job == [step : {"idle", "exchange", "resolve", "finish", "save", "accept"},
        kind : Upstream \cup {"link", "passkey", "acting"}, who : Holder, at : Holder,
        uid : 0 .. MaxUid, copy : Facts]
Idle == [step |-> "idle", kind |-> "link", who |-> Nobody, at |-> Nobody, uid |-> 0,
         copy |-> Blank]

Init ==
    /\ inter = NoInteraction /\ job = [j \in Task |-> Idle]
    /\ \E known \in SUBSET Person :
          account = [p \in Account |-> IF p \in known THEN Full ELSE Absent]
    /\ signed = Nobody /\ text \in Texts /\ policy \in Policy
    /\ flows = {} /\ links = {} /\ challenge = 0 /\ acting = Nobody
    /\ spent = [uid |-> 0, flow |-> 0, link |-> 0, event |-> 0]
    /\ proved = {} /\ shown = {} /\ mixed = FALSE

(***************************************************************************)
(* interactionResult: merged with the lastSubmission unless it replaces.   *)
(***************************************************************************)

Merge(new, old) == [f \in DOMAIN Blank |-> IF new[f] = Blank[f] THEN old[f] ELSE new[f]]

Merged(new) == IF new.error THEN new ELSE Merge(new, inter.last)

Put(result, done) == inter' = [inter EXCEPT !.result = result, !.done = done]
Store(new) == Put(Merged(new), inter.done)
Finished(new) == Put(Merged(new), TRUE)
AccessDenied == Put(Denied, TRUE)

Free == job["browser"].step = "idle"
Barred(p) == p # Nobody /\ account[p].barred

(* The browser is at a page, not on its way to the next: some routes then   *)
(* take any prompt, others assert theirs.                                   *)
Here == Free /\ inter.uid # 0 /\ ~inter.done /\ ~Barred(signed)
At(prompt) == Here /\ inter.prompt = prompt

Busy(j, step, kind, who, at, copy) ==
    job' = [job EXCEPT ![j] = [step |-> step, kind |-> kind, who |-> who, at |-> at,
                               uid |-> inter.uid, copy |-> copy]]
Rest(j) == job' = [job EXCEPT ![j] = Idle]
Spend(what) == spent' = [spent EXCEPT ![what] = @ + 1]
MayFail == spent.event < MaxEvent
Prove(p) == proved' = proved \cup {p}

(***************************************************************************)
(* GitHub and the OIDC upstreams: redirect, callback, link and finish.     *)
(***************************************************************************)

(* An upstream whose answer the last submission holds is not asked again. *)
Remembered(kind) == At("login") /\ inter.last[kind] # Nobody
Unknown(kind) == At("login") /\ inter.last[kind] = Nobody

Revisit(kind) ==
    /\ Remembered(kind)
    /\ Busy("browser", "resolve", kind, inter.last[kind], Nobody, Blank)
    /\ UNCHANGED <<inter, people, config, pending, acting, spent, history>>

Redirect(kind) ==
    /\ Unknown(kind) /\ spent.flow < MaxFlow
    /\ Store([Blank EXCEPT !.state = spent.flow + 1])
    /\ flows' = flows \cup {[uid |-> inter.uid, state |-> spent.flow + 1, kind |-> kind]}
    /\ Spend("flow")
    /\ UNCHANGED <<job, people, config, links, challenge, acting, history>>

(* The person p signed in at the upstream, or its callback does not match. *)
Callback(flow, p) ==
    /\ Unknown(flow.kind) /\ flow.uid = inter.uid
    /\ flows' = flows \ {flow}
    /\ IF inter.result.state # flow.state
         THEN AccessDenied /\ UNCHANGED job
         ELSE Busy("browser", "exchange", flow.kind, p, Nobody, Blank) /\ UNCHANGED inter
    /\ UNCHANGED <<people, config, links, challenge, acting, spent, history>>

(* The token or the profile is not had, the profile has no address, or one  *)
(* the upstream says is not verified.                                       *)
ExchangeFails ==
    /\ MayFail /\ Spend("event")
    /\ AccessDenied /\ Rest("browser") /\ UNCHANGED proved

(* The code is exchanged and the identity stashed. *)
Exchange ==
    LET j == job["browser"] IN
    /\ j.step = "exchange"
    /\ \/ /\ Store([Blank EXCEPT ![j.kind] = j.who])
          /\ Busy("browser", "resolve", j.kind, j.who, Nobody, Blank)
          /\ Prove(j.who) /\ UNCHANGED spent
       \/ ExchangeFails
    /\ UNCHANGED <<people, config, pending, acting, shown, mixed>>

(***************************************************************************)
(* E-mail links.                                                           *)
(***************************************************************************)

(* The message is delivered, with the link. *)
Sent(a) == links' = links \cup {[uid |-> inter.uid, token |-> spent.link + 1, to |-> a]}

(* The token is stored before the message is sent, which may fail.  What   *)
(* the last submission says of another address stays beside the new one.   *)
SendLink(a) ==
    /\ Here
    /\ \/ /\ policy # "closed" \/ account[a].live
          /\ spent.link < MaxLink /\ Spend("link")
          /\ Store([Blank EXCEPT !.mail = a, !.token = spent.link + 1])
          /\ Sent(a) /\ mixed' = (mixed \/ inter.last.sure)
       \/ /\ policy = "closed" /\ ~account[a].live
          /\ AccessDenied /\ UNCHANGED <<links, spent, mixed>>
       \/ /\ MayFail /\ Spend("event")
          /\ AccessDenied /\ UNCHANGED <<links, mixed>>
    /\ UNCHANGED <<job, people, config, flows, challenge, acting, proved, shown>>

(* Mutant: any link of the interaction confirms the address asked for last. *)
OpensAny(link) == link.uid = inter.uid /\ inter.result.token # 0
Opens(link) == link.uid = inter.uid /\ inter.result.token = link.token

(* verifyLink finds the interaction by the uid of the link ... *)
OpenLink(j, link) ==
    /\ job[j] = Idle /\ Opens(link)
    /\ j = "browser" => Here
    /\ Busy(j, "save", "link", link.to, Nobody, [inter.result EXCEPT !.sure = TRUE])
    /\ Prove(link.to)
    /\ UNCHANGED <<inter, people, config, pending, acting, spent, shown, mixed>>

(* ... and saves the copy it read, whatever the browser stored meanwhile, be *)
(* it the result it is to be resumed with.  An interaction that was resumed  *)
(* is gone.  The browser itself goes on.                                     *)
SaveLink(j) ==
    /\ job[j].step = "save"
    /\ IF inter.uid = job[j].uid THEN Put(job[j].copy, inter.done) ELSE UNCHANGED inter
    /\ IF j = "browser"
         THEN Busy(j, "resolve", "link", job[j].copy.mail, Nobody, Blank)
         ELSE Rest(j)
    /\ UNCHANGED <<people, config, pending, acting, spent, history>>

(* The page that polls email-status sees the address verified. *)
Complete ==
    /\ Here /\ inter.result.sure
    /\ Busy("browser", "resolve", "link", inter.result.mail, Nobody, Blank)
    /\ UNCHANGED <<inter, people, config, pending, acting, spent, history>>

(***************************************************************************)
(* The account is determined (module Accounts) and the login recorded.     *)
(***************************************************************************)

(* What the upstream or the form does not bring a new user. *)
Lacks == {"none", "approved", "named", "member"}
Created(p, lack) ==
    [account EXCEPT ![p] = IF lack = "none" THEN Full ELSE [Full EXCEPT ![lack] = FALSE]]

Resolve ==
    LET j == job["browser"]
        Goes(at) == Busy("browser", "finish", j.kind, j.who, at, Blank)
    IN
    /\ j.step = "resolve"
    /\ \/ /\ account[j.who].live
          /\ Goes(j.who) /\ UNCHANGED <<inter, account, spent>>
       \/ /\ ~account[j.who].live /\ policy = "generate"
          /\ \E lack \in Lacks : account' = Created(j.who, lack)
          /\ Goes(j.who) /\ UNCHANGED <<inter, spent>>
       \/ /\ ~account[j.who].live /\ policy = "prompt"
          /\ Store(Merge(inter.result, [Blank EXCEPT !.ask = TRUE]))
          /\ Goes(Nobody) /\ UNCHANGED <<account, spent>>
       \/ /\ ~account[j.who].live /\ policy = "closed"
          /\ Goes(Nobody) /\ UNCHANGED <<inter, account, spent>>
       \/ /\ MayFail /\ Spend("event") \* refused, in conflict, no e-mails had
          /\ Put(Denied, inter.done) \/ UNCHANGED inter
          /\ Goes(Nobody) /\ UNCHANGED account
    /\ UNCHANGED <<signed, config, pending, acting, history>>

LoginResult(at) ==
    CASE at # Nobody /\ ~account[at].barred -> [Blank EXCEPT !.login = at]
      [] at = Nobody /\ inter.result.ask /\ ~inter.result.error -> inter.result
      [] OTHER -> Denied

(* The upstream logins replace what the interaction had. *)
Finish ==
    LET j == job["browser"] IN
    /\ j.step = "finish"
    /\ IF j.kind \in Upstream THEN Put(LoginResult(j.at), TRUE) ELSE Finished(LoginResult(j.at))
    /\ Rest("browser")
    /\ UNCHANGED <<people, config, pending, acting, spent, history>>

(* Mutant: the address comes before the identities. *)
StashedMail(facts) ==
    IF facts.mail # Nobody THEN facts.mail
    ELSE IF facts.github # Nobody THEN facts.github ELSE facts.oidc
(* Whom the last submission speaks of. *)
Stashed(facts) ==
    IF facts.github # Nobody THEN facts.github
    ELSE IF facts.oidc # Nobody THEN facts.oidc ELSE facts.mail

(* The form takes any interaction that asks for a login.  It creates the   *)
(* user and goes on with the login of the upstream, or logs the user in.   *)
(* One that repeats the address of another stands for that other here; a   *)
(* name that is taken renders the form again.                              *)
EnterUsername ==
    LET p == Stashed(inter.last) IN
    /\ At("login") /\ p # Nobody
    /\ IF account[p].live THEN UNCHANGED account
       ELSE \E lack \in Lacks : account' = Created(p, lack)
    /\ \/ /\ inter.last.github # Nobody
          /\ Busy("browser", "resolve", "github", p, Nobody, Blank) /\ UNCHANGED inter
       \/ /\ inter.last.github = Nobody /\ inter.last.oidc # Nobody
          /\ Busy("browser", "resolve", "oidc", p, Nobody, Blank) /\ UNCHANGED inter
       \/ /\ inter.last.github = Nobody /\ inter.last.oidc = Nobody
          /\ Finished([Blank EXCEPT !.login = p]) /\ UNCHANGED job
    /\ UNCHANGED <<signed, config, pending, acting, spent, history>>

(* Where the last submission speaks of nobody the new user has no address  *)
(* and no identity, and is whose the browser is.  One is made at most.     *)
EnterAsGuest ==
    /\ At("login") /\ Stashed(inter.last) = Nobody /\ ~account[Guest].live
    /\ \E lack \in Lacks : account' = Created(Guest, lack)
    /\ Finished([Blank EXCEPT !.login = Guest]) /\ Prove(Guest)
    /\ UNCHANGED <<job, signed, config, pending, acting, spent, shown, mixed>>

(***************************************************************************)
(* Passkeys and impersonation.                                             *)
(***************************************************************************)

PasskeyStart ==
    /\ At("login") /\ challenge # inter.uid
    /\ challenge' = inter.uid
    /\ UNCHANGED <<inter, job, people, config, flows, links, acting, spent, history>>

(* The response answers the challenge kept for the interaction, which is   *)
(* then removed.  One that does not changes nothing.                       *)
Answered(p) == challenge = inter.uid /\ account[p].live /\ challenge' = 0

PasskeyFinish(p) ==
    /\ At("login") /\ Answered(p) /\ Prove(p)
    /\ Busy("browser", "finish", "passkey", p, p, Blank)
    /\ UNCHANGED <<inter, people, config, flows, links, acting, spent, shown, mixed>>

(* The cookie names an impersonation that was activated. *)
Impersonating == acting # Nobody

(* The administrator who made the link answers for who sits there. *)
Impersonate ==
    /\ Here /\ Impersonating
    /\ Prove(acting)
    /\ Busy("browser", "finish", "acting", acting,
            IF account[acting].live THEN acting ELSE Nobody, Blank)
    /\ UNCHANGED <<inter, people, config, pending, acting, spent, shown, mixed>>

(* An administrator may have a link made for p. *)
Offered(p) == account[p].live /\ ~account[p].barred

(* The browser that opens it gets the cookie. *)
Activated(p) == Offered(p) /\ acting' = p

(* The link wants a browser without cookies. *)
Activate(p) ==
    /\ MayFail /\ Spend("event") /\ Free /\ inter.uid = 0 /\ signed = Nobody
    /\ Activated(p)
    /\ UNCHANGED <<inter, job, people, config, pending, history>>

(* The result is the option itself, merged: the chain knows nothing new. *)
EndImpersonation ==
    /\ Here /\ Impersonating
    /\ acting' = Nobody /\ Finished(Blank)
    /\ UNCHANGED <<job, people, config, pending, spent, history>>

(***************************************************************************)
(* The prompts after the login.                                            *)
(***************************************************************************)

TosRequired(p) == text # NoText /\ account[p].tos # text

(* The interaction page finds its condition met since. *)
Recheck ==
    /\ \/ At("approval_required") /\ account[signed].approved
       \/ At("groups_required") /\ account[signed].member
       \/ At("tos") /\ text = NoText
    /\ Finished(Blank)
    /\ UNCHANGED <<job, people, config, pending, acting, spent, history>>

(* The page names the text it renders. *)
Render ==
    /\ Store([Blank EXCEPT !.text = text])
    /\ shown' = shown \cup {text}
ShowTos ==
    /\ At("tos") /\ text # NoText /\ Render
    /\ UNCHANGED <<job, people, config, pending, acting, spent, proved, mixed>>

(* Accepting compares the text the page named with the one configured now. *)
ConfirmTos ==
    /\ At("tos") /\ inter.result.text # NoText
    /\ \/ /\ text = NoText
          /\ Finished(Blank) /\ UNCHANGED <<job, shown>>
       \/ /\ text \notin {NoText, inter.result.text}
          /\ Render /\ UNCHANGED job
       \/ /\ text = inter.result.text
          /\ Busy("browser", "accept", "link", signed, Nobody, inter.result)
          /\ UNCHANGED <<inter, shown>>
    /\ UNCHANGED <<people, config, pending, acting, spent, proved, mixed>>

(* Mutant: the text configured by now is recorded. *)
AcceptCurrent(j) == text
Accepted(j) == j.copy.text

Accept ==
    LET j == job["browser"] IN
    /\ j.step = "accept"
    /\ account' = [account EXCEPT ![j.who].tos = Accepted(j)]
    /\ Finished(Blank) /\ Rest("browser")
    /\ UNCHANGED <<signed, config, pending, acting, spent, history>>

(* The status that shows the name may not be written. *)
UpdateName ==
    /\ At("name")
    /\ \/ account' = [account EXCEPT ![signed].named = TRUE] /\ UNCHANGED spent
       \/ MayFail /\ Spend("event") /\ UNCHANGED account
    /\ Finished(Blank)
    /\ UNCHANGED <<job, signed, config, pending, acting, history>>

(* The grant and the site session are module Sessions. *)
Consent ==
    /\ At("consent")
    /\ Finished([Blank EXCEPT !.consent = TRUE])
    /\ UNCHANGED <<job, people, config, pending, acting, spent, history>>

Abort ==
    /\ Here /\ AccessDenied
    /\ UNCHANGED <<job, people, config, pending, acting, spent, history>>

(***************************************************************************)
(* The authorization endpoint: its policy opens the next interaction.      *)
(***************************************************************************)

(* The first check of the policy that fails ... *)
Due(p, facts) ==
    IF p = Nobody THEN "login"
    ELSE IF ~account[p].approved THEN "approval_required"
    ELSE IF ~account[p].named THEN "name"
    ELSE IF TosRequired(p) THEN "tos"
    ELSE IF ~account[p].member THEN "groups_required"
    ELSE IF ~facts.consent THEN "consent" ELSE "none"

(* ... unless the login prompt of base() comes before it, as the request's *)
(* prompt, max_age or id_token_hint may have it.                           *)
NextPrompt(p, facts) == {Due(p, facts), "login"}

(* What is bound to an interaction that is gone finds it no more. *)
Close == flows' = {} /\ links' = {} /\ challenge' = 0

OpenNext(p, facts) ==
    /\ Close
    /\ \E prompt \in NextPrompt(p, facts) :
          IF prompt = "none" THEN inter' = NoInteraction /\ UNCHANGED spent
          ELSE /\ spent.uid < MaxUid /\ Spend("uid")
               /\ inter' = [uid |-> spent.uid + 1, prompt |-> prompt,
                            result |-> Blank, last |-> facts, done |-> FALSE]

Authorize ==
    /\ Free /\ inter.uid = 0 /\ ~Barred(signed)
    /\ OpenNext(signed, Blank)
    /\ proved' = {signed} \ {Nobody} /\ shown' = {} /\ mixed' = FALSE
    /\ UNCHANGED <<job, people, config, acting>>

(* The browser follows the redirect of interactionFinished. An error goes  *)
(* to the client, and authorization.error ends the session.                *)
Resume ==
    LET result == inter.result
        who == IF result.login # Nobody THEN result.login ELSE signed
    IN
    /\ Free /\ inter.done /\ ~Barred(signed)
    /\ \/ /\ result.error
          /\ inter' = NoInteraction /\ signed' = Nobody /\ Close /\ UNCHANGED spent
       \/ /\ ~result.error
          /\ OpenNext(who, result) /\ signed' = who
    /\ UNCHANGED <<job, account, config, acting, history>>

(* Mutant: the session alone ends. *)
ExpelSession ==
    /\ Free /\ Barred(signed)
    /\ signed' = Nobody
    /\ UNCHANGED <<inter, job, account, config, pending, acting, spent, history>>

(* Any request of an account that may not sign in any more ends its        *)
(* session, and with it the interaction.                                   *)
Expel ==
    /\ Free /\ Barred(signed)
    /\ signed' = Nobody /\ inter' = NoInteraction /\ Close
    /\ UNCHANGED <<job, account, config, acting, spent, history>>

(***************************************************************************)
(* Everybody else.                                                         *)
(***************************************************************************)

Edit(p) ==
    /\ MayFail /\ Spend("event") /\ account[p].live
    /\ \E field \in {"approved", "member", "barred"} :
          account' = [account EXCEPT ![p][field] = ~@]
    /\ UNCHANGED <<inter, job, signed, config, pending, acting, history>>

ChangeText ==
    /\ MayFail /\ Spend("event")
    /\ text' \in Texts \ {text}
    /\ UNCHANGED <<inter, job, people, policy, pending, acting, history>>

ExpireChallenge ==
    /\ MayFail /\ Spend("event") /\ challenge # 0 /\ challenge' = 0
    /\ UNCHANGED <<inter, job, people, config, flows, links, acting, history>>

SignOut ==
    /\ MayFail /\ Spend("event") /\ Free /\ inter.uid = 0 /\ signed # Nobody
    /\ signed' = Nobody
    /\ UNCHANGED <<inter, job, account, config, pending, acting, history>>

Others == (\E p \in Account : Edit(p)) \/ ChangeText \/ ExpireChallenge \/ SignOut

Upstreams ==
    \/ \E kind \in Upstream : Redirect(kind) \/ Revisit(kind)
    \/ \E flow \in flows, p \in Person : Callback(flow, p)
    \/ Exchange
Mail ==
    \/ \E a \in Person : SendLink(a)
    \/ \E j \in Task, link \in links : OpenLink(j, link)
    \/ \E j \in Task : SaveLink(j)
    \/ Complete
Login ==
    \/ Resolve \/ Finish \/ EnterUsername \/ EnterAsGuest
    \/ PasskeyStart \/ (\E p \in Account : PasskeyFinish(p))
    \/ (\E p \in Account : Activate(p)) \/ Impersonate \/ EndImpersonation
Prompts ==
    Recheck \/ ShowTos \/ ConfirmTos \/ Accept \/ UpdateName \/ Consent \/ Abort

Next == Upstreams \/ Mail \/ Login \/ Prompts \/ Authorize \/ Resume \/ Expel \/ Others

Spec == Init /\ [][Next]_vars

(***************************************************************************)
(* Properties.                                                             *)
(***************************************************************************)

(* Types; and without a session an interaction asks for a login and for    *)
(* nothing else (interactionDetails checks the session it was opened with). *)
TypeOK ==
    /\ inter \in Interaction /\ job \in [Task -> Job] /\ account \in [Account -> User]
    /\ signed \in Holder /\ text \in Texts /\ acting \in Holder
    /\ policy \in Policy
    /\ flows \subseteq [uid : 1 .. MaxUid, state : 1 .. MaxFlow, kind : Upstream]
    /\ links \subseteq [uid : 1 .. MaxUid, token : 1 .. MaxLink, to : Person]
    /\ challenge \in 0 .. MaxUid
    /\ proved \subseteq Account /\ shown \subseteq Text /\ mixed \in BOOLEAN
    /\ spent \in [uid : 0 .. MaxUid, flow : 0 .. MaxFlow, link : 0 .. MaxLink,
                  event : 0 .. MaxEvent]
    /\ inter.uid # 0 /\ signed = Nobody => inter.prompt = "login"

Proven == {inter.result.login, inter.last.login, signed} \subseteq proved \cup {Nobody}

(* verifyLink, completeLogin, enter-username and the upstream callbacks:   *)
(* through every merge, replacement and stale save of the interaction      *)
(* result, the account that is logged in is one whose owner was proved in  *)
(* this chain, unless a link was asked for where the last submission had   *)
(* already confirmed an address.                                           *)
LoginProved == ~mixed => Proven

(* confirmTos: an acceptance is only ever recorded for a text this chain   *)
(* rendered, however the configured text changes around it.                *)
TosShown ==
    [][\A p \in Account : account'[p].tos # account[p].tos => account'[p].tos \in shown]_vars
=============================================================================
