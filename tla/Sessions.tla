------------------------------ MODULE Sessions ------------------------------
(***************************************************************************)
(* The sessions of one account: oidc-provider's base session, whose id     *)
(* every resume of a chain with a login replaces, and the site session of  *)
(* each forward-auth client and of the dashboard, which refers to the base *)
(* session by that id.  Tabs of one or two browsers authorize, sign in     *)
(* again, and end any session of the account from the dashboard.           *)
(***************************************************************************)
EXTENDS Naturals, FiniteSets

CONSTANTS
    Tab, Browser,
    App,     \* forward-auth clients
    MaxSid,  \* ids of base sessions
    MaxSite, \* site sessions
    MaxEvent \* sessions ended or expired, restarts

ASSUME SessionsAssumption == {MaxSid, MaxSite, MaxEvent} \subseteq Nat

VARIABLES
    home,    \* the browser of a tab
    session, \* Session:<id>
    listed,  \* AccountSession:<account>
    site,    \* SiteSession:<id>, all of them in AccountSiteSession:<account>
    browser, \* the cookies: the session and each app's site session
    job,     \* each tab's chain of interactions and request in flight
    moves,   \* updateSessionReference, started by session.saved
    dead,    \* cleanupSessions: ids it is about to take off the list
    spent,   \* what the bounds count
    \* History.
    ended,   \* sessions a user ended, named by their uid
    bound,   \* the uid each site session was bound to
    crossed  \* requests that replace or end a session overlapped

vars == <<home, session, listed, site, browser, job, moves, dead, spent, ended, bound, crossed>>

Sid == 1 .. MaxSid
Site == 1 .. MaxSite
None == 0

(* A session keeps its uid when its id is replaced. *)
Session == [live : BOOLEAN, uid : 0 .. MaxSid, apps : SUBSET App]
NoSession == [live |-> FALSE, uid |-> None, apps |-> {}]

(* A site session without a sid awaits the resume that binds it. *)
NoSite == [live |-> FALSE, sid |-> None]

(* uid: the session the interaction was opened in, as the interaction has   *)
(* it.  login, site: what the result of the chain has.  old, sid, apps: the *)
(* copy of the session a resume works on.                                   *)
NoJob == [step |-> "idle", app |-> None, uid |-> None, login |-> FALSE,
          site |-> None, old |-> None, sid |-> None, apps |-> {}, next |-> "idle"]

Live(s) == s # None /\ session[s].live
Mine(t) == browser[home[t]].sid
UidOf(s) == IF Live(s) THEN session[s].uid ELSE None

Init ==
    /\ home \in [Tab -> Browser]
    /\ session = [s \in Sid |-> NoSession] /\ listed = {}
    /\ site = [k \in Site |-> NoSite]
    /\ browser = [b \in Browser |-> [sid |-> None, cookie |-> [a \in App |-> None]]]
    /\ job = [t \in Tab |-> NoJob]
    /\ moves = {} /\ dead = {}
    /\ spent = [sid |-> 0, site |-> 0, event |-> 0]
    /\ ended = {} /\ bound = [k \in Site |-> None] /\ crossed = FALSE

(***************************************************************************)
(* Whether the browser is signed in to an app.                             *)
(***************************************************************************)

(* The site session that an app's cookie names. *)
SiteCookie(b, a) == browser[b].cookie[a]

(* Mutant: the site session alone decides. *)
AdmitsSite(b, a) ==
    LET k == SiteCookie(b, a) IN k # None /\ site[k].live

Admits(b, a) ==
    LET k == SiteCookie(b, a) IN
    /\ k # None /\ site[k].live
    /\ site[k].sid # None =>
         Live(site[k].sid) /\ (a \in session[site[k].sid].apps \/ session[site[k].sid].apps = {})

(***************************************************************************)
(* The authorization endpoint.                                             *)
(***************************************************************************)

Open(t, step, a, uid, login) ==
    job' = [job EXCEPT ![t] = [NoJob EXCEPT !.step = step, !.app = a, !.uid = uid,
                                            !.login = login]]

(* A client may ask for a fresh login.  A request that needs neither a login *)
(* nor a consent gets its code at once.                                      *)
Authorize(t, a, fresh) ==
    /\ job[t].step = "idle"
    /\ \/ /\ ~Live(Mine(t)) \/ fresh
          /\ Open(t, "login", a, UidOf(Mine(t)), FALSE)
       \/ /\ Live(Mine(t)) /\ ~fresh
          /\ ~Admits(home[t], a) \/ a \notin session[Mine(t)].apps
          /\ Open(t, "consent", a, UidOf(Mine(t)), FALSE)
    /\ UNCHANGED <<home, session, listed, site, browser, moves, dead, spent, ended, bound, crossed>>

(* The login prompt is answered (module SignIn). *)
LogIn(t) ==
    /\ job[t].step = "login"
    /\ job' = [job EXCEPT ![t].step = "resume", ![t].login = TRUE]
    /\ UNCHANGED <<home, session, listed, site, browser, moves, dead, spent, ended, bound, crossed>>

(* The interaction finds its session by uid, or fails. *)
Found(uid) == uid = None \/ \E s \in Sid : session[s].live /\ session[s].uid = uid

(* The consent is given at once, with a new site session that has no base   *)
(* session: the interaction does not name the id of its session.            *)
Consent(t) ==
    LET k == spent.site + 1 IN
    /\ job[t].step = "consent"
    /\ \/ /\ ~Found(job[t].uid)
          /\ job' = [job EXCEPT ![t] = NoJob] /\ UNCHANGED <<site, browser, spent>>
       \/ /\ Found(job[t].uid) /\ k <= MaxSite
          /\ site' = [site EXCEPT ![k] = [live |-> TRUE, sid |-> None]]
          /\ browser' = [browser EXCEPT ![home[t]].cookie[job[t].app] = k]
          /\ job' = [job EXCEPT ![t].step = "resume", ![t].site = k]
          /\ spent' = [spent EXCEPT !.site = k]
    /\ UNCHANGED <<home, session, listed, moves, dead, ended, bound, crossed>>

(***************************************************************************)
(* Resume: the session is read, its copy changed and saved at the end.     *)
(***************************************************************************)

(* The resume belongs to the session its interaction was opened in. *)
SameSession(t) == job[t].uid = None \/ UidOf(Mine(t)) = job[t].uid

(* Handlers at work on a session, between the read and the write. *)
Touching(uid) ==
    \/ \E t \in Tab : /\ job[t].step \in {"destroy", "save", "end"}
                      /\ uid \in {job[t].uid, UidOf(job[t].sid)}
    \/ \E m \in moves : UidOf(m.to) = uid

(* The id that siteSessionCookieCheck writes to the site session is the one  *)
(* the session has from now on.                                              *)
Bind(k, sid, uid) ==
    IF k = None THEN UNCHANGED <<site, bound>>
    ELSE site' = [site EXCEPT ![k] = [live |-> TRUE, sid |-> sid]]
         /\ bound' = [bound EXCEPT ![k] = uid]

(* A login gives the session a new id.  The site session's own check reads  *)
(* what Redis still has, the consent check what the copy has.               *)
Rotate(t) ==
    LET j == job[t]
        new == spent.sid + 1
        sid == IF j.login THEN new ELSE Mine(t)
        uid == IF Live(Mine(t)) THEN UidOf(Mine(t)) ELSE sid
        had == IF Live(Mine(t)) THEN session[Mine(t)].apps ELSE {}
        apps == had \cup (IF j.site = None THEN {} ELSE {j.app})
        done == j.app \in apps /\ Admits(home[t], j.app)
    IN
    /\ j.login => new <= MaxSid
    /\ spent' = IF j.login THEN [spent EXCEPT !.sid = new] ELSE spent
    /\ job' = [job EXCEPT ![t] =
                 [j EXCEPT !.step = IF j.login /\ Live(Mine(t)) THEN "destroy" ELSE "save",
                           !.old = IF j.login /\ Live(Mine(t)) THEN Mine(t) ELSE None,
                           !.sid = sid, !.uid = uid, !.apps = apps,
                           !.next = IF done THEN "idle" ELSE "consent"]]
    /\ Bind(IF done THEN j.site ELSE None, sid, uid)
    /\ crossed' = (crossed \/ Touching(uid))

Resume(t) ==
    /\ job[t].step = "resume"
    /\ \/ /\ SameSession(t) /\ (job[t].login \/ Live(Mine(t)))
          /\ Rotate(t)
       \/ /\ ~SameSession(t)
          /\ job' = [job EXCEPT ![t] = NoJob] /\ UNCHANGED <<site, spent, bound, crossed>>
    /\ UNCHANGED <<home, session, listed, browser, moves, dead, ended>>

(* Session.save: the record of the old id goes first. *)
Destroy(t) ==
    /\ job[t].step = "destroy"
    /\ session' = [session EXCEPT ![job[t].old].live = FALSE]
    /\ listed' = listed \ {job[t].old}
    /\ job' = [job EXCEPT ![t].step = "save"]
    /\ UNCHANGED <<home, site, browser, moves, dead, spent, ended, bound, crossed>>

(* Every record of a session is on the list of its account. *)
Enlist(s) == listed' = listed \cup {s}

(* The copy is written over whatever is there.  session.saved is not         *)
(* awaited, and a finished consent cleans the list of sessions.              *)
Save(t) ==
    LET j == job[t] IN
    /\ j.step = "save"
    /\ session' = [session EXCEPT ![j.sid] = [live |-> TRUE, uid |-> j.uid, apps |-> j.apps]]
    /\ Enlist(j.sid)
    /\ browser' = [browser EXCEPT ![home[t]].sid = j.sid]
    /\ moves' = IF j.old = None THEN moves
                ELSE moves \cup {[from |-> j.old, to |-> j.sid, seen |-> {}, read |-> FALSE]}
    /\ dead' = IF j.site = None THEN dead
               ELSE dead \cup {s \in listed : ~session[s].live /\ s # j.sid}
    /\ IF j.next = "idle" THEN job' = [job EXCEPT ![t] = NoJob]
       ELSE Open(t, "consent", j.app, j.uid, j.login)
    /\ UNCHANGED <<home, site, spent, ended, bound, crossed>>

(***************************************************************************)
(* The event handlers.                                                     *)
(***************************************************************************)

(* The site sessions a change of the id concerns.  Mutant: those that have  *)
(* the new one already.                                                     *)
RefersToNew(m) == {k \in Site : site[k].live /\ site[k].sid = m.to}
RefersTo(m) == {k \in Site : site[k].live /\ site[k].sid = m.from}

(* updateSessionReference finds the site sessions of the old id ... *)
MoveRead(m) ==
    /\ ~m.read
    /\ moves' = (moves \ {m}) \cup
                {[m EXCEPT !.read = TRUE, !.seen = RefersTo(m)]}
    /\ UNCHANGED <<home, session, listed, site, browser, job, dead, spent, ended, bound, crossed>>

(* ... and writes their copies with the new one. *)
MoveWrite(m) ==
    /\ m.read
    /\ site' = [k \in Site |-> IF k \in m.seen THEN [live |-> TRUE, sid |-> m.to] ELSE site[k]]
    /\ moves' = moves \ {m}
    /\ UNCHANGED <<home, session, listed, browser, job, dead, spent, ended, bound, crossed>>

Clean(s) ==
    /\ s \in dead
    /\ dead' = dead \ {s} /\ listed' = listed \ {s}
    /\ UNCHANGED <<home, session, site, browser, job, moves, spent, ended, bound, crossed>>

(***************************************************************************)
(* Ending sessions.                                                        *)
(***************************************************************************)

MayHappen == spent.event < MaxEvent
Happens == spent' = [spent EXCEPT !.event = @ + 1]

(* The dashboard ends a session of the account's list, the browser's own or *)
(* another, once its grants are revoked.                                    *)
End(t, s) ==
    /\ MayHappen /\ Happens
    /\ job[t].step = "idle" /\ Live(Mine(t)) /\ s \in listed /\ Live(s)
    /\ job' = [job EXCEPT ![t] = [NoJob EXCEPT !.step = "end", !.sid = s, !.uid = UidOf(s)]]
    /\ crossed' = (crossed \/ Touching(UidOf(s)))
    /\ UNCHANGED <<home, session, listed, site, browser, moves, dead, ended, bound>>

Ended(t) ==
    LET s == job[t].sid IN
    /\ job[t].step = "end"
    /\ session' = [session EXCEPT ![s].live = FALSE]
    /\ listed' = listed \ {s}
    /\ browser' = [browser EXCEPT ![home[t]].sid = IF @ = s THEN None ELSE @]
    /\ ended' = ended \cup {job[t].uid}
    /\ job' = [job EXCEPT ![t] = NoJob]
    /\ UNCHANGED <<home, site, moves, dead, spent, bound, crossed>>

(* A record that expires stays on the list until the next cleanup. *)
Expire(s) ==
    /\ MayHappen /\ Happens /\ Live(s)
    /\ session' = [session EXCEPT ![s].live = FALSE]
    /\ crossed' = (crossed \/ Touching(UidOf(s)))
    /\ UNCHANGED <<home, listed, site, browser, job, moves, dead, ended, bound>>

(* The requests in flight and the handlers are gone; interactions stay. *)
Restart ==
    /\ MayHappen /\ Happens
    /\ job' = [t \in Tab |-> IF job[t].step \in {"destroy", "save", "end"} THEN NoJob ELSE job[t]]
    /\ moves' = {} /\ dead' = {}
    /\ crossed' = (crossed \/ moves # {} \/ \E t \in Tab : job[t].step \in {"destroy", "save"})
    /\ UNCHANGED <<home, session, listed, site, browser, ended, bound>>

(* A tab that is left. *)
Leave(t) ==
    /\ job[t].step \in {"login", "consent", "resume"}
    /\ job' = [job EXCEPT ![t] = NoJob]
    /\ UNCHANGED <<home, session, listed, site, browser, moves, dead, spent, ended, bound, crossed>>

Chain(t) ==
    \/ \E a \in App, fresh \in BOOLEAN : Authorize(t, a, fresh)
    \/ LogIn(t) \/ Consent(t) \/ Resume(t) \/ Destroy(t) \/ Save(t) \/ Leave(t)
    \/ (\E s \in Sid : End(t, s)) \/ Ended(t)
Handlers == (\E m \in moves : MoveRead(m) \/ MoveWrite(m)) \/ (\E s \in dead : Clean(s))
Next == (\E t \in Tab : Chain(t)) \/ Handlers \/ (\E s \in Sid : Expire(s)) \/ Restart

Spec == Init /\ [][Next]_vars

(***************************************************************************)
(* Properties.                                                             *)
(***************************************************************************)

(* endSession, validateSiteSession: once a user has ended a session, no id  *)
(* of it lives on and no browser stays signed in to an app through it,      *)
(* unless a request that had read the session was in flight.                *)
SignedOut ==
    ~crossed =>
      /\ \A s \in Sid : session[s].live => session[s].uid \notin ended
      /\ \A b \in Browser, a \in App :
            Admits(b, a) => bound[SiteCookie(b, a)] \notin ended

(* updateSessionReference: when the handlers are done, a browser that was   *)
(* signed in to an app stays so through every change of the session's id,   *)
(* unless two changes, or one and its handlers, overlapped, or the process  *)
(* died between the change and its handlers.                                *)
SiteFollows ==
    ~crossed /\ moves = {} /\ (\A t \in Tab : job[t].step \notin {"destroy", "save"}) =>
      \A b \in Browser, a \in App :
         LET k == SiteCookie(b, a) IN
         /\ k # None /\ bound[k] # None /\ Live(browser[b].sid)
         /\ bound[k] = UidOf(browser[b].sid)
         => Admits(b, a) /\ site[k].sid = browser[b].sid
=============================================================================
