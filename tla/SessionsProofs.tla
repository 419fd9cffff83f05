--------------------------- MODULE SessionsProofs ---------------------------
(***************************************************************************)
(* What Sessions keeps for any tabs, browsers, apps and bounds: that what  *)
(* a user ended stays ended, and that a browser signed in to an app stays  *)
(* so through every change of the session's id.                            *)
(***************************************************************************)
EXTENDS Sessions, TLAPS

(***************************************************************************)
(* Types.                                                                  *)
(***************************************************************************)

Job == [step : {"idle", "login", "consent", "resume", "destroy", "save", "end"},
        app : App \cup {None}, uid : 0 .. MaxSid, login : BOOLEAN, site : 0 .. MaxSite,
        old : 0 .. MaxSid, sid : 0 .. MaxSid, apps : SUBSET App, next : {"idle", "consent"}]

Moving == [from : Sid, to : Sid, seen : SUBSET Site, read : BOOLEAN]

TypeInv ==
    /\ home \in [Tab -> Browser] /\ session \in [Sid -> Session]
    /\ site \in [Site -> [live : BOOLEAN, sid : 0 .. MaxSid]]
    /\ browser \in [Browser -> [sid : 0 .. MaxSid, cookie : [App -> 0 .. MaxSite]]]
    /\ job \in [Tab -> Job]
    /\ \A t \in Tab : job[t].step \notin {"idle", "end"} => job[t].app \in App
    /\ moves \subseteq Moving
    /\ spent \in [sid : 0 .. MaxSid, site : 0 .. MaxSite, event : Nat]
    /\ ended \subseteq Sid /\ bound \in [Site -> 0 .. MaxSid] /\ crossed \in BOOLEAN

LEMMA Bounds ==
    /\ MaxSid \in Nat /\ MaxSite \in Nat /\ 0 \in 0 .. MaxSid /\ 0 \in 0 .. MaxSite
    /\ None \notin Sid /\ None \notin Site /\ \A s \in Sid : s \in 0 .. MaxSid
    /\ \A k \in Site : k \in 0 .. MaxSite
    /\ \A s \in 0 .. MaxSid : s = None \/ s \in Sid
    /\ \A k \in 0 .. MaxSite : k = None \/ k \in Site
BY SessionsAssumption DEF Sid, Site, None

LEMMA NullIs ==
    /\ NoJob \in Job /\ NoJob.step = "idle" /\ NoJob.site = None /\ NoJob.uid = None
    /\ NoJob.login = FALSE /\ NoJob.old = None /\ NoJob.sid = None
    /\ NoSession \in Session /\ ~NoSession.live /\ NoSession.uid = None
    /\ ~NoSite.live /\ NoSite.sid = None
<1>1. /\ NoJob.step = "idle" /\ NoJob.site = None /\ NoJob.uid = None /\ NoJob.login = FALSE
      /\ NoJob.old = None /\ NoJob.sid = None /\ NoJob.apps = {} /\ NoJob.next = "idle"
  BY DEF NoJob
<1>2. NoJob \in Job
  BY Bounds DEF Job, NoJob, None
<1>3. NoSession \in Session
  BY Bounds DEF NoSession, Session, None
<1> QED BY <1>1, <1>2, <1>3 DEF NoSession, NoSite

LEMMA Typed ==
    ASSUME TypeInv
    PROVE  /\ \A t \in Tab : /\ job[t] \in Job /\ home[t] \in Browser
                             /\ Mine(t) \in 0 .. MaxSid
                             /\ job[t].sid \in 0 .. MaxSid /\ job[t].old \in 0 .. MaxSid
                             /\ job[t].uid \in 0 .. MaxSid /\ job[t].site \in 0 .. MaxSite
           /\ \A s \in Sid : session[s] \in Session /\ session[s].uid \in 0 .. MaxSid
                             /\ session[s].live \in BOOLEAN
           /\ \A k \in Site : site[k].sid \in 0 .. MaxSid /\ bound[k] \in 0 .. MaxSid
           /\ spent.sid \in 0 .. MaxSid /\ spent.sid \in Nat /\ spent.site \in 0 .. MaxSite
           /\ spent.site \in Nat /\ spent.event \in Nat
<1>1. \A t \in Tab : /\ job[t] \in Job /\ home[t] \in Browser /\ Mine(t) \in 0 .. MaxSid
  BY DEF TypeInv, Mine
<1>2. \A t \in Tab : /\ job[t].sid \in 0 .. MaxSid /\ job[t].old \in 0 .. MaxSid
                     /\ job[t].uid \in 0 .. MaxSid /\ job[t].site \in 0 .. MaxSite
  BY <1>1 DEF Job
<1>3. \A s \in Sid : session[s] \in Session /\ session[s].uid \in 0 .. MaxSid
                     /\ session[s].live \in BOOLEAN
  BY DEF TypeInv, Session
<1>4. \A k \in Site : site[k].sid \in 0 .. MaxSid /\ bound[k] \in 0 .. MaxSid
  BY DEF TypeInv
<1>5. spent.sid \in 0 .. MaxSid /\ spent.site \in 0 .. MaxSite /\ spent.event \in Nat
  BY DEF TypeInv
<1> QED BY <1>1, <1>2, <1>3, <1>4, <1>5, Bounds

(***************************************************************************)
(* The inductive invariant.                                                *)
(***************************************************************************)

Writing(t) == job[t].step \in {"destroy", "save"}
AtWork(t) == job[t].step \in {"destroy", "save", "end"}

(* Ids and uids are given out in order. *)
UidInv ==
    /\ \A s \in Sid : s > spent.sid => ~session[s].live /\ session[s].uid = None
    /\ \A s \in Sid : session[s].live => session[s].uid # None
    /\ \A s \in Sid : session[s].uid <= spent.sid
    /\ \A u \in ended : u <= spent.sid

(* A resume saves under an id of its session, and an end has one of its own. *)
WriteInv ==
    /\ \A t \in Tab : Writing(t) =>
          /\ job[t].sid \in Sid /\ job[t].sid <= spent.sid
          /\ job[t].uid # None /\ job[t].uid <= spent.sid
          /\ session[job[t].sid].uid \in {None, job[t].uid}
          /\ job[t].old # None => session[job[t].old].uid = job[t].uid
          /\ job[t].step = "destroy" => job[t].old # None
          /\ \A u \in Tab : Writing(u) /\ job[u].sid = job[t].sid => job[u].uid = job[t].uid
    /\ \A t \in Tab : job[t].step = "end" =>
          job[t].sid \in Sid /\ job[t].uid # None /\ session[job[t].sid].uid = job[t].uid

(* A change of the id stays within one session. *)
MoveInv ==
    \A m \in moves : /\ session[m.to].uid = session[m.from].uid /\ session[m.to].uid # None
                     /\ \A k \in m.seen : bound[k] = session[m.to].uid

(* A site session that has an id has one of the session it was bound to. *)
SiteInv ==
    \A k \in Site :
       /\ site[k].sid = None <=> bound[k] = None
       /\ site[k].sid # None => site[k].live
       /\ site[k].sid <= spent.sid /\ bound[k] <= spent.sid
       /\ site[k].sid # None => session[site[k].sid].uid \in {None, bound[k]}
       /\ \A t \in Tab : Writing(t) /\ job[t].sid = site[k].sid => job[t].uid = bound[k]

(* A chain binds the site session it made, once. *)
FreshInv ==
    /\ \A t \in Tab : job[t].step = "resume" /\ job[t].site # None =>
          /\ site[job[t].site].sid = None /\ site[job[t].site].live
          /\ job[t].site <= spent.site
          /\ \A u \in Tab \ {t} : job[u].step = "resume" => job[u].site # job[t].site
          /\ \A b \in Browser, a \in App :
                 browser[b].cookie[a] = job[t].site => b = home[t] /\ a = job[t].app
    /\ \A t \in Tab : job[t].step = "login" => job[t].site = None
    /\ \A b \in Browser, a \in App :
          browser[b].cookie[a] # None =>
             browser[b].cookie[a] <= spent.site /\ site[browser[b].cookie[a]].live
    /\ \A k \in Site : k > spent.site => site[k].sid = None

(* While nothing overlaps, a session has one request at work and one id. *)
EndInv ==
    /\ \A s \in Sid : session[s].live => session[s].uid \notin ended
    /\ \A s, r \in Sid : session[s].live /\ session[r].live
                         /\ session[s].uid = session[r].uid => s = r
    /\ \A t \in Tab : Writing(t) =>
          /\ job[t].uid \notin ended
          /\ \A s \in Sid : session[s].live /\ session[s].uid = job[t].uid =>
                s = IF job[t].step = "destroy" THEN job[t].old ELSE job[t].sid
    /\ \A t, u \in Tab : AtWork(t) /\ AtWork(u) /\ job[t].uid = job[u].uid => t = u
    /\ \A t \in Tab : job[t].step = "end" =>
          job[t].sid \in Sid /\ session[job[t].sid].live /\ session[job[t].sid].uid = job[t].uid

(* ... and no handlers at work but those of its last change. *)
AloneInv ==
    /\ \A m \in moves, t \in Tab : AtWork(t) => job[t].uid # session[m.to].uid
    /\ \A m, n \in moves : session[m.to].uid = session[n.to].uid => m = n
    /\ \A m \in moves : session[m.to].live

(* The site sessions follow the id: those of a resume have the old or the   *)
(* new one, those of a move the old one until it is done with them.         *)
FollowInv ==
    \A k \in Site : bound[k] # None =>
       /\ \A t \in Tab : Writing(t) /\ job[t].uid = bound[k] =>
             site[k].sid \in {job[t].sid, job[t].old}
       /\ \A s \in Sid : session[s].live /\ session[s].uid = bound[k] =>
             \/ site[k].sid = s
             \/ \E t \in Tab : Writing(t) /\ job[t].uid = bound[k]
             \/ \E m \in moves : /\ m.to = s /\ site[k].sid = m.from
                                 /\ m.read => k \in m.seen

(* The session knows the apps of its site sessions. *)
AppsInv ==
    \A b \in Browser, a \in App : LET k == browser[b].cookie[a] IN
       k # None /\ bound[k] # None =>
          /\ \A t \in Tab : Writing(t) /\ job[t].uid = bound[k] => a \in job[t].apps
          /\ \A s \in Sid : session[s].live /\ session[s].uid = bound[k] =>
                \/ a \in session[s].apps
                \/ \E t \in Tab : Writing(t) /\ job[t].uid = bound[k]

RefInv == UidInv /\ WriteInv /\ MoveInv /\ SiteInv /\ FreshInv
OrderInv == ~crossed => EndInv /\ AloneInv /\ FollowInv /\ AppsInv
Inv == TypeInv /\ RefInv /\ OrderInv

LEMMA InitInv ==
    ASSUME Init PROVE Inv
<1>1. TypeInv
  <2>1. job \in [Tab -> Job] /\ \A t \in Tab : job[t].step = "idle"
    BY NullIs DEF Init
  <2>2. session \in [Sid -> Session]
    BY NullIs DEF Init
  <2>3. site \in [Site -> [live : BOOLEAN, sid : 0 .. MaxSid]] /\ bound \in [Site -> 0 .. MaxSid]
    BY Bounds DEF Init, NoSite, None
  <2>4. browser \in [Browser -> [sid : 0 .. MaxSid, cookie : [App -> 0 .. MaxSite]]]
    BY Bounds DEF Init, None
  <2>5. spent \in [sid : 0 .. MaxSid, site : 0 .. MaxSite, event : Nat]
    BY Bounds DEF Init
  <2> QED BY <2>1, <2>2, <2>3, <2>4, <2>5 DEF Init, TypeInv
<1>2. /\ \A t \in Tab : job[t].step = "idle"
      /\ \A s \in Sid : ~session[s].live /\ session[s].uid = None
      /\ \A k \in Site : site[k].sid = None /\ bound[k] = None
      /\ \A b \in Browser, a \in App : browser[b].cookie[a] = None
  BY NullIs DEF Init
<1>3. spent.sid = 0 /\ spent.site = 0 /\ moves = {} /\ ended = {} /\ None = 0
  BY DEF Init, None
<1>4. RefInv
  BY <1>2, <1>3 DEF RefInv, UidInv, WriteInv, MoveInv, SiteInv, FreshInv, Writing
<1>5. EndInv /\ AloneInv /\ FollowInv /\ AppsInv
  BY <1>2, <1>3 DEF EndInv, AloneInv, FollowInv, AppsInv, Writing, AtWork
<1> QED BY <1>1, <1>4, <1>5 DEF Inv, OrderInv

(***************************************************************************)
(* What most steps have in common.                                         *)
(***************************************************************************)

(* Records of sessions may die; a request goes on as it is, or is over, or  *)
(* starts with nothing to bind.                                             *)
LEMMA RefSame ==
    ASSUME TypeInv, RefInv,
           site' = site, bound' = bound, home' = home,
           spent'.sid = spent.sid, spent'.site = spent.site,
           \A s \in Sid : /\ session'[s].uid = session[s].uid
                          /\ session'[s].live => session[s].live,
           \A b \in Browser, a \in App : browser'[b].cookie[a] = browser[b].cookie[a],
           \A u \in ended' : u <= spent.sid,
           \A t \in Tab : Writing(t)' =>
              /\ Writing(t) /\ job'[t].sid = job[t].sid
              /\ job'[t].uid = job[t].uid /\ job'[t].old = job[t].old
              /\ job'[t].step = "destroy" => job[t].step = "destroy",
           \A t \in Tab : job'[t].step = "end" =>
              /\ job'[t].sid \in Sid /\ job'[t].uid # None
              /\ session[job'[t].sid].uid = job'[t].uid,
           \A t \in Tab : job'[t].step = "resume" /\ job'[t].site # None =>
              /\ job[t].step = "resume" /\ job'[t].site = job[t].site
              /\ job'[t].app = job[t].app,
           \A t \in Tab : job'[t].step = "login" => job'[t].site = None,
           MoveInv'
    PROVE  RefInv'
<1>1. UidInv'
  BY DEF RefInv, UidInv
<1>2. WriteInv'
  <2>1. \A t \in Tab : Writing(t) => job[t].sid \in Sid /\ job[t].old \in 0 .. MaxSid
    BY Typed DEF RefInv, WriteInv
  <2>2. ASSUME NEW t \in Tab, Writing(t)'
        PROVE  /\ job'[t].sid \in Sid /\ job'[t].sid <= spent'.sid
               /\ job'[t].uid # None /\ job'[t].uid <= spent'.sid
               /\ session'[job'[t].sid].uid \in {None, job'[t].uid}
               /\ job'[t].old # None => session'[job'[t].old].uid = job'[t].uid
               /\ job'[t].step = "destroy" => job'[t].old # None
    <3>1. /\ Writing(t) /\ job'[t].sid = job[t].sid
          /\ job'[t].uid = job[t].uid /\ job'[t].old = job[t].old
          /\ job'[t].step = "destroy" => job[t].step = "destroy"
      BY <2>2
    <3>2. job[t].old # None => job[t].old \in Sid
      BY <3>1, <2>1, Bounds
    <3> QED BY <3>1, <3>2, <2>1 DEF RefInv, WriteInv
  <2>3. \A t, u \in Tab : Writing(t)' /\ Writing(u)' /\ job'[u].sid = job'[t].sid
                          => job'[u].uid = job'[t].uid
    BY DEF RefInv, WriteInv
  <2>4. \A t \in Tab : job'[t].step = "end" =>
           /\ job'[t].sid \in Sid /\ job'[t].uid # None
           /\ session'[job'[t].sid].uid = job'[t].uid
    OBVIOUS
  <2> QED BY <2>2, <2>3, <2>4 DEF WriteInv
<1>3. SiteInv'
  <2>1. \A k \in Site : site[k].sid # None => site[k].sid \in Sid
    BY Typed, Bounds
  <2>2. ASSUME NEW k \in Site
        PROVE  /\ site[k].sid = None <=> bound[k] = None
               /\ site[k].sid # None => site[k].live
               /\ site[k].sid <= spent.sid /\ bound[k] <= spent.sid
               /\ site[k].sid # None => session[site[k].sid].uid \in {None, bound[k]}
               /\ \A t \in Tab : Writing(t) /\ job[t].sid = site[k].sid
                                 => job[t].uid = bound[k]
    BY DEF RefInv, SiteInv
  <2>3. ASSUME NEW k \in Site
        PROVE  /\ site[k].sid # None => session'[site[k].sid].uid \in {None, bound[k]}
               /\ \A t \in Tab : Writing(t)' /\ job'[t].sid = site[k].sid
                                 => job'[t].uid = bound[k]
    BY <2>1, <2>2
  <2> QED BY <2>2, <2>3 DEF SiteInv
<1>4. FreshInv'
  <2>1. FreshInv
    BY DEF RefInv
  <2>2. ASSUME NEW t \in Tab, job'[t].step = "resume", job'[t].site # None
        PROVE  /\ site[job'[t].site].sid = None /\ site[job'[t].site].live
               /\ job'[t].site <= spent.site
               /\ \A u \in Tab \ {t} : job'[u].step = "resume" => job'[u].site # job'[t].site
               /\ \A b \in Browser, a \in App :
                     browser'[b].cookie[a] = job'[t].site => b = home[t] /\ a = job'[t].app
    <3>1. job[t].step = "resume" /\ job'[t].site = job[t].site /\ job'[t].app = job[t].app
      BY <2>2
    <3>2. \A u \in Tab : job'[u].step = "resume" /\ job'[u].site # None =>
                         job[u].step = "resume" /\ job'[u].site = job[u].site
      OBVIOUS
    <3> QED BY <2>1, <2>2, <3>1, <3>2 DEF FreshInv
  <2>3. \A b \in Browser, a \in App :
           browser'[b].cookie[a] # None =>
              browser'[b].cookie[a] <= spent.site /\ site[browser'[b].cookie[a]].live
    BY <2>1 DEF FreshInv
  <2>4. \A k \in Site : k > spent.site => site[k].sid = None
    BY <2>1 DEF FreshInv
  <2> QED BY <2>2, <2>3, <2>4 DEF FreshInv
<1> QED BY <1>1, <1>2, <1>3, <1>4 DEF RefInv

(* The moves stay, or some of them do. *)
LEMMA MovesSame ==
    ASSUME TypeInv, RefInv, moves' \subseteq moves, bound' = bound,
           \A s \in Sid : session[s].uid # None => session'[s].uid = session[s].uid
    PROVE  MoveInv'
<1>1. ASSUME NEW m \in moves'
      PROVE  /\ session'[m.to].uid = session'[m.from].uid /\ session'[m.to].uid # None
             /\ \A k \in m.seen : bound'[k] = session'[m.to].uid
  <2>1. m \in moves /\ m.to \in Sid /\ m.from \in Sid
    BY DEF TypeInv, Moving
  <2>2. /\ session[m.to].uid = session[m.from].uid /\ session[m.to].uid # None
        /\ \A k \in m.seen : bound[k] = session[m.to].uid
    BY <2>1 DEF RefInv, MoveInv
  <2> QED BY <2>1, <2>2
<1> QED BY <1>1 DEF MoveInv

(* Records of sessions may die, but none that a request or a move still     *)
(* counts on; a request goes on as it is or is over.                        *)
LEMMA OrderSame ==
    ASSUME TypeInv, EndInv, AloneInv, FollowInv, AppsInv,
           bound' = bound, moves' = moves,
           \A k \in Site : bound[k] # None => site'[k].sid = site[k].sid,
           \A s \in Sid : /\ session'[s].uid = session[s].uid
                          /\ session'[s].apps = session[s].apps
                          /\ session'[s].live => session[s].live,
           \A b \in Browser, a \in App :
              \/ browser'[b].cookie[a] = browser[b].cookie[a]
              \/ bound[browser'[b].cookie[a]] = None,
           \A m \in moves : session'[m.to].live,
           \A s \in Sid : session'[s].live => session'[s].uid \notin ended',
           \A t \in Tab : Writing(t) => job[t].uid \notin ended',
           \A t \in Tab : Writing(t)' <=> Writing(t),
           \A t \in Tab : Writing(t) =>
              /\ job'[t].sid = job[t].sid /\ job'[t].uid = job[t].uid
              /\ job'[t].old = job[t].old /\ job'[t].apps = job[t].apps
              /\ \/ job'[t].step = job[t].step
                 \/ job'[t].step = "save" /\ ~session'[job[t].old].live,
           \A t \in Tab : job'[t].step = "end" =>
              /\ job[t].step = "end" /\ job'[t].uid = job[t].uid
              /\ job'[t].sid = job[t].sid /\ session'[job[t].sid].live
    PROVE  EndInv' /\ AloneInv' /\ FollowInv' /\ AppsInv'
<1>1. \A s \in Sid : session'[s].live => session[s].live /\ session'[s].uid = session[s].uid
  OBVIOUS
<1>3. \A t \in Tab : AtWork(t)' => AtWork(t) /\ job'[t].uid = job[t].uid
  BY DEF AtWork, Writing
<1>4. EndInv'
  <2>1. \A s \in Sid : session'[s].live => session'[s].uid \notin ended'
    OBVIOUS
  <2>2. \A s, r \in Sid : session'[s].live /\ session'[r].live
                          /\ session'[s].uid = session'[r].uid => s = r
    BY DEF EndInv
  <2>3. ASSUME NEW t \in Tab, Writing(t)'
        PROVE  /\ job'[t].uid \notin ended'
               /\ \A s \in Sid : session'[s].live /\ session'[s].uid = job'[t].uid =>
                     s = IF job'[t].step = "destroy" THEN job'[t].old ELSE job'[t].sid
    <3>1. /\ Writing(t) /\ job'[t].sid = job[t].sid /\ job'[t].uid = job[t].uid
          /\ job'[t].old = job[t].old /\ job[t].uid \notin ended'
      BY <2>3
    <3>2. \/ job'[t].step = job[t].step
          \/ job'[t].step = "save" /\ ~session'[job[t].old].live
      BY <3>1
    <3>3. \A s \in Sid : session[s].live /\ session[s].uid = job[t].uid =>
             s = IF job[t].step = "destroy" THEN job[t].old ELSE job[t].sid
      BY <3>1 DEF EndInv
    <3>4. ASSUME NEW s \in Sid, session'[s].live, session'[s].uid = job[t].uid
          PROVE  s = IF job'[t].step = "destroy" THEN job[t].old ELSE job[t].sid
      <4>1. session[s].live /\ session[s].uid = job[t].uid
        BY <1>1, <3>4
      <4>2. s = IF job[t].step = "destroy" THEN job[t].old ELSE job[t].sid
        BY <4>1, <3>3
      <4> QED BY <4>1, <4>2, <3>2, <3>4
    <3> QED BY <3>1, <3>4
  <2>4. \A t, u \in Tab : AtWork(t)' /\ AtWork(u)' /\ job'[t].uid = job'[u].uid => t = u
    BY <1>3 DEF EndInv
  <2>5. ASSUME NEW t \in Tab, job'[t].step = "end"
        PROVE  /\ job'[t].sid \in Sid /\ session'[job'[t].sid].live
               /\ session'[job'[t].sid].uid = job'[t].uid
    <3>1. /\ job[t].step = "end" /\ job'[t].uid = job[t].uid
          /\ job'[t].sid = job[t].sid /\ session'[job[t].sid].live
      BY <2>5
    <3>2. job[t].sid \in Sid /\ session[job[t].sid].uid = job[t].uid
      BY <3>1 DEF EndInv
    <3> QED BY <3>1, <3>2
  <2> QED BY <2>1, <2>2, <2>3, <2>4, <2>5 DEF EndInv
<1>5. \A m \in moves : m.to \in Sid
  BY DEF TypeInv, Moving
<1>6. AloneInv'
  <2>1. \A m \in moves, t \in Tab : AtWork(t)' => job'[t].uid # session'[m.to].uid
    BY <1>3, <1>5 DEF AloneInv
  <2>2. \A m, n \in moves : session'[m.to].uid = session'[n.to].uid => m = n
    BY <1>5 DEF AloneInv
  <2> QED BY <2>1, <2>2 DEF AloneInv
<1>7. FollowInv'
  <2> SUFFICES ASSUME NEW k \in Site, bound[k] # None
               PROVE  /\ \A t \in Tab : Writing(t)' /\ job'[t].uid = bound[k] =>
                            site'[k].sid \in {job'[t].sid, job'[t].old}
                      /\ \A s \in Sid : session'[s].live /\ session'[s].uid = bound[k] =>
                            \/ site'[k].sid = s
                            \/ \E t \in Tab : Writing(t)' /\ job'[t].uid = bound[k]
                            \/ \E m \in moves : /\ m.to = s /\ site'[k].sid = m.from
                                                /\ m.read => k \in m.seen
    BY DEF FollowInv
  <2>1. site'[k].sid = site[k].sid
    OBVIOUS
  <2>2. /\ \A t \in Tab : Writing(t) /\ job[t].uid = bound[k] =>
              site[k].sid \in {job[t].sid, job[t].old}
        /\ \A s \in Sid : session[s].live /\ session[s].uid = bound[k] =>
              \/ site[k].sid = s
              \/ \E t \in Tab : Writing(t) /\ job[t].uid = bound[k]
              \/ \E m \in moves : /\ m.to = s /\ site[k].sid = m.from
                                  /\ m.read => k \in m.seen
    BY DEF FollowInv
  <2>3. \A t \in Tab : Writing(t)' /\ job'[t].uid = bound[k] =>
           site'[k].sid \in {job'[t].sid, job'[t].old}
    BY <2>1, <2>2
  <2>4. (\E t \in Tab : Writing(t) /\ job[t].uid = bound[k]) =>
        \E t \in Tab : Writing(t)' /\ job'[t].uid = bound[k]
    OBVIOUS
  <2> QED BY <1>1, <2>1, <2>2, <2>3, <2>4
<1>8. AppsInv'
  <2> SUFFICES ASSUME NEW b \in Browser, NEW a \in App, browser'[b].cookie[a] # None,
                      bound[browser'[b].cookie[a]] # None
               PROVE  /\ \A t \in Tab : Writing(t)' /\ job'[t].uid = bound[browser'[b].cookie[a]]
                                        => a \in job'[t].apps
                      /\ \A s \in Sid : session'[s].live /\ session'[s].uid = bound[browser'[b].cookie[a]] =>
                            \/ a \in session'[s].apps
                            \/ \E t \in Tab : /\ Writing(t)'
                                              /\ job'[t].uid = bound[browser'[b].cookie[a]]
    BY DEF AppsInv
  <2>1. browser'[b].cookie[a] = browser[b].cookie[a]
    OBVIOUS
  <2>2. PICK u : u = bound[browser[b].cookie[a]]
    OBVIOUS
  <2>3. /\ \A t \in Tab : Writing(t) /\ job[t].uid = u => a \in job[t].apps
        /\ \A s \in Sid : session[s].live /\ session[s].uid = u =>
              \/ a \in session[s].apps
              \/ \E t \in Tab : Writing(t) /\ job[t].uid = u
    BY <2>1, <2>2 DEF AppsInv
  <2>5. \A t \in Tab : Writing(t)' /\ job'[t].uid = u => a \in job'[t].apps
    BY <2>3
  <2>6. \A s \in Sid : session'[s].live /\ session'[s].uid = u =>
           \/ a \in session'[s].apps
           \/ \E t \in Tab : Writing(t)' /\ job'[t].uid = u
    BY <2>3, <1>1
  <2> QED BY <2>1, <2>2, <2>5, <2>6
<1> QED BY <1>4, <1>6, <1>7, <1>8

(***************************************************************************)
(* Every step keeps the invariant.                                         *)
(***************************************************************************)

LEMMA JobSet ==
    ASSUME TypeInv, NEW t \in Tab, NEW j \in Job, job' = [job EXCEPT ![t] = j]
    PROVE  /\ job' \in [Tab -> Job] /\ job'[t] = j
           /\ \A u \in Tab : u # t => job'[u] = job[u]
BY DEF TypeInv

(* A request that neither writes nor did. *)
LEMMA Quiet ==
    ASSUME Inv, NEW t \in Tab, NEW j \in Job, ~AtWork(t),
           j.step \in {"idle", "login", "consent", "resume"}, j.site = None,
           j.step # "idle" => j.app \in App,
           job' = [job EXCEPT ![t] = j],
           UNCHANGED <<home, session, site, browser, moves, spent, ended, bound, crossed>>
    PROVE  Inv'
<1>1. TypeInv /\ RefInv /\ OrderInv
  BY DEF Inv
<1>2. job' \in [Tab -> Job] /\ job'[t] = j /\ \A u \in Tab : u # t => job'[u] = job[u]
  BY <1>1, JobSet
<1>3. TypeInv'
  BY <1>1, <1>2 DEF TypeInv
<1>4. \A u \in Tab : AtWork(u)' => u # t /\ job'[u] = job[u]
  BY <1>2 DEF AtWork
<1>5. \A u \in Tab : Writing(u)' => AtWork(u)'
  BY DEF AtWork, Writing
<1>6. \A u \in Tab : Writing(u) => u # t /\ job'[u] = job[u]
  BY <1>2 DEF AtWork, Writing
<1>7. \A u \in Tab : Writing(u)' <=> Writing(u)
  BY <1>4, <1>5, <1>6 DEF Writing
<1>8. \A u \in Tab : job'[u].step = "end" => job'[u] = job[u]
  BY <1>4 DEF AtWork
<1>9. RefInv'
  <2>1. MoveInv'
    BY <1>1, MovesSame
  <2>2. \A u \in ended' : u <= spent.sid
    BY <1>1 DEF RefInv, UidInv
  <2>3. \A u \in Tab : job'[u].step = "end" =>
              /\ job'[u].sid \in Sid /\ job'[u].uid # None
              /\ session[job'[u].sid].uid = job'[u].uid
    BY <1>1, <1>8 DEF RefInv, WriteInv
  <2>4. \A u \in Tab : job'[u].step = "resume" /\ job'[u].site # None => job'[u] = job[u]
    BY <1>2
  <2>5. \A u \in Tab : job'[u].step = "login" => job'[u].site = None
    BY <1>1, <1>2 DEF RefInv, FreshInv
  <2> QED BY <1>1, <1>6, <1>7, <2>1, <2>2, <2>3, <2>4, <2>5, RefSame
<1>10. ASSUME ~crossed PROVE EndInv' /\ AloneInv' /\ FollowInv' /\ AppsInv'
  <2>1. EndInv /\ AloneInv /\ FollowInv /\ AppsInv
    BY <1>1, <1>10 DEF OrderInv
  <2>2. \A m \in moves : session'[m.to].live
    BY <2>1 DEF AloneInv
  <2>3. \A s \in Sid : session'[s].live => session'[s].uid \notin ended'
    BY <2>1 DEF EndInv
  <2>4. \A u \in Tab : Writing(u) => job[u].uid \notin ended'
    BY <2>1 DEF EndInv
  <2>5. \A u \in Tab : job'[u].step = "end" => session'[job[u].sid].live
    BY <2>1, <1>8 DEF EndInv
  <2> QED BY <1>1, <1>6, <1>7, <1>8, <2>1, <2>2, <2>3, <2>4, <2>5, OrderSame
<1> QED BY <1>3, <1>9, <1>10 DEF Inv, OrderInv

LEMMA UidIs ==
    ASSUME TypeInv
    PROVE  /\ \A s \in 0 .. MaxSid : UidOf(s) \in 0 .. MaxSid
           /\ \A s \in 0 .. MaxSid : Live(s) => s \in Sid /\ session[s].live /\ UidOf(s) = session[s].uid
           /\ \A s \in Sid : Live(s) <=> session[s].live
<1>1. \A s \in 0 .. MaxSid : Live(s) => s \in Sid /\ session[s].live
  BY Bounds DEF Live
<1>2. \A s \in 0 .. MaxSid : UidOf(s) = IF Live(s) THEN session[s].uid ELSE None
  BY DEF UidOf
<1>3. \A s \in 0 .. MaxSid : UidOf(s) \in 0 .. MaxSid
  BY <1>1, <1>2, Typed, Bounds DEF None
<1>4. \A s \in Sid : Live(s) <=> session[s].live
  BY Bounds DEF Live
<1> QED BY <1>1, <1>2, <1>3, <1>4

LEMMA AuthorizeInv ==
    ASSUME Inv, NEW t \in Tab, NEW a \in App, NEW fresh \in BOOLEAN, Authorize(t, a, fresh)
    PROVE  Inv'
<1>1. TypeInv /\ UidOf(Mine(t)) \in 0 .. MaxSid
  BY Typed, UidIs DEF Inv
<1>2. PICK step \in {"login", "consent"} : Open(t, step, a, UidOf(Mine(t)), FALSE)
  BY DEF Authorize
<1> DEFINE j == [NoJob EXCEPT !.step = step, !.app = a, !.uid = UidOf(Mine(t)), !.login = FALSE]
<1>3. j.step = step /\ j.app = a /\ j.site = None
  BY NullIs DEF NoJob
<1>4. j \in Job
  BY <1>1, NullIs DEF Job
<1>5. job' = [job EXCEPT ![t] = j]
  BY <1>2 DEF Open
<1>6. ~AtWork(t)
  BY DEF Authorize, AtWork
<1> HIDE DEF j
<1> QED BY <1>3, <1>4, <1>5, <1>6, Quiet DEF Authorize

LEMMA LogInInv ==
    ASSUME Inv, NEW t \in Tab, LogIn(t)
    PROVE  Inv'
<1> DEFINE j == [job[t] EXCEPT !.step = "resume", !.login = TRUE]
<1>1. TypeInv /\ job[t] \in Job /\ job[t].step = "login"
  BY Typed DEF Inv, LogIn
<1>2. job[t].site = None /\ job[t].app \in App
  BY <1>1 DEF Inv, RefInv, FreshInv, TypeInv
<1>3. j \in Job /\ j.step = "resume" /\ j.site = job[t].site /\ j.app = job[t].app
  BY <1>1 DEF Job
<1>4. job' = [job EXCEPT ![t] = j]
  BY <1>1 DEF LogIn, TypeInv
<1>5. ~AtWork(t)
  BY <1>1 DEF AtWork
<1> HIDE DEF j
<1> QED BY <1>2, <1>3, <1>4, <1>5, Quiet DEF LogIn

LEMMA DropInv ==
    ASSUME Inv, NEW t \in Tab, ~AtWork(t), job' = [job EXCEPT ![t] = NoJob],
           UNCHANGED <<home, session, site, browser, moves, spent, ended, bound, crossed>>
    PROVE  Inv'
BY NullIs, Quiet

LEMMA LeaveInv ==
    ASSUME Inv, NEW t \in Tab, Leave(t)
    PROVE  Inv'
<1>1. ~AtWork(t)
  BY DEF Leave, AtWork
<1> QED BY <1>1, DropInv DEF Leave

(* The handlers that only take ids off the list. *)
LEMMA StutterInv ==
    ASSUME Inv, UNCHANGED <<home, session, site, browser, job, moves, spent, ended, bound, crossed>>
    PROVE  Inv'
<1>1. TypeInv'
  BY DEF Inv, TypeInv
<1>2. UidInv' /\ MoveInv'
  BY DEF Inv, RefInv, UidInv, MoveInv
<1>3. WriteInv'
  BY DEF Inv, RefInv, WriteInv, Writing
<1>4. SiteInv'
  BY DEF Inv, RefInv, SiteInv, Writing
<1>5. FreshInv'
  BY DEF Inv, RefInv, FreshInv
<1>6. EndInv => EndInv'
  BY DEF EndInv, Writing, AtWork
<1>7. AloneInv => AloneInv'
  BY DEF AloneInv, AtWork
<1>8. FollowInv => FollowInv'
  BY DEF FollowInv, Writing
<1>9. AppsInv => AppsInv'
  BY DEF AppsInv, Writing
<1> QED BY <1>1, <1>2, <1>3, <1>4, <1>5, <1>6, <1>7, <1>8, <1>9 DEF Inv, RefInv, OrderInv

LEMMA ConsentInv ==
    ASSUME Inv, NEW t \in Tab, Consent(t)
    PROVE  Inv'
<1> DEFINE k == spent.site + 1
<1>1. TypeInv /\ RefInv /\ OrderInv /\ job[t].step = "consent"
  BY DEF Inv, Consent
<1>2. ~AtWork(t) /\ job[t].app \in App /\ job[t] \in Job /\ home[t] \in Browser
  BY <1>1, Typed DEF AtWork, TypeInv
<1>3. CASE UNCHANGED <<site, browser, spent>> /\ job' = [job EXCEPT ![t] = NoJob]
  BY <1>2, <1>3, DropInv DEF Consent
<1>4. CASE /\ k <= MaxSite
           /\ site' = [site EXCEPT ![k] = [live |-> TRUE, sid |-> None]]
           /\ browser' = [browser EXCEPT ![home[t]].cookie[job[t].app] = k]
           /\ job' = [job EXCEPT ![t].step = "resume", ![t].site = k]
           /\ spent' = [spent EXCEPT !.site = k]
  <2>1. UNCHANGED <<home, session, moves, ended, bound, crossed>>
    BY DEF Consent
  <2>2. k \in Site /\ k \in 0 .. MaxSite /\ k # None /\ k > spent.site
    BY <1>1, <1>4, Typed, Bounds DEF Site, None
  <2>3. spent' \in [sid : 0 .. MaxSid, site : 0 .. MaxSite, event : Nat]
        /\ spent'.sid = spent.sid /\ spent'.site = k
    BY <1>1, <1>4, <2>2 DEF TypeInv
  <2> DEFINE j == [job[t] EXCEPT !.step = "resume", !.site = k]
  <2>4. j \in Job /\ j.step = "resume" /\ j.site = k /\ j.app = job[t].app
    BY <1>2, <2>2 DEF Job
  <2>5. job' = [job EXCEPT ![t] = j]
    BY <1>1, <1>4 DEF TypeInv
  <2> HIDE DEF j
  <2>6. job' \in [Tab -> Job] /\ job'[t] = j /\ \A u \in Tab : u # t => job'[u] = job[u]
    BY <1>1, <2>4, <2>5, JobSet
  <2>7. /\ site' \in [Site -> [live : BOOLEAN, sid : 0 .. MaxSid]]
        /\ site'[k].live /\ site'[k].sid = None
        /\ \A q \in Site : q # k => site'[q] = site[q]
    BY <1>1, <1>4, <2>2, Bounds DEF TypeInv, None
  <2>8. site[k].sid = None
    BY <1>1, <2>2 DEF RefInv, FreshInv
  <2>9. \A q \in Site : site'[q].sid = site[q].sid /\ (site[q].live => site'[q].live)
    BY <2>7, <2>8
  <2>10. /\ browser' \in [Browser -> [sid : 0 .. MaxSid, cookie : [App -> 0 .. MaxSite]]]
         /\ \A b \in Browser, a \in App :
               browser'[b].cookie[a] = IF b = home[t] /\ a = job[t].app THEN k
                                       ELSE browser[b].cookie[a]
    <3>1. browser \in [Browser -> [sid : 0 .. MaxSid, cookie : [App -> 0 .. MaxSite]]]
      BY <1>1 DEF TypeInv
    <3> QED BY <1>2, <1>4, <2>2, <3>1
  <2>11. TypeInv'
    BY <1>1, <1>2, <2>1, <2>3, <2>4, <2>6, <2>7, <2>10 DEF TypeInv
  <2> HIDE DEF k
  <2>12. \A u \in Tab : AtWork(u)' => u # t /\ job'[u] = job[u]
    BY <2>4, <2>6 DEF AtWork
  <2>13. \A u \in Tab : Writing(u) => u # t /\ job'[u] = job[u]
    BY <1>1, <2>6 DEF Writing
  <2>14. \A u \in Tab : Writing(u)' <=> Writing(u)
    BY <1>1, <2>4, <2>6 DEF Writing
  <2>15. UidInv' /\ MoveInv'
    BY <1>1, <2>1, <2>3 DEF RefInv, UidInv, MoveInv
  <2>16. WriteInv'
    <3>1. \A u \in Tab : job'[u].step = "end" => job'[u] = job[u]
      BY <2>12 DEF AtWork
    <3>2. WriteInv
      BY <1>1 DEF RefInv
    <3> QED BY <2>1, <2>3, <2>13, <2>14, <3>1, <3>2 DEF WriteInv
  <2>17. SiteInv'
    <3>1. SiteInv
      BY <1>1 DEF RefInv
    <3>2. \A u \in Tab : Writing(u)' => Writing(u) /\ job'[u] = job[u]
      BY <2>13, <2>14
    <3> QED BY <2>1, <2>3, <2>9, <3>1, <3>2 DEF SiteInv
  <2>18. FreshInv'
    <3>1. FreshInv
      BY <1>1 DEF RefInv
    <3>2. \A b \in Browser, a \in App : browser[b].cookie[a] # k
      <4>1. spent.site \in Nat /\ None = 0
        BY <1>1, Typed DEF None
      <4>2. \A b \in Browser, a \in App : browser[b].cookie[a] \in 0 .. MaxSite
        BY <1>1 DEF TypeInv
      <4> QED BY <2>2, <3>1, <4>1, <4>2 DEF FreshInv
    <3>3. \A u \in Tab : job[u].step = "resume" => job[u].site # k
      <4>1. \A u \in Tab : job[u].site \in 0 .. MaxSite /\ spent.site \in Nat /\ None = 0
        BY <1>1, Typed DEF None
      <4> QED BY <2>2, <3>1, <4>1 DEF FreshInv
    <3>4. ASSUME NEW u \in Tab, job'[u].step = "resume", job'[u].site # None
          PROVE  /\ site'[job'[u].site].sid = None /\ site'[job'[u].site].live
                 /\ job'[u].site <= k
                 /\ \A v \in Tab \ {u} : job'[v].step = "resume" => job'[v].site # job'[u].site
                 /\ \A b \in Browser, a \in App :
                       browser'[b].cookie[a] = job'[u].site => b = home[u] /\ a = job'[u].app
      <4>1. CASE u = t
        <5>1. job'[u].site = k /\ job'[u].app = job[t].app /\ k <= k
          BY <2>2, <2>4, <2>6, <4>1
        <5>2. \A v \in Tab \ {u} : job'[v].step = "resume" => job'[v].site # k
          BY <2>6, <3>3, <4>1
        <5>3. \A b \in Browser, a \in App :
                 browser'[b].cookie[a] = k => b = home[t] /\ a = job[t].app
          BY <2>10, <3>2
        <5> QED BY <2>7, <4>1, <5>1, <5>2, <5>3
      <4>2. CASE u # t
        <5>1. job'[u] = job[u] /\ job[u].site # k /\ job[u].site \in Site
          BY <1>1, <2>6, <3>3, <3>4, <4>2, Typed, Bounds
        <5>2. /\ site[job[u].site].sid = None /\ site[job[u].site].live
              /\ job[u].site <= spent.site
              /\ \A v \in Tab \ {u} : job[v].step = "resume" => job[v].site # job[u].site
              /\ \A b \in Browser, a \in App :
                       browser[b].cookie[a] = job[u].site => b = home[u] /\ a = job[u].app
          BY <3>1, <3>4, <5>1 DEF FreshInv
        <5>3. job[u].site <= k
          BY <1>1, <2>2, <5>1, <5>2, Typed
        <5>4. \A v \in Tab \ {u} : job'[v].step = "resume" => job'[v].site # job[u].site
          BY <2>4, <2>6, <5>1, <5>2
        <5>5. \A b \in Browser, a \in App :
                 browser'[b].cookie[a] = job[u].site => b = home[u] /\ a = job[u].app
          BY <2>10, <5>1, <5>2
        <5> QED BY <2>9, <5>1, <5>2, <5>3, <5>4, <5>5
      <4> QED BY <4>1, <4>2
    <3>5. \A u \in Tab : job'[u].step = "login" => job'[u].site = None
      BY <2>4, <2>6, <3>1 DEF FreshInv
    <3>6. ASSUME NEW b \in Browser, NEW a \in App, browser'[b].cookie[a] # None
          PROVE  browser'[b].cookie[a] <= k /\ site'[browser'[b].cookie[a]].live
      <4>1. CASE browser'[b].cookie[a] = k
        BY <2>2, <2>7, <4>1
      <4>2. CASE browser'[b].cookie[a] # k
        <5>1. browser'[b].cookie[a] = browser[b].cookie[a]
          BY <2>10, <4>2
        <5>2. browser[b].cookie[a] \in Site /\ spent.site \in Nat
          BY <1>1, <3>6, <5>1, Typed, Bounds DEF TypeInv
        <5>3. browser[b].cookie[a] <= spent.site /\ site[browser[b].cookie[a]].live
          BY <3>1, <3>6, <5>1 DEF FreshInv
        <5>4. browser[b].cookie[a] <= k
          BY <2>2, <5>2, <5>3 DEF Site
        <5> QED BY <2>9, <5>1, <5>2, <5>3, <5>4
      <4> QED BY <4>1, <4>2
    <3>7. \A q \in Site : q > k => site'[q].sid = None
      <4>1. \A q \in Site : q > k => q > spent.site
        BY <1>1, <2>2, Typed DEF Site
      <4> QED BY <2>9, <3>1, <4>1 DEF FreshInv
    <3>8. home' = home /\ spent'.site = k
      BY <2>1, <2>3
    <3> QED BY <3>4, <3>5, <3>6, <3>7, <3>8 DEF FreshInv
  <2>19. ASSUME ~crossed PROVE EndInv' /\ AloneInv' /\ FollowInv' /\ AppsInv'
    <3>1. EndInv /\ AloneInv /\ FollowInv /\ AppsInv
      BY <1>1, <2>19 DEF OrderInv
    <3>2. bound[k] = None
      BY <1>1, <2>2, <2>8 DEF RefInv, SiteInv
    <3>3. \A b \in Browser, a \in App :
             browser'[b].cookie[a] = browser[b].cookie[a] \/ bound[browser'[b].cookie[a]] = None
      BY <2>10, <3>2
    <3>4. \A m \in moves : session'[m.to].live
      BY <2>1, <3>1 DEF AloneInv
    <3>5. /\ \A s \in Sid : session'[s].live => session'[s].uid \notin ended'
          /\ \A u \in Tab : Writing(u) => job[u].uid \notin ended'
      BY <2>1, <3>1 DEF EndInv
    <3>6. \A u \in Tab : job'[u].step = "end" => job'[u] = job[u] /\ session'[job[u].sid].live
      BY <2>1, <2>12, <3>1 DEF AtWork, EndInv
    <3>7. \A q \in Site : bound[q] # None => site'[q].sid = site[q].sid
      BY <2>9
    <3>8. bound' = bound /\ moves' = moves /\ session' = session
      BY <2>1
    <3> QED BY <1>1, <2>13, <2>14, <3>1, <3>3, <3>4, <3>5, <3>6, <3>7, <3>8, OrderSame
  <2> QED BY <2>1, <2>11, <2>15, <2>16, <2>17, <2>18, <2>19 DEF Inv, RefInv, OrderInv
<1> QED BY <1>3, <1>4 DEF Consent

LEMMA Killed ==
    ASSUME TypeInv, NEW s \in Sid, session' = [session EXCEPT ![s].live = FALSE]
    PROVE  /\ session' \in [Sid -> Session]
           /\ \A r \in Sid : /\ session'[r].uid = session[r].uid
                             /\ session'[r].apps = session[r].apps
                             /\ session'[r].live => session[r].live /\ r # s
           /\ \A r \in Sid : r # s => session'[r] = session[r]
<1>1. session \in [Sid -> Session]
  BY DEF TypeInv
<1>2. session[s] \in Session /\ [session[s] EXCEPT !.live = FALSE] \in Session
  BY <1>1 DEF Session
<1>3. session'[s] = [session[s] EXCEPT !.live = FALSE]
  BY <1>1
<1>4. ~session'[s].live /\ session'[s].uid = session[s].uid /\ session'[s].apps = session[s].apps
  BY <1>2, <1>3 DEF Session
<1>5. \A r \in Sid : r # s => session'[r] = session[r]
  BY <1>1
<1>6. session' \in [Sid -> Session]
  BY <1>1, <1>2
<1> QED BY <1>4, <1>5, <1>6

LEMMA ExpireInv ==
    ASSUME Inv, NEW s \in Sid, Expire(s)
    PROVE  Inv'
<1>1. TypeInv /\ RefInv /\ OrderInv /\ session[s].live
  BY UidIs DEF Inv, Expire
<1>2. UNCHANGED <<home, site, browser, job, moves, ended, bound>>
  BY DEF Expire
<1>3. /\ session' \in [Sid -> Session]
      /\ \A r \in Sid : /\ session'[r].uid = session[r].uid
                        /\ session'[r].apps = session[r].apps
                        /\ session'[r].live => session[r].live /\ r # s
      /\ \A r \in Sid : r # s => session'[r] = session[r]
  BY <1>1, Killed DEF Expire
<1>4. /\ spent' \in [sid : 0 .. MaxSid, site : 0 .. MaxSite, event : Nat]
      /\ spent'.sid = spent.sid /\ spent'.site = spent.site
  BY <1>1 DEF Expire, Happens, TypeInv
<1>5. crossed' = (crossed \/ Touching(UidOf(s))) /\ crossed' \in BOOLEAN
  BY DEF Expire
<1>6. TypeInv'
  BY <1>1, <1>2, <1>3, <1>4, <1>5 DEF TypeInv
<1>7. RefInv'
  <2>1. MoveInv'
    BY <1>1, <1>2, <1>3, MovesSame
  <2>2. \A u \in ended' : u <= spent.sid
    BY <1>1, <1>2 DEF RefInv, UidInv
  <2>3. \A u \in Tab : job'[u].step = "end" =>
           job'[u].sid \in Sid /\ job'[u].uid # None /\ session[job'[u].sid].uid = job'[u].uid
    BY <1>1, <1>2 DEF RefInv, WriteInv
  <2>4. \A u \in Tab : job'[u].step = "login" => job'[u].site = None
    BY <1>1, <1>2 DEF RefInv, FreshInv
  <2>5. \A u \in Tab : Writing(u)' <=> Writing(u)
    BY <1>2 DEF Writing
  <2> QED BY <1>1, <1>2, <1>3, <1>4, <2>1, <2>2, <2>3, <2>4, <2>5, RefSame
<1>8. ASSUME ~crossed' PROVE EndInv' /\ AloneInv' /\ FollowInv' /\ AppsInv'
  <2>1. EndInv /\ AloneInv /\ FollowInv /\ AppsInv /\ ~Touching(UidOf(s))
    BY <1>1, <1>5, <1>8 DEF OrderInv
  <2>2. UidOf(s) = session[s].uid
    BY <1>1, UidIs, Bounds
  <2>3. ASSUME NEW m \in moves PROVE session'[m.to].live
    <3>1. m.to \in Sid /\ session[m.to].live
      BY <1>1, <2>1 DEF AloneInv, TypeInv, Moving
    <3>2. UidOf(m.to) # UidOf(s)
      BY <2>1 DEF Touching
    <3> QED BY <1>3, <3>1, <3>2
  <2>4. ASSUME NEW u \in Tab, job[u].step = "end" PROVE session'[job[u].sid].live
    <3>1. job[u].sid \in Sid /\ session[job[u].sid].live /\ session[job[u].sid].uid = job[u].uid
      BY <2>1, <2>4 DEF EndInv
    <3>2. job[u].uid # UidOf(s)
      BY <2>1, <2>4 DEF Touching
    <3> QED BY <1>3, <2>2, <3>1, <3>2
  <2>5. /\ \A r \in Sid : session'[r].live => session'[r].uid \notin ended'
        /\ \A u \in Tab : Writing(u) => job[u].uid \notin ended'
    BY <1>2, <1>3, <2>1 DEF EndInv
  <2>6. \A u \in Tab : Writing(u)' <=> Writing(u)
    BY <1>2 DEF Writing
  <2> QED BY <1>1, <1>2, <1>3, <2>1, <2>3, <2>4, <2>5, <2>6, OrderSame
<1> QED BY <1>6, <1>7, <1>8 DEF Inv, OrderInv

LEMMA DestroyInv ==
    ASSUME Inv, NEW t \in Tab, Destroy(t)
    PROVE  Inv'
<1> DEFINE j == [job[t] EXCEPT !.step = "save"]
           s == job[t].old
<1>1. TypeInv /\ RefInv /\ OrderInv /\ job[t].step = "destroy" /\ job[t] \in Job /\ Writing(t)
  BY Typed DEF Inv, Destroy, Writing
<1>2. UNCHANGED <<home, site, browser, moves, spent, ended, bound, crossed>>
  BY DEF Destroy
<1>3. s \in Sid /\ session[s].uid = job[t].uid
  BY <1>1, Typed, Bounds DEF RefInv, WriteInv
<1>4. /\ session' \in [Sid -> Session]
      /\ \A r \in Sid : /\ session'[r].uid = session[r].uid
                        /\ session'[r].apps = session[r].apps
                        /\ session'[r].live => session[r].live /\ r # s
      /\ \A r \in Sid : r # s => session'[r] = session[r]
  BY <1>1, <1>3, Killed DEF Destroy
<1>5. j \in Job /\ j.step = "save" /\ j.sid = job[t].sid /\ j.uid = job[t].uid
      /\ j.old = job[t].old /\ j.apps = job[t].apps /\ j.app = job[t].app
  BY <1>1 DEF Job
<1>6. job' = [job EXCEPT ![t] = j]
  BY <1>1 DEF Destroy, TypeInv
<1> HIDE DEF j
<1>7. job' \in [Tab -> Job] /\ job'[t] = j /\ \A u \in Tab : u # t => job'[u] = job[u]
  BY <1>1, <1>5, <1>6, JobSet
<1>8. TypeInv'
  BY <1>1, <1>2, <1>4, <1>5, <1>7 DEF TypeInv
<1>9. \A u \in Tab : Writing(u)' <=> Writing(u)
  BY <1>1, <1>5, <1>7 DEF Writing
<1>10. \A u \in Tab : /\ job'[u].sid = job[u].sid /\ job'[u].uid = job[u].uid
                      /\ job'[u].old = job[u].old /\ job'[u].apps = job[u].apps
  BY <1>5, <1>7
<1>11. \A u \in Tab : job'[u].step # "save" => u # t /\ job'[u] = job[u]
  BY <1>5, <1>7
<1>12. RefInv'
  <2>1. MoveInv'
    BY <1>1, <1>2, <1>4, MovesSame
  <2>2. \A u \in ended' : u <= spent.sid
    BY <1>1, <1>2 DEF RefInv, UidInv
  <2>3. \A u \in Tab : job'[u].step = "end" =>
           job'[u].sid \in Sid /\ job'[u].uid # None /\ session[job'[u].sid].uid = job'[u].uid
    BY <1>1, <1>11 DEF RefInv, WriteInv
  <2>4. \A u \in Tab : job'[u].step = "login" => job'[u].site = None
    BY <1>1, <1>11 DEF RefInv, FreshInv
  <2>5. \A u \in Tab : job'[u].step = "resume" => job'[u] = job[u]
    BY <1>11
  <2>6. \A u \in Tab : job'[u].step = "destroy" => job[u].step = "destroy"
    BY <1>11
  <2> QED BY <1>1, <1>2, <1>4, <1>9, <1>10, <2>1, <2>2, <2>3, <2>4, <2>5, <2>6, RefSame
<1>13. ASSUME ~crossed' PROVE EndInv' /\ AloneInv' /\ FollowInv' /\ AppsInv'
  <2>1. EndInv /\ AloneInv /\ FollowInv /\ AppsInv
    BY <1>1, <1>2, <1>13 DEF OrderInv
  <2>2. AtWork(t)
    BY <1>1 DEF AtWork
  <2>3. ASSUME NEW m \in moves PROVE session'[m.to].live
    <3>1. m.to \in Sid /\ session[m.to].live /\ job[t].uid # session[m.to].uid
      BY <1>1, <2>1, <2>2 DEF AloneInv, TypeInv, Moving
    <3> QED BY <1>3, <1>4, <3>1
  <2>4. ASSUME NEW u \in Tab, job'[u].step = "end"
        PROVE  job'[u] = job[u] /\ session'[job[u].sid].live
    <3>1. u # t /\ job'[u] = job[u]
      BY <1>11, <2>4
    <3>2. job[u].sid \in Sid /\ session[job[u].sid].live /\ session[job[u].sid].uid = job[u].uid
      BY <2>1, <2>4, <3>1 DEF EndInv
    <3>3. job[u].uid # job[t].uid
      BY <2>1, <2>2, <2>4, <3>1 DEF EndInv, AtWork
    <3> QED BY <1>3, <1>4, <3>1, <3>2, <3>3
  <2>5. /\ \A r \in Sid : session'[r].live => session'[r].uid \notin ended'
        /\ \A u \in Tab : Writing(u) => job[u].uid \notin ended'
    BY <1>2, <1>4, <2>1 DEF EndInv
  <2>6. \A u \in Tab : \/ job'[u].step = job[u].step
                       \/ job'[u].step = "save" /\ ~session'[job[u].old].live
    BY <1>3, <1>4, <1>5, <1>7
  <2>7. \A k \in Site : bound[k] # None => site'[k].sid = site[k].sid
    BY <1>2
  <2> QED BY <1>1, <1>2, <1>4, <1>9, <1>10, <2>1, <2>3, <2>4, <2>5, <2>6, <2>7, OrderSame
<1> QED BY <1>8, <1>12, <1>13 DEF Inv, OrderInv

LEMMA EndedInv ==
    ASSUME Inv, NEW t \in Tab, Ended(t)
    PROVE  Inv'
<1> DEFINE s == job[t].sid
<1>1. TypeInv /\ RefInv /\ OrderInv /\ job[t].step = "end" /\ home[t] \in Browser
  BY Typed DEF Inv, Ended
<1>2. UNCHANGED <<home, site, moves, spent, bound, crossed>> /\ ended' = ended \cup {job[t].uid}
  BY DEF Ended
<1>3. /\ s \in Sid /\ job[t].uid # None /\ session[s].uid = job[t].uid
      /\ job[t].uid \in Sid /\ job[t].uid <= spent.sid
  <2>1. s \in Sid /\ job[t].uid # None /\ session[s].uid = job[t].uid
    BY <1>1 DEF RefInv, WriteInv
  <2>2. session[s].uid <= spent.sid
    BY <1>1, <2>1 DEF RefInv, UidInv
  <2> QED BY <1>1, <2>1, <2>2, Typed, Bounds
<1>4. /\ session' \in [Sid -> Session]
      /\ \A r \in Sid : /\ session'[r].uid = session[r].uid
                        /\ session'[r].apps = session[r].apps
                        /\ session'[r].live => session[r].live /\ r # s
      /\ \A r \in Sid : r # s => session'[r] = session[r]
  BY <1>1, <1>3, Killed DEF Ended
<1>5. /\ job' \in [Tab -> Job] /\ job'[t] = NoJob /\ \A u \in Tab : u # t => job'[u] = job[u]
  BY <1>1, JobSet, NullIs DEF Ended
<1>6. /\ browser' \in [Browser -> [sid : 0 .. MaxSid, cookie : [App -> 0 .. MaxSite]]]
      /\ \A b \in Browser : browser'[b].cookie = browser[b].cookie
  <2>1. browser \in [Browser -> [sid : 0 .. MaxSid, cookie : [App -> 0 .. MaxSite]]]
    BY <1>1 DEF TypeInv
  <2>2. PICK r \in 0 .. MaxSid : browser' = [browser EXCEPT ![home[t]].sid = r]
    <3>1. browser[home[t]].sid \in 0 .. MaxSid
      BY <1>1, <2>1
    <3>2. browser' = [browser EXCEPT ![home[t]].sid =
                        IF browser[home[t]].sid = s THEN None ELSE browser[home[t]].sid]
      BY DEF Ended
    <3> QED BY <3>1, <3>2, Bounds DEF None
  <2> QED BY <1>1, <2>1, <2>2
<1>7. TypeInv'
  BY <1>1, <1>2, <1>3, <1>4, <1>5, <1>6, NullIs DEF TypeInv
<1>8. \A u \in Tab : job'[u].step # "idle" => u # t /\ job'[u] = job[u]
  BY <1>5, NullIs
<1>9. \A u \in Tab : Writing(u) => u # t /\ job'[u] = job[u]
  BY <1>1, <1>5 DEF Writing
<1>10. \A u \in Tab : Writing(u)' <=> Writing(u)
  BY <1>8, <1>9 DEF Writing
<1>11. RefInv'
  <2>1. MoveInv'
    BY <1>1, <1>2, <1>4, MovesSame
  <2>2. \A u \in ended' : u <= spent.sid
    BY <1>1, <1>2, <1>3 DEF RefInv, UidInv
  <2>3. \A u \in Tab : job'[u].step = "end" =>
           job'[u].sid \in Sid /\ job'[u].uid # None /\ session[job'[u].sid].uid = job'[u].uid
    BY <1>1, <1>8 DEF RefInv, WriteInv
  <2>4. \A u \in Tab : job'[u].step = "login" => job'[u].site = None
    BY <1>1, <1>8 DEF RefInv, FreshInv
  <2>5. \A u \in Tab : job'[u].step = "resume" => job'[u] = job[u]
    BY <1>8
  <2>6. \A b \in Browser, a \in App : browser'[b].cookie[a] = browser[b].cookie[a]
    BY <1>6
  <2> QED BY <1>1, <1>2, <1>4, <1>9, <1>10, <2>1, <2>2, <2>3, <2>4, <2>5, <2>6, RefSame
<1>12. ASSUME ~crossed' PROVE EndInv' /\ AloneInv' /\ FollowInv' /\ AppsInv'
  <2>1. EndInv /\ AloneInv /\ FollowInv /\ AppsInv
    BY <1>1, <1>2, <1>12 DEF OrderInv
  <2>2. AtWork(t) /\ session[s].live
    BY <1>1, <2>1 DEF AtWork, EndInv
  <2>3. ASSUME NEW m \in moves PROVE session'[m.to].live
    <3>1. m.to \in Sid /\ session[m.to].live /\ job[t].uid # session[m.to].uid
      BY <1>1, <2>1, <2>2 DEF AloneInv, TypeInv, Moving
    <3> QED BY <1>3, <1>4, <3>1
  <2>4. ASSUME NEW u \in Tab, job'[u].step = "end"
        PROVE  job'[u] = job[u] /\ session'[job[u].sid].live
    <3>1. u # t /\ job'[u] = job[u]
      BY <1>8, <2>4
    <3>2. job[u].sid \in Sid /\ session[job[u].sid].live /\ session[job[u].sid].uid = job[u].uid
      BY <2>1, <2>4, <3>1 DEF EndInv
    <3>3. job[u].uid # job[t].uid
      BY <2>1, <2>2, <2>4, <3>1 DEF EndInv, AtWork
    <3> QED BY <1>3, <1>4, <3>1, <3>2, <3>3
  <2>5. ASSUME NEW r \in Sid, session'[r].live PROVE session'[r].uid \notin ended'
    <3>1. session[r].live /\ r # s /\ session'[r].uid = session[r].uid
      BY <1>4, <2>5
    <3>2. session[r].uid # job[t].uid
      BY <1>3, <2>1, <2>2, <3>1 DEF EndInv
    <3> QED BY <1>2, <2>1, <3>1, <3>2 DEF EndInv
  <2>6. ASSUME NEW u \in Tab, Writing(u) PROVE job[u].uid \notin ended'
    <3>1. job[u].uid # job[t].uid
      BY <1>9, <2>1, <2>2, <2>6 DEF EndInv, AtWork, Writing
    <3> QED BY <1>2, <2>1, <2>6, <3>1 DEF EndInv
  <2>7. \A k \in Site : site'[k].sid = site[k].sid
    BY <1>2
  <2>8. \A b \in Browser, a \in App : browser'[b].cookie[a] = browser[b].cookie[a]
    BY <1>6
  <2> QED BY <1>1, <1>2, <1>4, <1>9, <1>10, <2>1, <2>3, <2>4, <2>5, <2>6, <2>7, <2>8, OrderSame
<1> QED BY <1>7, <1>11, <1>12 DEF Inv, OrderInv

LEMMA RestartInv ==
    ASSUME Inv, Restart
    PROVE  Inv'
<1>1. TypeInv /\ RefInv /\ OrderInv
  BY DEF Inv
<1>2. UNCHANGED <<home, session, site, browser, ended, bound>> /\ moves' = {}
  BY DEF Restart
<1>3. job' \in [Tab -> Job] /\ \A u \in Tab : job'[u] = IF AtWork(u) THEN NoJob ELSE job[u]
  BY <1>1, NullIs DEF Restart, AtWork, TypeInv
<1>4. \A u \in Tab : ~AtWork(u)'
  BY <1>3, NullIs DEF AtWork
<1>5. \A u \in Tab : job'[u].step # "idle" => job'[u] = job[u]
  BY <1>3, NullIs
<1>6. /\ spent' \in [sid : 0 .. MaxSid, site : 0 .. MaxSite, event : Nat]
      /\ spent'.sid = spent.sid /\ spent'.site = spent.site
  BY <1>1 DEF Restart, Happens, TypeInv
<1>7. /\ crossed' = (crossed \/ moves # {} \/ \E t \in Tab : Writing(t))
      /\ crossed' \in BOOLEAN
  BY DEF Restart, Writing
<1>8. TypeInv'
  BY <1>1, <1>2, <1>3, <1>5, <1>6, <1>7 DEF TypeInv
<1>9. \A u \in Tab : ~Writing(u)' /\ job'[u].step # "end"
  BY <1>4 DEF AtWork, Writing
<1>10. RefInv'
  <2>1. MoveInv'
    BY <1>2 DEF MoveInv
  <2>2. \A u \in ended' : u <= spent.sid
    BY <1>1, <1>2 DEF RefInv, UidInv
  <2>3. \A u \in Tab : job'[u].step = "login" => job'[u].site = None
    BY <1>1, <1>5 DEF RefInv, FreshInv
  <2>4. \A u \in Tab : job'[u].step = "resume" => job'[u] = job[u]
    BY <1>5
  <2> QED BY <1>1, <1>2, <1>6, <1>9, <2>1, <2>2, <2>3, <2>4, RefSame
<1>11. ASSUME ~crossed' PROVE EndInv' /\ AloneInv' /\ FollowInv' /\ AppsInv'
  <2>1. EndInv /\ AloneInv /\ FollowInv /\ AppsInv /\ moves = {} /\ \A t \in Tab : ~Writing(t)
    BY <1>1, <1>7, <1>11 DEF OrderInv
  <2>2. \A s \in Sid : session'[s].live => session'[s].uid \notin ended'
    BY <1>2, <2>1 DEF EndInv
  <2> QED BY <1>1, <1>2, <1>9, <2>1, <2>2, OrderSame
<1> QED BY <1>8, <1>10, <1>11 DEF Inv, OrderInv

LEMMA EndSessionInv ==
    ASSUME Inv, NEW t \in Tab, NEW s \in Sid, End(t, s)
    PROVE  Inv'
<1> DEFINE j == [NoJob EXCEPT !.step = "end", !.sid = s, !.uid = UidOf(s)]
<1>1. TypeInv /\ RefInv /\ OrderInv /\ session[s].live /\ job[t].step = "idle"
  BY UidIs DEF Inv, End
<1>2. UNCHANGED <<home, session, site, browser, moves, ended, bound>>
  BY DEF End
<1>3. UidOf(s) = session[s].uid /\ UidOf(s) # None /\ UidOf(s) \in 0 .. MaxSid
  BY <1>1, UidIs, Bounds DEF RefInv, UidInv
<1>4. j \in Job /\ j.step = "end" /\ j.sid = s /\ j.uid = session[s].uid
  BY <1>3, NullIs, Bounds DEF Job
<1>5. job' = [job EXCEPT ![t] = j]
  BY DEF End
<1> HIDE DEF j
<1>6. job' \in [Tab -> Job] /\ job'[t] = j /\ \A u \in Tab : u # t => job'[u] = job[u]
  BY <1>1, <1>4, <1>5, JobSet
<1>7. /\ spent' \in [sid : 0 .. MaxSid, site : 0 .. MaxSite, event : Nat]
      /\ spent'.sid = spent.sid /\ spent'.site = spent.site
  BY <1>1 DEF End, Happens, TypeInv
<1>8. crossed' = (crossed \/ Touching(UidOf(s))) /\ crossed' \in BOOLEAN
  BY DEF End
<1>9. TypeInv'
  BY <1>1, <1>2, <1>4, <1>6, <1>7, <1>8 DEF TypeInv
<1>10. \A u \in Tab : job'[u].step # "end" => u # t /\ job'[u] = job[u]
  BY <1>4, <1>6
<1>11. \A u \in Tab : Writing(u)' => job'[u] = job[u] /\ Writing(u)
  BY <1>10 DEF Writing
<1>12. \A u \in Tab : Writing(u) => u # t /\ job'[u] = job[u] /\ Writing(u)'
  BY <1>1, <1>6 DEF Writing
<1>13. RefInv'
  <2>1. MoveInv'
    BY <1>1, <1>2, MovesSame
  <2>2. \A u \in ended' : u <= spent.sid
    BY <1>1, <1>2 DEF RefInv, UidInv
  <2>3. \A u \in Tab : job'[u].step = "end" =>
           job'[u].sid \in Sid /\ job'[u].uid # None /\ session[job'[u].sid].uid = job'[u].uid
    BY <1>1, <1>3, <1>4, <1>6 DEF RefInv, WriteInv
  <2>4. \A u \in Tab : job'[u].step = "login" => job'[u].site = None
    BY <1>1, <1>10 DEF RefInv, FreshInv
  <2>5. \A u \in Tab : job'[u].step = "resume" => job'[u] = job[u]
    BY <1>10
  <2> QED BY <1>1, <1>2, <1>7, <1>11, <2>1, <2>2, <2>3, <2>4, <2>5, RefSame
<1>14. ASSUME ~crossed' PROVE EndInv' /\ AloneInv' /\ FollowInv' /\ AppsInv'
  <2>1. EndInv /\ AloneInv /\ FollowInv /\ AppsInv /\ ~Touching(UidOf(s))
    BY <1>1, <1>8, <1>14 DEF OrderInv
  <2>2. \A u \in Tab : AtWork(u) => job[u].uid # session[s].uid
    BY <1>3, <2>1 DEF Touching, AtWork
  <2>3. \A m \in moves : session[m.to].uid # session[s].uid
    <3>1. \A m \in moves : m.to \in Sid /\ session[m.to].live
      BY <1>1, <2>1 DEF AloneInv, TypeInv, Moving
    <3>2. \A m \in moves : UidOf(m.to) = session[m.to].uid
      BY <1>1, <3>1, UidIs, Bounds
    <3> QED BY <1>3, <2>1, <3>2 DEF Touching
  <2>4. \A u \in Tab : AtWork(u)' => (u = t /\ job'[u] = j) \/ (AtWork(u) /\ job'[u] = job[u])
    BY <1>6 DEF AtWork
  <2>5. EndInv'
    <3>1. \A u, v \in Tab : AtWork(u)' /\ AtWork(v)' /\ job'[u].uid = job'[v].uid => u = v
      BY <1>4, <2>1, <2>2, <2>4 DEF EndInv
    <3>2. \A u \in Tab : job'[u].step = "end" =>
             /\ job'[u].sid \in Sid /\ session[job'[u].sid].live
             /\ session[job'[u].sid].uid = job'[u].uid
      BY <1>1, <1>4, <1>6, <2>1 DEF EndInv
    <3> QED BY <1>2, <1>11, <2>1, <3>1, <3>2 DEF EndInv
  <2>6. AloneInv'
    BY <1>2, <1>4, <2>1, <2>3, <2>4 DEF AloneInv
  <2>7. FollowInv'
    BY <1>2, <1>11, <1>12, <2>1 DEF FollowInv
  <2>8. AppsInv'
    BY <1>2, <1>11, <1>12, <2>1 DEF AppsInv
  <2> QED BY <2>5, <2>6, <2>7, <2>8
<1> QED BY <1>9, <1>13, <1>14 DEF Inv, OrderInv

(***************************************************************************)
(* The handlers of a changed id.                                           *)
(***************************************************************************)

LEMMA MoveReadInv ==
    ASSUME Inv, NEW m \in moves, MoveRead(m)
    PROVE  Inv'
<1> DEFINE n == [m EXCEPT !.read = TRUE, !.seen = RefersTo(m)]
<1>1. TypeInv /\ RefInv /\ OrderInv /\ m \in Moving
  BY DEF Inv, TypeInv
<1>2. UNCHANGED <<home, session, site, browser, job, spent, ended, bound, crossed>>
  BY DEF MoveRead
<1>3. n \in Moving /\ n.to = m.to /\ n.from = m.from /\ n.seen = RefersTo(m) /\ n.read = TRUE
  BY <1>1 DEF Moving, RefersTo
<1>4. moves' = (moves \ {m}) \cup {n}
  BY DEF MoveRead
<1> HIDE DEF n
<1>5. m.to \in Sid /\ m.from \in Sid
  BY <1>1 DEF Moving
<1>6. TypeInv'
  BY <1>1, <1>2, <1>3, <1>4 DEF TypeInv
<1>7. RefInv'
  <2>1. /\ session[m.to].uid = session[m.from].uid /\ session[m.to].uid # None
        /\ \A k \in m.seen : bound[k] = session[m.to].uid
    BY <1>1 DEF RefInv, MoveInv
  <2>2. \A k \in RefersTo(m) : bound[k] = session[m.to].uid
    BY <1>1, <1>5, <2>1, Bounds DEF RefersTo, RefInv, SiteInv
  <2>3. MoveInv'
    BY <1>1, <1>2, <1>3, <1>4, <2>1, <2>2 DEF RefInv, MoveInv
  <2>4. \A u \in ended' : u <= spent.sid
    BY <1>1, <1>2 DEF RefInv, UidInv
  <2>5. \A u \in Tab : job'[u].step = "end" =>
           job'[u].sid \in Sid /\ job'[u].uid # None /\ session[job'[u].sid].uid = job'[u].uid
    BY <1>1, <1>2 DEF RefInv, WriteInv
  <2>6. \A u \in Tab : job'[u].step = "login" => job'[u].site = None
    BY <1>1, <1>2 DEF RefInv, FreshInv
  <2>7. \A u \in Tab : Writing(u)' <=> Writing(u)
    BY <1>2 DEF Writing
  <2> QED BY <1>1, <1>2, <2>3, <2>4, <2>5, <2>6, <2>7, RefSame
<1>8. ASSUME ~crossed' PROVE EndInv' /\ AloneInv' /\ FollowInv' /\ AppsInv'
  <2>1. EndInv /\ AloneInv /\ FollowInv /\ AppsInv
    BY <1>1, <1>2, <1>8 DEF OrderInv
  <2>2. EndInv' /\ AppsInv'
    BY <1>2, <2>1 DEF EndInv, AppsInv, Writing, AtWork
  <2>3. AloneInv'
    <3>1. \A p, q \in moves' : session[p.to].uid = session[q.to].uid => p = q
      <4>1. \A p \in moves' : p = n \/ (p \in moves /\ p # m)
        BY <1>4
      <4>2. \A p \in moves : session[p.to].uid = session[m.to].uid => p = m
        BY <2>1 DEF AloneInv
      <4>3. \A p, q \in moves : session[p.to].uid = session[q.to].uid => p = q
        BY <2>1 DEF AloneInv
      <4> QED BY <1>3, <4>1, <4>2, <4>3
    <3>2. \A p \in moves' : session[p.to].live
      BY <1>3, <1>4, <2>1 DEF AloneInv
    <3>3. \A p \in moves', u \in Tab : AtWork(u) => job[u].uid # session[p.to].uid
      BY <1>3, <1>4, <2>1 DEF AloneInv
    <3> QED BY <1>2, <3>1, <3>2, <3>3 DEF AloneInv, AtWork
  <2>4. FollowInv'
    <3> SUFFICES ASSUME NEW k \in Site, bound[k] # None, NEW s \in Sid, session[s].live,
                        session[s].uid = bound[k], site[k].sid # s,
                        ~ \E t \in Tab : Writing(t) /\ job[t].uid = bound[k]
                 PROVE  \E p \in moves' : /\ p.to = s /\ site[k].sid = p.from
                                          /\ p.read => k \in p.seen
      BY <1>2, <2>1 DEF FollowInv, Writing
    <3>1. PICK q \in moves : /\ q.to = s /\ site[k].sid = q.from
                             /\ q.read => k \in q.seen
      BY <2>1 DEF FollowInv
    <3>2. CASE q # m
      BY <1>4, <3>1, <3>2
    <3>3. CASE q = m
      <4>1. site[k].live
        BY <1>1, <1>5, <3>1, <3>3, Bounds DEF RefInv, SiteInv
      <4>2. k \in n.seen
        BY <1>3, <3>1, <3>3, <4>1 DEF RefersTo
      <4> QED BY <1>3, <1>4, <3>1, <3>3, <4>2
    <3> QED BY <3>2, <3>3
  <2> QED BY <2>2, <2>3, <2>4
<1> QED BY <1>6, <1>7, <1>8 DEF Inv, OrderInv

LEMMA MoveWriteInv ==
    ASSUME Inv, NEW m \in moves, MoveWrite(m)
    PROVE  Inv'
<1>1. TypeInv /\ RefInv /\ OrderInv /\ m.to \in Sid /\ m.seen \subseteq Site /\ m.read
  BY DEF Inv, TypeInv, Moving, MoveWrite
<1>2. UNCHANGED <<home, session, browser, job, spent, ended, bound, crossed>>
  BY DEF MoveWrite
<1>3. moves' = moves \ {m}
  BY DEF MoveWrite
<1>4. /\ site' \in [Site -> [live : BOOLEAN, sid : 0 .. MaxSid]]
      /\ \A k \in Site : k \in m.seen => site'[k].live /\ site'[k].sid = m.to
      /\ \A k \in Site : k \notin m.seen => site'[k] = site[k]
  <2>1. [live |-> TRUE, sid |-> m.to] \in [live : BOOLEAN, sid : 0 .. MaxSid]
    BY <1>1, Bounds
  <2> QED BY <1>1, <2>1 DEF MoveWrite, TypeInv
<1>5. TypeInv'
  BY <1>1, <1>2, <1>3, <1>4 DEF TypeInv
<1>6. /\ session[m.to].uid # None /\ m.to # None /\ m.to <= spent.sid
      /\ \A k \in m.seen : bound[k] = session[m.to].uid
  <2>1. session[m.to].uid # None /\ \A k \in m.seen : bound[k] = session[m.to].uid
    BY <1>1 DEF RefInv, MoveInv
  <2>2. ~(m.to > spent.sid)
    BY <1>1, <2>1 DEF RefInv, UidInv
  <2>3. m.to <= spent.sid
    BY <1>1, <2>2, Typed, SessionsAssumption DEF Sid
  <2> QED BY <1>1, <2>1, <2>3, Bounds
<1>7. \A k \in Site : site[k].sid = None => k \notin m.seen
  BY <1>1, <1>6 DEF RefInv, SiteInv
<1>8. RefInv'
  <2>1. UidInv' /\ MoveInv'
    BY <1>1, <1>2, <1>3 DEF RefInv, UidInv, MoveInv
  <2>2. WriteInv'
    BY <1>1, <1>2 DEF RefInv, WriteInv, Writing
  <2>3. SiteInv'
    <3>1. ASSUME NEW k \in Site, k \in m.seen
          PROVE  /\ bound[k] # None /\ site'[k].sid = m.to /\ site'[k].live
                 /\ bound[k] <= spent.sid /\ session[m.to].uid = bound[k]
                 /\ \A t \in Tab : Writing(t) /\ job[t].sid = m.to => job[t].uid = bound[k]
      <4>1. \A t \in Tab : Writing(t) /\ job[t].sid = m.to => job[t].uid = session[m.to].uid
        BY <1>1, <1>6 DEF RefInv, WriteInv
      <4>2. bound[k] <= spent.sid
        BY <1>1 DEF RefInv, SiteInv
      <4> QED BY <1>4, <1>6, <3>1, <4>1, <4>2
    <3>2. ASSUME NEW k \in Site
          PROVE  /\ site'[k].sid = None <=> bound[k] = None
                 /\ site'[k].sid # None => site'[k].live
                 /\ site'[k].sid <= spent.sid /\ bound[k] <= spent.sid
                 /\ site'[k].sid # None => session[site'[k].sid].uid \in {None, bound[k]}
                 /\ \A t \in Tab : Writing(t) /\ job[t].sid = site'[k].sid
                                   => job[t].uid = bound[k]
      <4>1. CASE k \in m.seen
        BY <1>6, <3>1, <4>1
      <4>2. CASE k \notin m.seen
        BY <1>1, <1>4, <4>2 DEF RefInv, SiteInv
      <4> QED BY <4>1, <4>2
    <3> QED BY <1>2, <3>2 DEF SiteInv, Writing
  <2>4. FreshInv'
    <3>1. \A k \in Site : site[k].sid = None => site'[k] = site[k]
      BY <1>4, <1>7
    <3>2. \A k \in Site : site[k].live => site'[k].live
      BY <1>4
    <3>3. \A t \in Tab : job[t].site # None => job[t].site \in Site
      BY <1>1, Typed, Bounds
    <3>4. \A b \in Browser, a \in App :
             browser[b].cookie[a] # None => browser[b].cookie[a] \in Site
      BY <1>1, Bounds DEF TypeInv
    <3>5. FreshInv
      BY <1>1 DEF RefInv
    <3>6. ASSUME NEW t \in Tab, job[t].step = "resume", job[t].site # None
          PROVE  /\ site'[job[t].site].sid = None /\ site'[job[t].site].live
      BY <3>1, <3>3, <3>5, <3>6 DEF FreshInv
    <3>7. \A b \in Browser, a \in App :
             browser[b].cookie[a] # None => site'[browser[b].cookie[a]].live
      BY <3>2, <3>4, <3>5 DEF FreshInv
    <3>8. \A k \in Site : k > spent.site => site'[k].sid = None
      BY <3>1, <3>5 DEF FreshInv
    <3> QED BY <1>2, <3>5, <3>6, <3>7, <3>8 DEF FreshInv
  <2> QED BY <2>1, <2>2, <2>3, <2>4 DEF RefInv
<1>9. ASSUME ~crossed' PROVE EndInv' /\ AloneInv' /\ FollowInv' /\ AppsInv'
  <2>1. EndInv /\ AloneInv /\ FollowInv /\ AppsInv
    BY <1>1, <1>2, <1>9 DEF OrderInv
  <2>2. EndInv' /\ AppsInv'
    BY <1>2, <2>1 DEF EndInv, AppsInv, Writing, AtWork
  <2>3. AloneInv'
    BY <1>2, <1>3, <2>1 DEF AloneInv, AtWork
  <2>4. FollowInv'
    <3>1. ASSUME NEW k \in Site, bound[k] # None, NEW t \in Tab, Writing(t),
                 job[t].uid = bound[k]
          PROVE  site'[k].sid \in {job[t].sid, job[t].old}
      <4>1. job[t].uid # session[m.to].uid
        BY <2>1, <3>1 DEF AloneInv, Writing, AtWork
      <4>2. k \notin m.seen
        BY <1>6, <3>1, <4>1
      <4> QED BY <1>4, <2>1, <3>1, <4>2 DEF FollowInv
    <3>2. ASSUME NEW k \in Site, bound[k] # None, NEW s \in Sid, session[s].live,
                 session[s].uid = bound[k]
          PROVE  \/ site'[k].sid = s
                 \/ \E t \in Tab : Writing(t) /\ job[t].uid = bound[k]
                 \/ \E p \in moves' : /\ p.to = s /\ site'[k].sid = p.from
                                      /\ p.read => k \in p.seen
      <4>1. CASE k \in m.seen
        <5>1. session[m.to].live /\ session[m.to].uid = session[s].uid
          BY <1>6, <2>1, <3>2, <4>1 DEF AloneInv
        <5>2. s = m.to
          BY <1>1, <2>1, <3>2, <5>1 DEF EndInv
        <5> QED BY <1>4, <4>1, <5>2
      <4>2. CASE k \notin m.seen
        <5>1. site'[k] = site[k]
          BY <1>4, <4>2
        <5>2. \A p \in moves : (p.read => k \in p.seen) => p # m
          BY <1>1, <4>2
        <5>3. \/ site[k].sid = s
              \/ \E t \in Tab : Writing(t) /\ job[t].uid = bound[k]
              \/ \E p \in moves : /\ p.to = s /\ site[k].sid = p.from
                                  /\ p.read => k \in p.seen
          BY <2>1, <3>2 DEF FollowInv
        <5> QED BY <1>3, <5>1, <5>2, <5>3
      <4> QED BY <4>1, <4>2
    <3> QED BY <1>2, <3>1, <3>2 DEF FollowInv, Writing
  <2> QED BY <2>2, <2>3, <2>4
<1> QED BY <1>5, <1>8, <1>9 DEF Inv, OrderInv

(***************************************************************************)
(* The resume.                                                             *)
(***************************************************************************)

LEMMA SaveInv ==
    ASSUME Inv, NEW t \in Tab, Save(t)
    PROVE  Inv'
<1> DEFINE sid == job[t].sid
           uid == job[t].uid
           new == [from |-> job[t].old, to |-> sid, seen |-> {}, read |-> FALSE]
<1>1. TypeInv /\ RefInv /\ OrderInv /\ job[t].step = "save" /\ job[t] \in Job
      /\ Writing(t) /\ AtWork(t) /\ job[t].app \in App /\ home[t] \in Browser
  <2>1. TypeInv /\ RefInv /\ OrderInv /\ job[t].step = "save"
    BY DEF Inv, Save
  <2> QED BY <2>1, Typed DEF Writing, AtWork, TypeInv
<1>2. UNCHANGED <<home, site, spent, ended, bound, crossed>>
  BY DEF Save
<1>3. /\ sid \in Sid /\ sid <= spent.sid /\ uid # None /\ uid <= spent.sid
      /\ session[sid].uid \in {None, uid} /\ uid \in 0 .. MaxSid
      /\ job[t].old # None => job[t].old \in Sid /\ session[job[t].old].uid = uid
  BY <1>1, Typed, Bounds DEF RefInv, WriteInv
<1>4. /\ session' \in [Sid -> Session]
      /\ session'[sid].live /\ session'[sid].uid = uid /\ session'[sid].apps = job[t].apps
      /\ \A s \in Sid : s # sid => session'[s] = session[s]
  <2>1. [live |-> TRUE, uid |-> uid, apps |-> job[t].apps] \in Session
    BY <1>1, <1>3 DEF Session, Job
  <2>2. session' = [session EXCEPT ![sid] = [live |-> TRUE, uid |-> uid, apps |-> job[t].apps]]
    BY DEF Save
  <2>3. session'[sid] = [live |-> TRUE, uid |-> uid, apps |-> job[t].apps]
    BY <1>1, <1>3, <2>2 DEF TypeInv
  <2> QED BY <1>1, <1>3, <2>1, <2>2, <2>3 DEF TypeInv
<1>5. \A s \in Sid : session[s].uid # None => session'[s].uid = session[s].uid
  BY <1>3, <1>4
<1>6. PICK j \in Job : /\ job' = [job EXCEPT ![t] = j] /\ j.step \in {"idle", "consent"}
                       /\ j.site = None
                       /\ j.step # "idle" => j.app \in App
  <2>1. CASE job' = [job EXCEPT ![t] = NoJob]
    BY <2>1, NullIs
  <2>2. CASE Open(t, "consent", job[t].app, uid, job[t].login)
    <3> DEFINE j == [NoJob EXCEPT !.step = "consent", !.app = job[t].app, !.uid = uid,
                                  !.login = job[t].login]
    <3>1. j.step = "consent" /\ j.app = job[t].app /\ j.site = None
      BY NullIs DEF NoJob
    <3>2. j \in Job
      BY <1>1, <1>3, NullIs DEF Job
    <3>3. job' = [job EXCEPT ![t] = j]
      BY <2>2 DEF Open
    <3> HIDE DEF j
    <3> QED BY <1>1, <3>1, <3>2, <3>3
  <2> QED BY <2>1, <2>2 DEF Save
<1>7. job' \in [Tab -> Job] /\ job'[t] = j /\ \A u \in Tab : u # t => job'[u] = job[u]
  BY <1>1, <1>6, JobSet
<1>8. new.from = job[t].old /\ new.to = sid /\ new.seen = {} /\ new.read = FALSE
  OBVIOUS
<1>9. job[t].old # None => new \in Moving
  BY <1>3 DEF Moving
<1>10. /\ moves \subseteq moves'
       /\ job[t].old # None => new \in moves'
       /\ \A m \in moves' : m \in moves \/ (m = new /\ job[t].old # None)
  BY DEF Save
<1>11. /\ browser' \in [Browser -> [sid : 0 .. MaxSid, cookie : [App -> 0 .. MaxSite]]]
       /\ \A b \in Browser : browser'[b].cookie = browser[b].cookie
  <2>1. browser \in [Browser -> [sid : 0 .. MaxSid, cookie : [App -> 0 .. MaxSite]]]
    BY <1>1 DEF TypeInv
  <2>2. browser' = [browser EXCEPT ![home[t]].sid = sid] /\ sid \in 0 .. MaxSid
    BY <1>3, Bounds DEF Save
  <2> QED BY <1>1, <2>1, <2>2
<1> HIDE DEF new, sid, uid
<1>12. TypeInv'
  <2>1. moves' \subseteq Moving
    BY <1>1, <1>9, <1>10 DEF TypeInv
  <2>2. \A u \in Tab : job'[u].step \notin {"idle", "end"} => job'[u].app \in App
    BY <1>1, <1>6, <1>7 DEF TypeInv
  <2> QED BY <1>1, <1>2, <1>4, <1>7, <1>11, <2>1, <2>2 DEF TypeInv
<1>13. \A u \in Tab : AtWork(u)' => u # t /\ job'[u] = job[u] /\ AtWork(u)
  BY <1>6, <1>7 DEF AtWork
<1>14. \A u \in Tab : Writing(u)' => u # t /\ job'[u] = job[u] /\ Writing(u)
  BY <1>6, <1>7 DEF Writing
<1>15. \A u \in Tab : Writing(u) /\ u # t => job'[u] = job[u] /\ Writing(u)'
  BY <1>7 DEF Writing
<1>16. \A u \in Tab : job'[u].step \notin {"idle", "consent"} => job'[u] = job[u]
  BY <1>6, <1>7
<1>17. RefInv'
  <2>1. UidInv'
    <3>1. UidInv /\ spent.sid \in Nat /\ \A s \in Sid : s \in Nat
      BY <1>1, Typed, SessionsAssumption DEF RefInv, Sid
    <3>2. ~(sid > spent.sid)
      BY <1>3, <3>1
    <3> QED BY <1>2, <1>3, <1>4, <3>1, <3>2 DEF UidInv
  <2>2. WriteInv'
    <3>1. WriteInv
      BY <1>1 DEF RefInv
    <3>2. ASSUME NEW u \in Tab, Writing(u)'
          PROVE  /\ job[u].sid \in Sid /\ job[u].sid <= spent.sid
                 /\ job[u].uid # None /\ job[u].uid <= spent.sid
                 /\ session'[job[u].sid].uid \in {None, job[u].uid}
                 /\ job[u].old # None => session'[job[u].old].uid = job[u].uid
                 /\ job[u].step = "destroy" => job[u].old # None
                 /\ \A v \in Tab : Writing(v) /\ job[v].sid = job[u].sid => job[v].uid = job[u].uid
      <4>1. Writing(u)
        BY <1>14, <3>2
      <4>2. job[u].old # None => job[u].old \in Sid
        BY <1>1, Typed, Bounds
      <4>3. job[u].sid = sid => job[u].uid = uid
        BY <1>1, <3>1, <4>1 DEF WriteInv, sid, uid
      <4>4. session'[job[u].sid].uid \in {None, job[u].uid}
        BY <1>4, <3>1, <4>1, <4>3 DEF WriteInv
      <4>5. job[u].old # None => session'[job[u].old].uid = job[u].uid
        BY <1>5, <3>1, <4>1, <4>2 DEF WriteInv
      <4> QED BY <3>1, <4>1, <4>4, <4>5 DEF WriteInv
    <3>3. ASSUME NEW u \in Tab, job'[u].step = "end"
          PROVE  /\ job'[u].sid \in Sid /\ job'[u].uid # None
                 /\ session'[job'[u].sid].uid = job'[u].uid
      BY <1>5, <1>16, <3>1, <3>3 DEF WriteInv
    <3> QED BY <1>2, <1>14, <3>2, <3>3 DEF WriteInv
  <2>3. MoveInv'
    <3>1. ASSUME NEW m \in moves'
          PROVE  /\ session'[m.to].uid = session'[m.from].uid /\ session'[m.to].uid # None
                 /\ \A k \in m.seen : bound[k] = session'[m.to].uid
      <4>1. CASE m \in moves
        <5>1. m.to \in Sid /\ m.from \in Sid
          BY <1>1, <4>1 DEF TypeInv, Moving
        <5>2. /\ session[m.to].uid = session[m.from].uid /\ session[m.to].uid # None
              /\ \A k \in m.seen : bound[k] = session[m.to].uid
          BY <1>1, <4>1 DEF RefInv, MoveInv
        <5> QED BY <1>5, <5>1, <5>2
      <4>2. CASE m = new /\ job[t].old # None
        <5>1. session'[job[t].old].uid = uid
          BY <1>3, <1>5, <4>2
        <5> QED BY <1>3, <1>4, <1>8, <4>2, <5>1
      <4> QED BY <1>10, <4>1, <4>2
    <3> QED BY <1>2, <3>1 DEF MoveInv
  <2>4. SiteInv'
    <3>1. SiteInv
      BY <1>1 DEF RefInv
    <3>2. ASSUME NEW k \in Site, site[k].sid # None
          PROVE  session'[site[k].sid].uid \in {None, bound[k]}
      <4>1. site[k].sid \in Sid
        BY <1>1, <3>2, Typed, Bounds
      <4>2. CASE site[k].sid = sid
        BY <1>1, <1>4, <3>1, <4>2 DEF SiteInv, sid, uid
      <4>3. CASE site[k].sid # sid
        BY <1>4, <3>1, <3>2, <4>1, <4>3 DEF SiteInv
      <4> QED BY <4>2, <4>3
    <3> QED BY <1>2, <1>14, <3>1, <3>2 DEF SiteInv
  <2>5. FreshInv'
    <3>1. FreshInv
      BY <1>1 DEF RefInv
    <3>2. \A u \in Tab : job'[u].step \in {"login", "resume"} => job'[u] = job[u]
      BY <1>16
    <3>3. \A b \in Browser, a \in App : browser'[b].cookie[a] = browser[b].cookie[a]
      BY <1>11
    <3> QED BY <1>2, <3>1, <3>2, <3>3 DEF FreshInv
  <2> QED BY <2>1, <2>2, <2>3, <2>4, <2>5 DEF RefInv
<1>18. ASSUME ~crossed' PROVE EndInv' /\ AloneInv' /\ FollowInv' /\ AppsInv'
  <2>1. EndInv /\ AloneInv /\ FollowInv /\ AppsInv
    BY <1>1, <1>2, <1>18 DEF OrderInv
  <2>2. \A s \in Sid : session[s].live /\ session[s].uid = uid => s = sid
    BY <1>1, <2>1 DEF EndInv, sid, uid
  <2>3. \A u \in Tab : u # t /\ AtWork(u) => job[u].uid # uid
    BY <1>1, <2>1 DEF EndInv, uid
  <2>4. \A m \in moves : session[m.to].uid # uid
    BY <1>1, <2>1 DEF AloneInv, uid
  <2>5. \A s \in Sid : session'[s].live /\ s # sid =>
                       session[s].live /\ session'[s] = session[s] /\ session[s].uid # uid
    BY <1>4, <2>2
  <2>6. EndInv'
    <3>1. \A s \in Sid : session'[s].live => session'[s].uid \notin ended
      BY <1>1, <1>4, <2>1, <2>5 DEF EndInv, uid
    <3>2. \A s, r \in Sid : session'[s].live /\ session'[r].live
                            /\ session'[s].uid = session'[r].uid => s = r
      BY <1>4, <2>1, <2>5 DEF EndInv
    <3>3. ASSUME NEW u \in Tab, Writing(u)'
          PROVE  /\ job[u].uid \notin ended
                 /\ \A s \in Sid : session'[s].live /\ session'[s].uid = job[u].uid =>
                       s = IF job[u].step = "destroy" THEN job[u].old ELSE job[u].sid
      <4>1. u # t /\ Writing(u) /\ AtWork(u)
        BY <1>14, <3>3 DEF AtWork, Writing
      <4>2. job[u].uid # uid
        BY <2>3, <4>1
      <4>3. \A s \in Sid : session'[s].live /\ session'[s].uid = job[u].uid =>
                           session[s].live /\ session[s].uid = job[u].uid
        BY <1>4, <2>5, <4>2
      <4> QED BY <2>1, <4>1, <4>3 DEF EndInv
    <3>4. ASSUME NEW u \in Tab, job'[u].step = "end"
          PROVE  /\ job[u].sid \in Sid /\ session'[job[u].sid].live
                 /\ session'[job[u].sid].uid = job[u].uid
      <4>1. job'[u] = job[u]
        BY <1>16, <3>4
      <4>2. job[u].sid \in Sid /\ session[job[u].sid].live /\ session[job[u].sid].uid = job[u].uid
        BY <2>1, <3>4, <4>1 DEF EndInv
      <4>3. session[job[u].sid].uid # None
        BY <1>1, <4>2 DEF RefInv, UidInv
      <4> QED BY <1>4, <1>5, <4>2, <4>3
    <3>5. \A u, v \in Tab : AtWork(u)' /\ AtWork(v)' /\ job'[u].uid = job'[v].uid => u = v
      BY <1>13, <2>1 DEF EndInv
    <3>6. \A u \in Tab : job'[u].step = "end" => job'[u] = job[u]
      BY <1>16
    <3> QED BY <1>2, <1>14, <3>1, <3>2, <3>3, <3>4, <3>5, <3>6 DEF EndInv
  <2>7. \A m \in moves : m.to \in Sid /\ session[m.to].live /\ session'[m.to].live
                         /\ session'[m.to].uid = session[m.to].uid
    <3>1. \A m \in moves : m.to \in Sid /\ session[m.to].live /\ session[m.to].uid # None
      BY <1>1, <2>1 DEF AloneInv, TypeInv, Moving, RefInv, MoveInv
    <3> QED BY <1>4, <1>5, <3>1
  <2>8. AloneInv'
    <3>1. \A m \in moves', u \in Tab : AtWork(u)' => job'[u].uid # session'[m.to].uid
      BY <1>4, <1>8, <1>10, <1>13, <2>1, <2>3, <2>7 DEF AloneInv
    <3>2. \A m, n \in moves' : session'[m.to].uid = session'[n.to].uid => m = n
      BY <1>4, <1>8, <1>10, <2>1, <2>4, <2>7 DEF AloneInv
    <3>3. \A m \in moves' : session'[m.to].live
      BY <1>4, <1>8, <1>10, <2>7
    <3> QED BY <3>1, <3>2, <3>3 DEF AloneInv
  <2>9. FollowInv'
    <3>1. \A k \in Site : bound[k] # None => \A u \in Tab : Writing(u)' /\ job'[u].uid = bound[k] =>
                                               site[k].sid \in {job'[u].sid, job'[u].old}
      BY <1>14, <2>1 DEF FollowInv
    <3>2. ASSUME NEW k \in Site, bound[k] # None, NEW s \in Sid, session'[s].live,
                 session'[s].uid = bound[k]
          PROVE  \/ site[k].sid = s
                 \/ \E u \in Tab : Writing(u)' /\ job'[u].uid = bound[k]
                 \/ \E m \in moves' : /\ m.to = s /\ site[k].sid = m.from
                                      /\ m.read => k \in m.seen
      <4>1. CASE s = sid
        <5>1. bound[k] = uid
          BY <1>4, <3>2, <4>1
        <5>2. site[k].sid \in {sid, job[t].old}
          BY <1>1, <2>1, <3>2, <5>1 DEF FollowInv, sid, uid
        <5>3. site[k].sid # None
          BY <1>1, <3>2 DEF RefInv, SiteInv
        <5>4. CASE site[k].sid = job[t].old
          BY <1>8, <1>10, <4>1, <5>3, <5>4
        <5> QED BY <4>1, <5>2, <5>4
      <4>2. CASE s # sid
        <5>1. session[s].live /\ session[s].uid = bound[k] /\ bound[k] # uid
          BY <2>5, <3>2, <4>2
        <5>2. \/ site[k].sid = s
              \/ \E u \in Tab : Writing(u) /\ job[u].uid = bound[k]
              \/ \E m \in moves : /\ m.to = s /\ site[k].sid = m.from
                                  /\ m.read => k \in m.seen
          BY <2>1, <3>2, <5>1 DEF FollowInv
        <5>3. \A u \in Tab : Writing(u) /\ job[u].uid = bound[k] =>
                             Writing(u)' /\ job'[u].uid = bound[k]
          BY <1>15, <5>1 DEF uid
        <5> QED BY <1>10, <5>2, <5>3
      <4> QED BY <4>1, <4>2
    <3> QED BY <1>2, <3>1, <3>2 DEF FollowInv
  <2>10. AppsInv'
    <3> SUFFICES ASSUME NEW b \in Browser, NEW a \in App, NEW k, k = browser[b].cookie[a],
                        k # None, bound[k] # None
                 PROVE  /\ \A u \in Tab : Writing(u)' /\ job'[u].uid = bound[k] => a \in job'[u].apps
                        /\ \A s \in Sid : session'[s].live /\ session'[s].uid = bound[k] =>
                              \/ a \in session'[s].apps
                              \/ \E u \in Tab : Writing(u)' /\ job'[u].uid = bound[k]
      BY <1>2, <1>11 DEF AppsInv
    <3>1. /\ \A u \in Tab : Writing(u) /\ job[u].uid = bound[k] => a \in job[u].apps
          /\ \A s \in Sid : session[s].live /\ session[s].uid = bound[k] =>
                \/ a \in session[s].apps
                \/ \E u \in Tab : Writing(u) /\ job[u].uid = bound[k]
      BY <2>1 DEF AppsInv
    <3>2. \A u \in Tab : Writing(u)' /\ job'[u].uid = bound[k] => a \in job'[u].apps
      BY <1>14, <3>1
    <3>3. ASSUME NEW s \in Sid, session'[s].live, session'[s].uid = bound[k]
          PROVE  \/ a \in session'[s].apps
                 \/ \E u \in Tab : Writing(u)' /\ job'[u].uid = bound[k]
      <4>1. CASE s = sid
        <5>1. bound[k] = uid
          BY <1>4, <3>3, <4>1
        <5> QED BY <1>1, <1>4, <3>1, <4>1, <5>1 DEF uid
      <4>2. CASE s # sid
        <5>1. session[s].live /\ session'[s] = session[s] /\ bound[k] # uid
          BY <2>5, <3>3, <4>2
        <5>2. \A u \in Tab : Writing(u) /\ job[u].uid = bound[k] =>
                             Writing(u)' /\ job'[u].uid = bound[k]
          BY <1>15, <5>1 DEF uid
        <5> QED BY <3>1, <3>3, <5>1, <5>2
      <4> QED BY <4>1, <4>2
    <3> QED BY <3>2, <3>3
  <2> QED BY <2>6, <2>8, <2>9, <2>10
<1> QED BY <1>12, <1>17, <1>18 DEF Inv, OrderInv

(* What a resume takes on: the session as it is, under a new id after a     *)
(* login, or a session nobody had.                                          *)
Taken(t, j) ==
    \/ /\ Mine(t) \in Sid /\ session[Mine(t)].live
       /\ j.uid = session[Mine(t)].uid /\ session[Mine(t)].apps \subseteq j.apps
       /\ \/ j.step = "destroy" /\ j.old = Mine(t) /\ j.sid > spent.sid
          \/ j.step = "save" /\ j.old = None /\ j.sid = Mine(t)
    \/ j.step = "save" /\ j.old = None /\ j.sid > spent.sid /\ j.uid > spent.sid

LEMMA RotateIs ==
    ASSUME Inv, NEW t \in Tab, job[t].step = "resume", Rotate(t),
           job[t].login \/ Live(Mine(t))
    PROVE  /\ spent' \in [sid : 0 .. MaxSid, site : 0 .. MaxSite, event : Nat]
           /\ spent'.site = spent.site /\ spent'.sid >= spent.sid
           /\ \E j \in Job : /\ job' = [job EXCEPT ![t] = j]
                             /\ j.sid \in Sid /\ j.sid <= spent'.sid
                             /\ j.uid \in Sid /\ j.uid <= spent'.sid
                             /\ j.app = job[t].app /\ Taken(t, j)
                             /\ crossed' = (crossed \/ Touching(j.uid))
                             /\ \/ site' = site /\ bound' = bound
                                \/ /\ job[t].site # None /\ job[t].app \in j.apps
                                   /\ Bind(job[t].site, j.sid, j.uid)
<1> DEFINE j0 == job[t]
           new == spent.sid + 1
           login == job[t].login
           live == Live(Mine(t))
           sid == IF login THEN new ELSE Mine(t)
           uid == IF live THEN UidOf(Mine(t)) ELSE sid
           had == IF live THEN session[Mine(t)].apps ELSE {}
           apps == had \cup (IF j0.site = None THEN {} ELSE {j0.app})
           done == j0.app \in apps /\ Admits(home[t], j0.app)
           step == IF login /\ live THEN "destroy" ELSE "save"
           old == IF login /\ live THEN Mine(t) ELSE None
           next == IF done THEN "idle" ELSE "consent"
           j == [j0 EXCEPT !.step = step, !.old = old, !.sid = sid, !.uid = uid, !.apps = apps,
                           !.next = next]
<1>1. TypeInv /\ RefInv /\ job[t] \in Job /\ job[t].app \in App /\ Mine(t) \in 0 .. MaxSid
  <2>1. TypeInv /\ RefInv
    BY DEF Inv
  <2> QED BY <2>1, Typed DEF TypeInv
<1>2. spent.sid \in Nat /\ MaxSid \in Nat /\ None = 0 /\ (login => new <= MaxSid)
  BY <1>1, Typed, Bounds DEF Rotate, None
<1>3. login => new \in Sid
  BY <1>2 DEF Sid
<1>4. live => /\ Mine(t) \in Sid /\ session[Mine(t)].live
              /\ UidOf(Mine(t)) = session[Mine(t)].uid
  BY <1>1, UidIs
<1>5. live => /\ Mine(t) <= spent.sid /\ UidOf(Mine(t)) <= spent.sid /\ UidOf(Mine(t)) \in Sid
              /\ session[Mine(t)].apps \subseteq App
  <2>1. ASSUME live
        PROVE  /\ session[Mine(t)].uid # None /\ session[Mine(t)].uid <= spent.sid
               /\ ~(Mine(t) > spent.sid)
    BY <1>1, <1>4, <2>1 DEF RefInv, UidInv
  <2>2. live => session[Mine(t)].uid \in 0 .. MaxSid /\ session[Mine(t)].apps \subseteq App
    BY <1>1, <1>4 DEF TypeInv, Session
  <2>3. live => Mine(t) \in Nat
    BY <1>2, <1>4 DEF Sid
  <2> QED BY <1>2, <1>4, <2>1, <2>2, <2>3, Bounds
<1>6. /\ spent' \in [sid : 0 .. MaxSid, site : 0 .. MaxSite, event : Nat]
      /\ spent'.site = spent.site /\ spent'.sid = IF login THEN new ELSE spent.sid
  <2>1. spent \in [sid : 0 .. MaxSid, site : 0 .. MaxSite, event : Nat]
    BY <1>1 DEF TypeInv
  <2>2. spent' = IF login THEN [spent EXCEPT !.sid = new] ELSE spent
    BY DEF Rotate
  <2>3. login => new \in 0 .. MaxSid
    BY <1>3, Bounds
  <2> QED BY <2>1, <2>2, <2>3
<1>7. sid \in Sid /\ uid \in Sid
  BY <1>3, <1>4, <1>5
<1>8. sid <= spent'.sid /\ uid <= spent'.sid /\ spent'.sid >= spent.sid
  BY <1>2, <1>4, <1>5, <1>6 DEF Sid
<1>9. apps \subseteq App /\ had \subseteq apps /\ (done => j0.app \in apps)
  BY <1>1, <1>5
<1>10. old \in 0 .. MaxSid /\ sid \in 0 .. MaxSid /\ uid \in 0 .. MaxSid
  BY <1>1, <1>2, <1>7, Bounds
<1>11. /\ crossed' = (crossed \/ Touching(uid))
       /\ Bind(IF done THEN j0.site ELSE None, sid, uid)
  BY DEF Rotate
<1>12. job' = [job EXCEPT ![t] = j]
  BY DEF Rotate
<1>13. \/ site' = site /\ bound' = bound
       \/ /\ j0.site # None /\ j0.app \in apps
          /\ Bind(j0.site, sid, uid)
  <2>1. CASE done /\ j0.site # None
    BY <1>9, <1>11, <2>1
  <2>2. CASE ~(done /\ j0.site # None)
    BY <1>11, <2>2 DEF Bind
  <2> QED BY <2>1, <2>2
<1>14. /\ live => /\ Mine(t) \in Sid /\ session[Mine(t)].live
                  /\ uid = session[Mine(t)].uid /\ session[Mine(t)].apps = had
       /\ live => \/ step = "destroy" /\ old = Mine(t) /\ sid > spent.sid
                  \/ step = "save" /\ old = None /\ sid = Mine(t)
       /\ ~live => step = "save" /\ old = None /\ sid > spent.sid /\ uid > spent.sid
  BY <1>2, <1>4
<1> HIDE DEF step, old, sid, uid, had, apps, next, done
<1>15. next \in {"idle", "consent"} /\ step \in {"destroy", "save"}
  BY DEF next, step
<1>16. /\ j.step = step /\ j.old = old /\ j.sid = sid /\ j.uid = uid /\ j.apps = apps
       /\ j.app = j0.app
  BY <1>1 DEF Job
<1>17. j \in Job
  BY <1>1, <1>9, <1>10, <1>15 DEF Job
<1> HIDE DEF j
<1>18. Taken(t, j)
  BY <1>9, <1>14, <1>16 DEF Taken
<1> QED BY <1>6, <1>7, <1>8, <1>11, <1>12, <1>13, <1>16, <1>17, <1>18

LEMMA RotateInv ==
    ASSUME Inv, NEW t \in Tab, job[t].step = "resume", Rotate(t),
           job[t].login \/ Live(Mine(t)),
           UNCHANGED <<home, session, browser, moves, ended>>
    PROVE  Inv'
<1> DEFINE k0 == job[t].site
<1>1. TypeInv /\ RefInv /\ OrderInv /\ job[t].app \in App
      /\ None = 0 /\ spent.sid \in Nat
  <2>1. TypeInv /\ RefInv /\ OrderInv
    BY DEF Inv
  <2> QED BY <2>1, Typed DEF TypeInv, None
<1>2. /\ spent' \in [sid : 0 .. MaxSid, site : 0 .. MaxSite, event : Nat]
      /\ spent'.site = spent.site /\ spent'.sid >= spent.sid /\ spent'.sid \in Nat
  BY RotateIs, SessionsAssumption
<1>3. PICK j \in Job : /\ job' = [job EXCEPT ![t] = j]
                       /\ j.sid \in Sid /\ j.sid <= spent'.sid
                       /\ j.uid \in Sid /\ j.uid <= spent'.sid
                       /\ j.app = job[t].app /\ Taken(t, j)
                       /\ crossed' = (crossed \/ Touching(j.uid))
                       /\ \/ site' = site /\ bound' = bound
                          \/ /\ job[t].site # None /\ job[t].app \in j.apps
                             /\ Bind(job[t].site, j.sid, j.uid)
  BY RotateIs
<1>4. job' \in [Tab -> Job] /\ job'[t] = j /\ \A u \in Tab : u # t => job'[u] = job[u]
  BY <1>1, <1>3, JobSet
<1>5. /\ j.step \in {"destroy", "save"} /\ j.uid # None /\ j.sid # None
      /\ j.step = "destroy" => j.old # None
  BY <1>3, Bounds DEF Taken
<1>6. \A u \in Tab : AtWork(u)' => u = t \/ (job'[u] = job[u] /\ AtWork(u))
  BY <1>4 DEF AtWork
<1>7. \A u \in Tab : Writing(u)' => u = t \/ (job'[u] = job[u] /\ Writing(u))
  BY <1>4 DEF Writing
<1>8. \A u \in Tab : Writing(u) => u # t /\ job'[u] = job[u] /\ Writing(u)'
  BY <1>4 DEF Writing
<1>9. Writing(t)' /\ AtWork(t)'
  BY <1>4, <1>5 DEF Writing, AtWork
<1>10. \A u \in Tab : job'[u].step \notin {"destroy", "save"} => u # t /\ job'[u] = job[u]
  BY <1>4, <1>5
(* The binding, if there is one, is of a site session that had none. *)
<1>11. k0 # None => /\ k0 \in Site /\ site[k0].sid = None /\ bound[k0] = None /\ site[k0].live
                    /\ k0 <= spent.site
                    /\ \A u \in Tab \ {t} : job[u].step = "resume" => job[u].site # k0
                    /\ \A b \in Browser, a \in App :
                          browser[b].cookie[a] = k0 => a = job[t].app
  <2>1. k0 # None => k0 \in Site
    BY <1>1, Typed, Bounds
  <2> QED BY <1>1, <2>1 DEF RefInv, FreshInv, SiteInv
<1>12. /\ site' \in [Site -> [live : BOOLEAN, sid : 0 .. MaxSid]]
       /\ bound' \in [Site -> 0 .. MaxSid]
       /\ \A k \in Site :
             \/ site'[k] = site[k] /\ bound'[k] = bound[k]
             \/ /\ k = k0 /\ job[t].app \in j.apps
                /\ site'[k].live /\ site'[k].sid = j.sid /\ bound'[k] = j.uid
  <2>1. CASE site' = site /\ bound' = bound
    BY <1>1, <2>1 DEF TypeInv
  <2>2. CASE k0 # None /\ job[t].app \in j.apps /\ Bind(k0, j.sid, j.uid)
    <3>1. /\ site' = [site EXCEPT ![k0] = [live |-> TRUE, sid |-> j.sid]]
          /\ bound' = [bound EXCEPT ![k0] = j.uid] /\ k0 \in Site
      BY <1>11, <2>2 DEF Bind
    <3>2. j.sid \in 0 .. MaxSid /\ j.uid \in 0 .. MaxSid
      BY <1>3, Bounds
    <3> QED BY <1>1, <2>2, <3>1, <3>2 DEF TypeInv
  <2> QED BY <1>3, <2>1, <2>2
<1> HIDE DEF k0
<1>13. \A k \in Site : bound[k] # None => site'[k] = site[k] /\ bound'[k] = bound[k]
  BY <1>11, <1>12, Bounds
<1>14. TypeInv'
  <2>1. \A u \in Tab : job'[u].step \notin {"idle", "end"} => job'[u].app \in App
    BY <1>1, <1>3, <1>4 DEF TypeInv
  <2>2. crossed' \in BOOLEAN
    BY <1>3
  <2> QED BY <1>1, <1>2, <1>4, <1>12, <2>1, <2>2 DEF TypeInv
(* The uid and the id it takes on. *)
<1>15. session[j.sid].uid \in {None, j.uid}
  BY <1>1, <1>3 DEF Taken, RefInv, UidInv
<1>16. j.old # None => session[j.old].uid = j.uid
  BY <1>3 DEF Taken
<1>17. \A u \in Tab : Writing(u) /\ job[u].sid = j.sid => job[u].uid = j.uid
  <2>1. CASE j.sid > spent.sid
    BY <1>1, <1>3, <2>1, SessionsAssumption DEF RefInv, WriteInv, Sid
  <2>2. CASE session[j.sid].uid = j.uid
    BY <1>1, <1>5, <2>2 DEF RefInv, WriteInv
  <2> QED BY <1>3, <2>1, <2>2 DEF Taken
<1>18. \A k \in Site : site[k].sid = j.sid => bound[k] = j.uid
  <2>1. CASE j.sid > spent.sid
    <3>1. \A k \in Site : site[k].sid <= spent.sid /\ site[k].sid \in Nat
      BY <1>1, Typed, SessionsAssumption DEF RefInv, SiteInv
    <3> QED BY <1>1, <1>3, <2>1, <3>1, SessionsAssumption DEF Sid
  <2>2. CASE session[j.sid].uid = j.uid
    BY <1>1, <1>5, <2>2 DEF RefInv, SiteInv
  <2> QED BY <1>3, <2>1, <2>2 DEF Taken
<1>19. RefInv'
  <2>1. \A n : n \in Nat /\ n <= spent.sid => n <= spent'.sid
    BY <1>1, <1>2
  <2>2. \A s \in Sid : s \in Nat /\ session[s].uid \in Nat
    BY <1>1, Typed, SessionsAssumption DEF Sid
  <2>3. \A u \in ended : u \in Nat
    BY <1>1, SessionsAssumption DEF TypeInv, Sid
  <2>4. UidInv'
    <3>1. \A s \in Sid : s > spent'.sid => s > spent.sid
      BY <1>1, <1>2, <2>2
    <3> QED BY <1>1, <2>1, <2>2, <2>3, <3>1 DEF RefInv, UidInv
  <2>5. WriteInv'
    <3>1. WriteInv
      BY <1>1 DEF RefInv
    <3>2. ASSUME NEW u \in Tab, Writing(u)'
          PROVE  /\ job'[u].sid \in Sid /\ job'[u].sid <= spent'.sid
                 /\ job'[u].uid # None /\ job'[u].uid <= spent'.sid
                 /\ session[job'[u].sid].uid \in {None, job'[u].uid}
                 /\ job'[u].old # None => session[job'[u].old].uid = job'[u].uid
                 /\ job'[u].step = "destroy" => job'[u].old # None
      <4>1. CASE u = t
        BY <1>3, <1>4, <1>5, <1>15, <1>16, <4>1
      <4>2. CASE u # t
        <5>1. job'[u] = job[u] /\ Writing(u)
          BY <1>7, <3>2, <4>2
        <5>2. job[u].sid \in Nat /\ job[u].uid \in Nat
          BY <1>1, Typed, SessionsAssumption
        <5> QED BY <2>1, <3>1, <5>1, <5>2 DEF WriteInv
      <4> QED BY <4>1, <4>2
    <3>3. \A u, v \in Tab : Writing(u)' /\ Writing(v)' /\ job'[v].sid = job'[u].sid
                            => job'[v].uid = job'[u].uid
      <4>1. \A u, v \in Tab : Writing(u) /\ Writing(v) /\ job[v].sid = job[u].sid
                              => job[v].uid = job[u].uid
        BY <3>1 DEF WriteInv
      <4> QED BY <1>4, <1>7, <1>17, <4>1
    <3>4. \A u \in Tab : job'[u].step = "end" =>
             job'[u].sid \in Sid /\ job'[u].uid # None /\ session[job'[u].sid].uid = job'[u].uid
      BY <1>10, <3>1 DEF WriteInv
    <3> QED BY <3>2, <3>3, <3>4 DEF WriteInv
  <2>6. MoveInv'
    <3>1. \A m \in moves : /\ session[m.to].uid = session[m.from].uid
                           /\ session[m.to].uid # None /\ m.seen \subseteq Site
                           /\ \A k \in m.seen : bound[k] = session[m.to].uid
      BY <1>1 DEF RefInv, MoveInv, TypeInv, Moving
    <3>2. \A m \in moves : \A k \in m.seen : bound'[k] = bound[k]
      BY <1>13, <3>1
    <3> QED BY <3>1, <3>2 DEF MoveInv
  <2>7. SiteInv'
    <3>1. SiteInv
      BY <1>1 DEF RefInv
    <3>2. ASSUME NEW k \in Site
          PROVE  /\ site'[k].sid = None <=> bound'[k] = None
                 /\ site'[k].sid # None => site'[k].live
                 /\ site'[k].sid <= spent'.sid /\ bound'[k] <= spent'.sid
                 /\ site'[k].sid # None => session[site'[k].sid].uid \in {None, bound'[k]}
                 /\ \A u \in Tab : Writing(u)' /\ job'[u].sid = site'[k].sid
                                   => job'[u].uid = bound'[k]
      <4>1. CASE site'[k] = site[k] /\ bound'[k] = bound[k]
        <5>1. site[k].sid \in Nat /\ bound[k] \in Nat
          BY <1>1, Typed, SessionsAssumption
        <5>2. site[k].sid <= spent'.sid /\ bound[k] <= spent'.sid
          BY <2>1, <3>1, <5>1 DEF SiteInv
        <5>3. \A u \in Tab : Writing(u)' /\ job'[u].sid = site[k].sid => job'[u].uid = bound[k]
          BY <1>4, <1>7, <1>18, <3>1 DEF SiteInv
        <5> QED BY <3>1, <4>1, <5>2, <5>3 DEF SiteInv
      <4>2. CASE site'[k].live /\ site'[k].sid = j.sid /\ bound'[k] = j.uid
        <5>1. \A u \in Tab : Writing(u)' /\ job'[u].sid = j.sid => job'[u].uid = j.uid
          BY <1>4, <1>7, <1>17
        <5> QED BY <1>3, <1>5, <1>15, <4>2, <5>1
      <4> QED BY <1>12, <4>1, <4>2
    <3> QED BY <3>2 DEF SiteInv
  <2>8. FreshInv'
    <3>1. FreshInv
      BY <1>1 DEF RefInv
    <3>2. \A k \in Site : k # k0 => site'[k] = site[k]
      BY <1>12
    <3>3. \A k \in Site : site[k].live => site'[k].live
      BY <1>12
    <3>4. ASSUME NEW u \in Tab, job'[u].step = "resume", job'[u].site # None
          PROVE  /\ site'[job'[u].site].sid = None /\ site'[job'[u].site].live
                 /\ job'[u].site <= spent.site
                 /\ \A v \in Tab \ {u} : job'[v].step = "resume" => job'[v].site # job'[u].site
                 /\ \A b \in Browser, a \in App :
                       browser[b].cookie[a] = job'[u].site => b = home[u] /\ a = job'[u].app
      <4>1. u # t /\ job'[u] = job[u]
        BY <1>10, <3>4
      <4>2. job[u].site \in Site /\ job[u].site # k0
        BY <1>1, <1>11, <3>4, <4>1, Typed, Bounds
      <4>3. \A v \in Tab : job'[v].step = "resume" => job'[v] = job[v]
        BY <1>10
      <4> QED BY <3>1, <3>2, <3>4, <4>1, <4>2, <4>3 DEF FreshInv
    <3>5. \A u \in Tab : job'[u].step = "login" => job'[u].site = None
      BY <1>10, <3>1 DEF FreshInv
    <3>6. \A b \in Browser, a \in App :
             browser[b].cookie[a] # None => /\ browser[b].cookie[a] \in Site
                                            /\ browser[b].cookie[a] <= spent.site
                                            /\ site'[browser[b].cookie[a]].live
      <4>1. \A b \in Browser, a \in App :
               browser[b].cookie[a] # None => browser[b].cookie[a] \in Site
        BY <1>1, Bounds DEF TypeInv
      <4> QED BY <3>1, <3>3, <4>1 DEF FreshInv
    <3>7. \A k \in Site : k > spent.site => site'[k].sid = None
      <4>1. \A k \in Site : k > spent.site => k # k0
        BY <1>1, <1>11, Bounds, Typed DEF Site
      <4> QED BY <3>1, <3>2, <4>1 DEF FreshInv
    <3> QED BY <1>2, <3>4, <3>5, <3>6, <3>7 DEF FreshInv
  <2> QED BY <2>4, <2>5, <2>6, <2>7, <2>8 DEF RefInv
<1>20. ASSUME ~crossed' PROVE EndInv' /\ AloneInv' /\ FollowInv' /\ AppsInv'
  <2>1. EndInv /\ AloneInv /\ FollowInv /\ AppsInv /\ ~Touching(j.uid)
    BY <1>1, <1>3, <1>20 DEF OrderInv
  <2>2. \A u \in Tab : AtWork(u) => job[u].uid # j.uid
    BY <2>1 DEF Touching, AtWork
  <2>3. \A m \in moves : session[m.to].uid # j.uid
    <3>1. \A m \in moves : m.to \in Sid /\ session[m.to].live
      BY <1>1, <2>1 DEF AloneInv, TypeInv, Moving
    <3>2. \A m \in moves : UidOf(m.to) = session[m.to].uid
      BY <1>1, <3>1, UidIs, Bounds
    <3> QED BY <2>1, <3>2 DEF Touching
  <2>4. \A s \in Sid : session[s].live /\ session[s].uid = j.uid =>
           /\ s = IF j.step = "destroy" THEN j.old ELSE j.sid
           /\ session[s].apps \subseteq j.apps
    <3>1. CASE j.uid > spent.sid
      BY <1>1, <3>1, Typed, SessionsAssumption DEF RefInv, UidInv
    <3>2. CASE /\ Mine(t) \in Sid /\ session[Mine(t)].live
               /\ j.uid = session[Mine(t)].uid /\ session[Mine(t)].apps \subseteq j.apps
               /\ Mine(t) = IF j.step = "destroy" THEN j.old ELSE j.sid
      BY <2>1, <3>2 DEF EndInv
    <3> QED BY <1>3, <3>1, <3>2 DEF Taken
  <2>5. j.uid \notin ended
    <3>1. CASE j.uid > spent.sid
      <4>1. j.uid \in Nat
        BY <1>3, SessionsAssumption DEF Sid
      <4>2. \A u \in ended : u <= spent.sid
        BY <1>1 DEF RefInv, UidInv
      <4> QED BY <1>1, <3>1, <4>1, <4>2
    <3>2. CASE Mine(t) \in Sid /\ session[Mine(t)].live /\ j.uid = session[Mine(t)].uid
      BY <2>1, <3>2 DEF EndInv
    <3> QED BY <1>3, <3>1, <3>2 DEF Taken
  <2>6. ASSUME NEW k \in Site, bound[k] = j.uid
        PROVE  /\ site[k].sid \in {j.sid, j.old}
               /\ \E s \in Sid : session[s].live /\ session[s].uid = j.uid
    <3>1. ~(j.uid > spent.sid)
      BY <1>1, <2>6, Typed, SessionsAssumption DEF RefInv, SiteInv
    <3>2. /\ Mine(t) \in Sid /\ session[Mine(t)].live /\ j.uid = session[Mine(t)].uid
          /\ Mine(t) \in {j.sid, j.old}
      BY <1>3, <3>1 DEF Taken
    <3>3. \A u \in Tab : Writing(u) => job[u].uid # bound[k]
      BY <2>2, <2>6 DEF AtWork, Writing
    <3>4. \A m \in moves : m.to # Mine(t)
      BY <2>3, <3>2
    <3>5. site[k].sid = Mine(t)
      BY <1>5, <2>1, <2>6, <3>2, <3>3, <3>4 DEF FollowInv
    <3> QED BY <3>2, <3>5
  <2>7. EndInv'
    <3>1. ASSUME NEW u \in Tab, Writing(u)'
          PROVE  /\ job'[u].uid \notin ended
                 /\ \A s \in Sid : session[s].live /\ session[s].uid = job'[u].uid =>
                       s = IF job'[u].step = "destroy" THEN job'[u].old ELSE job'[u].sid
      <4>1. CASE u = t
        BY <1>4, <2>4, <2>5, <4>1
      <4>2. CASE u # t
        BY <1>7, <2>1, <3>1, <4>2 DEF EndInv
      <4> QED BY <4>1, <4>2
    <3>2. \A u, v \in Tab : AtWork(u)' /\ AtWork(v)' /\ job'[u].uid = job'[v].uid => u = v
      <4>1. \A u, v \in Tab : AtWork(u) /\ AtWork(v) /\ job[u].uid = job[v].uid => u = v
        BY <2>1 DEF EndInv
      <4> QED BY <1>4, <1>6, <2>2, <4>1
    <3>3. \A u \in Tab : job'[u].step = "end" => job'[u] = job[u]
      BY <1>10
    <3>4. \A u \in Tab : job'[u].step = "end" =>
             /\ job'[u].sid \in Sid /\ session[job'[u].sid].live
             /\ session[job'[u].sid].uid = job'[u].uid
      BY <2>1, <3>3 DEF EndInv
    <3> QED BY <2>1, <3>1, <3>2, <3>4 DEF EndInv
  <2>8. AloneInv'
    <3>1. \A m \in moves, u \in Tab : AtWork(u)' => job'[u].uid # session[m.to].uid
      BY <1>4, <1>6, <2>1, <2>3 DEF AloneInv
    <3> QED BY <2>1, <3>1 DEF AloneInv
  <2>9. FollowInv'
    <3>1. ASSUME NEW k \in Site, bound'[k] # None
          PROVE  /\ \A u \in Tab : Writing(u)' /\ job'[u].uid = bound'[k] =>
                       site'[k].sid \in {job'[u].sid, job'[u].old}
                 /\ \A s \in Sid : session[s].live /\ session[s].uid = bound'[k] =>
                       \/ site'[k].sid = s
                       \/ \E u \in Tab : Writing(u)' /\ job'[u].uid = bound'[k]
                       \/ \E m \in moves : /\ m.to = s /\ site'[k].sid = m.from
                                           /\ m.read => k \in m.seen
      <4>1. CASE site'[k] = site[k] /\ bound'[k] = bound[k]
        <5>1. \A u \in Tab : Writing(u)' /\ job'[u].uid = bound[k] =>
                 site[k].sid \in {job'[u].sid, job'[u].old}
          <6>1. ASSUME NEW u \in Tab, Writing(u)', job'[u].uid = bound[k]
                PROVE  site[k].sid \in {job'[u].sid, job'[u].old}
            <7>1. CASE u = t
              BY <1>4, <2>6, <6>1, <7>1
            <7>2. CASE u # t
              BY <1>7, <2>1, <3>1, <4>1, <6>1, <7>2 DEF FollowInv
            <7> QED BY <7>1, <7>2
          <6> QED BY <6>1
        <5>2. \A s \in Sid : session[s].live /\ session[s].uid = bound[k] =>
                 \/ site[k].sid = s
                 \/ \E u \in Tab : Writing(u) /\ job[u].uid = bound[k]
                 \/ \E m \in moves : /\ m.to = s /\ site[k].sid = m.from
                                     /\ m.read => k \in m.seen
          BY <2>1, <3>1, <4>1 DEF FollowInv
        <5>3. (\E u \in Tab : Writing(u) /\ job[u].uid = bound[k]) =>
              \E u \in Tab : Writing(u)' /\ job'[u].uid = bound[k]
          BY <1>8
        <5> QED BY <4>1, <5>1, <5>2, <5>3
      <4>2. CASE site'[k].sid = j.sid /\ bound'[k] = j.uid
        <5>1. \A u \in Tab : Writing(u)' /\ job'[u].uid = j.uid => u = t
          BY <1>7, <2>2 DEF AtWork, Writing
        <5> QED BY <1>4, <1>9, <4>2, <5>1
      <4> QED BY <1>12, <4>1, <4>2
    <3> QED BY <3>1 DEF FollowInv
  <2>10. AppsInv'
    <3> SUFFICES ASSUME NEW b \in Browser, NEW a \in App, NEW k, k = browser[b].cookie[a],
                        k # None, bound'[k] # None
                 PROVE  /\ \A u \in Tab : Writing(u)' /\ job'[u].uid = bound'[k] =>
                              a \in job'[u].apps
                        /\ \A s \in Sid : session[s].live /\ session[s].uid = bound'[k] =>
                              \/ a \in session[s].apps
                              \/ \E u \in Tab : Writing(u)' /\ job'[u].uid = bound'[k]
      BY DEF AppsInv
    <3>1. k \in Site
      BY <1>1, Bounds DEF TypeInv
    <3>2. CASE bound'[k] = bound[k]
      <4>1. /\ \A u \in Tab : Writing(u) /\ job[u].uid = bound[k] => a \in job[u].apps
            /\ \A s \in Sid : session[s].live /\ session[s].uid = bound[k] =>
                  \/ a \in session[s].apps
                  \/ \E u \in Tab : Writing(u) /\ job[u].uid = bound[k]
        BY <2>1, <3>2 DEF AppsInv
      <4>2. ASSUME bound[k] = j.uid PROVE a \in j.apps
        <5>1. PICK s \in Sid : session[s].live /\ session[s].uid = j.uid
          BY <2>6, <3>1, <4>2
        <5>2. \A u \in Tab : Writing(u) => job[u].uid # j.uid
          BY <2>2 DEF AtWork, Writing
        <5>3. a \in session[s].apps
          BY <4>1, <4>2, <5>1, <5>2
        <5> QED BY <2>4, <5>1, <5>3
      <4>3. \A u \in Tab : Writing(u)' /\ job'[u].uid = bound[k] => a \in job'[u].apps
        BY <1>4, <1>7, <4>1, <4>2
      <4>4. (\E u \in Tab : Writing(u) /\ job[u].uid = bound[k]) =>
            \E u \in Tab : Writing(u)' /\ job'[u].uid = bound[k]
        BY <1>8
      <4> QED BY <3>2, <4>1, <4>3, <4>4
    <3>3. CASE k = k0 /\ job[t].app \in j.apps /\ bound'[k] = j.uid
      <4>1. a \in j.apps
        BY <1>11, <3>1, <3>3, Bounds
      <4>2. \A u \in Tab : Writing(u)' /\ job'[u].uid = j.uid => u = t
        BY <1>7, <2>2 DEF AtWork, Writing
      <4> QED BY <1>4, <1>9, <3>3, <4>1, <4>2
    <3> QED BY <1>12, <3>1, <3>2, <3>3
  <2> QED BY <2>7, <2>8, <2>9, <2>10
<1> QED BY <1>14, <1>19, <1>20 DEF Inv, OrderInv

LEMMA ResumeInv ==
    ASSUME Inv, NEW t \in Tab, Resume(t)
    PROVE  Inv'
<1>1. job[t].step = "resume" /\ UNCHANGED <<home, session, browser, moves, ended>>
  BY DEF Resume
<1>2. CASE (job[t].login \/ Live(Mine(t))) /\ Rotate(t)
  BY <1>1, <1>2, RotateInv
<1>3. CASE job' = [job EXCEPT ![t] = NoJob] /\ UNCHANGED <<site, spent, bound, crossed>>
  <2>1. ~AtWork(t)
    BY <1>1 DEF AtWork
  <2> QED BY <1>1, <1>3, <2>1, DropInv
<1> QED BY <1>2, <1>3 DEF Resume

(***************************************************************************)
(* The theorems.                                                           *)
(***************************************************************************)

LEMMA NextInv ==
    ASSUME Inv, [Next]_vars PROVE Inv'
<1>1. ASSUME NEW t \in Tab, Chain(t) PROVE Inv'
  <2>1. CASE \E a \in App, fresh \in BOOLEAN : Authorize(t, a, fresh)
    BY <2>1, AuthorizeInv
  <2>2. CASE LogIn(t) \/ Leave(t)
    BY <2>2, LogInInv, LeaveInv
  <2>3. CASE Consent(t) \/ Resume(t)
    BY <2>3, ConsentInv, ResumeInv
  <2>4. CASE Destroy(t) \/ Save(t)
    BY <2>4, DestroyInv, SaveInv
  <2>5. CASE (\E s \in Sid : End(t, s)) \/ Ended(t)
    BY <2>5, EndSessionInv, EndedInv
  <2> QED BY <1>1, <2>1, <2>2, <2>3, <2>4, <2>5 DEF Chain
<1>2. ASSUME NEW m \in moves, MoveRead(m) \/ MoveWrite(m) PROVE Inv'
  BY <1>2, MoveReadInv, MoveWriteInv
<1>3. ASSUME NEW s \in dead, Clean(s) PROVE Inv'
  BY <1>3, StutterInv DEF Clean
<1>4. ASSUME NEW s \in Sid, Expire(s) PROVE Inv'
  BY <1>4, ExpireInv
<1>5. CASE Restart
  BY <1>5, RestartInv
<1>6. CASE UNCHANGED vars
  BY <1>6, StutterInv DEF vars
<1> QED BY <1>1, <1>2, <1>3, <1>4, <1>5, <1>6 DEF Next, Handlers

(* The invariant above holds: uids and ids are given out once, a change of *)
(* the id stays in its session, and, while nothing overlaps, each session  *)
(* has one id and its site sessions follow it.                             *)
THEOREM Invariant == Spec => []Inv
<1>1. Init => Inv
  BY InitInv
<1>2. Inv /\ [Next]_vars => Inv'
  BY NextInv
<1> QED BY <1>1, <1>2, PTL DEF Spec

(* endSession, validateSiteSession: what a user ended stays ended, for any  *)
(* number of tabs, browsers and apps.                                       *)
THEOREM EndedStaysOut == Spec => []SignedOut
<1>1. Inv => SignedOut
  <2> SUFFICES ASSUME Inv, ~crossed
               PROVE  /\ \A s \in Sid : session[s].live => session[s].uid \notin ended
                      /\ \A b \in Browser, a \in App :
                            Admits(b, a) => bound[SiteCookie(b, a)] \notin ended
    BY DEF SignedOut
  <2>1. TypeInv /\ UidInv /\ SiteInv /\ EndInv
    BY DEF Inv, RefInv, OrderInv
  <2>2. ASSUME NEW b \in Browser, NEW a \in App, Admits(b, a)
        PROVE  bound[SiteCookie(b, a)] \notin ended
    <3>1. PICK k : k = SiteCookie(b, a)
      OBVIOUS
    <3>2. k \in Site
      BY <2>1, <2>2, <3>1, Bounds DEF Admits, SiteCookie, TypeInv
    <3>3. CASE site[k].sid = None
      BY <2>1, <3>1, <3>2, <3>3, Bounds DEF SiteInv, TypeInv
    <3>4. CASE site[k].sid # None
      <4>1. site[k].sid \in Sid
        BY <2>1, <3>2, <3>4, Typed, Bounds
      <4>2. session[site[k].sid].live
        BY <2>2, <3>1, <3>4 DEF Admits, Live
      <4>3. session[site[k].sid].uid = bound[k]
        BY <2>1, <3>2, <3>4, <4>1, <4>2 DEF SiteInv, UidInv
      <4> QED BY <2>1, <3>1, <4>1, <4>2, <4>3 DEF EndInv
    <3> QED BY <3>3, <3>4
  <2> QED BY <2>1, <2>2 DEF EndInv
<1> QED BY <1>1, Invariant, PTL

(* updateSessionReference: for any number of tabs, browsers and apps, the   *)
(* site sessions end up with the id their session has, and the session      *)
(* knows their apps.                                                        *)
THEOREM SitesFollow == Spec => []SiteFollows
<1>1. Inv => SiteFollows
  <2> SUFFICES ASSUME Inv, ~crossed, moves = {},
                      \A t \in Tab : job[t].step \notin {"destroy", "save"},
                      NEW b \in Browser, NEW a \in App, NEW k, k = SiteCookie(b, a),
                      k # None, bound[k] # None, Live(browser[b].sid),
                      bound[k] = UidOf(browser[b].sid)
               PROVE  Admits(b, a) /\ site[k].sid = browser[b].sid
    BY DEF SiteFollows
  <2> DEFINE s == browser[b].sid
  <2>1. TypeInv /\ FreshInv /\ FollowInv /\ AppsInv
    BY DEF Inv, RefInv, OrderInv
  <2>2. s \in Sid /\ session[s].live /\ session[s].uid = bound[k]
    <3>1. s \in 0 .. MaxSid
      BY <2>1 DEF TypeInv
    <3> QED BY <2>1, <3>1, UidIs
  <2>3. k = browser[b].cookie[a] /\ k \in Site /\ site[k].live
    <3>1. k = browser[b].cookie[a]
      BY DEF SiteCookie
    <3>2. k \in Site
      BY <2>1, <3>1, Bounds DEF TypeInv
    <3> QED BY <2>1, <3>1, <3>2 DEF FreshInv
  <2>4. \A t \in Tab : ~Writing(t)
    BY DEF Writing
  <2>5. site[k].sid = s
    BY <2>1, <2>2, <2>3, <2>4 DEF FollowInv
  <2>6. a \in session[s].apps
    BY <2>1, <2>2, <2>3, <2>4 DEF AppsInv
  <2> QED BY <2>3, <2>5, <2>6 DEF Admits
<1> QED BY <1>1, Invariant, PTL

=============================================================================
