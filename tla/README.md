# A verification project for Passmower

Passmower is an OpenID Connect provider whose configuration and users are
Kubernetes custom resources. A process (a pod) is three things at once: an
HTTP server built on `oidc-provider`, a set of operators that watch custom
resources and reconcile them, and the timers that repair what those two miss.
Several replicas run side by side and share two stores, the Kubernetes API and
Redis. Nothing in the code locks across replicas except a coordination Lease
for the operators, so most of what can go wrong is an interleaving: of two
reconciles in one process, of two processes, of a process and a crash, of a
write and the watch event it causes.

These TLA+ modules model that behaviour; TLC checks them on small instances and
TLAPS proves the central facts for every instance.

## 1. The system

| component | state it keeps | operations | talks to |
|---|---|---|---|
| client operator (`operators/kube-oidc-client-operator.js`, `models/client-activity-state.js`, `models/oidc-client.js`) | fingerprints of the specs it reconciled, its status snapshots | watch callbacks ADDED, MODIFIED, DELETED; claim; Secret create, adopt, patch; upsert, destroy; status report | Kubernetes adapter, Redis adapter |
| Redis sweep (`services/client-redis-reconciler.js`) | an interval, a "sweeping" flag | sweep: list, set members, find, confirm, destroy | both adapters |
| wipe detector (`services/redis-wipe-detector.js`) | a marker key in Redis, an interval | check, restartOnRedisWipe | Redis, `app.js` |
| leader election (`services/leader-election.js`) | `leading`, `lastRenewedAt`, the retry interval; the Lease | start, tick (acquire, renew), stop, the fallback without rights | Kubernetes adapter, `app.js` |
| start and stop (`app.js`) | `stopReconcilers` | startReconcilers, startWatches, the shutdown hook | all operators |
| Kubernetes adapter (`adapters/kubernetes.js`) | open watches | watch with its LIST, Secret create and patch, status replace and mutate, Lease create and replace | the API server |
| Redis adapter (`adapters/redis.js`) | two connections, and the keys `Model:id`, grant lists, uid and user-code indexes, sets | upsert, find, destroy, consume, revokeByGrantId, connection replacement | Redis |
| middleware client operator | as the client operator | a Traefik Middleware and a Redis record per client | both adapters |
| ingress discovery | the ingresses it saw | creates OIDCClients from annotations, resolves `ingressRef` | both adapters, client operator |
| user operator, user service (`operators/kube-oidc-user-operator.js`, `services/kube-oidc-user-service.js`) | OIDCUser spec and status, conditions | create, update, merge identities, e-mail uniqueness | Kubernetes adapter |
| user event hooks | the users already seen | dispatch an HTTP call on a new or changed user | user watch |
| activity tracker (`services/activity-tracker.js`) | buffered activity per user and client, the clients it knows, the flush interval | record, register and unregister a client, flush, put back what failed | Kubernetes adapter |
| SCIM (`services/scim-*.js`) | links, tombstones, groups on users | create, replace, patch, delete users and groups | user service |
| sessions (`services/session-service.js`, `utils/session/*`) | session metadata, impersonations, site sessions | list, end, impersonate, activate | Redis adapter |
| logins (`services/login/*`, `services/webauthn/*`) | one-time tokens, challenges, upstream state | send and verify a link, passkey ceremony, upstream callback | interactions in Redis, user service |
| HTTP routes, provider set-up | none of their own | the handlers that call the above | everything |
| notifications, text, metrics, audit, frontend, charts | none | output | - |

### What is hard in it

* **Reconciles overlap.** A watch callback is not awaited between events. The
  ADDED of a client and the MODIFIED of our own status write on it reconcile the
  same client at once; the second one reads what the first has half written.
* **Two processes believe they lead.** Standing down stops the watch, not the
  reconcile in flight; a takeover starts before the outgoing one's writes land.
  Without a Lease (or with `LEADER_ELECTION` off) every replica reconciles.
* **Watches have gaps.** Between the end of a watch and the LIST of the next one
  events are lost; a DELETED is never repeated.
* **Writes without a version.** Secrets and users are patched with a JSON patch
  computed from an earlier read; only status replaces and Leases carry a
  resourceVersion.
* **Two commands are not one.** A Redis record and its set member, a grant list
  and its TTL, the wipe marker and the replay are separate calls.
* **Failures in the middle.** Every await may throw, the process may die after
  any of them, and Redis may come back empty.

### What makes each component correct

The properties of the runs come from this list; what is said of the Redis
adapter beyond a client's record, and of the event hooks, is not checked (see
section 5).

* client operator: one `client_secret` per client for as long as it lives, the
  same one in the Secret and in Redis; only our own clients are projected; what
  Redis and the Secret show converges to the resource.
* sweep, wipe detector: a deleted client leaves Redis for good; a wiped Redis is
  refilled.
* election: the Lease is a lock; the operators run exactly in the pod that
  leads; some pod always leads again; a stopped pod stays stopped.
* Redis adapter: a revoked grant leaves no token behind; what is consumed stays
  consumed; a grant list outlives the tokens it names.
* users: one user per e-mail; a status condition says what the spec says; no
  concurrent update of a user is lost.
* event hooks: each new user is announced, once or more, never zero times.
* activity tracker: `lastUsedAt` never goes back and is not lost while some pod
  can write.
* ingress discovery: the client of an Ingress is what its annotations describe
  now; a client made by hand is left alone.
* SCIM: a group holds the members the directory has given it; a deactivated
  person and a disabled connection grant nothing; a person stays with the
  account it was linked to.
* logins and sessions: whoever is logged in was proved by some method; only
  Terms that were shown are accepted; an ended session lets nobody in, and a
  change of a session's id signs nobody out.

## 2. The modules

| module | what it is | lines of proof in |
|---|---|---|
| `ClientOperator` | one OIDCClient from resource to Secret and Redis record: operator, sweep, wipe detector, crash, handover, watch gap, over every replica | `ClientOperatorProofs` |
| `LeaderElection` | the Lease, every pod's tick and `stop()`, and the callbacks `app.js` hands to the election | `LeaderElectionProofs` |
| `ActivityTracker` | the activity buffers of every replica, and their flushes onto the status of users and clients | `ActivityTrackerProofs` |
| `ActivityRegister` | the abstract promise of `status.lastUsedAt`: real uses only, never back | |
| `IngressDiscovery` | one Ingress, the client its annotations generate, and a client that takes its host from it | `IngressDiscoveryProofs` |
| `Accounts` | the OIDCUsers: sign-ins and invitations that find or create one, status writes, the e-mail reconcile | `AccountsProofs` |
| `Scim` | one SCIM connection: subjects, groups, links to accounts, projection, revocation | `ScimProofs` |
| `SignIn` | one browser's interactions, from prompt to result, through every login method | `SignInProofs` |
| `Sessions` | base sessions, the site sessions of forward-auth, and their ids, across browsers | `SessionsProofs` |

Each has an `MC` module that holds its symmetry for TLC, but `IngressDiscovery`,
whose run checks liveness and has none.

The modules meet at the state they share in the code. `ClientOperator` and
`IngressDiscovery` split an OIDCClient in two: the first takes a client without
`spec.ingressRef` through every step, the second takes `reconcileClientByName`
with a resolved host as one step that registers it or not. `SignIn` uses of the
accounts what it needs (who exists, what is approved) as steps of an
environment, and `Accounts` models those steps. `SignIn` ends where a login
becomes the session's account; `Sessions` begins there. In `ClientOperator` the
changes of leader (`StandDown`, `TakeOver`) are any changes at all, which
includes every one that `LeaderElection` allows.

### ClientOperator

The state is the resource (`cr`), its Secret (`secret`), its Redis record (`rec`,
and `listed` for membership of the `Clients` set), the wipe `marker`, and for
each process the undelivered events (`queue`), the registered fingerprint
(`fp`), the reconciles in flight (`job`), the order of its second Redis
commands (`pipe`) and its `sweep`. A reconcile is a record with a program
counter: `Deliver` is the synchronous part of the watch callback, and every
await of `#createOIDCClient`, `#updateOIDCClient` and `#deleteOIDCClient` is one
action (`Claim`, `FindRecord`, `GetSecret`, `CreateSecret`, `Reread`,
`PatchSecret`, `Upsert`, `Destroy`, `SetMember`, `ReportStatus`). `via` records
which of the three functions the job is a call of, since what follows an await
depends on it. Each call may also fail, and then the action does what the
`catch` does.

Abstractions, all of data:

* a client is told apart by the four kinds of spec the code distinguishes:
  confidential, public (no `client_secret`), disabled, and invalid (claimMappings
  that do not parse);
* a `client_secret` is a number given out in order, 0 for none; a resource is
  its uid, generation and resourceVersion;
* `status` is `instance` and the reason of the Ready condition;
* the one-second debounce before the Secret is read is a job waiting in
  "secret" for as long as it likes;
* the owner reference of a Secret is its `uid`: `CollectSecret` is the garbage
  collection of Kubernetes.

Only clients without `spec.ingressRef` are modelled here; `IngressDiscovery`
has the path that resolves one. A process has one Redis connection, so its
commands are served in order; the replacement of a connection is left out.

### LeaderElection

`tick` holds, per pod, the step of the tick in flight, whether the Lease it read
is still the stored one (this is the resourceVersion) and the age of its
timestamp; `halt` and `view` are the same for `stop()`. `ops` is what
`app.js` has running: `starting` is the window in which `onStartedLeading` has
been called and `stopReconcilers` is not yet set. `Land` and `Reply` are two
steps, so a write may be accepted and its answer lost, or be followed by
anything before the pod learns of it.

Time is kept as ages (how long ago was this timestamp taken), cut off just past
the longest duration anything is compared with. That makes the state space
finite without bounding the run, which is what the liveness property needs; the
age of what a tick has read is kept while its write may still land. The
clocks of the pods agree: a lease of this kind is defined by its duration and
gives no guarantee under a larger skew.

### ActivityTracker

`status` is what the API server has of each OIDCUser and OIDCClient, `pending`
the two buffers of each replica (`pendingUsers`, `pendingClients`), `known` its
`knownClients`, and `flush` the calls of `flush()` in flight: the buffers it
took, the resources it still has to do, the one it is at, the attempt (`try`)
and the status it is about to write (`want`). `Read` and `Write` are the GET and
the status replace of one attempt of `mutateNamespacedCustomObjectStatus`, with
anything in between; `Refused` is a 404 or a 409, `ReadFails` and `WriteFails`
any other error, after which the write may have been applied. `Settle` and
`PutBack` are the two ways a turn of the loop ends, and both go on with the next
resource, from the users to the clients.

Abstractions, all of data:

* an activity maps a client to the time of its last use, 0 when absent: for a
  user all of `recentApplications`, for a client its own `lastUsedAt`; what else
  an entry carries (namespace, name, kind) is a function of the client;
* `Recent` is the sort and the slice; among equally old entries at the limit any
  may stay, where the code keeps the order of its Map;
* `fresh` says that no write of the resource came after the GET, which is what
  comparing the resourceVersion tells; other writers of the status (`Touch`)
  keep the fields of the tracker, because a reconcile replaces a status it has
  just read;
* the clocks of the replicas agree; `InactiveAfter` is counted in ticks;
* a GET and its answer are one step, as are a write and its answer, except where
  the answer is lost;
* any replica may see clients: which one leads is not a matter here. A DELETED
  reaches `unregisterClient` before the client exists again;
* the turn of a loop visits the resources in any order.

`served` and `uses` are history: the latest use a running replica served per
resource, and the times each client was used. A resource that is deleted and a
replica that terminates take their history with them.

### IngressDiscovery

`events` are what the watch has to deliver, `job` the events being handled: the
code does not wait for one before it takes the next, and each handler holds the
Ingress as its event had it (`ing`). A handler first asks for the reconcile of
the referencing client (`ListClients`, `Resolve`, `Register`), which resolves
the host from the Ingress as it is *then*; then it reads the generated client
(`FindClient`) and creates, patches or deletes it *by name* (`Create`, `Patch`,
`Delete`). A read that fails is taken for a client that does not exist.
`Collect` is the garbage collector of Kubernetes, `Reopen` the end and restart
of a watch.

The host stands for the value of every annotation; `NoHost` for rules with no
host or several, to which a missing redirect path is folded since it leads to the
same branch. `limited` stands for the optional annotations without a default,
`allowedGroups` and `allowedUsers`, which of them it is not told apart. `Patched`
is the patch as the code makes it: the new spec merged into the one that was read
(`kube-ingress-discovery-operator.js:133`), and the diff of the two applied to the
client by then, so a limit that the annotations no longer set stays.

History: `lapped` (handlers overlapped), `failed`, `crossed` (a user made or
deleted a client of that name meanwhile), `reused` (the Ingress was re-created
before its last client was collected), `withdrawn` (an edit of this Ingress took
a limit away).

### Accounts

`user` is what the API server has of each OIDCUser: when it was made (`born`),
the addresses it claims with what each rests on (`spec`, `bare`, and the
evidence of GitHub and of an upstream), and its status. A request is a job with
its kind, its person (`who`), the address it brings and the edits it still has
to do (`todo`). It resolves the account at once from a list (`Resolved`, in
`SignIn`, `Invite` or `Resolve`), makes one if there is none (`Create`), and
then takes one edit after another: `Look` and `Find` are the reads before a
patch of the spec, `Patch` the diff applied to the user as it is by then, and
`Read`, `Write` and `Refused` the optimistic retry of the status, which every
edit ends with. `enter-username` makes the user and runs the login of the
upstream `again`.

The operator's handlers are jobs of the same kind: `news` are the watch events
to deliver, and the e-mail reconcile (`Mailer`) is the one job `"mailer"`, which
lists, keeps what it found wrong in `verdict`, writes one condition after
another, and lists once more if it was told to meanwhile (`again`).

An operator's own write returns as a MODIFIED that it skips (`managedFields`),
so a change of claims that our own patch made starts no e-mail reconcile.

An OIDC upstream asserts an address at every sign-in, its person's or anybody's,
the same as the last time or another; `sure` is whether it says that the address is
verified, which it says of its person's only. `word` is the address it asserted
last, and `moved` whether it has asserted two (`Heard`).

History: `moved`, `holder` (whom a user was made for), `entered` (who signed in to what),
`clean` (requests came one at a time and ran to their end), `missed`, `failed`,
and `unseen` (a patch of ours changed a claim and no list has come since).

Left out: the override of a verified e-mail and an explicit `false`, Slack,
group admission, passkeys and the claims an account shows.

### Scim

`subject`, `group` and `account` are SCIMSubjects, SCIMGroups and the identity
that this connection has in each OIDCUser. A request is a job: it lists, then
takes one subject after another (`FindSubject`, `PatchSubject`), and projects
each linked one into its account (`Locate`, `Project`). A patch is the diff of
what was read (`put`), applied to what is there by then, and it fails when it
takes out what has gone (`Applies`). `Link` is a sign-in that links an account
to the subject its upstream claims name, from a list it has read. The connection
operator revokes every projection once the connection is disabled.

Arrays are sets; marking a group is one step; the deletion of accounts, a second
connection, the counts in the status, filters and uniqueness of names are left
out.

### SignIn

One browser, with the interactions of one chain (`uid`), its flow, links and
challenge, and the session's account. The pages of a browser act only while it is
not on its way to the next (`Here`), and assert a prompt where the route does
(`At`); a second device may open a link at any time, and `SaveLink` saves the copy
it read over whatever the browser has put there, the result it is to be resumed
with included. A result is what the code hands to `interactionFinished`, merged
with the last submission or replacing it as each handler does. A login may be
tried while the username form is up, and the form posted from the login page: the
routes tell the two apart by nothing but the prompt, which is `login` in both. An
upstream whose answer the last submission holds is not asked again (`Revisit`).

The prompts are checked in the order in which `setup-policies` registers them
(`Due`), on one snapshot of the account. `base()` of `oidc-provider` may ask for a
login with a live session as well, for `prompt=login`, `max_age` or
`id_token_hint`: `NextPrompt` is that choice, made at every turn.

`EnterUsername` is the form where the last submission speaks of somebody, and
`EnterAsGuest` where it speaks of nobody: it makes a user of no address and no
identity, which belongs to the browser that asked. One such user (`Guest`) is made
at most. The code makes another user where one has the address already; the model
takes it for its owner, which is what `LoginProved` is about.

History: `proved`, the persons who have shown who they are in this chain or
session; `shown`, the texts rendered; `mixed`, that a link was asked for where the
last submission had already confirmed an address.

Left out: the cookie that remembers a choice of account, request-access, the
cookie swap at the end of an impersonation, and overlapping requests of one
browser. `Sessions` takes every `Authorize` for a fresh one: what a login on top of
a live session does to its id is there the same as any other change of the id.

### Sessions

A session has an id (`sid`) and a `uid` that stays. Every authorization that
resumes with a login replaces the id: the old one is destroyed, the new one
saved, and then, in handlers nobody awaits (`MoveRead`, `MoveWrite`), the site
sessions that refer to the old id are moved to the new one. A `Tab` is a request under way in some browser. A
forward-auth client (`App`) admits a browser by its site session's cookie, which
names a base session, or is valid without one until the resume binds it.

`crossed` is history: a change of id overlapped another or its handlers, a
request in flight saved after the session was ended, or the process died between
a change and its handlers. One account is modelled. Left out: tokens, the
administrator's own session, the binding to an IP address, the expiry of a site
session, anonymous sessions.

## 3. The runs

The bounds are CONSTANTS, spent by the environment actions; every module's
header says what each counts. In `ClientOperator`: `Slot` bounds the
reconciles of one process that overlap, `MaxUid` and `MaxGen` the incarnations
and edits of the resource, `MaxTouch` the writes of others that move only the
resourceVersion, and `MaxReconnect`, `MaxCrash`, `MaxHandover`, `MaxWipe`,
`MaxFailure` the faults of each kind. In `LeaderElection`: `MaxFault` the API
calls that fail, `MaxCrash` the crashes. In `ActivityTracker`: `MaxClock` and
`MaxUse` the time that passes and the sign-ins, `MaxTouch` the status writes of
others, and `MaxFailure`, `MaxCrash`, `MaxDelete` the faults. In the other
modules `MaxRequest` bounds the requests, `MaxUid`, `MaxBorn`, `MaxSid`,
`MaxSite`, `MaxFlow` and `MaxLink` what is ever created, and `MaxEvent` whatever
interferes: faults, edits, restarts and, in `Accounts` and `Scim`, requests
that overlap.

| run | instance | what it shows |
|---|---|---|
| `client_overlap` | one pod, two reconciles at once, confidential and disabled, a second Passmower, two generations, a foreign write, a failed call, a crash | types; `SecretAgrees`, `NoRotation`: the `client_secret` is never rotated and Redis agrees with the Secret at every moment; `OnlyOursProjected`, `ClaimStable`: a client of another instance is left alone; `Converged`: once nothing is in flight, Secret and Redis show the resource |
| `client_leaders` | two pods that both reconcile, a handover, a watch gap, a second Passmower | `SecretAgrees` when two processes race |
| `client_liveness` | one pod, one reconcile at a time, confidential and disabled, a watch gap, a wipe, a foreign write, fairness | `OrphansSwept`: a deleted client leaves Redis for good; `Served`: a client that stays wanted is served in the end, through the wipe |
| `leader` | two pods, leases of two ticks, a failed or forbidden call whose write may have landed, a crash, graceful stops, fairness | types, and that operators are being started exactly while a tick starts them; `FreshLeaderHolds`, `LeaseNotStolen`: the Lease is a lock; `OperatorsFollow`: the operators run exactly where `leading` says; `AlwaysReconciledAgain`: as long as some pod is up, some pod runs the operators again and again |
| `activity_safety` | two replicas, one user, one client, a conflicting write, a termination, a delete and re-create | `NothingLost`: what a running replica served is published, buffered or in flight; `RecentNeverBack`, `RegisterSpec` (the refinement of `ActivityRegister`): nothing shown goes back; `InactiveHonest`: the condition is true of the `lastUsedAt` beside it |
| `activity_liveness` | one replica, one user, two clients, a list limited to one, a failed call, a conflicting write, fairness | types and the limit of the list; `Published`: what was served is shown in the end |
| `ingress` | a host or none, two handlers at once, an Ingress created twice, two of: an edit, a re-creation, a client by hand, a failed call, a crash; fairness | types; `Enrolled`: the generated client is what the annotations describe, except for a limit that an edit withdrew; `RefFollows`: a referencing client has the host of the Ingress or is not Ready; `HandKept`: a hand-written client is left alone; `Healed`: whatever else went wrong is made good once the watch opens again |
| `accounts` | two users, two persons, a name that is prompted for, two handlers at once, two sign-ins or invitations, one of: an overlap of the two, an edit, a deletion, a failed call, a restart | types; `StatusCurrent`: the status says what the spec says; `FlagsRight`: exactly the later claimants of an address are marked; `HomeOnly`: requests one at a time sign nobody in to the user of another person, unless that person's upstream has asserted two addresses; `ProofKept`: a verification stays |
| `scim` | two subjects, two accounts, one group, mapped-groups, two requests, two of: an overlap, a failed call, a restart, a switch of `spec.disabled` | types; `LinkStable`: a linked subject stays with its account; `GroupsLive`: a tombstoned group has no members; `Settled`: the accounts show what the directory says; `Revoked`: a disabled connection grants nothing |
| `scim_kept` | the same | a finding, below |
| `sign_in` | two persons, two texts of the Terms, three policies of enrolment and names, a second device, two interactions, and three of: a redirect to an upstream, two links, one event (an edit, a failed call, a new text, an expiry, an impersonation, a sign-out) | types, and that without a session a login is asked for and nothing else; `LoginProved`: whoever is logged in was proved, unless a link was asked for where the last submission had confirmed an address; `TosShown`: only a text that was shown is accepted |
| `sessions` | two tabs in one or two browsers, two forward-auth clients, three session ids, two site sessions, one event | `SignedOut`: a session that was ended lets nobody in; `SiteFollows`: a change of the id signs nobody out |

### Why these bounds are enough

One fault of each kind is enough to reach every error path, and two overlapping
handlers to reach every race of two: no handler waits for or counts others, so a
third one meets nothing a second one does not, except where something is tried
three times. In `ActivityTracker` a conflicting write of a reconcile, one of the
other replica, and a delete and re-create use up the three attempts, and a limit
of one application makes every second one cut the list. In `Accounts` two
handlers and the e-mail reconcile use up the three attempts of one another, and
two persons that both claim one address, by a sign-in, an invitation or an edit,
are the smallest case in which one user has to be marked; its one event is an
overlap, a fault or an edit. Two requests are an upstream that asserts an address
which is not its person's, and the owner of that address; a third one, after which
the upstream has asserted two, leaves `HomeOnly`. In `Scim` two subjects
are needed for a group that is changed in part. In `SignIn` two links and a
second device make a link stale while a newer one is out; two interactions are a
login and what follows it: a name, another login, or any other prompt. A third one
starts from a result as the second did, and the theorems hold for every number.
The constraint `Budget` of `MCSignIn` lets a chain spend three redirects, links and
events together, so a redirect, two links and an event are not all in one chain;
each three of them are. In `Sessions` three ids are a login, and two replacements. Every action of every module is fired by the passing runs.

Deadlock is not checked, because an idle system whose environment has spent its
bounds stops.

### Premises

Some properties carry a premise over history variables. Each premise names a
situation that the code does not claim to survive, or does not; those that go
wrong are listed under "Limits" below.

* `Converged`: `calm`, that every change of the resource so far met an idle
  system and no call failed, and `Settled`, that nothing is in flight.
  `SecretAgrees` and `NoRotation` are about the first incarnation of a client
  (`FirstLife`): after a delete and a re-create of the same name a new secret is
  right. The secret and claim properties hold through every overlap and failure.
* `Enrolled`, `RefFollows`: handlers one at a time, none failing; `Enrolled`
  also that no user made or deleted a client of that name meanwhile (`crossed`)
  and that the Ingress was not re-created before its client was gone (`reused`),
  and it excuses a limit that was `withdrawn`. `HandKept` is about a client that was
  there by hand when the handler began. `Healed` has none of them, and asks for
  the values and for the limits that the annotations set; a limit they no longer
  set is healed by no reopening.
* `StatusCurrent`: no call failed; `FlagsRight`: and no status was given up, and
  no patch of our own has changed a claim since the last list (`unseen`);
  `HomeOnly` records sign-ins only while requests came one at a time and ran to
  their end (`clean`), and leaves out the users of a person whose upstream has
  asserted two addresses (`moved`).
* `GroupsLive`, `Settled`, `Revoked`: requests one at a time; `Settled` also
  that every request that failed was repeated with success and the connection
  was never disabled; `Revoked` that no handler was in flight as it was.
  `LinkStable` has none.
* `SignedOut`, `SiteFollows`: not `crossed`. `LoginProved`: not `mixed`.
  `TosShown` has no premise.

### Fairness

The liveness runs assume weak fairness, per process, of: delivery of watch
events, the wipe check, the sweep, and each reconcile in flight; and for the
election the clock, the retry interval while it is set, and the calls of a tick
or a `stop()`. Each is a timer of the code (`setInterval` in
`client-redis-reconciler.js:57-66`, `redis-wipe-detector.js`,
`leader-election.js:80`) or a call that returns, with an answer or with a
failure, because the clients of both stores time out. For the tracker it is the
flush interval (`activity-tracker.js:69-75`) and the calls of a flush in flight.
For the discovery it is the delivery of events, each handler in flight, the
restart of a watch (a watch request ends at the latest when the API server times
it out, and `adapters/kubernetes.js` opens it again with a LIST) and the garbage
collector. Nothing is assumed of the environment: edits, crashes, handovers,
failures and wipes may happen or not. The safety runs of `Accounts`, `Scim`,
`SignIn` and `Sessions` assume nothing.

### Findings

`scim_kept` states what the documentation says of mapped-groups, and TLC shows
what the code does: a list of SCIMSubjects that fails comes back as null and is
taken for an empty directory (`scim-directory-service.js:21`), so the deletion
of a group answers 204 and leaves every member with the group and the grant, and
no later request of that group can take it away.

Other disagreements between the code and what the repository says of it were
met while modelling, and have no run of their own. The first three are what the
exceptions of `LoginProved`, `HomeOnly` and `Enrolled` stand for: TLC finds each
within seconds once the exception is taken out of the property (the second at
three requests, one at a time).

* `completeLogin` relies on a flag "which only a valid token could have set"
  (`email-login.js:143-144`). While a name is asked for, the last submission has
  the flag for one address, and `sendLink` for another merges the two
  (`email-login.js:50`), so `email-complete` logs in the account of the second
  without its link having been opened;
* the comment on `isEmailLinkable` (`account.js:381-383`) and
  `docs/identity-integrity.md:3-6` say that an address on an upstream's word alone
  links nobody. The code knows it for such only while an identity lists it: once
  the same subject comes with another address, `passmower.email` keeps the first,
  and the owner of that one is signed in to the account;
* `docs/ingress-discovery.md:80` gives `allowedGroups` the default "unset
  (everyone)". The new spec is merged into the old one
  (`kube-ingress-discovery-operator.js:133`) and leaves the field out, so a client
  whose annotation was withdrawn keeps the limit until it is deleted;
* "`ENROLL_USERS=false` prevents creation of an unknown account"
  (`docs/identity-integrity.md:65`). The form that names a new user asks for the
  prompt only (`oidcRoutes.js:545-564`) and creates one all the same;
* two replicas that both see a client turn from public to confidential make a
  secret each; the Secret keeps one and Redis the other
  (`kube-oidc-client-operator.js:180`);
* the claimMappings check comes before the ownership check, and its failure
  report writes `status.instance` over another Passmower's
  (`kube-oidc-client-operator.js:49`);
* the replay of a wiped Redis leaves public clients out;
* a renewal that fails with anything but a 409 or 403 skips the renew deadline
  (`leader-election.js:200`);
* a 403 of a late renewal clears the interval, then stands down: the pod never
  tries again (`leader-election.js:231`);
* a claim that conflicts is not tried again, because the fingerprint is
  registered already (`kube-oidc-client-operator.js:109`), while
  `adapters/kubernetes.js:238` says "the caller already treats the undefined as
  'did not win, try later'";
* a tick in flight when the shutdown hook runs may take the Lease and start the
  operators after it (`leader-election.js:88`), while `app.js:143` says "Hand the
  operator lease back on a rolling restart";
* a replica that terminates does not flush, so its own buffer is lost
  (`app.js:147`), while `docs/audit-logging.md:70` says it "may be lost if every
  Passmower pod terminates simultaneously";
* a generated client is recognised by the name in its label alone, while
  `ingress-oidc-client.js:85-88` says "only if this exact Ingress produced it": an
  Ingress that is re-created adopts the client of its predecessor, which the
  garbage collector then takes away;
* the event hooks remember a user's generation before the dispatch
  (`kube-oidc-user-event-hook-operator.js:81`), so a crash in between loses the
  announcement.

### Limits the passing runs respect

Each of these is excluded from a passing run by the bound or premise named, and
shows as a counterexample once it is lifted.

* `NoRotation` with "public" among the kinds: a client switched to a public
  method loses the secret in its Secret, and a new one is made when it is
  switched back.
* `Converged` without `calm`, edits: a reconcile from before the last edit may
  upsert after the reconcile of that edit, so an older record stays, or a
  record stays of a client whose condition says "disabled and absent from
  Redis". Without `calm`, failures and a watch gap: an update that failed or was
  missed is not upserted by the replayed ADDED, because the fingerprint is
  registered or Redis holds some record.
* `Converged` with two pods, a wipe and a handover: the marker is written before the
  replay, so an outgoing leader can mark a wipe and never replay it.
* `Converged` with two pods, a handover and a crash: a pod stands down with its
  claim in flight, wins the claim and dies. The other pod lost the claim, takes
  the MODIFIED it causes for the generation it knows, and nobody reconciles.
* `Converged` with two pods and "public" among the kinds: the Secret of a public
  client holds no `client_secret`, so on a switch to a confidential method each
  pod makes one, and the record may keep one and the Secret the other.
* `OrphansSwept` with a crash: a process that dies between the record and its
  set member leaves a record that the sweep, which goes by the set, never sees.
* `Enrolled` without its premises: an older event may write last; a patch or a
  delete by name may hit a client made by hand meanwhile, which `HandKept` leaves
  out too; DELETED reconciles no referencing client; a limit that was withdrawn
  stays.
* `LoginProved` without `~mixed`, and `HomeOnly` without `moved`: as under
  "Findings".
* `AlwaysReconciledAgain` asks for some pod: one that has stood down for good, or
  misses its deadline, breaks no property while another is up.
* `Served` without its calm premise: the sweep works from a list, and a client
  that was created or re-created since looks like an orphan to it.
* `HomeOnly` with overlapping requests: two sign-ins of one new address make two
  users, of which `FlagsRight` shows the later one marked. A form of
  `enter-username` creates without looking at the owners of the addresses
  again.
* `HomeOnly` after a request that did not run to its end: `enter-username` makes
  the user and the login of the upstream that follows is refused. The user keeps
  an address that its upstream only asserted, without the identity that says so,
  and `isEmailLinkable` then links it to the owner of that address (three persons,
  three requests, two events).
* `FlagsRight` after three conflicts: after a third 409 what was to be written
  is dropped, and nothing repeats it.
* `FlagsRight` without `unseen`: an administrator withdraws `spec.email` while a
  sign-in that found the user by it is under way, another user is made with the
  address, and the patch of the sign-in brings it back to the first. Two users
  claim it and neither is marked, because no e-mail reconcile follows a patch of
  our own (three requests, one of them overlapping, and two edits), while
  `docs/identity-integrity.md:18-21` says that the younger one is.
* `Settled` with overlapping requests: a group change patches stale memberships,
  and may restore the grant of a deactivated person; with a switch: re-enabling
  a connection projects nobody again, and a revocation that failed is repeated
  only by the replay of a restart.
* `SiteFollows` and `SignedOut` when changes of id overlap: references are moved
  from an id that is gone, two resumes leave a second session of the same uid,
  and a request in flight that saves after the end brings the session back.

## 4. The proofs

`ClientOperatorProofs` proves, for every set of processes, every number of
overlapping reconciles (`Slot`) and every bound on what the environment does,
from the named assumption `ClientOperatorAssumption`:

* `TypeCorrect`: `Spec => []TypeOK`.
* `SecretsAgree`: `Spec => []SecretAgrees`, and `NeverRotated`:
  `Spec => NoRotation`, both assuming `"public" \notin Kind`. Through every
  overlap of reconciles and leaders, crash, wipe and failed call, a client in
  its first life keeps the `client_secret` it was first given, and Redis never
  holds another one than the Secret does.
* `OursOnly`: `Spec => []OnlyOursProjected`, and `ClaimKept`:
  `Spec => ClaimStable`, both assuming `"invalid" \notin Kind`.
* `Converges`: `Spec => []Converged`, assuming `"public" \notin Kind` and that
  the leaders replay what is lost: there is one pod, or no pod hands over, or no
  pod dies and Redis is not wiped.

The assumptions of the first four exclude two of the disagreements listed under
"Findings", the secret of a client that turns confidential and the failure
report; those of `Converges` exclude three of the limits above. Without them the
statements are false of the code.

`SecretAgrees` is far from inductive, because a reconcile decides what it will
write several awaits before it writes. The argument has three layers.

1. `ObjectsInv`: what a watch event or a reconcile carries (`KnownIn`) is a
   client of this or an earlier life, of a kind its author may write, and the
   resource as it is now if the resourceVersion matches. Its step is proved
   from what any action may do to the resource, the events and the reconciles
   (`Moved`, `QueueFlow`, `JobFlow`), a frame the other two layers reuse.
2. `OursInv`: every reconcile past its claim, every event that says "us", the
   record and the Secret are of a client whose `status.instance` is ours if it
   still exists. The compare-and-set of `#replaceClientStatus` establishes it:
   `Claim` writes only if the object read is the resource as it is (`KnownIn`).
3. `SecretInv`: while the client is in its first life, a reconcile about to
   create the Secret has a secret to put in it, and one about to patch or to
   upsert carries the one the Secret holds (`Carries`). Patches therefore
   rewrite what is there; the first create decides, since a create meets no
   Secret only when no reconcile carries one and no record exists.

`Converged` speaks of rest, so its invariant `CalmInv` says what is still on its
way before it. While the run is calm, every event and every reconcile is of the
client as it is now (`Events`, `OnCourse`), every watching pod has an event to
come or knows this generation (`Registered`), and one of three holds
(`Provided`): record and Secret show the client (`Shows`), a reconcile at a step
from which it will make them is at work (`AtWork`), or an event is queued that its
operator will not take for one it knows (`Announced`). The first is never undone,
because a reconcile that is on course writes what `Shows` asks for
(`ShowsKept`); the second is passed along a reconcile from step to step
(`ReconcileMoves`) and ends in the first; the third starts a reconcile when it is
delivered. What may be lost is the third, and the hypotheses say how it comes
back: a pod that dies takes its events along, and its successor's LIST makes new ones
(`Alone`), or the events wait at all the watching pods and none of them dies
(`Unhurt`).

`LeaderElectionProofs` proves, for every set of pods, every duration and
deadline and every bound, from the named assumption `LeaderElectionAssumption`
alone:

* `TypeCorrect`: `Spec => []TypeOK`.
* `FreshLeader`: `Spec => []FreshLeaderHolds`. A pod whose last write is within
  the lease duration holds the Lease, so two pods that renew in time never lead
  together.
* `LockIsKept`: `Spec => LeaseNotStolen`. The Lease changes hands only when it
  has expired or its holder releases it.
* `OperatorsFollowLeading`: `Spec => []OperatorsFollow`.

None of the last three is inductive. The lock argument rests on what a pod's stale view
is worth: the inductive invariant `LockInv` says that the age of the holder's
last write is that of the Lease (`FreshWrite`), that a pod about to acquire with
a *current* view saw a Lease that is still free or expired (`AcquireView`), that
a pod about to renew with a current view holds it (`RenewView`), and the same of
a `stop()` about to release (`ReleaseView`). A write that carries an out-of-date
view is refused, so `Land` preserves it; every accepted write makes all other
views out of date. `OperatorsInv` follows `ops` and `leading` through the steps
of a tick, where they differ, back to its end, where they must not; that operators
are being started exactly while a tick starts them is part of the type invariant.

`ActivityTrackerProofs` proves, for every set of replicas, users and clients,
every number of overlapping flushes (`Slot`), every limit and every bound, from
the named assumption `ActivityTrackerAssumption` (the set of clients is finite,
so a list has a length):

* `TypeCorrect`: `Spec => []TypeOK`, with the limit of the list.
* `NothingIsLost`: `Spec => []NothingLost`.
* `RecentKept`: `Spec => RecentNeverBack`.
* `InactiveTold`: `Spec => []InactiveHonest`.
* `RegisterImplemented`: `Spec => RegisterSpec`, the refinement of
  `ActivityRegister` under `shown <- [c \in Client |-> status[c].at[c]]`.

The argument is that of every optimistic read-modify-write. `CopyInv` says of a
flush about to write that its copy *carries* what the flush took (`Carries`) and,
while it is `fresh`, all that the status shows (`Current`). `JobStep` and
`StatusStep` are the frame: in one step a flush keeps its copy, takes a new one
of the current status, or has none; and a status that changes outdates every
copy of it. The algebra underneath is about the cut: `RecentLists` proves that
what a whole list shows, or is full of newer entries for, the list cut to the
limit does too. `BufferStep` is the second frame, of the buffers and the flushes,
on which `NothingIsLost` rests; `RealInv`, that every time in a buffer, a copy or
a status is that of a use, completes the refinement. `Held`, part of the type
invariant, says that what a flush still holds is still to be done, without which
the end of a flush would lose it.

`IngressDiscoveryProofs` proves, for every set of hosts, every number of
overlapping handlers and every bound, from the named assumption
`DiscoveryAssumption`:

* `TypeCorrect`: `FairSpec => []TypeOK`.
* `HandWrittenKept`: `FairSpec => HandKept`.
* `ReferencingFollows`: `FairSpec => []RefFollows`.
* `GeneratedFollows`: `FairSpec => []Enrolled`.

A handler creates, patches or deletes by name what it looked up an await
before. `HandInv` says that a handler about to write over a client has not seen
one made by hand; `RefInv`, that with handlers one at a time a host that has
been resolved is the one the Ingress has, unless an event of a later one is
still to come; `EnrollInv`, of an `Undisturbed` life, that the last event still
to be handled or being handled is of the Ingress as it is (`Recent`), and that
what a handler is about to do is right for the Ingress it has (`Deciding`). The
merge adds what a limit comes from: the Ingress as a handler has it, or an edit
that withdrew it.

`ScimProofs` proves, for every directory, every number of handlers in flight,
both grant modes and every bound, from the named assumption `ScimAssumption`:

* `TypeCorrect`: `Spec => []TypeOK`.
* `LinksKept`: `Spec => LinkStable`.
* `TombstonesEmpty`: `Spec => []GroupsLive`.
* `DisabledRevoked`: `Spec => []Revoked`.
* `DirectorySettles`: `Spec => []Settled`.

The frame is that a step of a handler leaves the work of every other as it was
(`OwnOthers`), except that a write of a subject outdates the copies held of it.
`LinkInv`: a handler whose copy is still current listed a subject that nobody
has linked. `GroupInv`, while handlers come one at a time: what a handler is to
write exists and gets no tombstone (`Clean`), the diff of a patch is that of the
subject as it is (`Current`), and a deletion still has an edit for every member
there is (`Deleting`), so none is left when it comes to the tombstone.
`RevokeInv`: whatever is granted belongs to a linked subject (`OwnedInv`), which
`LinkStable` keeps so; from the moment a connection is disabled no request is in
flight (`Cleared`), and what is still granted is among what the operator has to
withdraw (`Covered`).

`Settled` speaks of rest, and its invariant of what a handler under way still
owes. `Aimed`: all that a request of one subject is to write is of that subject,
the diff it carries, to a subject or to an account, is that of the record as it
is (`Exact`, `ExactView`), and a view about to be projected is of a linked
subject as it is (`Faithful`). `OwedInv`: a linked account shows its subject
(`Right`), or the handler is about to project into it (`InHand`), or a request of
that subject failed and was not repeated (`Repeatable`). A request that succeeds
is forgotten by its last write only, which is the projection; that a projection
disturbs no other account is `ClaimInv`, by which an account is linked to the one
subject its claims name. A failed group change leaves members that no request of
theirs repeats, which is why `sore` is a premise; and the invariant needs
overlaps excluded because `Exact` does.

`SignInProofs` proves, for every set of persons, texts and devices, every policy
and every bound, from the named assumption `SignInAssumption`:

* `TypeCorrect`: `Spec => []TypeOK`.
* `OnlyTheProved`: `Spec => []LoginProved`.
* `AcceptedShown`: `Spec => TosShown`.

`LoginProved` speaks of three places; the invariant has to speak of every fact
that may still become a login, and it has to hold whether or not the chain is
`mixed`, because `TosShown` and the types do. It is therefore stated once, of who is
`Trusted`: the proved ones while the chain is not mixed, and anybody once it is.
`SoundFor` says of one result that the upstream identities in it are trusted, an
address it calls verified is, an address and its token belong together, and a name
is asked for only where an identity or a verified address is. `MergeSound` is the
lemma the chain turns on: the merge of a sound result with the last submission is
sound, provided that a submission which has the flag meets an address that is
trusted (`ResultInv`); `SendLink` is the one step that could break this, and there
the chain becomes mixed. What a finished interaction hands on is `Backed`: an
address in it is verified or comes after an upstream's identity, which is why
`Stashed` may go by the identities first. `TaskInv` says the same of the copy a
link's handler is about to save, and that a copy of an interaction that is gone
names an old `uid`, so it is never saved over its successor; that is what makes it
safe for `Authorize` to forget who was proved. `Onward` is the frame: while a chain
goes on, more persons are trusted, more texts shown, more accounts exist, and
every new link is newer than any a result names.

`SessionsProofs` proves, for any tabs, browsers and apps and every bound, from
the named assumption `SessionsAssumption`:

* `EndedStaysOut`: `Spec => []SignedOut`.
* `SitesFollow`: `Spec => []SiteFollows`.

Both rest on one invariant in two halves. `RefInv` holds whatever overlaps: a
session keeps the `uid` it was given, an id is never given out twice
(`UidInv`), and everything that still names an id, a resume about to save
(`WriteInv`), a handler that moves references (`MoveInv`) or a site session
(`SiteInv`), names one of its own session. `OrderInv` holds while nothing
overlapped: a session has one request at work on it and one live id (`EndInv`),
no handlers but those of its last change (`AloneInv`), and a site session bound
to it has its id, or the id it had before a change whose save or handlers are
still to come, and then among those they will rewrite (`FollowInv`). `AppsInv`
says that the session knows the apps of its site sessions, or that the resume
about to save it does; without it a site session could follow and admit nobody.

`AccountsProofs` proves, for every set of users and persons, every number of
overlapping handlers and every bound, from the named assumption
`AccountsAssumption`:

* `AccountsTypes`: `Spec => []TypeOK`.
* `VerificationsStay`: `Spec => ProofKept`.
* `StatusFollows`: `Spec => []StatusCurrent`.
* `FlagsFollow`: `Spec => []FlagsRight`.
* `EntersHome`: `Spec => []HomeOnly`.

`Base` is the type invariant with `ShapeInv`: what a handler still has to do is a
plan of its kind (`Plans`), and the call it is at opens the first edit of it.
`FreshInv` is the argument of the optimistic retry: an unspent copy is what the
handler intends with the user *as it is*, so an accepted status write takes
nothing out, which is `ProofKept`. The two statements about an idle system need
to say what a busy one still owes. `CoverInv`: the addresses in a status are
right, or an event, a handler about to read or one with an unspent copy will see
to it; giving up after three conflicts does not break this, because each
conflict is the write of another, who has set the status right or still will. `FlagInv`:
unless a list is still to come (`Pending`), each user is marked as its claims
demand or the e-mail reconcile holds just that mark for it (`Judged`), and
`VerdictInv` says that it holds marks only from its list to its last write.

`HomeOnly` is a statement about who signed in, and its invariant one about what
every user shows (`Own`). Of a user whose holder's upstream has asserted one
address only (`Theirs`): identities, verifications and vouched addresses are those
of its holder, and any other address is the one its upstream asserts, known to be
just that because the identity names it, or because the sign-in that is to write
the identity is still under way (`Unfinished`). Such an address is not `Linkable`,
so a proved address leads to its holder only, or to a user that is `Moved`; of those
nothing is claimed but that they have a holder, and a sign-in only adds to them.
`AskOk` and `PutOk` carry the same through a request: it is at a user of its own
person or at one that is `Moved` (`Home`), and what it is about to patch is its own
evidence. The premise that requests run to their end is where `Unfinished` would be
left without a sign-in behind it.

What stays with TLC: the liveness properties (`Served`, `OrphansSwept`,
`Published`, `AlwaysReconciledAgain`, `Healed`), which are out of the prover's
reach. Every other property of a passing run is a theorem, under the assumptions
its entry names.

## 5. What is not modelled

`PROJECT.json` lists every component with its status, and every hazard, also
those that go wrong and are therefore no property.

* **Middleware client operator**: its claim, fingerprint and record are those of
  the client operator, and a Traefik Middleware has no value that must be kept
  as a `client_secret` must.
* **User event hooks**: the one hard question, whether a user is announced at
  all, has a known negative answer (above).
* **Redis adapter** beyond clients and sessions: grant lists and their
  revocation, `consume`, user codes, expiry and the replacement of a connection.
  What a token may do is decided inside `oidc-provider`, which calls it.
* **Client operator**: the Job that refreshes the Secrets of consumers.
* **Activity tracker**: the gauges, and a deployment that turns tracking off.
* **Wipe detector**: a stop while the reconcilers restart.
* **User service**: Slack, admission of groups, the rights of impersonation, edits
  of a profile and of passkeys (which write back lists read before), the
  claims an account shows. Approval writes back a whole spec that it read.
* **Logins**: the cryptography of passkeys and one-time tokens; who has a link or
  an upstream identity is a person.
* **Pure rules** (identity integrity, claim mappings, usernames, the resource
  allowlist): functions of one argument on text, without state or interleaving,
  which unit tests cover.
* **Output** (notifications, text, metrics, audit log), the frontend, the charts
  and the examples: they keep no state that the others read.

A composition of `LeaderElection` with `ClientOperator` in one run is out of
TLC's reach at bounds where both do something; the latter allows any change of
leader instead.
