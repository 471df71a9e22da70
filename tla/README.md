# imcp2 in TLA+

TLA+ models of imcp2, the MCP server that lets an AI client act for a user of
Internet Identity (II), with TLC configurations that check them on small
instances and TLAPS proofs of what matters most for every instance. Every
definition is translated from the source under `src/`; `PROJECT.json` names the
lines each one stands for, the hazards each property is about, and for each
property a mutant of the code that breaks it.

## 1. The system

imcp2 is a Rust workspace of three crates.

* `src/src` is the hosted server. It is an OAuth authorization server towards MCP
  clients (`auth.rs`) and a relying party towards II.
* `src/crates/imcp2-core` holds what both binaries share: the II sessions and the
  per-app delegations (`identities.rs`), the tools and the gates in front of them
  (`tools.rs`, `discoverability.rs`, `compliance.rs`, `management.rs`), discovery
  and fetching (`discover.rs`, `public_fetch.rs`, `skills.rs`), Candid calls
  (`calls.rs`).
* `src/crates/imcp2-local` is a stdio server for one user, which signs in through
  a transient loopback listener (`login/`) and registers itself with the AI
  clients of the machine (`setup.rs`).

### Components, their state and their operations

| Component | State | Operations | Hard behaviour | What makes it correct |
|---|---|---|---|---|
| Client registration store (`auth.rs`) | `registrations` map, `dirty` and `writing` flags, `oauth-clients.json` and its `.tmp` | register, touch on authorize, persist task, load at start | handlers race with one detached writer; disk failures; kill at any point | no lost update, no torn file, eviction by least-recent use |
| OAuth connect (`auth.rs`) | pending connects, codes, tokens | authorize, connect/redeem, token, bearer lookup, reap | handlers interleave at every await and may be dropped there; lost answers of II; eviction at the caps | one registration per connect, one token per code, a grant behind every token |
| II session map (`identities.rs`) | session per connect: key S, key X, grant, access level | ensure, mint X, record grant and level, reap, make room | evicted and created again under a running handler | a live grant is never evicted, re-keyed or shortened |
| Client ID metadata documents (`auth.rs`, `public_fetch.rs`) | cache, single-flight map, host slots, permits | look up, join or lead a fetch, remember, retire | fetchers dropped half-way hand over to waiters; header arithmetic | one fetch per document, no leak, nothing reused past its freshness |
| Redirects and admission (`auth.rs`) | allow-list, registered redirects, cached verdicts | register, authorize, deliver, restart | the list and the documents change between check and use | a code goes to a pinned path of a client that asked |
| App delegations (`identities.rs`) | cache per session | look up, resolve the account, prepare, get with retries, store | stale replicas, changed defaults, replaced grants, recreated sessions | an identity is the one asked for and is outlived by nothing it depends on |
| Tool calls and gates (`tools.rs`, `discoverability.rs`, `compliance.rs`) | none of their own | the documents read, the binding, the interface, the send | what is judged is remote and changes between the reads | nothing is sent unchecked; a final refusal is a true one |
| Canister management, parse permits (`management.rs`, `calls.rs`) | permits, the canister's chunk store | lifecycle calls, single-shot or chunked install | lost wakeups, lost answers, concurrent installs | what is reported is what happened; every call ends |
| Discovery and reading (`discover.rs`, `tools.rs`, `calls.rs`) | findings of one crawl | open_app, find by name, render an interface, guard and encode, OQL | caps, order of answers, hand-written scanners over text the site wrote | the best is kept, what is shown is what was read |
| Local login (`imcp2-local/src/login`) | pending handshake, grant, slot, registration lock, listener, watchdog | begin, status, redeem, watchdog | late registrations cross newer handshakes; dropped redeems | the slot names the session II honours |
| Setup (`imcp2-local/src/setup.rs`) | config files of AI clients, a backup and a staging file beside each | add, remove, dry run | kill between two file operations, edits by others, failed writes | the backup predates setup, nothing of the user's is lost |
| Assembly, link and callback page, monitoring, deployment | wiring, gauges, pages, shell scripts | | | not modelled (section 6) |

How they interact: authorize validates its client against the registration store
or a metadata document and its redirect against the allow-list, creates a session
and a pending connect, and sends the browser to II. The callback page posts II's
delegation to redeem, which calls `mcp_register_v2` through the session map and
mints a code. The token endpoint turns the code into a bearer token, whose session
id every tool call resolves to a session. A tool call reads the app's documents,
is judged by the gates, derives a delegation in the session, reads the canister's
interface under a parse permit, and is sent. A reaper sweeps sessions and OAuth
state every minute. In the local binary the login flow takes the place of OAuth
and fills one session slot.

The composition follows the shared state. `Connect` extends `Sessions`; `CimdFlight`
takes the end and the lifetime of each fetch from `PublicFetch`; `Admission` takes
its matching rules from `Redirects`; `ToolCalls` runs over `Compliance`, which runs
over `AppDocuments`; `CanisterManagement` extends `CandidPool`; `Reading` joins the
reading tools, which share only pure rules. Where components are split, the
boundary is one where the code shares no mutable state: `ToolCalls` asks of
`AppDelegation` only whether there is an identity, and `Admission` leaves the bounds
of the store and the cache to `ClientStore` and `CimdFlight`.

## 2. Modules

| Module | What it is |
|---|---|
| `WriteBehind` | abstract: what a write-behind store promises |
| `ClientStore`, `ClientStoreProofs` | the registration store, one step per access to shared memory or disk; implements `WriteBehind` |
| `Sessions` | the session map: one operator per critical section of its lock |
| `OneShotCode` | abstract: what an authorization code promises |
| `Connect`, `ConnectProofs` | the OAuth connect over `Sessions`; implements `OneShotCode` |
| `PublicFetch` | pure: what an answer to a document fetch is taken for, and how long it may be reused |
| `CimdFlight`, `CimdFlightProofs` | the metadata documents: cache, single flight, bounds |
| `Redirects` | pure: URLs, the allow-list and its entries, loopback |
| `Admission` | registration, authorize and delivery of a code under changing lists and documents |
| `AppDelegation`, `AppDelegationProofs` | the per-app delegations of one session |
| `AppDocuments` | pure: what is concluded from the documents of an app's origin |
| `Compliance` | pure: the method rules and the checks on an interface |
| `ToolCalls`, `ToolCallsProofs` | the canister tools from the request to the answer |
| `CandidPool` | the parse permits: mutex, condvar, threads |
| `CanisterManagement`, `CanisterManagementProofs` | the lifecycle tools over `CandidPool` |
| `AppCrawl`, `OpenApp` | the crawl of a site and `open_app` over it |
| `CandidInterface` | pure: rendering a canister's interface within a budget |
| `CandidGuard` | pure: the scan of a Candid text before it is parsed, with a reference measure of depth |
| `OqlReplies`, `NameSearch` | pure: the OQL table and its repair; the search of the name registries |
| `Reading` | the reading tools as one specification |
| `Lists` | the lists of these modules, in a form a proof can open: the provers know neither the filters, the sorts nor the folds of the library |
| `RulesProofs` | proofs about `Admission` and `Reading` |
| `LocalLogin` | the sign-in of the local binary |
| `ClientSetup` | `imcp2-local setup` |
| `LocalBinaryProofs` | proofs about these two |
| `MC*` | the instances TLC checks: symmetry sets, constant functions, the documents, URLs and texts to choose from |

### How state and actions correspond to the code

**ClientStore.** A client is one `POST /oauth/register`. `handler[c]` is the
handler: `Stamp` is `ClientReg::new`, which reads the clock before the handler
waits for the lock, `Register` the insertion under the write lock (with
`make_room_for_client`), `MarkDirty` and `TakeWriterSlot` the two atomics of
`persist_soon`. `writer[c]` is the task that handler may have spawned:
`CheckDirty` (`dirty.swap(false)`), `Clone`, `BeginWrite`/`EndWrite` (`fs::write`
truncates and then fills), `Rename`, the failures, the sleep, and the release,
recheck and retake of the slot. `Restart` is a kill at any point and
`load_clients_from`. `Touch` is the redirect check that marks a client used.
Contents are sets of clients with their stamps; JSON is left out. `last_seen`
remembers when a client really was inserted or used, which its stamp may predate.

**Sessions and Connect.** `Sessions` keeps the map, a clock, and two histories: how
many keys were generated for an id, and the balance of the session log. `Connect`
has one process per authorize, redeem and token request; every action ends where
the code gives up a lock or awaits, and `DropRedeem`, `DropAuthorize` and
`DropExchange` drop a handler there, as hyper does when the client goes away. A token
is issued in three steps, as `issue_token` waits twice: `ReadClock`, `ReadGrant`, and
`InsertToken`, which stamps it with the clock of then; `lag` remembers the time between. The
answer of `mcp_register_v2` can be lost after II executed it (`Register` then
`RegisterFailed`). `registered` is II's own state: which keys it honours. A code
and a token bear their connect's session id, because each connect has at most one.

**CimdFlight and PublicFetch.** One process per authorize request that needs a
document. A flight is an `Arc`'d mutex and bears the name of the request that made
it; `Handles(f)` is its reference count without the map's own. The locals of a
dropped or returning request go in the order Rust drops them, one step each where
another request could see the difference: permit, host slot, flight lock,
`FlightGuard`, handle. What the origin answered is a record of the headers that
matter (`Cache-Control`, `Vary`, `Age`, `Date`, `Expires`) and how old the answer
really is; the operators follow the freshness arithmetic line by line.

**Redirects and Admission.** Hosts and paths are sequences of tokens with "." and
"/" among them, so that a match on text may split a label or a segment. `Admission`
keeps the registrations, the verdicts remembered for documents, the sign-ins under
way and the process's environment; `Publish` changes a document, `Restart` brings
another allow-list while the registrations survive.

**AppDelegation.** A task is one tool call's `delegated_identity`: the cache lookup,
the account name resolved first, `mcp_prepare_delegation`, `mcp_get_delegation` with
its retries, and the store, with no lock held over an await. Between any two of
them the session may be evicted and created again, the grant may be replaced, the
default account may change, and time passes.

**AppDocuments, Compliance and ToolCalls.** A page is what an origin serves at one
path; an answer adds who gave it (a redirect) and whether an IC gateway did. Each
read of a document or of an interface is an action, and between any two of them
the operator may republish a page (`Republish`) or upgrade the canister
(`Upgrade`). `seen` is the history of the worlds there were while a call ran, `sent`
the messages that left. The tables of `compliance.rs` and the registry of derivation
origins are constants; a scope of the gate is one lookup (`StandardMethod`,
`FinanceCanister`, ...).

**CandidPool and CanisterManagement.** A parse is a thread of its own that takes a
permit under a mutex, sleeps on a condvar when there is none, and gives the permit
back however it ends. A lifecycle tool refuses, parses, derives the management
identity and makes its calls one after another; a call may be rejected, run with
its answer lost, or run late. The canister's chunk store is shared by all callers.

**OpenApp, AppCrawl and the other readers.** The crawl is an action per document:
the two manifests in either order, the page, `/env.json`, the scripts. Findings
go into one bounded table of sources, which is sorted, cut and annotated. `open_app`
resolves a query while the crawl runs as a task of its own and aborts it when it
refuses. The remaining tools are one step: a request and everything it can be
answered from are chosen, and the answer is computed by the pure module of that
tool. `CandidGuard` follows the byte scan of `guard_candid_text` and `skip_trivia`
token by token; `Measured` says with a definition of its own, on the text's
structure, how deep it nests.

**LocalLogin.** `pending`, `grant`, `slot`, the registration lock, the listeners and
the watchdogs are the driver's own; `sent` and `honoured` are II. Time is reduced to
two facts about a session: its handshake window has closed (`late`), its grant has
ended (`lapsed`). Both come at any time after the session exists, which is more
than real clocks allow.

**ClientSetup.** A run visits the clients in the fixed order; for each config file it
reads, merges, copies the backup under another name and renames it, stages, carries
the permissions over and renames. Each file operation is a step that may fail, after
which the run may be killed and others may edit the file. A config is whether it
parses, whether the servers are a table, our entry, and the rest.

## 3. Runs

| Run | What it checks | Result |
|---|---|---|
| `client_store` | No update of the registrations is lost between handlers, writer, a failing disk and a kill (`CleanIsSaved`); a client is evicted only after a store's worth of others was registered or used no earlier than its last use (`FloodNeedsCapacity`); the disk moves from one whole snapshot to a later one (`ImplementsWriteBehind`) | hold |
| `client_store_live` | Every registration reaches the disk, unless it is evicted, the process is killed or the last write failed (`EventuallySaved`) | holds |
| `connect` | `SingleFlight`, a session with a grant behind every token until the grant's end (`TokenBacked`), `LiveGrantKept`, `StrandedOnlyAtCap`, the session log paired whatever is evicted or refused (`JournalPaired`), one-shot codes (`ImplementsOneShotCode`), and a claimed connect settles (`ClaimSettles`), with handlers interleaved and dropped at every await | hold |
| `connect_recreated_key` | Is a recorded grant on a registered key (`GrantedKeyRegistered`)? | no: a session evicted in flight gets a new key |
| `cimd_flight` | One fetch per document (`SingleFlight`), nothing reused past the freshness its headers give and no flight joined after its end (`FreshAnswers`), slots, permits and map entries given back (`GivenBack`), no waiter stranded (`WaiterHasServer`) | hold |
| `local_login` | `SlotHonoured`, one redeem per sign-in (`SingleFlight`), no way back to a replaced session (`FreshSession`), every sign-in ends (`PendingEnds`) | hold |
| `tool_calls` | `SentAsDeclared`, `SignedAsApp`, `JudgedBeforeSent`, and final refusals are true ones (`EarnedVerdict`) while pages and interfaces change under the call | hold |
| `delegations` | `HandedAsAsked`, `NotFoundOnlyByLag`, `CallsEnd` | hold |
| `management` | `NoLostWakeup`, `AsReported`, `FailsOnlyByRival`, `OpsEnd` | hold |
| `admission` | `PinnedDelivery`, `OwnRedirect` | hold |
| `setup` | The backup predates setup (`BackupPredates`), the exit code is true (`ExitTells`), nothing of the user's is lost (`NothingLost`) | hold |
| `reading` | A crawl marks what the gate authorizes (`DeclaredAsGate`) and keeps the best it found (`BestKept`), `open_app` opens what was asked for (`OpenedAsAsked`), what the other tools answer agrees with what they read, with the exceptions each part names (`ReadAnswer`: the interface rendered, `InterfaceAnswer`; a query's table and a search by name, `QueryAnswer`; the repair of a query, `RepairAnswer`), and no text over the limits is parsed (`GuardAnswer`) | hold |

The violation is listed as a finding in `PROJECT.json`, with the comment in the
code that says otherwise.

### Bounds, and why they are enough

* `client_store`: three clients on a store of two. Eviction then has a choice (two
  old clients, one of them used later), a handler can race with a running task
  while a third holds the flag, and a task's successor is a different task. One
  restart and two clock values are enough for a kill at every step, for any order of
  two stamps, and for a registration that is stamped early and inserted late, after
  the other two.
* `connect`: two connects in maps of one, so that each can evict the other at any
  point; two redeem requests, so that one connect can be submitted twice or two at
  once; one exchange, two of which could only compete for a code that `TakeCode`
  removes in one step. The lifetimes (connect 2, code 1, token 3, grant 2, pending
  session 3, clock to 3) keep the order of the real ones: a pending session
  outlives its connect, and the default token outlives a grant.
  Within the clock a token request can read a grant, wait past its end and insert its
  token after the reaper came by. `connect_recreated_key` needs no drops and one
  clock step.
* `cimd_flight`: three requests are a fetcher, a waiter and a newcomer. Three
  documents on two hosts, with one slot, one permit and one cache entry, make every
  bound refuse something. About sixty answers combine the headers pairwise; all
  three lifetimes are one, since only their order with the clock (to 1) matters.
* `local_login`: two handshakes and three redeem requests: a double submit and a
  redeem of the other handshake.
* `tool_calls`: one call, because calls share nothing but the world they read; three
  origins (an app, the hub it derives against, a gateway spelling of the hub), eleven
  sites one difference apart, seventeen requests that reach every tool and refusal,
  four interfaces, and one change of the world at any moment of the call, which
  puts it between any two reads.
* `delegations`: two tasks of one session, two origins, two accounts of which one
  name means both, a cache of one, two attempts. A time to live of two with a margin
  of one has a usable, a marginal and a dead delegation; the grant ends at two;
  one change by the user and one recreated session.
* `management`: three threads, one permit. The modules share a first chunk, so that
  two installs can take chunks from each other; one is small enough to be
  installed in a single message.
* `admission`: one client and one identifier per way of asking; some twenty URLs, each
  one difference from a pinned callback; two environments and the default one.
* `setup`: Codex, the one client with a format and a CLI of its own, and Cursor, which
  stands for the JSON clients; two runs, one edit by others.
* `reading`: six spellings of three canisters, documents that overlap in them, and room
  for three; interfaces over every graph of three types; texts to a nesting of two
  past which the guard must refuse; rows and registry entries that differ by one
  column, one word; schemas of up to three entities, which differ by one letter, with
  a cap of two, so that a name can be listed past the cap.
* `MaxTime`, `MaxRestarts`, `MaxNow`, `MaxKeys`, `MaxActs`, `MaxChanges`, `MaxRuns`,
  `MaxEdits` and the sets marked "bound" in the modules are the only bounds the code
  does not have; they guard the actions of the environment.

`CHECK_DEADLOCK FALSE` is set where a finite supply of requests comes to an end
(`client_store`, `connect`, `cimd_flight`, `local_login`, `setup`, `reading`). In
`tool_calls`, `delegations` and `management` a state where everybody is done loops
explicitly and deadlock is checked, as it is in `admission`. Symmetry is declared
for safety runs only, over sets whose members no definition distinguishes.

### Fairness

`client_store_live` assumes weak fairness of each handler after its insertion
(there is no await left in it) and of each task (a spawned task whose timer or
blocking write is done is polled). `connect` assumes it of each redeem handler:
locks are released and the agent's call returns an answer or an error; a connect
whose handler was dropped is excused. `local_login` assumes that time passes and
that a watchdog is polled after its sleep; nothing of browsers, handlers or II.
`delegations` and `management` assume that a task is polled, that a thread in its
section is scheduled, and that the agent gives up on a call that is not answered;
that a parked thread wakes without a notification is possible and never assumed.
No registration, request or failure is ever assumed to happen.

### What the runs do not refute, and a reader should know

These were met while modelling. The properties are stated so that they hold, with
the exception named where it is stated.

* Client store. A registration is stamped before it waits for the lock (`auth.rs:243`),
  so the newest entry of the map may bear the oldest stamp, and the client it displaces
  may have been used later than that. `FloodNeedsCapacity` therefore counts
  a store's worth of others by when they came in, and all of them but one by their
  stamps.
* Connect. A handler dropped between claiming a connect and settling it leaves
  `redeeming` set until the connect expires (`auth.rs:2615`). A token may outlive its
  grant by its handler's wait for locks (`auth.rs:2891`), and by then its session may
  be gone, where the comment on `token_ttl` promises that it ends exactly when the
  grant does; `TokenBacked` says what is there until the grant's end. Sessions and pending
  connects are evicted separately and so need not pair up. `StrandedOnlyAtCap` relies
  on a pending session outliving its connect and on a grant of at least a connect's
  length.
* Metadata documents. Two requests dropped together can leave their flight's entry in
  the map (`auth.rs:1248`); `GivenBack` admits just that. An `Expires` that cannot be decoded counts as no
  freshness information at all, where the documentation calls an invalid one stale.
  `FreshAnswers` assumes headers that do not understate the answer's age.
* Delegations. A comment on the margin (`identities.rs:87`) holds for identities taken
  from the cache, not for fresh ones. One derived before its session was evicted can
  be stored in the session created again under the same id; `HandedAsAsked`
  says what remains true of it.
* Local login. When II's answer to a registration is lost, the slot may name a session
  II no longer honours, until the next sign-in.
* Tool calls. A list of alternative origins that could not be fetched is reported like
  one that does not vouch, with "Retrying will not change it". A gateway host in
  upper case is not remapped before it is put in lower case, and is refused as
  another host. A 404 or 410 of a redirect target reads as "publishes no manifest".
  A redirect on a non-default port is answered "not on the allow-list"
  (`auth.rs:721`).
* Management. Concurrent chunked installs of one canister share its chunk store, and
  one may empty it under the other; it fails and says so.
* Setup. When the first run creates a file and a second run edits it, the backup is
  of setup's own file, where the comment at `setup.rs:447` promises the original.
  Removing our entry from an inline TOML table reports "nothing to remove", and
  from a blank JSON file fails.
* Reading. `/env.json` can bring findings over their cap, which the comment at
  `discover.rs` 2105 rules out. An id
  spelled in upper case in a manifest is a listed entry of its own. A registry read
  that failed, or with one entry that lacks an id, reads as "no named canisters
  found"; the search stops at its 25th match without saying so. An entity past the
  fortieth of an OQL schema is called "not a queryable entity"
  (`tools.rs:1760`); `HonestRepair` speaks of the entities up to the cap. Of a
  table's rows, unnamed cells, cells of a name that the first row lacks and later cells of
  a name are left out without a word, which `LeftOut` names in `FaithfulTable`; only the
  first value a query returns is read. In
  `guard_candid_text` an `opt` or `vec` before a function type is resolved at the end
  of its argument list, so the levels of its results are counted without the
  prefix, against the comment "without under-counting"; `Measured` names the
  exception, and the thread with a deep stack is the second line.

## 4. Proofs

The theorems hold for every value of the constants that the `ASSUME`s admit; TLC
evaluates the assumptions on the instances.

**ClientStoreProofs.** `Slot` (types; no task before its handler spawned it; one
holder, and `writing` says so) is inductive. On it rest `DirtyIsNoticed` and
`Staging`: between a write's end and its rename the staging file is whole and is
the task's snapshot, a clear `dirty` flag means that the snapshot carried is
current, and if nothing is carried the file is. `FileNeverTorn` and `CleanIsSaved`
follow from it. `AllSmall` bounds memory, snapshots and files at once, which
`SizeBounded` needs because a restart loads what a task once cloned. `FreshId` says
that an id is nowhere before it is registered. With these, every step of
`ClientStore` is a step of `WriteBehind` or a stutter, and the theorem
`WriteBehindImplemented` is `Spec => ImplementsWriteBehind`. `Stamped` (no stamp, in
memory, a snapshot or a file, is ahead of the clock) and `Counted` (only finitely many
clients are known, and the map holds none else) carry `FloodNeedsCapacity`, and say besides that
the stamp of a client in the map is no later than when it was last seen. At an eviction
the map is full of clients with stamps at least as late, and the one room is made for
is seen now. Those who outran an evicted client stay as many, because their stamps
only grow until a restart, and after a restart nobody it evicted is known any more.

**ConnectProofs.** `SingleFlight` is not inductive: an attempt may go on after its
connect was evicted. `Flight` adds that a claimed connect that is still there says
so, that a minted connect is remembered as such, and that no attempt is left on one.
`Once` adds that an attempt before `set_grant_expiration` has a session without a
grant, from which `LiveGrantKept` follows: nothing overwrites, shortens or evicts a
live grant. `Backing` adds that the access level is recorded before the code is
minted, and that a grant read by a token request stands, with its level, until it ends
(`ReadBacked`); `ClockRead`, kept with the types, says that the time it read has come.
With it, `TokenBacked`: what a token's lifetime adds to the clock of its insertion
is the end of the grant plus the wait, and neither the reaper nor eviction takes a
session before its grant has ended.

Three more invariants carry the rest. `Books` keeps the session map within its cap,
from which it follows that an `ensure_session` that refuses had nothing to close
(`RefusedClosesNothing`): the list of closed sessions that its error drops is empty,
and `JournalPaired` holds. It also says that a grant on its way from II has not
ended when it is recorded, which is the one use of the guard on the clock.
`Lasting` says that a session is no older than its connect, and that a grant
outlives the connect it was asked for in; hence `prune_stale` takes no session whose
connect can still be redeemed, and `StrandedOnlyAtCap` follows. `OneShot` says that a
code is reserved by one redeem request, or stored, or taken by one exchange, and
that nobody mints before II bound the key. Every step then leaves the code of each
connect alone or moves it as `OneShotCode` allows (`CodeMoves`), and the theorem
`ConnectIsOneShotCode` is `Spec => ImplementsOneShotCode`.

**LocalBinaryProofs.** Of the sign-in: a session id is minted once, so a sign-in that
has left `pending` cannot come back. `Flight` (a handshake a request names was minted;
while an attempt goes on its handshake, if still pending, is claimed) is inductive and
carries `SingleFlight`; the mark alone would not do, because a handshake may expire
under its attempt. `Settled` says that a committed session is neither pending nor
being registered, from which `FreshSession` follows. `Ordered` says that whoever is
past the registration lock holds it and that, while no answer was lost, the slot lags what II
honours only by the answer its holder is about to commit; it gives `SlotHonoured`.
`ListenerIsPending` is inductive by itself, and `WindowKept` needs only the types.

Of the setup: a run exits only when everyone was visited (`Visited`). `BackedUp`
follows a config file and its backup: no file is cut short, what it says is
remembered until setup writes it, and a backup is whole, says what the file said,
and is there once setup has changed the file. `Ahead` is about the client under way:
the text to write is the edit of the text read, a copy about to become the backup is
whole, the staged text is that text, and it has the file's permissions before the
rename. With them, `BackupPredates` and `NothingLost`. `ToldTrue` is `ExitTells`
before the end, for the clients the run has passed: while no failure is counted and
nobody edited the file, it says what the report will.

**CanisterManagementProofs.** `NoLostWakeup` is inductive together with the types: a
permit given back moves to the count of those who have not told yet, and telling moves
it to the count of those woken. `Told` relates the place of a tool call, the answer it
holds and whether its last call ran; from it `AsReported`. `Uploads` says that the
hashes collected are the first chunks of the module, which the store holds unless
another call emptied it since this one did, and that the same goes for an upload just
answered. Hence the list is the whole module when it is installed, and
`FailsOnlyByRival` follows.

**AppDelegationProofs.** `Carries` relates what a call holds to what it asked for and
to what II prepared: an account under a name is one of that name's, what is looked up
is what was prepared for this call, and no lookup misses what is there. `Granted`
bounds the life of all that II prepared by its time to live and the grant. With the
types they carry `CachedAsIssued` (an entry of the cache was issued for the slot it
is under) and `HandedAsAsked`: an entry reaches a call only under the slot the call
asked for. That the cache is
bounded is part of the types, and comes from the room made before each store.

**CimdFlightProofs.** First the arithmetic of `PublicFetch`. A finite non-empty set of
integers has a greatest and a least element, because the strict subsets of a finite
set are well founded; so every header rule that takes the strictest directive or the
oldest age is defined. From it `RememberedWhileReusable`: the time a document is
remembered is within the lifetime its headers grant, less the age they admit.

Of the requests, `Flights` is the heart. A flight is retired when its outcome is
published or its holder is about to publish one; whoever waits in a flight that is
not retired, or holds its lock, is in the flight of the map. Two fetchers of one
document therefore hold one lock (`SingleFlight`), and nobody joins a flight that is
out (the first half of `FreshAnswers`). `Lifetimes` takes `RememberedWhileReusable`
through the fetch into the cache, for the second half. `Leaving` says that an entry of
the map has a request that will still look at the count of handles, unless two
dropped ones have looked at it while the other's handle was there; with the counts of
slots and permits it gives `GivenBack`.

**ToolCallsProofs.** What a call concludes rests on answers it read one after
another while the world changed. `Came` says that each answer it holds was lost or
is what the origin it asked answered in a world the call has seen; worlds are only
added to what a running call has seen, so a conclusion that is true of one of them
stays true. `Passed` and `Encoded` say, of a call past its gates, what the answers
and the interface it holds allow, and `Explained` says the same of each message sent
and of the call that sent it; `SentAsDeclared`, `JudgedBeforeSent` and `SignedAsApp`
follow. `EarnedVerdict` is a second layer on top: a verdict is given on answers in
hand. The lemmas about `AppDocuments` (what a declaration, an origin line, a list of
alternative origins is taken for when it is missing, cut off or withheld) carry each
conclusion over to the worlds.

**RulesProofs: redirects.** The code matches hosts and paths as text; `PinnedDelivery`
speaks of their labels and segments. The two meet in `Joined`: a separator in a
sequence parts the pieces before it from those after it. It is an induction over the
length of what follows, done with a least counterexample (`Climb`) because the
library's induction cannot be instantiated. From it, a host that ends with a domain
at a dot has the domain's labels last (`UnderByLabel`), and a path that the rule lets
pass continues the pinned one by whole segments (`WithinBySegment`). An entry made of
the environment pins a path without percent-encoding whenever it matches one, and so
counts among `InForce` (`AllowedInForce`). Of the states: `Vetted`, the redirect of
a connect under way is permitted by the allow-list in force, which changes only with
a restart that forgets the connect; and `Kept`, a remembered verdict grants only
redirects of the document's own origin or on the loopback host. With the types and
`OwnRedirect` they are inductive.

**RulesProofs: listings.** `Faithful` relates the crawl's bounded table to the
mentions made so far: an id that has a row has the label and the authority of its
best mention, and one that has none found the table full of ids at least as
authoritative. A mention keeps that only because documents are read in the order of
their authority, so `CrawlInv` remembers, of each place the crawl is at, that
nothing of less authority was mentioned before (`Settled`). `BestKept`
follows from the table and the order it is sorted in; `DeclaredAsGate` from the two
parses of one manifest, which drop blanks and count in different orders.
`OpenInv` adds, of `open_app`, where its app comes from and that a reply is there
only when its parts are.

**RulesProofs: readers.** `ReadInv` is `OpenInv`, the type of a query under
way and the answers' properties themselves: an answer is given in one step from what
was asked, so the work is in the lemmas about the rules, each for any input. The
code's loops are functions defined step by step: `StepByStep` says once
that such a function exists and obeys its recurrence, and each lemma then climbs it
with `Climb`.

* `ChaseIs`: the chase makes as many rounds as there are definitions. A round that
  adds no type is the last that could, so there are never more rounds with news than
  types, and the end is the least closed set, cycles or not.
* `BudgetIs`: a name is listed or counted, and the sizes listed keep the budget.
* `TableIs`: the columns are the first row's names without repetition (`DistinctIs`),
  and a cell is under the name it bears (`AlignIs`), or is one that `LeftOut` names; it
  carries `TableKeepsItsCells`.
* `CutIsPast`: a list without repetitions keeps the order in which names came first, so
  what the cap cuts off has a cap's worth of other names before it; it carries
  `RepairIsHonest` over to the schema itself.
* `LevenshteinIs`: the row-by-row distance of the code is the cost of the cheapest
  way to match letters of one name in order with letters of the other. A matching
  that uses both last letters has them as a pair, which is what the three cases of
  the recurrence stand for. With `ClosestIs`, nothing that is near enough
  is left out and nothing nearer is passed over but for a plural.

What is model-checked and not proved:

* liveness (`EventuallySaved`, `ClaimSettles`, `PendingEnds`, `CallsEnd`, `OpsEnd`),
  which is out of the prover's reach together with `ENABLED`;
* `GuardAnswer`, the guard's scan against the depth of the text. The texts are
  generated level by level, and a proof would be an induction over them, of a
  scanner that carries its stack from one level into the next.

## 5. Assumptions

* The clock does not go backwards. The stamps of clients and the grants are compared
  with the wall clock, connects, codes and tokens with the monotonic one; the models
  have one clock for both.
* A pending session outlives its connect, as the constants of `auth.rs` and
  `identities.rs` say, and II grants no session shorter than a connect (ten minutes
  each, `auth.rs:142`, `auth.rs:2867`; `ConnectAssumption`).
* An origin put in its standard form stays as it is (`target_origin`;
  `DocumentsAssumption`), and no document, origin or verdict is mistaken for the sign
  of there being none (`AnswersAssumption`, `VerdictsAssumption`).
* A URL and an entry of the allow-list have a path (`AdmissionAssumption`), and
  documents list redirects among those that are asked for (`PublishedAssumption`).
* The cases of the reading tools are told apart: the sign of no reply, row, query,
  verdict or name is none of these (`CrawlAssumption`, `OpenAssumption`,
  `OqlAssumption`), and the apps that are known are registered ones.
* A published interface that is readable was checked by the parser and declares the
  types it names; requests, names, replies and schemas are lists
  (`ReadingAssumption`, `IsInterface`, `IsReply`).
* The sources read before the bundle have room for their names in the findings, and
  findings hold more than two manifests (`CrawlAssumption`; the code's caps are far
  apart).
* What is not a configuration, or not an entry, is not mistaken for one
  (`TextAssumption`), and others leave whole files (`GivenAssumption`).
* What origins send (`FetchAssumption`): finitely many directives and ages, lifetimes
  short of `Duration::MAX`, and no answer older than its headers admit.
* A registration names an anchor's session at II; II accepts one key per session,
  resolves "the default account" when it prepares a delegation, caps its life by the
  grant, and may answer a lookup from a replica that lags.
* The management canister's methods do what the tools' descriptions say of them.

## 6. What is not modelled

* Parsing and encoding of bytes: URLs, JSON, CBOR, delegation chains, signatures,
  and Candid beyond the scan, the types used and the tables made of a reply.
* The vetting of addresses behind a host, DNS and TLS; a refused exchange is one that
  is lost.
* A query of `open_app` longer than `MAX_QUERY_BYTES`, which is no app's name.
* The wording of answers, pages, logs, metrics, gauges and activity stamps.
* `cimd_enabled = false`, which turns identifiers that are URLs away.
* The skills catalogue and the resources and guides served with the tools, the
  lookup of one canister at the dashboard, and the tools of the protocol, which the
  router of this version does not serve.
* II and the management canister, except as the outcomes of a call; the agent's retry
  budget.
* The callback page and the link to II, server assembly, monitoring and deployment:
  encoding, wiring and scripts around the program.
