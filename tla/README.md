# Formal verification of hd-wallet-wasm

TLA+ specifications of hd-wallet-wasm where several parties act in an order
nobody chose, where a step can fail between two others, or where what was read
has grown stale: the relayed sign-in, the pages of the wallet, the memory the
WASM bindings use, and the tools that build and verify a release. The modules
are model-checked with TLC on small instances; the relay, its client, the
protocol between them, the wallet origin and the native state below it are
proved with TLAPS for every value of their constants. `PROJECT.json` lists, for every
definition that models code, the source lines it stands for; the hazards each
property is aimed at; and, for each property, a fault in the code that breaks
it.

## 1. The system

### 1.1 Components and how they interact

```
   site page                      relay (Node)                 wallet origin
  relay-client.mjs --POST tx--->  server.ts --> store.ts  <--GET tx-- controller.mjs
        |   ^                          ^                              |  app.mjs, account.mjs
        |   |  redeem, cancel ---------+------------ POST result -----+  consent-memory.mjs
        |   |                                                         |  remember-wallet.mjs
        |   +-- storage event -- callback.mjs <---- navigation -------+  wallet-storage.js
        +-- window.open ----------------------------------------------->      |
                                                                              v
   legacy page                                              wasm/src: index.mjs, aligned.mjs,
  src/app.js: handlers, wallet list, trust map -- calls -->  sdn-typed.mjs -- calls --> C++ library
        |  ^
        v  |  publish, scan                          scripts/: build, pack, collect, verify,
   public chains (blockchain-trust.js)                         record a release
```

| component | state | operations | what is hard |
|---|---|---|---|
| relay store (`wallet-ui/relay/src/store.ts`) | one SQLite table of transactions | create, get, complete, redeem, cancel, expire, restart | ids that come back after they were pruned; a wall clock that steps; a full table |
| relay server (`server.ts`) | suspended handlers, expiry timers, rate-limit buckets | one handler per route, timers, shutdown, crash | rows read before an `await` and used after it; timers lost with the process |
| wallet client (`wallet-ui/client/relay-client.mjs`) | the pending operation, retired ones, the connection, timers | execute, disconnect, destroy, getSnapshot, subscribe | listeners that call back in the middle of a call; late answers; retries; cleanup of what was replaced |
| callback page (`callback.mjs`) | one record in localStorage | store the code | several readers of one record |
| wallet-origin controller (`origin-app/controller.mjs`) | generation, native handles, credential bytes, the publish permit | the three unlocks with setup and restore, prepare, execute, publish, logout, revoke, destroy | unlocks that overtake each other; native destruction that throws; a page hidden while its result is on the way |
| wallet-origin page (`origin-app/app.mjs`, `account.mjs`) | the open prompt, the account surface and its handles, the quarantine rows | start, copy, compare, forget, delete, return, logout, stop, lifecycle events | a page that closes at any await; handles that arrive afterwards |
| consent memory (`origin-app/consent-memory.mjs`) | grants in localStorage | take, grant, clear | failing writes, clocks set back, several tabs |
| remembered wallet (`src/wallet-storage.js`, `origin-app/remember-wallet.mjs`) | an active and a pending slot in localStorage | setup, restore, forget, delete quarantined item | crashes between two writes; two tabs |
| legacy page (`wallet-ui/src/app.js`) | one state object, its elements, localStorage | login, logout, more than fifty asynchronous handlers | a handler that finds its answer in another login |
| wallet list (`app.js`) | wallets, accounts, balances, their stored copies | create, rename, put aside, select, scan, save, load | a scan that merges what it read long ago; two tabs that write the whole list |
| trust map (`blockchain-trust.js`, `trust-ui.js`, `app.js`) | records read from chains and files | publish, revoke, scan, export, import | three forms of one transaction's hash |
| bindings (`wasm/src/index.mjs`, `aligned.mjs`, `input-validation.mjs`) | buffers in the WASM heap, the realm's instance, native keys | every wrapper, init, wipe, collection | a failure at any step between an allocation and its release |
| native identities (`wasm/src/sdn-typed.mjs`) | sixteen native slots, handles, the queue of rolled-back ones | derive, import, transfer, use, destroy | password derivations that interleave; destruction that throws |
| release provenance (`collect-provenance-inputs.mjs`, `verify-provenance-evidence.mjs`) | the pieces of evidence read so far | collect, build, normalize | files of several attempts and runs; keys that rotate |
| release record (`write-release-record.mjs`, `verify-release.mjs`, `verify-workflow-artifact-attestation.mjs`) | the record, what was kept of the files | write, verify, authenticate | a directory that changes between two reads |
| release builds (the staging, packing and verifying scripts) | files at their final places and private directories | build, stage, publish, verify | kills between two writes, reruns, two installs at once |
| C++ library, hardware wallets, wire formats, schemas | | | not modelled, section 7 |

What makes each of them correct:

* relay: a result is given out at most once, to the site that registered, with
  the right verifier, in time; secrets leave the table although nobody calls;
  the relay as a whole is a *one-shot exchange*;
* client: each promise is settled once, each registration is withdrawn, nothing
  waits for ever, an ended connection never comes back, and what it concludes
  from an answer is true of the relay;
* wallet origin: no native handle is lost, used after its destruction, or left
  when a result leaves the page; a closed page holds and asks for nothing; a
  field is opened unattended only within a grant and its count; only what
  native code has opened becomes the remembered wallet, and it is not lost to a
  crash;
* legacy page: nothing of a login reaches the next one; there is always a
  wallet to sign with; a scan loses nothing; the map shows what was published
  and revoked;
* bindings: every buffer and every native value is given back once, whatever
  fails, and wiped when it held a secret, but for the ten places where the code
  wipes nothing (section 6);
* release: whatever is accepted is of one build, vouched for by who was
  entitled to at the time, and whole.

### 1.2 Modules

| module | models | composed with |
|---|---|---|
| `RelayStore` | the table, every method one action | |
| `OneShotExchange` | abstract: what the relay promises | |
| `RelayStoreRefinement` | the refinement mapping from the table to the exchange | `RelayStore`, `OneShotExchange` |
| `RelayServer` | handlers, timers, lifecycle | extends `RelayStore` |
| `RateLimiter` | the fixed-window limiter | |
| `RelayClient` | `InternalWalletClient`, its timers, its listeners | |
| `WalletProtocol` | client, relay, wallet page, callback page and network | extends `RelayClient`, instantiates `OneShotExchange` |
| `OriginController` | the wallet page's controller | |
| `OriginPage` | the page around the controller: prompts, account surface, quarantine manager | |
| `ConsentMemory` | the grants and the page that uses them | |
| `RememberedStorage` | the two slots | |
| `LegacyPage`, `LegacyHandlers` | what runs handlers over logins; the handlers | `LegacyHandlers` extends `LegacyPage` |
| `WalletList` | wallets and accounts of the legacy page | |
| `TrustMap` | trust records, scans, the map, its files | |
| `WasmCalls`, `WasmBindings`, `WasmCapabilities` | what runs one wrapper; the wrappers | each extends the one before |
| `WasmInstances` | the realm's instance and the life of a key | |
| `SdnIdentity` | the native slots and their handles | |
| `ReleaseWorld` | builds, tarballs and policies | extended by the next two |
| `ReleaseEvidence`, `ReleaseRecord` | the evidence; the record | |
| `MerkleProof` | the walk of an inclusion proof against RFC 6962 | |
| `ReleaseBuild` | the scripts that make and check files | |
| `RelayProofs` | theorems about the table and its refinement, the server and the limiter | |
| `RelayClientProofs`, `WalletProtocolProofs` | theorems about the client; about the protocol | the second extends the first |
| `OriginProofs` | theorems about `OriginController`, `RememberedStorage` and `ConsentMemory` | |
| `PageProofs` | theorems about `OriginPage` and `LegacyPage` with its handlers | |
| `LegacyStateProofs` | theorems about `WalletList` and `TrustMap` | |
| `NativeProofs` | theorems about `SdnIdentity`, `WasmInstances` and the wrappers of `WasmCapabilities` | |
| `ReleaseProofs` | theorems about `ReleaseEvidence`, `ReleaseRecord` and `ReleaseBuild` | |
| `MC...` | constants, symmetry, and the modules of a run side by side | |

`MCRelay`, `MCRelayGate`, `MCOrigin`, `MCPage` and `MCRelease` check several
modules in one run. Those have no variable in common and no property of one
reads another, so a variable chosen at the start says which of them a behaviour
is of and the rest stand still: the run explores the union of their state
spaces, not the product.

## 2. How the modules correspond to the code

**RelayStore.** `rows` is the table, `serial` the CSPRNG: a fresh value is one
that was never drawn. Every method is one SQLite IMMEDIATE transaction and so
one action, its sweep of expired rows included. Every method is handed the wall
clock by its caller, so `now` is any instant at every call. The columns the
registry fixes are one `binding`; texts are members of small sets. The history
variables `registered`, `minted` and `released` are read by no action.

**OneShotExchange** forgets rows, clocks and codes: a ticket is opened once,
filled at most once, and its value is taken once or dropped.
`RelayStoreRefinement` takes the result token of a registration for the ticket.

**RelayServer.** A handler is split at its `await` of the body: `Arrive...`
holds what the code has read by then (the path and, for a POST result, the row
it looked at), `Finish...` does the rest, `Reject` is every refusal. What the
body says is chosen in `Finish...`: it may carry a token that was drawn while it
was awaited. `drawn` is history: which tokens there were when the request came.
`uptime` is the monotonic clock and `wall` the other one; `scheduleExpiry` is a
set of timers. `Stop`, `Closed`, `Crash` and `Start` are the lifecycle of the
process.

**RateLimiter.** `take` is five actions, one per path. `through` (how many
requests of a key were let through up to each reading of the clock) and
`refused` record what callers were told.

**RelayClient.** An operation is a record with the fields of `pending` that
decide anything. Each stretch of code between two awaits is an action. A
publish runs the listeners, and a listener may call the client: the code behind
a publish is kept in `frame` and runs when the listeners have returned, so the
actions that may occur meanwhile are the calls a listener may make. Requests
handed to `fetch` go to `outbox`; answers are nondeterministic here and come
from the relay in `WalletProtocol`.

**WalletProtocol** adds the relay as the one-shot exchange its table is shown
to implement, the HTTP statuses of `server.ts`, the wallet page and the
callback page. Requests and answers are sets: they are delayed, overtaken and,
when nobody waits any more, lost.

**OriginController.** `owned` is `#ownedHandles`, `handle` the installed one,
`live` what native memory really holds, `secrets` the credential bytes of the
unlocks, `typed` what stands in the credential form. An unlock may go on to a
setup of the remembered wallet, which asks the authenticator and checks what it
sealed with a second handle, or be a restore. Every await of unlock, setup,
restore, prepare, execute and publication is a place where any other action may
occur. `destroySdnIdentity` may throw.

**OriginPage.** `start()`, a copy of the approval configuration and a comparison
with a legacy account are coroutines; between two of their awaits any button may
be pressed and the page may hide, freeze, be restored or be stopped. A confirmed
deletion of a quarantined item reads its slot and then removes it, and other
tabs may write in between. The account surface derives identities of its own:
`liveHandles` is what native memory holds, the surface's sets are what it will
destroy. The controller's calls are answers that arrive, well or badly, some
time later; the controller itself is `OriginController`.

**ConsentMemory.** `take` and `grant` are a read and a write of the storage;
`page` is the wallet page that calls them. A write may fail, the clock may be
set back.

**RememberedStorage.** Every access of a slot is one step; between two of them
another tab may act, the write may throw or the tab may crash (`Stops`). An
item that is no record of this version is `Garbage`.

**LegacyPage** runs handlers as programs. `LegacyHandlers` writes each handler
of `app.js` as its sequence of waits (`Wait` may reject, `Sleep` does not),
looks at the session (`Still` is `isCurrentLegacySession`), returns and writes,
with its try, catch and finally. What a handler writes is a *sink*, a part of
the state and the elements that show it. Sinks do not depend on each other, so
a behaviour observes one, `watch`, and runs the handlers that touch it; `holds`
is the login whose data it holds. `Login`, `LoginExternal` and `Logout` are the
functions of `app.js`, with what they clear.

**WalletList** has the list as `normalizeWallets` makes it, the accounts, and
what both look like in localStorage. A scan reads the account it asks for,
waits, and merges.

**TrustMap.** `ledger` is what the public chains hold. A hash is the
transaction it names together with its form: bare, behind `0x`, or base58. A
scan may find any part of what there is. Other wallets publish too, also in
transactions that pay this one: the scanners of Bitcoin and Solana take every
record of a transaction the address has a part in for the address's own, that
of Ethereum asks for the sender. The file format keeps a weight in
place of a level; the round trip goes through `trustLevelToWeight` and back.

**WasmCalls** runs the wrappers of the package as programs of allocations,
copies, calls, reads, wipes and frees, with the part before the `try`, its
body, its catch and its finally; any step that can fail may. `WasmBindings` and
`WasmCapabilities` are the programs. `heap` says of each buffer whether it is
raw, holds data, was wiped or is gone.

**WasmInstances** follows `init()` in two copies of the package: the promise
that is published on the realm, the reactions that remove a failed one, and a
key that is wiped, collected and finalized.

**SdnIdentity.** A derivation opens a slot, and its value is issued or rolled
back; a destroy that throws queues it and every next call drains the queue
first. A password derivation waits for an instance of its own and moves its
identity here, so several interleave.

**ReleaseEvidence**, **ReleaseRecord** run each tool as the sequence of its
verifying functions. A hash is its preimage and a signature names its key and
its message. Every file read is of any build; what the code keeps of a read is
kept. **MerkleProof** has the walk as a state machine and the tree hash as its
reference. **ReleaseBuild** has each script as steps on files that may throw
or be killed; a file is the versions its bytes come from and whether it is
whole.

## 3. Runs

Every bound is a constant of its cfg. `CHECK_DEADLOCK FALSE` is set where the
bounds on clocks, draws, logins and calls end a behaviour.

| run | properties | instance |
|---|---|---|
| `relay` | table: `IInv`, `ReleaseFollowsRegistration`, `SingleRelease`, `SpentIdsStaySpent`, `ImplementsOneShotExchange`; parties: `BeliefsAreTrue` | two ids for one row, two challenges, four draws, times 0..2: an id can be used up, pruned, registered again, completed and redeemed; one operation of the client, whose clock may step back |
| `server_gate` | `ResultFitsOperation`; `LimitsHold`, `RefusedOnlyWhenFull` | two handlers, two operations, a table of one row: the id a handler has read comes to name another operation. Three keys, two buckets, windows of two over four readings |
| `server_expiry` | `LiveRowsAreTimed`, `SecretsExpire` | one handler, all actions, the wall clock set anywhere in 0..2 at any moment |
| `client_cleanup` | `CallsSettleInOrder`, `CleanupIsDone` | three operations, room for one retired cleanup, so that one is given up |
| `client_connection` | `SpentStaysSpent`, `ConnectionIsAccountedFor`, `OperationsEnd` | two operations that install, keep, end and restore connections; callback records well formed or not |
| `client_destroy` | `DestroyWithdraws`, violated | section 6 |
| `origin` | controller: `HandlesAreAccountedFor`, `HoldsOnlyItsIdentity`, `PermitMeansClean`, `OneResultPerPage`; consent: `ConsentIsBounded`, `OpenedInSession`; storage: `ActiveWasVerified`, `RememberedIsKept` | two unlocks, two transactions, three handles, three generations, two revocations, native failures; one tab, three scopes for two grants, clock both ways, failing writes; two tabs, four records, items of another version in either slot |
| `consent_logout` | `LogoutForgets`, violated | section 6 |
| `page` | legacy page: `LoginsAreSeparate`, `EndedSessionWritesNothing`; list: `ListIsUsable`, `ScansLoseNothing`; trust: `TrustMapIsTrue`; wallet-origin page: `AccountPageGivesBack`, `NothingWaitsForever`; bindings: `CallsReleaseAll`, `NativeStateIsReleasedInOrder`; identities: `AuthorityIsLive`; instances: `OneInstance`, `NothingWaitsForever` | two calls in progress over two logins, any watched sink; one tab and what another has stored; two trust records and a revocation on two chains, one short address; two handles of the account page; every wrapper; two password derivations, two slots, four identities; two copies, two keys, three loads |
| `page_signed` | `EndedSessionWritesNothing`, violated | section 6: the same page, watching what is signed and sent |
| `trust_revoked` | `RevokedIsShown`, violated | section 6 |
| `release` | `EvidenceIsSound`, `RecordIsSound`, `BuildsAreSound`, `InclusionIsExact` | four builds: two attempts of the released run, another run of its commit with the same tarballs, a run of another workflow; keys that rotate once; trees of up to five entries; two processes, two source versions |

What the properties say that their names do not:

* `BeliefsAreTrue`: a cancel the client takes for settled stays true of the
  relay, and an operation that ended without a cancel left nothing there.
* `CallsSettleInOrder`: one settlement of each promise, no later than the step
  that ends the operation. `CleanupIsDone`: every cleanup is current or
  retired, and what was registered is withdrawn or given up for newer ones.
* `LimitsHold`: the map is bounded, and in no stretch of one window's length
  does a key get through more than twice its maximum.
* `HandlesAreAccountedFor`: every handle in native memory is owned or about to
  be handed to the unlock that asked for it, and none is used after its
  destruction. `PermitMeansClean`: while a result may leave the page, no
  handle, no credential bytes and no typed credentials are left.
  `OneResultPerPage`: whatever was unlocked and begun, a page sends at most one
  result away, and none once it was revoked or destroyed at any time before.
* `SpentIdsStaySpent`: a spent row leaves only with the whole table at a start,
  or to make room for a registration made at or past the row's own deadline.
* `ResultFitsOperation`: a result posted under a token drawn before its request
  came is of the operation of the row it completes, whatever the id came to name
  while the body was awaited. Of a body that is held back until it can carry the
  token of a later registration it is not true (section 6).
* `AccountPageGivesBack`: each handle the account page derived stays within
  reach of something that will destroy it; the page is left only when clean; a
  closed page holds and shows nothing; what was copied is of the account that
  is signed in, as both rounds of credentials gave it.
* `EndedSessionWritesNothing`: a handler that finds its answer after a logout
  or in the next login writes nothing of its own login. It is checked here for
  the sinks whose writers all look, and refuted in `page_signed` for what is
  signed.
* `LoginsAreSeparate`: after a logout the page holds nothing of any login,
  however late what was under way ends, and a late scan does not free the lock
  of the next one.
* `ListIsUsable`: ids and account indexes are unique, every account is the one
  its wallet signs with, and there is always an active wallet.
  `ScansLoseNothing`: a known balance is not lost to a failed request, nor an
  account switched off by a scan; that a scan may switch on what the user
  switched off meanwhile is not asked.
* `TrustMapIsTrue`: nothing is shown that was not published, by the wallet it
  is said to be from or, on Bitcoin and Solana, in a payment to that wallet; a
  wallet revokes only such a record, on its chain; a revocation on Bitcoin marks
  its edge and nothing else does, and an exported file gives the same map back.
* `NativeStateIsReleasedInOrder`: no step frees a secret it has not wiped, but
  for the ten buffers `LeftUnwiped` names, or opens an identity before those
  rolled back are destroyed.
* `NothingWaitsForever`: a closed wallet page comes to rest, and a failed load
  is forgotten by every copy of the package, so that `init()` can be retried.
* `EvidenceIsSound`: what is accepted of the two packages is one signing by one
  build of the stated run, vouched for by who the policy authorizes at the
  logged instant. `RecordIsSound`: a record names one release, and what is
  accepted with it is that release, as far as the tool kept what it read; the
  tarballs it opens by path again (`verify-release.mjs`:1435) are not kept.
  `BuildsAreSound`: a file at its final place
  is whole, what a verifier accepts belongs together, and a script that was not
  killed leaves nothing behind.

Why the bounds are enough for the cases meant: one row with two ids is the
smallest table that is full, pruned and reused; two is the smallest number of
handlers, tabs, unlocks, logins, derivations or copies that can overtake each
other, and three operations with room for one retired cleanup are needed for an
eviction; a clock with a reading before, at and after a deadline has every
comparison the code makes; two trust records and one revocation are a second
record to one address and the revocation of one of the two; trees of up to five
entries have inner levels, border levels and both together; of the two
addresses one is too short for a Bitcoin record to be read, and the other is
published on Bitcoin as well, by the network of a vCard.

`MCRelayClient` stores callback records only under the state of the active
operation, where one can be read, and its clock does not step back: `relay` has
that. `MCRelayServer` has `StaleNext` for the stale reading. Both only leave
steps out, and other runs take those steps. `MCPage` observes the sinks whose
writers look at the session (`GuardedSinks`) and has no login over a login,
which begins no generation: section 6 says what those leave to be said.

Symmetry is used on ids, challenges, slots, unlocks, transactions, scopes, tabs
and processes.
No run that checks a liveness property uses it.

## 4. Fairness

* `RelayServer` (`SecretsExpire`): the process's timers fire when due and time
  passes. Nothing is assumed about requests, bodies, the wall clock or a
  restart. While the process is down the property asks nothing.
* `RelayClient` (`OperationsEnd`): code behind a publish runs on, timers fire
  when due, time passes, and an attempt to cancel ends, because its own timer
  aborts it. Nothing is assumed about the relay, the wallet page, the person or
  the storage. The clock does not step back in that run.
* `OriginPage` (`NothingWaitsForever`): a coroutine that can go on does, and a
  call it waits for is answered, well or badly; closing the page answers its
  open prompts. Nothing is assumed about the person.
* `WasmInstances` (`NothingWaitsForever`): the reactions to a settled promise
  run. Nothing is assumed about the load itself.

## 5. Proofs

A theorem holds for every value of the constants; what is assumed of them is
the named ASSUMEs of the modules, which TLC evaluates in the runs, and what the
theorem itself says. No property below is inductive as it stands. Each component
has one inductive invariant, which relates what a suspended operation has read
to what others may have done since; it was checked with TLC before it was
proved, and the proof has one lemma or step per action.

**RelayStore** (`RelayProofs`). Assumptions: finite sets of ids, a table
of at least one row, NULL different from every value. `SingleRelease` says
nothing about a row that is completed and has not been redeemed. `IInv` ties
every live row to the history of its token: it is the registration its token
names, a pending row has no code minted, and a completed row's code was minted
for it and never released; values not drawn have no history. Lemmas give the
effect of the sweep, the pruning and each method on the table part (`TableOK`).

* `StoreInvariant`: `Spec => []IInv`;
* `StoreRelease`: one release per code, one result per registration;
* `StoreReleaseFollows`: a release goes only to the registered origin, state and
  challenge, before the deadline, and a rejected wallet names no account;
* `StoreTypes`, `StoreColumns`, `StoreCapacity`: types, which columns a status
  may have, and the limit on rows;
* `SpentStaySpent`: a spent row stays until a start empties the table or
  `create` makes room at or past the row's deadline, and only a fresh token
  brings its id back;
* `StoreImplementsExchange`: the table refines `OneShotExchange`; each action
  is mapped to a drop of the tickets its sweep has expired, with the open, fill
  or take of one ticket.

**RelayServer** (same module). `ServerInv` adds to the table's `IInv` what a
suspended handler has seen (a row seen under a token was registered with that
operation, and if the id is live under a token drawn before the request came, it
is that row still; nothing is said of the body, which is read later) and that
every live row has a timer while the process runs. The table's lemmas are
reused, since each handler's second part calls one method.

* `ServerResultFits`: a result stored under a token drawn before its request
  came is of the operation its row was registered for, although the row was read
  before the body arrived;
* `ServerTimesRows`: every live row has a timer, with a wall clock that steps
  both ways, and through shutdowns, crashes and starts.

**RateLimiter** (same module). `LimiterBounds`: the map is bounded and no bucket
counts past its maximum. `LimiterRefusals`: a key is refused only for its own
used-up window or a map full of running ones. While the clock stands a call
keeps every running bucket (`RunningStays`), so what justified a refusal still
stands. `LimiterLimits`: no key gets more than twice its maximum through in the
length of a window, wherever that length begins. A bucket says only what was let
through since its window began, so `WindowInv` says of the time before: in the
length of a window before a bucket's start, or before now for a key without a
bucket, the key got at most one maximum through. A sweep keeps this because it
takes only buckets whose window has run out. Counts are differences of the
history `through`, so no sum is needed.

**RelayClient** (`RelayClientProofs`), for any number of operations. `IInv` has
four parts: `EnvInv` (clock, requests, popups), `BookInv` (the stage of each
operation fits what it holds and what was settled), `FrameInv` (what the code
behind a publish will still do is justified by the state the listeners left,
whatever they called), `ConnInv` (the connection and its timer).

* `ClientConnection`: what is published names the connection held, and while
  the clock only moves forward that connection has the timer that ends it;
* `ClientSettles`: each promise is settled once, no later than its operation
  ends, and in the order of the calls;
* `ClientCleansUp`: every cleanup is current or retired, within the bound, and
  every registration that was sent is withdrawn or given up for newer ones;
* `ClientSpends`: an ended connection never returns and no code is redeemed
  twice by one operation.

**WalletProtocol** (`WalletProtocolProofs`) rests on the client's `IInv`. What
the exchange never takes back (a closed ticket stays closed, a refused
registration that was delivered is never opened) makes an answer on its way
true until it arrives, however late; `PInv` says so of every answer in the
network and of what the client concluded from those it has had. `BeliefsSafe`:
after a cancel was answered with a final status the relay holds nothing for the
operation, for ever, and an operation recorded as refused was never opened and
cannot be.

**OriginController** (`OriginProofs`), for any number of unlocks and
transactions. `IndInv` accounts for every live handle (owned, or given to an
unlock that has not installed it yet), orders the unlocks under way by the
generation they began at, and says what a suspended unlock or transaction has
captured; while a permit stands the page is revoked and owns nothing.

* `HandlesSafe`: every live handle is accounted for, none is used after its
  destruction;
* `HoldingsSafe`: a page owns the installed identity and no other, a revoked
  page nothing, no secret outlives its unlock;
* `PublicationSafe`: while a result may leave the page no handle, credential
  bytes or typed credentials are left;
* `OneResult`: a page sends at most one result away in its life, and none once
  it was revoked, logged out or destroyed. `ResultInv` says why: there is one
  result at a time, of a transaction or of the account page, the first one
  spends the page, and only a page that was never revoked has one.

**OriginPage** (`PageProofs`). `PageInv`: whatever shows or owns anything is
the surface the page keeps (`KeptInv`), there is none before `start()` got so
far (`StartInv`), and what a coroutine holds across an await is still in reach
of what destroys it (`HandleInv`). `PageGivesBack`: every derived handle is in
reach of what will destroy it, the page is left only when clean, and a closed
page holds and shows nothing.

**LegacyPage** (`PageProofs`), for any number of calls and of logins and for any
handlers beside one another, in two halves like the wrappers below. `Orderly`
says of one program, without running it, that some places of it are looked at
(reached from a look at the session with no wait between), that everything of
its own login it shows and every scan it begins is at such a place, and that a
scan begun before the `try` ends in the `finally`. `LegacyInv` is the invariant
of the page for such programs: a call that runs at a looked-at place is of the
current generation, a call of the current generation is of the login the page
is in, and a scan under way holds the lock under its generation. `WalkOn` puts
stretches of steps together, and `AllLookFirst` shows that every program of
`LegacyHandlers` is `Orderly`.

* `LoginsSafe`: after a logout the page holds nothing of any login, and a
  session never runs two scans of a kind at once;
* `EndedSessionsWriteNothing`: what a handler writes is of the login the page is
  in when it writes, or of nobody.

Both assume `Watched \subseteq GuardedSinks`, the sinks of run `page`. The others
are no gap of the proof: what is signed and sent is the finding `page_signed`,
and the drain baselines, the dialog of a revocation and the row of an external
wallet are written without a look (section 6). Both also assume that an
external login does not replace another login, since `loginExternal` begins no
generation; a login with keys may replace any.

**WalletList** (`LegacyStateProofs`), for any number of tabs and any lists stored
before. `ListInv` says of each tab and of what is stored that the wallets are a
list `normalizeWallets` could have returned, and of a scan under way
(`ScanHolds`) that each wallet of it is to come, asked for or found, still
stands in the list, and has no balance known to the page that is unknown to the
scan: that is what lets an answer be merged long after the question.
`normalizeWallets` keeps an entry when none kept before it clashes with it,
which is a definition of a set by its own smaller members; that there is exactly
one such set, and that finite lists have a first wallet and a next id, is shown
from the finite subsets of a set being well-founded (`LeastFinite`), without an
induction over the list.

* `ListUsable`: ids and account indexes are not shared, every account is the one
  its wallet signs with, a wallet is left to be the current one;
* `ListLosesNothing`: while a session lasts, no known balance is lost and only
  the user switches an account off.

Assumed: stored entries are what `parseInt` leaves of them, and every stored
list has an active wallet left, as every page that stores one sees to. Without
the second, a list of wallets put aside could be loaded from storage.

**TrustMap** (same module), for any wallets, addresses and number of records.
`TrustInv`: every entry of the map, of the transactions imported and of the file
is a reading of a record on a chain; one said to be a trust record of a chain is
on that chain, and the wallet's own or, on Bitcoin and Solana, of a payment to
it (what was imported names no chain); the map has one entry per hash.
`TrustMapTrue`: nothing is shown that was not published, by or in a payment to
the wallet it is said to be from; a wallet revokes only such records, where they
are; nothing is shown revoked that was not; and a file gives back the map it was
made of.

**RememberedStorage** (`OriginProofs`), for any number of tabs.
`StorageSafe` adds to `ActiveWasVerified` that every setup past the native
check holds a verified record, since it may still write the active slot.
`RememberedSafe` adds that a tab about to delete the active item has read no
record there.

**ConsentMemory** (same module). `ConsentTyped`: whatever tabs write between
each other's reads, there are at most the permitted grants, one per scope, with
counts in range. `ConsentSessions`: an unattended opening is made only by a page
whose clock stands within the session of the grant it read. `ConsentBounded`: a
grant never pays for more openings than it was given, failing writes and
evictions included, under the hypothesis `OneTab`. The hypothesis is the
property's own limit and not the proof's: the code reads the grants, counts one
and writes them back, so two tabs can count the same opening. What holds
between tabs is the first two theorems.

**SdnIdentity** (`NativeProofs`), for any number of derivations. `AuthoritySafe`:
every handle that may be used has a slot of its own, at most one identity waits
for its destruction and it is open, an ended password derivation left no
secret. `DrainedFirst`: no step opens an identity while one that was rolled back
waits. **WasmInstances**: `InstanceSafe`, for any number of copies and keys:
one load has not failed and all copies are answered with it; a key is destroyed
at most once and open while its object lives.

**WasmCalls** (same module) is proved in two halves. `Disciplined` says of one
program, without running it, that only `catch` and `finally` give anything back,
each thing once; that every buffer a step allocates or uses is given back in
`finally`; that a native handle is given back there or in `catch`, unless opening
it is the last thing the body does; and that a secret, unless `LeftUnwiped`
names it, is wiped before its buffer is freed. `CallStep` shows that a disciplined
program keeps `CallInv` (the heap at each place of the program), whatever step
fails. `WrappersDisciplined` shows that all 170 wrappers of the package are
disciplined: most are instances of three shapes (an exchange of buffers, a
question, an exchange whose size is asked for first), the others are unfolded.

* `CallsSafe`: a call that reached its `try` leaves no buffer behind and uses
  none after giving it back, and a call that threw leaves no native handle open;
* `SecretsWiped`: no step of any wrapper gives back a buffer with a secret,
  binary or text, before it is wiped, but for the ten that `LeftUnwiped` names,
  which the code wipes nowhere.

**ReleaseEvidence** (`ReleaseProofs`). A tool is a program: a sequence of
verifying functions run on one package and then on the other. `EvidenceInv` says
for each of the three programs what holds before each of its steps (`CollectOK`,
`BuildOK`, `NormalizeOK`), and one lemma per function says what it adds, at
whatever place of whichever program it stands (`Where`). `ReleaseEvidenceSound`:
whatever is accepted is of one commit, run and attempt, of one digest, and
vouched for by keys, logs and authorities that were entitled at the logged time.
The normalizer checks entitlements against times it has only been told of and
opens the bundle afterwards; the invariant shows that the comparison in between
makes them the bundle's. Assumed: a policy lists finitely many keys for a usage,
since it is read from a file, and "none" is no time and no key.

**ReleaseRecord** (same module). The tools read a directory that others write
to. `RecordInv` therefore speaks only of what a tool has kept (`snap`) and of the
record: past the attestation the report and the archive kept are of one attempt
of the tag, past the binding so is the evidence, and at a verifier's last step
what it kept agrees with the record. `ReleaseRecordSound`: a record names one
release, what is accepted with it is that release.

**ReleaseBuild** (same module). A script is a sequence of up to some seventy
steps, put together from others. What it knows before each of them, when
nothing was thrown, is a set of facts (`Hold`): a file is absent, is what was
read, is whole, is as its partner; what was read is pinned, or of one version.
`Permits` says what a step has to know to do no harm even if it is its last, and
`Sound(P, A, B, FF, D)` that such an annotation leads through `P` from `A` to
`B` and that what `P` makes is removed by a later step of it, or is in `D`.
Sound programs in sequence are sound (`JoinSound`), each kind of step is, and so
all eight scripts are (`ScriptsSound`). A script that may race with another uses
facts of its private files only (`PrivateFacts`), which no other process changes.
`BuildInv` adds what holds once something was thrown: a cleanup is next, what
was made is still to be removed, a service is stopped next, and a checksum that
was not written leaves an archive nobody accepted. One lemma per kind of step,
with throwing, starting, ending, a kill, an edit of the source and tidying up;
`BuildsSafe` is `BuildsAreSound` for any number of processes and versions.
Assumed: the value for "nothing" is no script, no step and no file.

Only model-checked:

* liveness (`OperationsEnd`, `SecretsExpire`, `NothingWaitsForever`): fairness
  and ENABLED are beyond the prover;
* the tree hash of `InclusionIsExact`: an induction over data;
* the four runs that expect a violation.

## 6. Findings and observations

Four runs end in a counterexample to what a line of the repository says:

* `client_destroy` (`DestroyWithdraws`). A listener that calls `destroy()` when
  it hears of a failure resumes `#retire` in a destroyed client: the cancel is
  handed to `fetch` and its controller is aborted in the same step, so the
  registration may stay with the relay until it expires. A test and a comment
  say that the cancellation is let through. Calls of `destroy()` from elsewhere
  do let it through.
* `consent_logout` (`LogoutForgets`). Logout on the account page completes the
  pending publication and returns before the grants are cleared, although
  `consent-memory.mjs` says that logging out forgets every grant.
* `page_signed` (`EndedSessionWritesNothing`). A payment waits for the network
  and then signs with whatever keys the page holds: confirmed before a logout,
  it is signed with the keys of the next login. A test says that asynchronous
  work is bound to a login generation.
* `trust_revoked` (`RevokedIsShown`). A revocation on Ethereum embeds the hash
  without the `0x` by which the scan knows the record, so it never marks it,
  although a comment says that hashes are stored bare. On Solana the signature
  does not fit and the revocation is refused.

Hazards the run properties do not cover, because no line of the repository says
which outcome is right, or because the property would only restate them:

* Two tabs that read a grant before either writes it back count down from the
  same number (`consent-memory.mjs`:59); two setups that pass the comparison of
  `commitRememberedWalletWrite` both report success, and the later record stays
  (`wallet-storage.js`:291); a tab that read a malformed active item removes the
  slot even if another has stored a record since (366): `RememberedStorage`
  counts that record as forgotten.
* A confirmed deletion of a quarantined item reads the slot again and then
  removes it (`wallet-storage.js`:363-366): a wallet that another tab stores
  between the two accesses goes with it.
* A POST result whose body is held back until the id was pruned and registered
  again for another operation, and which then carries the token of that
  registration, is read by the parser of the earlier one (`server.ts`:558-560)
  and stored for the later one. Nobody but a wallet page that fetched the new
  transaction has its token, so no page of this repository sends such a body. The
  test that dispatches results "to only its registered operation"
  (`relay.test.mjs`:593) registers and posts them one after the other.
* A foreign record in a Bitcoin or Solana transaction that pays or otherwise
  involves the wallet is shown as the wallet's own (`blockchain-trust.js`:1173,
  1274), and on Bitcoin Revoke publishes a revocation of it.
* Freed without being wiped (`index.mjs`): the chain codes of `HDKey.chainCode`
  (1057) and `slip10.deriveEd25519Path` (4967); what `hkdf`, `pbkdf2` and
  `scrypt` derive (4191, 4339, 4360); the text of a mnemonic that is generated
  or validated, of an imported xprv, and of a WIF key in both directions.
* A confirmation answered after a newer unlock stores a grant before the
  transaction is refused (`controller.mjs`:965), and a transaction that went
  stale keeps the page from preparing another (345).
* The relay's clock ahead of the client's by more than the latency makes a
  full-length registration unacceptable (`relay-client.mjs`:857).
* The second of two input copies of a wrapper may throw before its `try`: what
  was copied first stays in the WASM heap (`index.mjs`:1487). `CallsReleaseAll`
  is about the calls that reached their `try`.
* A password buffer detached while its derivation waits makes the last wipe
  throw after the identity was issued, and nobody has its handle
  (`sdn-typed.mjs`:827). `SdnIdentity` has the step; `NoSlotIsLost` states what
  is lost and is checked by no run.
* A parsed transaction counts no inputs, so `sign()` signs none
  (`index.mjs`:2781).
* Another external login begins no generation, so the answers of the previous
  one are shown for it (`app.js`:2951); the dialog of a revocation opens without
  a look at the session and survives a logout (6050); the vCard import names
  what is local to another function and always fails (4233); `login()` shows the
  accounts stored by an earlier identity until a scan replaces them (3029);
  every tab writes the whole list it holds (1207).
* The dialog for a trust record uses the network of a vCard for the address
  typed before it (`trust-ui.js`:445); the list of rows to revoke does not look
  at revocations; of two records to one address only the first can be revoked
  (`app.js`:5879); a Solana record is published in a form the scanner does not
  read (`blockchain-trust.js`:1006 and 464); `decodeBech32` refuses every
  address of a 20-byte program, 165 bits of which leave five over.
* `monitorTrustDrains` never sets the flag its recovery branch looks at, and a
  watch begun in an ended session may write the baselines of the next one.
* A malformed string given to `onLegacyLaunch` leaves a settled prompt with the
  credentials typed into it (`app.mjs`, from 780); the first click on Return or
  Logout with an open copy or comparison reports that cleanup is pending.
* A copy into the directory of retained subjects that fails leaves the
  directory (`verify-release.mjs`:991); `EndedLeavesNothing` excepts it.

## 7. Not modelled

Values are out of reach of an explicit-state checker: curves, hashes, word
lists, addresses and transaction encodings, and with them most of the C++
library, whose correctness the repository covers with published vectors. Of its
stateful parts, the table behind `sdn_identity_secrets.cpp` is in `SdnIdentity`
as its callers use it; `keyring.cpp` has a mutex around every method and signing
and unlocking that are still placeholders, and `key_manager.cpp` one cache used
by one caller, so that what could be stated of them now would restate their
guards. (Expired keys stay in the keyring's cache until their path is asked for
again, since `clearAllExpiredKeys` has no caller; a custom path of the key
manager is answered with the purpose it was first derived for.) Parsers, wire
formats, rendering and encryption appear as outcomes (well formed or not, right
or wrong verifier). Schemas and the code generated from them are data layouts.
`PROJECT.json` gives the reason for every part. In the parts that are modelled:

* RelayServer: request targets, JSON, CORS and the wire parsers are `Reject`;
* RelayClient: a host that re-enters the client from `crypto`, `window.open` or
  an abort hook; two clocks with a skew (the relay's deadline is any reading);
* OriginController: the abort controllers, which only end an await early, and
  the getters;
* OriginPage: layout, the profile form and the texts;
* RememberedStorage: the fields of a record, WebAuthn, and the legacy keys;
* LegacyPage: formatting, tabs, and which element shows a sink; handlers of one
  sink are not run beside those of another, since no handler reads what another
  sink holds;
* WalletList: the chains are alike and the cache of an address is left open;
* TrustMap: the transactions that carry a record, the rules and the watch for
  drained addresses, which are only programs of `LegacyHandlers`;
* WasmBindings: the pure JavaScript codecs and the typed-data encoder;
* ReleaseEvidence, ReleaseBuild: signatures are abstract; the strict JSON and
  DER readers, the TUF download and the textual contracts of workflows and
  shell scripts are one refusal.

## 8. Plan

Done: every component above as far as section 7 says, with proofs of the relay,
the client, the protocol, the wallet origin, the legacy page with its wallets
and its trust map, the bindings, the native identities, and the evidence, the
record and the builds of a release.

Every safety property a passing run checks is a theorem but `InclusionIsExact`,
an induction over data.

Modules worth adding: the framing and session of one hardware wallet in
`src/hw`; the assembly of the transactions of `TrustMap`; a relay clock of its
own in `WalletProtocol`.
