# A verification development of rainbow

rainbow (`../src`) is an IPFS HTTP gateway daemon: it answers requests for
content by reading blocks from a local cache, from bitswap peers or from a
remote gateway, and it comes with a control interface (`/mgr/...`), a garbage
collection of the cache, and a libp2p identity of its own. Most of the protocol
work is done by libraries (boxo, libp2p, net/http). What is rainbow's own is how
they are put together, and what it does at the edges: start, shutdown, eviction,
peer purges, the choice of store, key and configuration. That is what is
modelled here.

The documents: this file, the TLA+ modules (`*.tla`), the TLC configurations
(`*.cfg`) and `PROJECT.json`, which maps every definition to the source lines it
stands for and lists runs, hazards, findings and theorems.

## 1. Inventory

Line numbers are those of the files in `src/`.

| Part | Source | State it keeps | Operations | What makes it correct |
|---|---|---|---|---|
| Block cache GC | `gc.go`, `handlers.go` (gcHandler) | the blocks in the base blockstore; per run the sum still to delete and the listing | `GC`, `periodicGC`, `POST /mgr/gc` | a run that reports success kept its word; it does not take much more; it ends |
| Switching blockstore, No-Blockcache requests | `setup.go` 585-651, `handlers.go` 386-450 | one in-memory store per such request, in its context | `withTracingAndDebug`, Get/Put/... of `switchingBlockstore` | the two kinds of cache never mix |
| Process life and shutdown | `main.go` 900-1000 | `quit`, the GC timer, the servers, `wg` | signals, failing servers, ticks, shutdown | a process asked to stop stops, and cleanly |
| Peer identity | `main.go` 575-640, `setup.go` 477-506, `keys.go` | `libp2p.key`, `seed`, the index | find seed, derive, load or generate and save | the node keeps its identity |
| Peer purge and connections | `handlers.go` 90-185, `setup_bitswap.go` 20-83 | connections and peerstore of the host | `/mgr/purge`, `/mgr/peers`, `peerstoreMergingHost.Connect` | a purge closes what was open and forgets |
| Bitswap exchange, shared cache | `setup_bitswap.go` 85-201 | the set of peers it answers | build exchange, peer filter | every peer of the deployment is answered, nobody else |
| Node setup | `setup.go` 150-475 | the `Node` | `Setup`, `SetupNoLibp2p`, `SetupWithLibp2p` | every accepted configuration comes up with the parts it needs |
| Peering | `setup.go`, `keys.go`, `main.go` 641-700 | the peering service | peers given, or derived from the seed | a node peers with the others of its seed, not with itself |
| Denylists | `setup.go` 548-573 | files, subscriptions | download, list, load | every subscription is loaded |
| Routing | `setup_routing.go` | the composed router, the bundled DHT | parallel composition, timeouts, the switch to the full client | an answer of one router is not lost to the others' errors |
| Gateway handler | `handlers.go` 190-384 | table of public gateways | build the table and the handler chain | each host gets the settings meant for it |
| Resource limits | `rcmgr.go`, `internal/fd` | none | arithmetic over memory and descriptors | the hosts together stay within what there is |
| AutoConf | `autoconf.go`, `main.go` | a cached configuration | expansion of `auto` | no `auto` reaches a component |
| DNS cache | `dns_cache.go` | cached addresses | refresh, dial | a dial ends in a connection or an error |
| Command line | `main.go` | none | flags to `Config` | data |
| Metrics, tracing, HTTP client, version, log and profiling endpoints | `metrics.go`, ... | none of their own | register, export, set a runtime parameter | not behaviour |

How they interact:

- Gateway requests and collections are goroutines over one blockstore. They
  share no lock: only the store itself serialises single calls.
- Bitswap is the exchange behind the blockstore: a read that misses is followed
  by a fetch and a write-through put, two calls with any delay in between.
- main, both HTTP servers, the timer's goroutine and the signals meet in two
  channels (`quit`, capacity 3, and `gcTickerDone`, none) and one wait group.
- `/mgr/purge` works on the same peerstore and connections as bitswap's dials,
  inbound connections and libp2p's identify, again with no lock.
- A start works on the data directory before the datastore's lock keeps a
  second one away.

What is hard, in one line each (the full list with lines is `hazards` in
`PROJECT.json`): a block that changes between a collection's calls; a listing
that is a snapshot; an error swallowed by a library and taken for the end of the
keys; a bounded channel with more senders than receives; a timer set again by
the goroutine that is being shut down; a start killed between creating and
writing a file; a purge racing the peers it purges.

## 2. Plan

In the order in which it was done, most important behaviour first:

1. `GC`, `BlockCache`, `EvictionPromise`: the cache. Safety proved, with the
   refinement; liveness checked.
2. `Daemon`: process life. Safety proved, liveness checked.
3. `Identity`: restarts, crashes. Proved.
4. `Peers`: purges and the dialling host. Proved.
5. `Startup`: which combinations of options come up, and with which parts.
   Checked over every combination of the options that matter, and proved.
6. `SharedCache`: a fleet of nodes that share caches. Proved except for what
   needs fairness, which is checked.
7. `Routing`: one lookup over several routers. Safety proved, liveness checked.
8. `Gateways`: the table of public gateways. Proved.
9. `RcMgr`: the limits of the resource managers. Proved.

Left, in this order:

| What | Why |
|---|---|
| `Node`: `Daemon` composed with `BlockCache` | that no collection is under way when the datastore is given up; today `Daemon` takes `RunsEnd` as a fairness assumption |
| a garbage collection in `SharedCache` | a peer's block may be evicted between two rebroadcasts |

## 3. Modules

| Module | What it is |
|---|---|
| `GC` | actions of a collection, no specification of its own |
| `BlockCache` | `GC` with the requests that fill the store: `Spec`, `FairSpec`, properties |
| `EvictionPromise` | what a collection promises, without how |
| `MCBlockCache` | block sizes for TLC |
| `BlockCacheProofs` | theorems about `BlockCache` |
| `Daemon`, `DaemonProofs` | process life; its theorems |
| `Identity`, `IdentityProofs` | identity over restarts; its theorems |
| `Peers`, `PeersProofs` | purges and connections; its theorems |
| `Startup`, `MCStartup` | the start-up, step by step; the options to cover |
| `SharedCache`, `MCSharedCache` | bitswap between nodes that peer; the fleets to cover |
| `StartupProofs` | theorems about `Startup` and about a `SharedCache` of such nodes |
| `Routing`, `RoutingProofs` | a lookup over the composed routers; its theorems |
| `Gateways`, `GatewaysProofs`, `MCGateways` | the gateway table; its theorems; four hosts |
| `RcMgr`, `RcMgrProofs`, `MCRcMgr` | the resource managers' limits; their theorems; machines and budgets |

Every module says "External" at the actions that model a library or the
operating system by how rainbow uses it. Definitions commented "Defect" are not
part of any specification: they are the mistakes that `mutants` in
`PROJECT.json` puts in place of the definition that follows them, to see that a
property would notice.

### GC and BlockCache

A run is one call of `Node.GC`. Its program counter follows the calls of the
loop (`gc.go` 13-52): `called` (before AllKeysChan), `loop`, `have` (a key
received), `sized` (GetSize returned), `compact`, then `ok` or `failed`. Locals
are `todelete`, `cur`, `size`; `must` and `may` describe the key channel: keys
that were in the store when it was opened and have not left since must be sent
before it closes, keys that left may be skipped, keys put since may appear. So
a listing may be a consistent snapshot (badger) or a walk (flatfs): the model
covers both. GetSize may fail for any key and then yields -1, which the code
charges. DeleteBlock of a block that is gone succeeds. A failed query or a
cancelled context closes the channel as if the keys were at an end.

A manual run (`gcHandler`) is started with any of `Targets`, has a context that
ends with its client, and there may be several. Periodic runs (`periodicGC`)
follow one another; the free space they read is any value up to `Capacity`,
since the file system is shared with everything else.

A request (`withTracingAndDebug`) picks its store, then reads up to `MaxReads`
blocks; a miss and the put that follows are two steps. `Held` and `Put` go
through `getBlockstore`, the code's own dispatch on the context.

History variables (`target`, `freed`, `own`, `left`, `missed`, `answered`,
`fetched`, `seed`) are read by properties only.

Abstractions: CIDs and blocks are one thing; sizes are numbers; a single
`DeleteBlock` or `Put` is one step, as the datastore makes it;
logging is left out; the in-memory store's memory is not counted.

### Daemon

`main` is where the main goroutine stands between channel operations and waits;
`server[s]` the two `wg.Go` functions; `closer[s]` the two `go srv.Close()`;
`gc` and `timer` the timer's goroutine and the `*time.Timer` it resets;
`quit` the number of values in the channel. `signal.Notify` drops a signal
when the channel is full; a failing server blocks. A receive from a full
channel with a blocked sender takes the sender's value in at once, as Go's does.
`Handshake` is one step of two goroutines because `gcTickerDone` has no buffer.
`srv.Close` may come before ListenAndServe looks, between that and the bind, or
after: net/http is modelled with the check it makes. What a collection does is
in `BlockCache`; here it is something that ends (which `RunsEnd` shows).

`QuitCap` is 3 in the code and a constant here, so that the theorems hold for
any capacity; `MaxSignals` bounds the signals sent.

### Identity

One variable per durable thing: `keyFile` for each directory, `conf` for what
does not change between starts (flags, environment, seed files). `pc`, `seed`,
`priv` are lost when a process ends (`Die`, possible at any step: a crash is
not told from an error). `os.WriteFile` is two steps, `CreateKeyFile`
(truncate) and `WriteKeyFile`. Keys are numbered in the order they are
generated, so two generated keys are never equal; an identity derived from a
seed is the pair of seed and index. `IndInv` and `Expected` say what a start
finds.

### Peers

A connection is identified by its number (`opened[p]`); at most one is open per
peer. `purgePeerHandler` takes its snapshot of peers and then makes one library
call per step: RemovePeer, ClearAddrs (first loop), ClosePeer (second loop),
as `purgeAllConnections` does; the purge of one peer is the same over a list of
one. `Connect` and `HostConnect` are the two halves of
`peerstoreMergingHost.Connect`: copy what the DHT host knows, then libp2p's
Connect. Addresses are classes of addresses, as `isUndialableMergedAddr` tells
them apart. `relearned`, `before` and `told` are history.

### Startup

One action per step of `app.Action` and of the `Setup` functions it calls, in
their order; `stage` is the step that comes next. What can fail, fails
nondeterministically wherever the code returns the error of a library. Options
that one step reads are chosen in that step, options that several read are in
`opt`; lists are sets of kinds of entries (an address that parses, one that does
not, the placeholder). Remote backends overwrite `opt` (`Forced`) before the
placeholders are expanded, as `main.go` 592-602 does, and each expansion is told
the routing type that results. `node` collects the parts that are set up.
`Expansions` is external: with a configuration "auto" is replaced, without one
the library may keep or drop it.

### SharedCache

Nodes, and strangers of the network, connect, want blocks and tell each other
so. `Serves` is the server with its peer filter; `Peered` is whom `setupPeering`
dials. A peer that is asked for a block it does not have says nothing and
forgets (the exchange is built with `SetSendDontHaves(false)`), and it is not
told when the block comes (`noNotifyExchange`), so a waiting peer gets the block
by `Rebroadcast` or not at all. A connection that breaks takes what was on its
way with it. Blocks do not leave a cache here. Its definitions that every module
has are called `FleetInit`, `FleetNext` and so on, so that `StartupProofs` extends
it beside `Startup`.

### Routing

One call: each router is asked in a goroutine of its own, offers a record, has
none, fails or is late, and the caller takes the first value or the first error
that is not ignored. HTTP routers have a timeout and `IgnoreError`, the DHT has
neither; `getDHT` is the choice of client of `bundledDHT`, made once per call,
and `Crawl` changes what it would choose at any moment. The parallel router is
external and does what the fields it is given say. A node without libp2p is a
node without `DHT` in `routers`.

### Gateways

`setupGatewayHandler` fills `publicGateways` list by list; each loop is one
action, which puts the entries of its list over those of the table (`Over`), or,
for the DNSLink list, beside them (`NotConfigured`). A name under a domain is a
pair in `Under`. `UsesDNSLink` is what boxo does with the table and the general
rule.

### RcMgr

The arithmetic of `rcmgr.go` in one step: defaults for 0, the shares of two
hosts, quarters, the raised number of inbound connections, and `Built`, the
library's replacement of a limit of 0 by a default. Shares are computed in
`float64` and truncated in the code; for numbers below 2^48 this is the integer
division of the model (a product is at least 0.05 short of the next integer or is
one).

## 4. Runs

| Run | Question | States |
|---|---|---|
| `gc_race` | A manual, a periodic collection and a filling request on one badger store: does a successful run keep its promise, is the excess bounded, is `EvictionPromise` implemented? | 2.3 M |
| `cache_requests` | Two requests of any kind and a collection, with and without a store: do the caches mix? Is `IndInv` an invariant? Does every collection return? | 320 K |
| `daemon` | Exit clean, no collection after the handshake, and shutdown that hangs in one way only? | 15 K |
| `daemon_hangs` | Does a process that was asked to stop always stop? (No.) | - |
| `id_restarts` | Does a node keep its identity over failed and killed starts? | 114 K |
| `id_killed` | Can a killed start make every later one fail? (Yes.) | - |
| `peers_purge` | Does a purge close what was open and forget what was known? Do undialable addresses stay in the DHT host? | 2.4 M |
| `startup` | Does every node that comes up have what its requests and its fleet need? | 2.7 M |
| `routing` | Whom does a lookup listen to, and does it end? | 28 K |
| `shared_cache` | Who gets blocks from whom, and does one who waits get them? | 40 K |
| `gateways` | What does each host get from the lists it is in? | 786 K |
| `rcmgr` | Do the limits fit the budget and each other? | 73 K |

What the passing runs show:

- `SuccessFreesEnough`, `KeepsPromise`: since a successful run began, at least
  the bytes asked for have left the store, or nothing that was there is left.
  "Have left" by anyone's hand: when two runs delete one block each charges it,
  and each is right to, because it did leave. This would break if a size were
  charged for a block that had left before the run began, or were skipped
  after a failed GetSize.
- `OvershootBounded`: with working GetSize a run's own deletions are less than
  the sum plus one block. A failing GetSize makes it delete more.
- `CacheFromOrdinary`, `ScratchFromNetwork`: no leak in either direction
  between the shared cache and a No-Blockcache request.
- `RunsEnd`: the sum may grow (-1 is subtracted) but the keys come to an end.
- `NoCollectionAfterHandshake`, `CleanExit`: also when a collection that ends
  during the shutdown sets the timer again after main stopped it.
- `ShutdownUnlessJammed`, `JamTakesSignals`: the only way to hang is a server
  that fails while `quit` is full of at least `QuitCap` signals; with fewer
  signals every process asked to stop stops.
- `IdentityIsStable`, `KeyInUseIsSaved`: one process at a time.
- `NoConnectionSurvives`, `ForgottenOrRelearned`: with any interleaving of two
  purges, dials and peers, a connection open before a successful purge is
  closed after it, and what is still known was learned since.
- `MergedAreDialable`: addresses the dialling host cannot use come only from
  the peer itself or the caller, not from the DHT host.
- `BackendServes`: `SetupNoLibp2p`, `SetupWithLibp2p` and
  `setupGatewayHandler` decide separately, and always agree on something that
  requests are read from.
- `FleetIsFound`, `FleetKnowsNode`: peers derived from a seed have no addresses,
  so the dialling host needs a DHT, whichever of the four ways the DHT is set
  up; and the node is one of those the others look for.
- `StartsFromItsPeers`, `AminoOnce`, `NoPlaceholder`: bootstrap peers that do
  not parse, a DHT that is switched off after it was asked for, an autoconf
  that fails: no DHT client without peers, no network asked twice or not at
  all, no placeholder where it would be taken for an address.
- `NotFoundIsThorough`, `OnlyTheDHTFails`, `ClientIsReady`: whatever the order
  of answers, errors and timeouts. `HttpLookupEnds`: only a DHT can make a
  lookup wait for its caller.
- `OnlyToSafelisted`, `SafelistedAreAnswered`: the shared cache answers the
  configured peers, all of them and nobody else, although arrivals are not
  announced and connections break. If wants were told only once a block that
  comes later would never be sent.
- `TrustlessWins`, `OnlySafelistedUseDNSLink`, `SubdomainsStay`: a host in
  several lists gets what the documentation says of each.
- `HostsShareBudget`, `RoomForConnMgr`, `TransientIsQuarter`: for every rounding.

`TypeOK` is checked in `daemon`, `peers_purge`, `startup` and `rcmgr`,
`FleetTypeOK` in `shared_cache`; `IndInv` contains it in `cache_requests` and `id_restarts`; that of
`Routing` and `Gateways` is proved (`TypeCorrect`). `CHECK_DEADLOCK FALSE` throughout: requests
and collections complete, the process exits, counters reach their bounds, and
then nothing more happens.

### Bounds, and why they are enough

- Two blocks of sizes 1 and 2, sums of 0 to 2: one block that does not make up
  the sum, one that exceeds it, one exact. A third block adds no new order of
  "charged, deleted, put again". `Targets` 0 covers the run with nothing to do.
- One manual and one periodic run: every promise is about a run and what others
  do to its store; all the others together can do no more than one that deletes
  and one request that fills. The theorems hold for any number.
- `MaxReads` 1: one fetch to fill a store during a run; the second request reads
  what the first has fetched. That a request reads again what it fetched itself
  is left to the theorems, which have no bound.
- `MaxSignals` 5 is more than `QuitCap` plus the two servers' sends.
- `MaxStarts` 3: one start that is killed, one that comes up, one to compare.
  One process: the properties of `id_restarts` are about one at a time.
- One peer, two purges, two connections: a purge, a reconnect, a purge. The
  loops over several peers are left to the theorems, which hold for any number.
- Address classes one dialable, one not: the filter looks at one address at a
  time.
- `startup` covers command lines in two parts, since what the seed decides and
  what the backends decide meet only in `setupPeering`: every combination of the
  options of the network, with seed peering that is complete or off; and every
  way to give a seed and an index, for a host with bitswap and a DHT or without.
  Lists hold one entry of each kind that is treated differently; two
  resolver entries, since a later one for a domain replaces an earlier one.
- One lookup: routers share no state between lookups, but for `ready`, which may
  change at any step. Two HTTP routers, so that one fails while another answers.
- Two nodes, who may or may not list each other, a stranger, one block, one broken
  connection: the properties are about one node that gives and one that asks,
  and a break at any moment of their exchange.
- Four hosts: `localhost` and the tests' domain, which have entries of their own,
  a domain, a name under it. Every choice of the four lists.
- A megabyte of 2 units and budgets up to 42: every remainder of 20ths and
  quarters; three machines, one without a count of descriptors.

### Fairness

- `BlockCache!FairSpec`: weak fairness of each collection's own step, since a
  goroutine that is ready is scheduled and the datastore calls return. Nothing
  is owed by requests, clients, queries or contexts.
- `Daemon!Spec`: weak fairness of main, of each server, of each Close and of the
  end of a collection (`RunsEnd`). Strong fairness of `Handshake`: it and the
  tick are branches of one `select`, and with a short interval both may be ready
  each time; Go picks at random, so the handshake cannot be passed over for
  ever. No fairness for signals or for the timer.
- `Routing!FairSpec`: weak fairness of asking, of the caller, and of the timers of
  HTTP routers. Nothing makes a router answer, and the DHT may hang for ever.
- `SharedCache!FleetFairSpec`: weak fairness of `Redial` (the peering service retries
  for as long as it runs) and `Rebroadcast` (a timer of the session); strong
  fairness of `Receive`, since connections may break and come back, and a
  message that is sent again and again gets through when `MaxDrops` breaks are
  past. Nothing makes the network have a block.
- The other modules state safety only.

### Findings

Disagreements between the code and what the repository says of it, met while
modelling. Each is a run with one property that TLC refutes; the quotations are
in `PROJECT.json`.

1. `daemon_hangs`: three signals during the start-up collection, then both
   servers fail to bind: the second failing server blocks for ever in its send
   to `quit`, and the wait group with it.
2. `id_killed`: a start killed while `libp2p.key` is written leaves an empty
   file; every later start fails on it instead of generating a key.

Seen in the same models, each decided by one step of the code, so that reading
it says as much as a run would:

- `BytesToFree` is called an upper limit (README.md:154); `GC` deletes whole
  blocks until the sum is reached (`gc.go` 24), so the last one may exceed it.
- With `CREDENTIALS_DIRECTORY` set the data directory's key is not looked at
  (`main.go` 606), though README.md:106-108 says "first".
- `/mgr/purge?peer=all` is "all peers" in README.md:175 and all connected peers
  in `handlers.go` 153; information about others stays.
- Without libp2p `/mgr/purge` and `/mgr/peers` call into a nil host (`main.go`
  898): `purgePeerHandler` has the step "panicked".
- docs/environment-variables.md:293 has "auto" without autoconf be an error; an
  entry of the resolvers that a later one for the same domain replaces is not
  looked at (`autoconf.go` 97; `Resolvers`).
- README.md:100-101 allows the seed as a file; the action of `--seed-peering`
  (`main.go` 126) refuses a node whose seed is in a file only
  (`SeedPeeringRefused`).
- docs/environment-variables.md:206: a seed requires an index; without one
  `main.go` 627 passes the seed over and uses the key file, without a word.
- docs/environment-variables.md:489-490 has the shared cache serve the peers of
  the seed; `setup_bitswap.go` 155 filters by the configured peers only
  (`Serves` looks at `fleet.peering`, not at `Peered`).
- docs/environment-variables.md:264-268 has subdomains of a safelisted domain
  trigger DNSLink lookups; they fall to the general rule, which is `NoDNSLink`
  (`handlers.go` 356), unless some list names them.
- `--libp2p-max-fd` 1 with a DHT host of its own: bitswap's share is rounded to
  0, which `rcmgr.go` 55 takes for "not set" (`HostsShareBudget` asks for two).
- Two first starts at once on one data directory may each generate a key
  (`KeyInUseIsSaved` fails with two instances, which is why the theorems assume
  `Alone`).
- An identify message over a connection that is being purged puts the
  information back before the connection is closed (`ForgottenOrRelearned` counts
  that as learned anew).

## 5. Proofs

Checked with TLAPS, SMT (Z3), Zenon and LS4. Every assumption is an `ASSUME` of
a module: types of the constants, `NoBlock` outside `Blocks`, and `Manual`
and `Periodic` apart; TLC evaluates them in the runs. Where a theorem supposes
more it says so: `Alone`, a finite set of blocks, a finite set of peers. What is
proved is every invariant and every action property of the runs, for every
value of the constants, and the refinement.

**BlockCacheProofs.** `TypeCorrect` is inductive as it stands. The other
theorems use

- `RunInv` for each run, which is `Fresh`, `Listed`, `ChargedWasFreed` and
  `TakenIsCharged` with the two properties of a run themselves. Why it takes
  this: to know that a run which comes to the end of its keys left nothing, one
  must know that each block there from the beginning is still to be listed or
  in hand (`Listed`). To know that the sum it charged was really freed, one
  must know that while the run holds a size, that size is either still on disk,
  so that its own delete frees it, or has left already by another hand and was
  counted then (`ChargedWasFreed`). To bound the excess one must know that the
  charge was never less than the size, unless GetSize failed
  (`TakenIsCharged`). A step of one run is shown to keep the invariant of that
  run and of every other.
- `RequestBooks`, `NoStoreNoBlocks` for the requests.

`SuccessIsHonest`, `OvershootIsBounded`, `CacheIsOrdinary` and `ScratchIsFetched`
follow. `BooksAreRight` puts all of it in one: it states `IndInv` of
`BlockCache`, which TLC checks in `cache_requests`.

`CacheKeepsPromise` is the refinement: every step of the cache is,
under the mapping of `Promise`, a step of `EvictionPromise` or a stutter; a
deletion is `Evict`, a successful end `KeepPromise` (by `SuccessFreesEnough` in
the next state), any other end `GiveUp`, a put `Fill`. `PromiseIsWorth` goes the
other way: it derives from `EvictionPromise` alone, mapped but with none of GC's
steps, that a run which kept its promise saw enough leave. So the abstract
specification is not weaker than what it stands for.

`RunsAreBounded` is about how long a run lasts. `StepsLeft` counts three steps
for each key that may still come, plus those of the key in hand. Every step of
GC that moves a run lowers it, and no deletion or put by others raises it: a
key is sent at most once, so a block that is put again does not come again.
Hence a run over finitely many blocks takes finitely
many steps, whatever GetSize answers and however `todelete` grows. With the
weak fairness of GC's own step this is why `RunsEnd` holds; that last step is
TLC's.

**DaemonProofs.** `DaemonInv` ties the goroutine of the timer to main
(`TimerInv`), what systemd was told to main (`NotifyInv`), the servers not yet
started (`BornInv`), and counts `quit`: what is in it, with the value main
took, was sent by signals and by servers that have returned (`QuitInv`). If the
shutdown is jammed one server has not returned, so the signals alone sent at
least `QuitCap` (`FewSignalsNeverJam`). `WaitInv` adds that what a goroutine waits for has been
made, or will be by one that can run: servers and timer are born before main
waits for them, behind the receive there is a Close for every server, and a
server is blocked only on a full channel. From it `ShutdownNeverStuck`: from the moment it is asked to stop
until it has exited, the process always has a goroutine that can run, unless it
is jammed. It says of each step of `ShutdownUnlessJammed` that somebody can take
it. `ShutdownIsBounded` says how many there can be: `StepsToExit` counts what
main, the servers and their Close have before them, 21 steps at most, and each of
them lowers it, while signals, ticks and collections leave it alone
(`NoCloseBefore`: each server is closed once). So no goroutine of the shutdown goes
round in a circle; that each of them is scheduled, and that the random choice of
`select` does not pass the handshake over for ever, is fairness, and TLC's.

**IdentityProofs.** Under `Alone` (at most one instance, which is the condition
of the claim and not an assumption of the model): `IndInv` says that what a
start holds is what configuration and key file say (`Expected`), and that a key
is generated only by a node that never came up, so writing it never changes a
known identity (`IndAlways`). `IdentityIsKept` and `KeyIsSaved` follow. The
proof does not depend on the number of starts or on the seeds.

**PeersProofs.** `Closing` says that a peer which the second loop has passed, all
its closes having succeeded, has no connection from before the purge;
`Forgetting` that a peer which the first loop has passed is unknown or was learned
anew, and that the one it is at has only its addresses left. A step of the
network keeps both because it opens new connections only and says what it
teaches (`NetworkKeepsClosing`, `StoreKeepsForgetting`); a step of another purge
because it only closes and forgets (`OthersAreHelped`). `PurgeCloses`,
`PurgeForgets` and `MergeIsFiltered` follow for any peers, purges and addresses.
`PurgesAreBounded` counts what a purge has left, two steps for each peer of the
first loop and one for each of the second: every step of its own lowers that and
nothing else touches it, so a purge answers after at most 3 steps for each peer
and 3 more, however many purge the same peers and however they reconnect. It takes
`AtAPeer`, that the loops do not overlap.

**StartupProofs, the node.** The properties are about a node that is up, the
decisions they depend on were made steps before, by functions that do not look
at each other's results. So the invariant says of each stage what the later ones
rely on:

- of the configuration (`ConfigInv`): remote backends have switched off what
  they replace (`FlagsHold`), a seed with an index gave the identity
  (`SeedGivesKey`), the routers were expanded for the routing type that is set up
  (`RoutersOfType`; this is where the order of `main.go` 592-602 and the
  expansions matters), nothing is left of a placeholder (`Expanded`);
- of the parts (`PartsInv`): none before `setup` (`PartsComeLater`), each on a
  host that is there (`OverHost`), a DHT if and only if one was asked for, on
  the host that was asked for (`DHTAsAsked`), peers by seed only with a DHT on the
  dialling host (`FleetHasDHT`), a value store that agrees with the routers
  (`StoreHasRouters`), something to read blocks from (`HasSource`).

One lemma per step shows that it keeps this. `UpHasBackend`, `SeedPeersAreFound`,
`SeedPeersKnowNode`, `DHTHasPeers`, `AminoInOneWay` and `PlaceholdersAreGone`
follow, for any set of command lines of the right type and any lists and
domains. The runs cover the combinations that `MCStartup` picks; the theorems
cover all.

`PartsFitTogether` is about the parts with each other: bitswap has a server
exactly if the cache is to be shared and there are configured peers, all of whom
are kept up; it dials through the merging host exactly if there is a DHT on a host
of its own; bitswap and the DHT have a host at all. That is what `SharedCache`
(`Serves`, `Peered`) and `Peers` (`split`, `libp2p`) take for granted of a node.

**StartupProofs, the fleet.** For any fleet, lists, blocks and number of breaks.
`FleetTypeCorrect` includes that no instance waits for a block it has;
`SharesWithItsList` that only `Receive` gives blocks away, and only past the
filter, while connections, breaks and rebroadcasts change neither the lists nor
what was given. `WiresInv` says that connections go both ways and that every want
on its way is current and over a connection that is there; the case that matters
is the answer, which must take back the want wherever else it was told. From it
`NoStaleWants`, and `WaitersAreInReach`: as long as an instance waits for a block
that a sharing peer has, the two are to be connected by a peering of either side,
or the want is on its way, or it is to be told again. `WantsEndWithTheirBlock` is
the action property that goes with it: nothing but the block ends a want, and
blocks stay. `SeedPeeringIsMutual` is the fact about `derivePeerIDs` that makes
seed peering work without configuration: each derives the other, nobody itself.

**RoutingProofs.** The invariant adds to the type that a call which is over did not
have the record or was HTTP's, that only the DHT's call may be in error, and
that a DHT which was asked has a client. From it `NotFoundIsHonest` and
`HttpNeverFails`; `ClientStays` is an action property. `CallsOnlyAdvance` gives
each call at most three steps and the lookup one outcome; `HttpNeverStuck` shows
that without a DHT there is always a goroutine, a timeout or the caller bound to
make the next. Together, and with fairness, they are `HttpLookupEnds`.

**GatewaysProofs.** The invariant says of each step which lists are already in the
table and what is known of their entries, one conjunct per list; each action is
one instance of the lemma about `Over`. `TrustlessIsLast`, `SafelistHolds`,
`SubdomainsAreKept` for any hosts and any lists.

**RcMgrProofs.** Lemmas about the rounded shares (a share of two or more leaves
something on both sides), quarters and the raised number of connections, then
`BudgetIsShared`, `InboundFits`, `TransientFits` and `LimitsAreSet` for any
budget, any machine of at least two units of memory, any megabyte.

Only model-checked: the four liveness properties, `RunsEnd`,
`ShutdownUnlessJammed`, `HttpLookupEnds` and `SafelistedAreAnswered` (leads-to
under fairness is outside the prover's reach here; the parts of them that need no
fairness are proved: `RunsAreBounded`, `ShutdownNeverStuck` and
`ShutdownIsBounded`, `CallsOnlyAdvance` and `HttpNeverStuck`, `WaitersAreInReach`
and `WantsEndWithTheirBlock`), and of course the two counterexamples.

## 6. Not modelled

Listed with reasons under `components` in `PROJECT.json`. In short: denylists and
the DNS cache, whose behaviour is that of nopfs and dnscache, which are not in
the repository: what is rainbow's own are a loop that calls them and their
options; metrics, tracing, HTTP client and version, which have no state of the
program's own; log and profiling endpoints. Of the modelled parts: the goroutine
of a listing that a collection leaves early, the memory of a No-Blockcache
request's store, the options passed on to datastores and libraries, the
grouping of HTTP endpoints by what they can do, the bytes of a key or a block,
the wording of answers.
