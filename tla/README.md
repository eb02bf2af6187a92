# A TLA+ model of bitlab

bitlab is a self-hosted Stremio add-on in Go: it searches torrent indexers,
adds the chosen torrent to an in-process BitTorrent client and streams the file
over HTTP, keeps a bounded cache on disk, and has an admin console with access
keys and two-factor login.  This directory holds TLA+ modules translated from
`src/*.go`, the TLC configurations that check them, and TLAPS proofs.
`PROJECT.json` maps every definition to the lines it stands for.

## Inventory

| Part | State | Operations | Talks to | What is hard | What makes it correct |
|---|---|---|---|---|---|
| torrent engine, `engine.go` | `act` and `addLocks` under `e.mu`; `warmSem`; the torrents of the client; per-infohash add locks | `touch`, `ensure`, `evictOldest`, `Warm`, `prebuffer`, `handlePlay`, `Views`, `reapIdle`, `Close` | client library, cache sweep, store, HTTP handlers | maps change between two sections of one goroutine; pointers to deleted records; three parties drop torrents | counts and flags tell the truth; nothing is lost for ever; nobody waits for ever |
| disk cache, `cache.go` | files of `dataDir`, `media_cache` rows | `scanCache`, `planCache`, `sweepCache`, `cacheOwners` | engine (peek, drop), store, platform | plan made from a stale snapshot; removal may fail | playing and pending torrents are spared; the budget is reached when it can be |
| shared port, `portmux.go` | one listener, two bounded channels, `done` channels | `Serve`, `dispatch`, `sniff`, `Accept`, `Close` | HTTP server, torrent client | slow clients, full channels, shutdown from any side | right side, at most once; nothing blocks the other side; everything unwinds |
| second factor and sessions, `security.go` | `totp_*`, `recovery_codes` settings, sessions | `checkSecondFactor`, begin/enable/disable, session handlers | store, login | one-use codes under concurrent requests; settings written one by one | a code is used once; no half-enabled factor |
| login throttle and console, `admin.go` | `failWindow.hits` | `blocked`, `fail`, `reset`, `handleLogin`, key and settings handlers | security, store | check and count in separate sections; reset of a full map | an address over its budget waits |
| store, `store.go` | SQLite tables: keys, sessions, settings, meta cache, media cache | CRUD, expiry, pruning | everything | boundaries of expiry, several statements per operation | an expired or paused key opens nothing; caches expire |
| add-on, `addon.go`, `util.go` | `epCache`, `hints` + `hintN` | manifest, streams, episode remapping, play tokens | indexers, engine (Warm), store | counters beside a `sync.Map`; absolute episode numbers | the caches stay bounded; remapping lands on the right episode |
| indexer search, `indexers.go` | per-call channel and maps, meta cache | `searchAll`, one client per site, scoring | network, store | soft deadline, late answers, duplicates from several sites | the answer does not depend on who answered first |
| relevance, `relevance.go`; aliases, `anilist.go` | none; meta cache | title matching; alias lookup | indexers, add-on | string heuristics | - |
| WireGuard, `wireguard.go` | tunnel, netstack | parse, start, listen, dial | engine | undoing a partial start | no socket outlives a failed start |
| outbound guard, `netguard.go` | none | guarded dial | indexers | - | private addresses are not dialled |
| process, `main.go`; platform files | configuration, HTTP servers, signal handling | start, route, shut down | everything | order of shutdown | all listeners and stores are closed |
| web page, `web/` | browser | - | console API | - | - |

`PROJECT.json` lists the concrete hazards of these parts, each at its line.

## Modules and plan

| Modules | Part | State of the work |
|---|---|---|
| `Engine`, `MCEngine`, `EngineProofs` | life of a torrent | checked; every safety property proved |
| `PortMux`, `Handover`, `MCPortMux`, `PortMuxProofs` | shared port, with its abstract specification | checked; safety and refinement proved |
| `CachePlan`, `CacheSweep`, `MCCacheSweep`, `CachePlanProofs`, `CacheSweepProofs` | disk cache: the policy, and the sweep beside plays | checked; every property proved |
| `FilePick`, `Stream`, `MCStream`, `StreamProofs` | choosing a file and serving it | checked; safety proved |
| `LoginWindow`, `Console`, `MCConsole`, `ConsoleProofs` | throttle, second factor, sessions | checked; every property proved |
| `SearchMerge`, `Addon`, `MCAddon`, `AddonProofs` | list cache, episode numbers, indexer search | checked; safety proved |
| `WireGuardConf`, `Lifecycle`, `MCLifecycle`, `LifecycleProofs` | start, shutdown, restart; the tunnel | checked; every property proved but `TunnelAsWritten` |

`CachePlan`, `FilePick`, `LoginWindow`, `SearchMerge` and `WireGuardConf` hold
the pure algorithms (operators and folds, no `RECURSIVE`) of the module named
after them, which has the state.  A module of proofs extends the module it is
about and is named after it.  Worth proving next: `PeersAsWritten` for any file.
Worth modelling next: access keys with their expiry and pause, expiry and pruning
of sessions, play tokens.

## Engine

`Engine.tla` models `touch`, `activity`, `lockFor`, `ensure`, `evictOldest`,
`Warm`, `waitInfo`, the gates of `prebuffer`, the reader accounting of
`handlePlay`, `janitor` and `reapIdle`.  `Views`, the panel's list, is left out; it
creates a record for a torrent that has none, as the janitor's pass does.

*Requests.* A member of `Play` is one `handlePlay` goroutine, a member of `Warm`
one call of `Engine.Warm` with the goroutine it starts; each runs once.  `pc[p]`
says which piece of code comes next:

| `pc` | code |
|---|---|
| `start`, `sem` | arrival; `streamBusy` then the non-blocking send on `warmSem` (442-456) |
| `activity`, `touch` | the two sections of `touch` (315-323) |
| `fast`, `lockFor`, `lock` | first lookup, `lockFor`, `l.Lock()` and second lookup (326-340) |
| `mark`, `cap` | the `adding` mark; the count of torrents (341-361) |
| `pick`, `lookup`, `drop` | `evictOldest` (379-406) |
| `add`, `added`, `failed` | `AddMagnet`, then the two deferred calls (348-373) |
| `have` | `waitInfo` and the choice of a file |
| `pointer`, `register`, `stream` | `handlePlay` takes the record, counts itself in, streams (740-751) |
| `recheck`, `prebuffer` | the rest of `Warm` (464-528) |

*Atomicity.* A step is one section of `e.mu`, one client call, or one
acquisition of an add lock.  Two pairs are merged because the merged parts
commute with everything else: acquiring the add lock with the lookup after it
(nobody else can use the lock in between), and clearing `adding` with the unlock
after it.  `reapIdle` is not merged: fetching a record, reading it, dropping and
deleting are four steps.

*Pointers.* Deleted map entries never return, so "the pointer I hold is still
the mapped one" is one bit: `ptr[p]` for the record of a request, `jptr` for
that of the janitor, `live[p]` and `jlive` for torrent handles.  `Forget` clears
the bits of a deleted record, `Drop` those of a dropped torrent.  Writes through
a dangling pointer reach no modelled state.  An add lock is named by the request
whose `lockFor` allocated it, so that two lock objects for one infohash can
coexist, as they do in the code after a deletion.  Of a record that
`evictOldest` deletes while the janitor holds it, only "idle when fetched"
(`jold`) is kept: a request holding the same dead record may have stamped it, so
the janitor may find it idle or not.  Both outcomes exist in the code; the model
does not tell which requests share the dead record, and so permits a few drops
more than the code.

*External.* `torrent.Client.AddMagnet` returns the torrent already present or
adds one; `Drop` on a dropped torrent does nothing.

*Abstracted.* Bytes, rates, labels and sizes; the choice of file; HTTP ranges.
`lastAccess` is a tick of `clock`; the races on `a.size` and `a.warnedNoPeers`
(`engine.go:965`) reach a log line only.  `sweepCache`, the second user of
`Drop`, is in `CacheSweep`; the idle watcher is in `Stream`, here it is one of the
reasons for which `PlayEnd` may happen at any time.

### Runs

| Run | Shows |
|---|---|
| `engine` | `TypeOK`; `ReadersExact`: the count of a mapped record is the number of plays streaming through that record, despite deletion and re-creation between increment and decrement; `AddingHasOwner`; `WarmSlotsExact`; `CondemnSparesReaders`; `OnlyReapOrphansReaders` |
| `engine_live` | `EnsureReturns`, `WarmEnds`, `IdleIsReaped`, `RecordComesBack` |
| `engine_evict`, `engine_reap`, `engine_add` | three comments of the code that do not hold, below |

*Bounds.* Two plays and a warm, two infohashes, one place in the client, one
warm slot.  Two infohashes are the victim and the newcomer; two plays can share
an infohash or compete; the warm is the third adder.  `MaxClock = 2` with
`IdleTimeout = 1` lets a record be fresh, idle within the timeout, and idle
beyond it.  `engine_live` has one play and one warm: the second request is
what takes the place, the lock or the record of the first.  With two requests
`EnsureReturns` hardly tries the loop of `evictOldest`: the entries they can
create under it are two.  Requests of one kind
and infohashes are symmetric in the safety runs; the liveness run uses none.

*Fairness.* Every goroutine that can go on does (weak fairness of `Ensure`, of
the rest of `Warm` and of the janitor); `waitInfo` and `prebuffer` carry
timeouts; the clock ticks up to its bound.  An uncontended Go mutex is
granted, and here a holder of an add lock always releases it, so weak fairness is
enough with a handful of requests.  Arrivals, accesses and the end of a stream
have no fairness: nothing makes a viewer stop.

### Proved (`EngineProofs`)

For all finite sets of requests, every set of infohashes and every limit:
`TypeOK`, `ReadersExact`, `AddingHasOwner`, `WarmSlotsExact` are invariants, and
`CondemnSparesReaders`, `OnlyReapOrphansReaders` hold of every step.  The only
assumption is `EngineAssumption` (finite sets of requests, plays are not warms,
limits are naturals).  The inductive invariant `IInv` adds to the four invariants

- `Locals`: what a control point says of a goroutine's variables.  Needed so that
  `readers--` is known to reach the record the play counted itself in on
  (`ptr[p]` implies that `ih[p]` is mapped), and so that `Forget` is applied to
  an infohash;
- `MarkedIsMapped`: an unmapped infohash carries no mark, so that a fresh record
  starts unmarked.

`ReadersExact` gives that a registered play is counted (`ReaderIsCounted`), hence
the decrement stays in `Nat`; `WarmSlotsExact` gives the same for the semaphore.
Each preservation lemma has one step per action; actions that touch neither side
of an invariant go through an `...Untouched` lemma.  The two action properties
follow from the invariant: `readers = 0` means nobody is registered
(`UncountedUnread`).

One ensure at a time adds an infohash, unless an entry of `addLocks` is deleted
under a waiter: then a newcomer allocates a second lock.  `OneAdderWhileLocksStay`
says so, with the hypothesis `[][LocksStay]_vars` that no step deletes an entry;
`evictOldest` and `reapIdle` are all that can break it.  Its invariant `OneLock`
says that whoever waits for or holds an add lock has the mapped one of its
infohash, and that at most one holds it.

Model-checked only: the liveness properties, which need `ENABLED`.

### Where comments and code differ

- `engine_evict`: "Drop the least recently used torrent that nobody is reading"
  (`engine.go:363`).  The victim is picked under `e.mu` and dropped after it; a
  play that registers in between is cut off.
- `engine_reap`: "drops torrents with no readers" (`engine.go:940`).  The same
  between `reapIdle`'s reading of the count and its `Drop`; the play's new
  record is deleted too, which is why `OnlyReapOrphansReaders` names `reapIdle`
  as the only exception.
- `engine_add`: "eviction must never pick this torrent or delete its lock from
  under the add" (`engine.go:341`).  The mark is set on a record that exists; one
  evicted between `touch` and the mark leaves the add unmarked, and a record made
  afterwards is unmarked as well.

Not claimed and not true: that the client never holds more than `maxTorrents`.
The check and the add are separate steps under per-infohash locks, and
`evictOldest` reports success even if its victim was dropped by someone else
meanwhile.

## Shared port

`PortMux.tla` models `Serve` with its backoff, one `dispatch` per connection,
`sniff` byte by byte, the channels and `Close` of both `chanListener`s and of the
mux.  `Verdict` is the decision of `sniff` on the bytes read so far.  What a
client will send is chosen when it is accepted; being slow is `SniffTimeout`, the
read deadline or the client closing.  `prefixConn` replays the bytes
read, so a connection handed over is whole and is modelled by its identity.  A
select with several ready cases may take either.

`Handover.tla` is the abstract specification: each accepted connection goes to
the side its bytes belong to, at most once, or is closed.  `Belongs` says which
side that is from the whole stream, without `Verdict`; `ImplementsHandover`
checks the refinement under the mapping at the end of `PortMux`.

Run `portmux` checks `QueuesExact`, `NoOverread` (no byte is read beyond the
deciding one), `ImplementsHandover`, `ShutdownUnwinds` from any of the three
closers, `SniffEnds` and `WebNotBlocked`.

*Bounds.* Two connections, channels of one instead of 64: two connections to one
side fill it.  `Byte` is the few bytes that the streams are made of.  Methods of two and three bytes sharing an opening, a handshake of
three, limit three: every order of "matches", "cannot match" and "limit reached"
occurs (`MCStreams` lists one stream for each).  The methods and the handshake
of the code differ in length only.  Deadlock is not checked: once shut down, the
system rests.

*Fairness.* Goroutines run, deadlines expire, the HTTP server accepts; the torrent
client is *not* assumed to accept, so `WebNotBlocked` holds beside a full torrent
channel.  `SideStops` has weak fairness although a queue may be non-empty: Go
chooses uniformly among ready cases.  A connection queued when its side stops
stays in the channel, neither served nor closed; `ShutdownUnwinds` is about the
loops only.

### Proved (`PortMuxProofs`)

For any connections, bytes, methods, handshake, streams and capacity, from
`PortMuxAssumption` (the capacity is positive; no method is empty or longer than
the limit; the handshake is not empty and no method begins with its first byte,
as in `portmux.go`): `TypeOK`, `QueuesExact`, `NoOverread` and
`ImplementsHandover`.  The inductive invariant is `IInv == TypeOK /\ QueuesExact /\
SniffMore /\ Stages`: `SniffMore` says that every byte before the last one read
left `Verdict` at "more", `Stages` that a side, once chosen, is the one `Belongs`
names.  What ties them together are lemmas about prefixes: `Belongs` looks at the
whole stream, `Verdict` at an opening of it, and a verdict other than "more" is
that of every longer opening.  `NoOverread` is `SniffMore` read at the last byte.
The refinement has one lemma for the initial state and one case per action, each
a step of `Handover` or a stutter; the invariant is needed in `send`, where the
side must be the right one, and in the accept, where the connection must be taken
from the channel it is in.

## Disk cache

`CachePlan.tla` is `planCache`: `Protected`, `Expired`, and the two loops as folds
of `RetentionStep` and of `PressureStep`, whose `stop` is the `break`.
Sizes and times are small integers, and `sort.Slice`, which is not stable, may
leave ties in any order (`Orders`).  `MeetsPolicy` says without loops what the
comments promise: all that expired goes, nothing protected, and of the rest the
least recently used as long as there is pressure and no longer.

`CacheSweep.tla` is `sweepCache` beside plays.

| `spc` | code (`cache.go`) |
|---|---|
| `idle` -> `owners` | `scanCache`: names, bytes, newest file |
| `owners` -> `peek` | `cacheOwners`: "owned", "pending" or "orphan" |
| `peek` | `peekActivity`, one owned entry at a time; then the probe and `planCache` |
| `apply`, `remove` | for each decision `Drop`, then `removeAll`, which may fail |
| `forget`, `forgetMedia`, `next` | record and lock under `e.mu`, then the row |
| `apply` -> `idle` | the new `e.stats` |

The pieces of a play that matter to it are those of `ensure` that touch the same
state (`Ask`, its touch; `Lookup` with `lockFor`; `Add`, or `AddFails` at the cap or
on `AddMagnet`'s error), the metadata, `SaveMedia`, `Register`, `Progress` and
`PlayEnd`; `ptr` and `live` are the bits of `Engine`.  A failed removal leaves any
part of the entry, down to the bare directory (`Remains`).  `disk` is what `scanCache` can know of a directory.  The
sweep starts whenever it is idle, which covers `runSweeper`'s ticker.

Run `sweep`: `PlanMeetsPolicy` on every plan a sweep makes;
`RemovalSparesEarlierStreams`, the sense in which a stale plan is safe (a play
registered after its entry was looked at can lose its files, and the model has
such behaviours); `LocksKeepRecords`: an entry of `addLocks` has a record beside
it, through which `evictOldest`, the janitor or a sweep will delete both, also after
failed adds and removals; `StatsMatchDisk`: no more is counted as evicted than went,
and if nothing was written meanwhile the published numbers are the disk's.

An add that fails leaves lock and record, and so does a failed removal of a torrent
that was dropped first.  The next sweep takes such a directory for an orphan, removes
it, and does not know its infohash: the row stays until the torrent is evicted after
another play, record and lock until then or until `evictOldest`, at a full client,
comes past them (the janitor visits only torrents of the client).  Neither of the two
is in this module.  The exception in `LocksKeepRecords` is a behaviour of the code: a
sweep that forgets a torrent between an ensure's touch and its `lockFor` leaves that
ensure a lock without a record, until the next touch.  The exception in
`StatsMatchDisk` is one too: what a failed removal took of an entry stays in the
published bytes until the next sweep.

*Bounds.* One torrent and two foreign names of one or two bytes and any age, two
configurations: both pressures at once, with different end points, and retention
with a negative grace.  Two sweeps, so that the second meets what a failed removal
of the first left; two ticks after the first instant, so that an entry can
outlive a retention of one.  One play is the party the sweep can hurt; plays do
not use each other's state, and two records per infohash are `Engine`'s subject.
Deadlock is not checked: clock and sweeps are bounded.

The comment at `cache.go:209-212` says that a torrent without metadata "still
owns its directory: media_cache remembers the infohash".  The row is written when
the metadata is there, so on a first play there is none, and the directory is an
orphan until then.

### Proved (`CachePlanProofs`, `CacheSweepProofs`)

For any finite sets of plays and names, any configurations, sizes and number of
sweeps, from `SweepAssumption` (finiteness; the volume is an integer, a full
entry a natural number): all four properties of the run.

`CachePlanProofs` is about the two loops for any sequence of units and any
policy.  `FoldLeft` is a recursion over sets behind a `CHOOSE`; `FoldSteps` turns
it into a function of the position, and facts about every position follow by
`Induction`, which takes a set of numbers and rests on its least element, since
the library's induction theorems take an operator and cannot be used.  In the same
way a sum over a finite set is shown not to depend on the order in which it is
taken (`SumsAgree`).  `PlanSparesProtected`: nothing protected is planned.
`PlanPolicy`: the plan meets the policy as `MeetsPolicy` states it without loops,
and names no unit twice.

`CacheSweepProofs` has two invariants.  `SweepInv` is `Types`, `Finite`, `Leaks`
(`LocksKeepRecords`, and that an ensure comes to `lockFor` with the record it
touched, unless a sweep took it), `Registered` (a mapped record counts its streams), `Held` (a
play past `waitInfo` whose handle is live has the metadata), `Seen` (the unit of a
stream that was there when its entry was looked at has a reader) and `Spared`
(what is planned has none).  It gives `LocksKeepRecords` and
`RemovalSparesEarlierStreams`.  `CountInv` is `Amounts`, `Entries`, `Books`, `Grown`
and `Undisturbed`: an entry still to be removed is no smaller than it was scanned,
what was counted is no more than what went, and as long as nothing was written since
the scan, the directory is the scan less what went.  It needs `PlanPolicy` (no entry is removed
twice, and only scanned ones) and the lemmas `OneGone` and `OneTorn` on what one
entry less, or less of one, does to each sum, and gives `StatsMatchDisk`.  `PlanMeetsPolicy` is `PlanPolicy` at the
step that makes the plan.

## Serving a file

`FilePick.tla` has `chooseFile`, `chooseFileForEpisode`, `chooseFileForTitle` and
`fileSignal`.  What the code finds in a name by regular expressions is an
attribute of the file: a video or not, a sample, the episode stated as a title
would, the bare number at the head, the set of words.

`Stream.tla` is `handlePlay` from the choice on: `Choose`, `Sniff`, `Refuse`,
`Serve` (`ServeContent`'s probe and seek through `sizedReader`), then one `Read`,
`WriteBegin`, `Write` after the other, and the watcher in three steps (the idle
finding, the deadline, the cancellation).  A read returns if the swarm gives
bytes, a write if the player reads; both may stall for ever.  Time is kept as
ages that stop at `MaxAge`; a deadline counts down.  `silent`, the only history,
is the age of the last byte moved.

Run `stream`:

- `ServedFits`: a served file is never one that states another episode, states
  the episode when one does, and has most of the telling words of a title;
- `ServedIsRange`: the bytes written are the range asked for, in order, and are
  what is billed; the two positions, of `sizedReader` and of the torrent reader,
  agree where it matters;
- `ExpiryNeedsSilence`: no stream is expired that moved a byte within the idle
  limit less the two seconds of the throttle;
- `StalledEnds`, `GoneEnds`: liveness of the watcher and of a departed player.

*Bounds.* Torrents of up to four files chosen for the branches of the choosers (a
pack with and without the episode, bare numbers against stated ones, a sample, an
extra, more than three silent videos, an empty torrent, a tie); files of up to
three chunks, ranges of every start and length; two idle limits that the console
switches between.  `MaxAge` is no less than the greatest limit.

*Fairness.* Time passes, the goroutines run, and a call that can only fail does.
Neither the swarm nor the player ever has to do anything.  The sniff ends when the
request's context does (`engine.go:753-758`); no watcher runs during it, so a
player that stays and a swarm that is silent hold it, which `GoneEnds` does not
exclude.  The comment at `engine.go:851-853` says that the size probe is
answered "arithmetically"; `sizedReader.Seek` does move the torrent reader to the
end and back, which is what `SeekTo` does.

### Proved (`StreamProofs`)

For any torrents, questions and ranges, from `StreamAssumption` (the throttle is
positive and less than every idle limit) and `RequestAssumption` (files are
sequences with sizes, hints are finite): `ServedFits`, `ServedIsRange` and
`ExpiryNeedsSilence`.  The choosers compare by sizes and by counts of words, so
`PickFits` rests on lemmas that a finite set of numbers has a greatest one;
`FileInv == Types /\ Chosen /\ Untouched /\ Copied` carries its conclusion to
the first byte, and from then on says that both readers stand behind what was sent
and what is in the buffer.  `AgeInv` bounds the age the watcher sees by the
last refresh of either side, and `seen <= silent + Throttle - 1` is what the
throttled refresh can hide.  The throttle has to be positive: with none the bound
is off by one tick.

## Console

`LoginWindow.tla` is `failWindow`: `blocked`, `fail` with its two-stage pruning,
`reset`, each one section of its mutex.

`Console.tla` is the requests of the console that sign in or out or change the
second factor, each a process with the points at which the code calls the store
or takes `totpMu`:

| `pc` | code |
|---|---|
| `new`, `password` | `blocked`; the password; what the request then asks first |
| `lock`, `last`, `recovery`, `spend`, `refuse` | `checkSecondFactor` under `totpMu`: read, compare, write |
| `begin` | `handle2FABegin` after its look at the flag |
| `write` | one setting of `handle2FAEnable` or `handle2FADisable` at a time, no mutex |
| `others`, `create`, `logout`, `revoke`, `revokeOthers` | the sessions |

A code is `<<0, step>>` (TOTP) or `<<secret, k>>` (recovery); what verifies is the
step's window.  `SetSetting`, `DeleteSetting` and `DeleteOtherSessions` may fail
without the handlers looking (`StoreFails`); `checkSecondFactor` does look
(`Refuse`).  A read may fail too, and `GetSetting` then answers with the default
(`ReadFails`).  `Restart` loses everything but settings and sessions.

What such a failed read lets through is in the model, and the properties except the
requests it misled (`misled`) and nothing more: a login that could not read the flag
or the secret gets its session without a second factor, and a code whose last step
could not be read is compared with none, so a spent one is accepted again, and the
last step it writes may be older than the one there was.  The failing read of
`session_secret` at a start (`main.go:199`), after which every cookie is void, is left
out with the cookie's MAC.

Run `console`:

- `OneUse`: no code is accepted twice, also across restarts and failing writes,
  unless enable, disable or a misled request rewrote what it is compared with, and
  but by a misled request;
- `TurnsOnSpent`: unless a change overlapped another or the spending of a code, was
  cut off or lost a write, the factor turns on with its code already spent;
- `SessionsMeetFactor`: after an enable that ran to its end, every session has
  passed a factor, but for logins let through before it or misled;
- `BlockedStays`: only time, a success of the address, a restart or the overflow
  of the map unblocks an address;
- `TypeOK`, with the mutex held only inside `checkSecondFactor`.

`proved`, `strad`, `misled`, `whole`, `swept` and `accepted` are history.  The exceptions in
the properties are behaviours of the code: enable may overlap enable, and the
slower one sets the last step back; a login that saw no factor finishes after the
others were signed out.

*Bounds.* Three requests, two of one address, of any kind; two periods, which with
the window of one on either side gives three steps; two secrets, so that a second
begin replaces the first; one fault, a restart or a failing read or write of the store; a limit of one failure and a map of one
address, so that blocking and overflow both occur.  Requests of one address are
symmetric.  Deadlock is not checked: every request is served once.

### Proved (`ConsoleProofs`)

For any number of requests, addresses, secrets, periods and faults, from
`ConsoleAssumption` and `WindowAssumption` (the limit of failures is positive): all
five properties of the run.  The inductive invariant is `IInv == TypeOK /\ Todo /\
Codes /\ Passed /\ Serial`.

- `Codes`: every accepted code is one the settings no longer let through, and a
  request about to spend one has read a value that holds no accepted code, or is
  misled.  The
  second half needs the mutex, which `TypeOK` ties to the control point.
- `Passed`: after an enable has run to its end, sessions *and logins about to get
  one* passed the factor or are excused.
- `Serial`: while changes come one after the other, the list of writes that is
  left is the tail of that of an enable or of a disable, and the settings are as
  that place in the list says.  The first attempt at `TurnsOnSpent` failed here: a
  code spent by a login between two writes of an enable overwrites the last step.
  The exception for it is in the property, and `Spend` clears `whole`.

`BlockedStays` is about the loop of `blocked()`, a fold again: `LoopTurns` makes
it a function of the position, `KeptIsRecent` says that what is kept lies in the
window, `RecentIsKept` that a second look takes nothing more away, `AppendKeeps`
that one failure more leaves no fewer.  `PrunedHits`, `FailedHits` and
`ResetHits` lift this to the map, which `Throttled` says is a finite one of
sequences of times.

## Search

`SearchMerge.tla` is what `searchAll` makes of its answers (`Merge`, `Matching`,
`Sorted`, `DropDead`, each a fold as the code's loop is, and the cut) and
`remapEpisode`.  `IsBestOf` says the same without the order in which the answers
came.

`Addon.tla` is `handleStream`: the title, the list cache with its counter
(`Count`, `Clear`, `Reset`, `Keep` are separate because a `sync.Map` and an atomic
are), `fixEpisodeNumber`, and the search: one goroutine per source that answers
and sends into the channel, and the handler that waits for all or for the soft
deadline, drains without blocking and answers.  Requests come again and again.

Run `search`:

- `AnswersBest`: the list is the best of what was heard in whatever order, and an
  undisturbed search heard everyone;
- `SourcesEnd`: every source ends, also those nobody listens to;
- `EpisodesBounded`: with concurrent clearings the list cache holds at most
  `EpCap` lists for each request that may be under way, for ever;
- `EpisodeRemapped`: with its list at hand, a request keeps its number or leaves the
  first season for the episode in that place of the show; it keeps it as far as the
  season runs without a gap, and leaves it when the number is past the season's last.

`Fits`, the episode filter, keeps a release that says nothing of an episode, and with
it a pack of the right season, whose signal is 0 (`indexers.go:863-866`); a film,
`<<0, 0>>` here, is not filtered.

`search_filter` shows a comment that does not hold: "If we know which episode we want
and some release matches it, drop the ones that are clearly a different episode or a
season pack" (`indexers.go:177`).  The loop below it drops them whether or not any
matches, so that nothing may be left, and packs of the right season stay.  `AnswersBest`
follows the code.

Close to a comment, but no run of its own: "remapEpisode treats ep as an absolute
number when it cannot fit the season it was filed under" (`addon.go:126`).  The code
counts the season's entries and does not look for the number: over a list S1E1,
S1E3, S2E1 a request for S1E3, which is listed, becomes S2E1.  `EpisodeRemapped` says
where a number may go and when it must stay, and allows that.

*Bounds.* One request searches, the other only uses the list cache with it, as two
searches share nothing.  Three sources of two kinds, one of which takes one query
only; three worlds (one release three times with different seeders and scores;
dead beside living and a tie; all dead and more than the list holds); a list of
two rows for 40, a list cache of two for 4096 and five titles, so that two requests
can take it past its own bound: one title without episodes, one whose first season is
not 1, one with a gap in the first season, one that names an episode twice.
`ChanCap` is the product of the code, with the number of names; that `queriesFor`
takes six of them at most makes no difference below six.

*Fairness.* Handlers go on; every source has a timeout of its own.

`dropDead` and the cut at 40 come before `filterRelevant` (`indexers.go:174-195`,
`addon.go`), so irrelevant rows can take the places of relevant ones; no property
is about that.  The hints (`addon.go:291`) have no bound that holds, although the
comment at `addon.go:405` puts them beside the list cache: their counter counts
overwrites, and concurrent clearings decrement it for one key twice.

### Proved (`AddonProofs`)

For any finite set of requests and any titles, sources, queries and answers, from
`AddonAssumption`, `EpisodesAssumption` (numbers of episodes are positive, and lists in order of
season, as `resolveMeta` sorts them) and
`ResultsAssumption` (the list has a row; seeders and scores are numbers, a score
standing for its place in the order of the `float64`s: a source that reported less
than -1 seeders, of which `math.Log1p` is not a number, is left out).

- `EpisodesBounded`, with `ListInv == ListTypes /\ CountedFirst /\ Room`.  `Room`
  counts what the requests between clearing the map and resetting the counter
  can still cause: each of them sets the counter back once, and `EpCap` lists
  more may come.  The proof showed that the bound first written down, `EpCap`
  lists and one for each request, is wrong; the instance then had too few titles
  to reach it.
- `EpisodeRemapped`, for every list, gaps and repetitions included.  The places of the
  first season are the first ones of the list (`SeasonFirst`), so that a number beyond
  their count lies in a later season; a season that has all numbers up to the one asked
  for has no fewer places (`SeasonReaches`), and one that names nothing twice and ends
  below it has fewer (`SeasonEnds`).  `RemapSettles` puts them together.
- `SendersNeverWait` and `UndisturbedSearchHearsAll`, which no run states: the
  channel has a place for every source, so that a source nobody listens to can
  still end, and a search that no deadline cut off has heard them all.  `SearchInv`
  counts what lies in the channel and what is still to come.
- `AnswersBest`, with `MergeInv`: the results merged are `Merged` from what was
  heard, a best copy of every release and one of each.  `Merged` does not mention
  the order of the answers, and `MergeOne` shows that one more result keeps it.
  `MatchingPicks`, `SortedPicks` and `LivePicks` say what the other loops keep
  (`Picked`: every result in question once, `Ordered`: by score), `Drawn` puts them
  together, `RankedIsBest` cuts the list.  All rest on `LoopTurns`: a fold over a
  sequence has a state before and after each of its turns, obtained from the
  definition of `FoldLeft` by induction over the number of turns (`Induction`, from
  the least element of a set of numbers).

## Lifecycle

`WireGuardConf.tla` is `ParseWireGuardConfig` as a fold over lines, and `ToUAPI`.
`PeersAsWritten` reads the file section by section instead.

`Lifecycle.tla` is the process: `Boot` (`loadConfig`, the store), the stored
settings, the steps of `NewEngine` (tunnel, device, media directory,
`migrateCacheRoot` one rename at a time, the client), listening, streams, the
signal, `Shutdown` with its ten seconds, the deferred closes; any step may fail
where the code has an error path, and the process may be killed at any point and
is started again.  `open` is the set of what it holds; `at` is where each copy of
a name left by older releases has come to.  A setting of `handleSettings` is
changed in two steps, live and stored, by concurrent requests.  The store may fail:
at a start `GetSetting` then answers that there is no value (`ReadSettings`), a change
is not stored, and `AddKeyBytes` drops the error of its write (`CountFails`).
`BaseClientConfig` is what the client opens of its own: with a tunnel no sockets for
peers, but `DisableWebtorrent` stays false (`engine.go:81`), so WebRTC to the peers of a
ws or wss tracker, which only `BITLAB_TRACKERS` can name, uses the host's network.

Run `lifecycle`:

- `StartWholeOrNothing`: a failed or closed engine holds nothing; one that serves has
  its tunnel if it found a configuration, and then no way round it for peers but WebRTC
  where the operator named a tracker for it;
- `TunnelAsWritten`: the device was told every peer of the file, with the keys and
  addresses of its own section;
- `FirstAndLatestKept`: the repeated move loses neither the first nor the latest
  copy of a name;
- `CountedUnlessLate`: a stream's bytes reach its key, or an open store refuses
  them, unless the stream outlasts the shutdown or the process is killed;
- `SettingsAgree`: when no change is under way, the running value and the one of the
  next start are among what the last changes to overlap asked for (`asked`), so after
  one alone they agree; unless one was not stored or could not be read.

*Bounds.* Three starts, a directory and a file left up to three times each (the
second goes to `-migrated`, the third meets it), one stream, two changes
of a setting with three values, one of them the environment's; a configuration unset,
inline, in its default place or in a file the operator names, of one full text and
three that do not parse.  The changes are symmetric, and so are the other two values.  Deadlock
is not checked: the last process ends.

The move knows a copy by the name it was left under: a name that already ends in
`-migrated`, and collides with what another was moved to, is left out.

What the model contains and no property excludes: a directory left a third time
cannot be renamed onto `-migrated`, and every start fails from then on.  A
configuration file of another name than `wireguard.conf`, kept in the data
directory, is moved into `media` by the first start although the comment at
`engine.go:266-267` speaks of engine state being left alone; its name is then taken
for the configuration itself, and every start fails.  A file that is there but
unreadable leads to a start without the tunnel, with an error printed.

### Proved (`LifecycleProofs`)

For any names, copies, configurations, streams, changes, values and number of starts,
from `LifecycleAssumption` (the environment's value is one, and "none" is not): `StartWholeOrNothing`,
`FirstAndLatestKept`, `CountedUnlessLate` and `SettingsAgree`.  The invariant is
`LifecycleInv`: `Types`, `Opened` (what is open at each point of the start, with and
without a tunnel, and WebRTC only with a tracker for it), `Accounts`, `Pending` (what
was asked for covers the running value and every value yet to be stored, and once
nothing is, what the next start reads),
`Numbered` and `Placed` (where the copies of a name
can be: the first in `media` or waiting, the later ones aside, each in the place of
the one before it).

## Model-checked only

- The liveness properties: `EnsureReturns`, `WarmEnds`, `IdleIsReaped`,
  `RecordComesBack`, `ShutdownUnwinds`, `SniffEnds`, `WebNotBlocked`, `StalledEnds`,
  `GoneEnds`, `SourcesEnd`.  Weak fairness needs `ENABLED`, which the provers do not
  handle.
- `TunnelAsWritten`: the parser's fold could be treated as the loops of `planCache`
  are, but `SelectSeq` and `CHOOSE` over the lines of the reference definition
  `PeersAsWritten` give the provers nothing to hold on to.

Facts about folds are otherwise proved, as described under "Disk cache" and
"Search".  The
modules `CacheSweep`, `Stream`, `Addon` and `Lifecycle` state no type invariant of
their own; the types of their variables are the first conjunct of the invariants
in their proof modules.

## Not modelled

See `components` in `PROJECT.json`.  Access keys, play tokens and their checks,
expiry and pruning of sessions, the cookie's MAC, the hourly purge and the password
bootstrap: single calls without concurrency of their own, the first candidates for
an extension.  Tracker hints: no bound holds, above.  Out of scope: the relevance
heuristics, per-site parsers, `scoreResult` and alias folding (string data
extraction, no state), SQL text and schema, address predicates and dialers,
platform probes and the browser page.

## Running

    tlc -config Engine.cfg MCEngine.tla        (EngineLive, EngineEvict,
                                                EngineAdd, EngineReap)
    tlc -config PortMux.cfg MCPortMux.tla
    tlc -config CacheSweep.cfg MCCacheSweep.tla
    tlc -config Stream.cfg MCStream.tla
    tlc -config Console.cfg MCConsole.tla
    tlc -config Addon.cfg MCAddon.tla          (AddonFilter)
    tlc -config Lifecycle.cfg MCLifecycle.tla
    tlapm EngineProofs.tla                     (PortMuxProofs, CachePlanProofs,
                                                CacheSweepProofs, StreamProofs,
                                                ConsoleProofs, AddonProofs,
                                                LifecycleProofs)

Every property of a passing run has a mutant in `PROJECT.json`: a definition of
the model replaced by one with a plausible bug (the definitions commented
"Mutant of ..."), under which the run reports that property violated.
