# A verification of mecmcp

mecmcp is a Rust workspace of libraries on which MCP servers for network devices
are built: an agent proposes a change, a person approves it, a server applies it
to a device, and an evidence trail records it. The repository holds no server;
"vendor server" below means a program built on these crates.

This directory models the parts of it that keep state while several things happen at
once: the approval gate and the operations on a device (`crates/mecmcp-changeset`), the
evidence trail (`mecmcp-audit`), sessions and admission limits (`mecmcp-transport`), and
nine smaller parts. It checks the models with TLC and proves, with TLAPS, every safety
property the runs check but one (`VerdictIsRight`). Line numbers refer to the sources at the
modelled commit.

## Inventory

| Part | State it keeps | Operations | Hard behaviour | Status |
|---|---|---|---|---|
| Change sets (`changeset.rs`, `apply.rs`, `coordinator.rs`) | map of change-set records in memory and in the state file; a guard per device | create, approve, waive (lab, operator), status, cancel, claim, apply, update, load | two callers, each reading under one lock acquisition and writing under another; writes that fail before or after the rename; deadlines; restarts | modelled: `ChangeSets` |
| Operations (`operation.rs`, `apply.rs`, `coordinator.rs`, `transaction.rs`) | map of operation records; staged handles; on the device a candidate, a running configuration, a lock | stage, diff, validate, commit, discard, resolve, load | device RPCs and file writes that alternate, each of which may fail or lose its answer; names that alias one endpoint; other administrators | modelled: `Operations` (`diff` reads only) |
| State file (`persistence.rs`) | one JSON file holding both maps | write by temporary file, rename, directory sync; validated read | a write that is done although it reports an error; one bad record refuses the file | partly, inside both modules |
| State locks, offline recovery (`state_lock.rs`, `recovery.rs`) | an owner lock and a read-modify-write lock | acquire, probe, resolve | a resolver and a starting server in two processes | modelled: `StateFile`; its result is an action of `Operations` |
| Digests (`digest.rs`, `commit_metadata.rs`) | none | hash, verify, format | - | not modelled: pure functions; their effect is in `ChangeSets` |
| Evidence recorder (`mecmcp-audit/recorder.rs`) | open segment, closed segments, bounded context map | proposal, approval, apply intent, result receipt, flush | concurrent flushes, refused spools, eviction | modelled but for hashing and signing: `Evidence` |
| Evidence delivery (`service.rs`, `sinks/`) | outbox, delivery ledger, drain thread | spool, deliver, mark, drain, start, stop | order within a run, crash between delivery and mark, torn lines, late inserts, final pass | modelled but for the forward sink: `Evidence` |
| Verification of a run (`mecmcp-audit/bin/mecmcp-verify.rs`, `evidence.rs`, `signing.rs`) | manifest, chain files, signatures, keys, device log | verify | damage that one check misses and another catches | modelled: `Verify` |
| Audit events (rest of `mecmcp-audit`) | none shared | build, redact, export | - | not modelled |
| Sessions (`mecmcp-transport/session.rs`) | active count, per-token counts, unbound and closed-before-bind sets | reserve, create, register, bind, close, reap | close before bind; clients that leave; caps under concurrency | modelled: `Transport` |
| Admission limits (`concurrency.rs`, `target.rs`, `rate_limit.rs`) | semaphores, a registry of weak semaphores, token buckets | admit, release at the end of the body, refill, evict | permits outlive handlers; registry entries reclaimed; clock readings out of order | modelled: `Transport`, `RateLimit` |
| Other transport layers | configuration | parse, check, serve | the order of layers is fixed: TLS, IP rate limit, host and origin, authentication, token rate, token concurrency, body limit, preflight, transport audit, target concurrency, handler | the preflight as refuse or pass in `Transport`; the rest not modelled |
| OIDC keys (`mecmcp-oidc/cache.rs`) | key set, time fetched, time last tried | keys | freshness, backoff, maximum age, callers dropped during a fetch | modelled: `KeyCache` |
| Job poller (`mecmcp-job`) | attempt count, interval, deadline | poll until ready | probe, deadline and cancellation in one poll | modelled: `JobPoll` |
| File transfer (`mecmcp-scp/scp.rs`) | a poisoned flag, the transfer under way | upload, download | failures that surface late, interruption while the blocking pool still works | the transfers: `Scp` |
| Tokens (`mecmcp-auth`, `mecmcp-runtime/token_cmd.rs`, `signals.rs`) | the token file; the store the server looks up | add, rotate, set_scopes, set_provenance, revoke; load, reload on SIGHUP | commands killed half way; a signal during a reload; confirmations judged on an earlier read | the file, the commands and the reload: `TokenFile` |
| HTTP client (`mecmcp-http`) | places, slots, one deadline per call, bytes in memory | send, send with backoff | dropped futures, slow bodies, deadlines in the queue, retries of what may have been done | the calls: `HttpClient` |
| Inventory (`mecmcp-inventory`) | the inventory file, its copy, the loaded map | load, reload, migrate | two migrations and a server that writes, killed at any step | the file: `Inventory` |
| Device file lock (`mecmcp-device`) | a lock file per device | acquire with deadline and cancellation | between processes | not modelled |
| Shutdown (`mecmcp-runtime`) | a latched token | trigger, wait | a waiter that comes late | not modelled |
| openapi, policy, redact, secret, server | none, or read once | parse, match, convert | - | not modelled |

How the parts interact: `apply_change_set` is where change sets and operations meet
(it claims the change set, reserves an operation, stages, and settles both records).
Both maps live behind one async mutex and are written as one file. The evidence
recorder is called after an approval or a waiver was written, and before a commit
reaches the device; the delivery service drains its outbox from a thread of its own and
at start and stop. Offline recovery shares only the state file with the server. A
request passes the rate limiter, then the permits and the session tracker; both keep
their own state. `mecmcp-verify` reads what the recorder closed, after an export. The token
commands reach a running server through the token file and SIGHUP. The key cache, the
poller, the HTTP client, the inventory and the SCP client are called by vendor servers
and share nothing with the rest.

What makes each modelled part correct:

- change sets: one approval is spent by at most one run; a change set somebody was
  told is cancelled or expired never runs; a run stands on the consent of a human
  other than the owner, or on a waiver; the file can always be loaded again; the
  trail claims nothing that was not persisted; the store respects its limits; calls
  return.
- operations: what an operation left on a device (lock, staged changes, commit) is
  always on record; the record is true; settled operations stay settled; one
  operation per endpoint; nothing is staged onto a candidate nobody observed; calls
  return.
- evidence: a change that was allowed to reach the device has its intent on disk; the
  chain of segments never forks, whatever crashed; runs arrive without holes; nothing is
  marked delivered that did not arrive; the backlog drains and a stop completes.
- sessions and permits: every slot is held by exactly one thing that will give it back;
  the caps hold; no session lives on out of the reaper's sight.
- the smaller parts: a rate is never exceeded and retry-after is honest; a resolution
  that was acknowledged stays; an outage of the identity provider neither extends the
  life of keys nor multiplies requests; a poll returns what the token and the deadline
  allow; a transfer that says Ok is whole and never exposes what it replaces; the token
  file can always be loaded, a reload is never older than the last signal, and a command
  takes or widens nothing that was not confirmed; a migration can be undone and loses no
  edit; an HTTP call is sent once, returns in time and stays within its memory; a run that
  verifies is the run that was recorded.

The hazards these answer, each at its line, are in `PROJECT.json`.

## Modules

`ChangeSets.tla` - the approval gate. `changeSets` is the coordinator's map, `file`
the same map on disk, `up` and `labMode` the process, `guard` the per-device async
mutexes, `calls` where each API call stands between two lock acquisitions. Five
history variables (`minted`, `runs`, `retired`, `consent`, `trail`) exist for the
properties. Each API call is an action that reads and decides, followed by an action
that writes: the mutex is released in between, and that gap is where the races are.
`check_change_set_write` is the write gate every update passes;
`insert_change_set` is one critical section that sweeps, evicts, persists and
inserts. A write ends "ok", "lost" (nothing written) or "unsure" (renamed, but the
directory sync failed, so the caller sees an error). A claim is the one write that is
not rolled back in memory when it fails. `VendorClaims`, `VendorRecordsTask`,
`VendorReprobes` and `VendorRendersPreview` are what a vendor server does through the
public API; they are external. A record's owner, device, deadlines, approver, waiver
and apply markers are kept; actions, digests and signatures are reduced to which
preview an approval was signed over.

`OneShotApproval.tla` - the promise without store, file, process or clock: consent,
then at most one run, none after closing. `ChangeSets` is shown to implement it with
`consented <- consent`, `ran <- runs`, `closed <- retired`.

`Operations.tla` - stage, validate, commit and discard. `ops` and `file` are the
records, `handles` the staged handles callers hold (lost in a crash), `candidate`,
`running`, `lock` and `sent` the external device. A configuration is a tag: the
operation whose actions it holds, "Base", or "Drift". The fingerprint is the
candidate's tag. One action per RPC and one per record write, in the order of the
code, so that a crash, an error or another caller falls between any two. Both ways
to stage are there (`stage_operation` and the staging half of `apply_change_set`),
with the differences of their error paths. `PersistOther` is any write of the
change-set half: it stores the operations map too.

`Evidence.tla` - recorder, outbox, delivery and service of one server over several
process lifetimes. The recorder appends records to an open segment, rolls it, and under
the flush mutex claims the closed segments and spools them (`FlushClaim`, `FlushSpool`,
`FlushRefused`). A delivery pass (`Loaded`, `ReadMark`, `SendSegment`) takes the undelivered
segments run by run, in each the oldest first (`Turn`), holds a run back after a failure
and marks what the receiver acknowledged. The code sorts by run id as well; run ids are
random strings, so that the runs may come in any order, and the model lets them. A segment
at or below the receiver's high-water mark is not sent (`Covered`). The receiver
may lose the acknowledgement or commit an insert later (`LateLanding`). The drain thread
wakes for work or for the stop (`DrainWake`). A process ends by `Crash`, by the steps of
`shutdown` (`SignalStop` to `Exit`), or by `Dropped`; its host may be rebuilt with an
empty spool. A head hash is the pair of run and sequence it stands for, a record is
whether it is an apply intent. Pending and failed ledger entries are one, backoff has no
length; the forward sink, row formats, signatures and checkpoints are left out.

`Transport.tla` - requests as processes, from the global permit to the end of the
response body; a session is named after the request that created it. Every atomic
operation and every critical section of `session.rs`, `concurrency.rs` and `target.rs` is
a step, so `fetch_add` and the roll-back of an overshoot are two. A client leaves at any
await (`Cancel`), a service task ends on its own (`WorkerEnds`), the reaper's sweep reads
the whole map at once and removes one session at a time. The order in which the
permits of several targets are taken is open; rate limits and authentication are outside.

`RateLimit.tla` - one dimension of the limiter: a bounded map of buckets behind a mutex,
asked with times that were read before it. One unit and one tick stand for the code's
10^9 units and nanoseconds per second.

`StateFile.tla` - servers and offline repairs as processes around one existing file,
with the owner lock (tried) and the read-modify-write lock (waited for). It closes what
`Operations` assumes of an offline resolution.

`KeyCache.tla` - `keys()` by several callers under one mutex held across the fetches.

`JobPoll.tla` - `poll_until_ready`, each look at the clock or the token a step.

`Scp.tla` - uploads and downloads one after another on one client. The device is
external and follows the protocol. Chunks of a file carry the number of the transfer
that wrote them.

`TokenFile.tla` - the token file, one command at a time per operator, each read, decision,
write and signal a step, and a server that loads at its start and reloads on SIGHUP
(`TakeHup` to `Swap`); signals that arrive during a reload are kept as one. A token is its
name, the number of its secret, scopes, grant and provenance. A command may be killed or
its write fail at any step.

`Inventory.tla` - one inventory file in each of its shapes, migrations as processes with
their three reads, the copy, the comparison, the rename and the change of owner as steps,
and a server that loads, reloads and adds devices. A document is its version, the shape
of `devices`, a sequence of name and payload, a policy and whether unknown keys remain.

`HttpClient.tla` - tasks on one client: the bounded queue, the slots, one deadline per
request across queue, send and body, the body limit chunk by chunk, backoff and its
total wait, and a caller that drops the future at any await.

`Verify.tla` - segments closed and signed as in `roll`, the manifest, the export, damage
to the exported files, and `verify_run`, one operator per kind of violation. A hash is the
tuple of what went into it, so that two inputs never share one.

`ChangeSetProofs.tla`, `OperationProofs.tla`, `EvidenceProofs.tla`, `TransportProofs.tla`,
`HttpClientProofs.tla`, `StateFileProofs.tla` - the theorems, each beside the module it is named
after; `FileProofs.tla` has those of `TokenFile` and `Inventory`, `PartProofs.tla` those of
`RateLimit`, `KeyCache`, `JobPoll` and `Scp`.

`MCChangeSets.tla`, `MCOperations.tla`, `MCEvidence.tla`, `MCTransport.tla` - symmetry
sets and values for TLC. `MCParts.tla` puts `RateLimit`, `StateFile`, `KeyCache`, `JobPoll` and
`Scp`, which share no state, into one specification in which one of them moves, so that
one run visits the sum of their state spaces; `MCFilesAndCalls.tla` does the same for
`TokenFile`, `Inventory`, `HttpClient` and `Verify`, and `MCCallsReturn.tla` for `ChangeSets` and
`Operations` under fairness.

Several properties are conjunctions whose parts are named in the modules:
`StoreWithinLimits` (`OnePendingPerOwnerAndDevice`, `WithinCapacity`), `LimiterIsExact`
(`AllowedWithinRate`, `RetryIsHonest`), `TransferIsSafe` (`TransferIsWhole`,
`OldContentProtected`), `SessionsAreAccounted` (`SlotsAreAccounted`, `SessionsAreCharged`),
`LimitsHold` (`SessionCapHolds`, `TargetsWithinLimit`), `ChainIsOneLine` (`ProductionOrder`,
`ChainNeverForks`), `DeliveryIsOrdered` (`RunsLandInOrder`, `DeliveredHasLanded`),
`CallsAreBounded` (`SentOnce`, `ReturnsInTime`), `MemoryIsBounded` (`BodiesWithinLimit`,
`PermitsAreExact`, and only a call with a slot has buffered anything), `TakingIsConfirmed` (`WideningIsConfirmed`,
`ClearingIsConfirmed`).

### What the models assume

- Device RPCs keep the contract in `transaction.rs`: a commit that returns an error
  did not reach the device, a lock that returns an error is not held, a failed
  `stage()` left nothing behind unless `TaintedStage` is set.
- The operator who resolves an operation offline looked at the device first, and no
  server runs meanwhile (`StateFile` shows that the locks see to the second).
- A crash may or may not free the device lock (session-bound or device-owned).
- Calls end at the cancellation points of the code; a future dropped at some other
  await by its caller is not modelled.
- Ids are never drawn twice (random identifiers).
- Timers of the HTTP client fire in the tick they are due; a tick has no length otherwise.
- Token operators take turns in the run: two at once can undo each other (see below).
- Hashes do not collide and signatures cannot be made without the key.
- Changed policy, read errors and a refusing evidence spool are early returns.

## Runs

| Run | Configuration | Shows | Distinct states |
|---|---|---|---|
| `change_set_races` | one change set, two callers, a human and a non-human principal, lab mode on or off at each start, clock 0..2 with a TTL of 1 | the safety of the gate and the refinement of `OneShotApproval` | 573,402 |
| `change_set_store` | three ids in a store of two, one owner, one caller | sweep, eviction, refusal and the failures of both writes keep one pending change set per owner and device, and the capacity, in memory and on disk | 624,521 |
| `operation_lock` | two operations in a store of one, two callers, a device lock, failed stages that leave residue, another administrator, two failed writes | lock, residue and outcome are on record and true | 568,772 |
| `operation_alias` | two names of one endpoint, two callers applying, one failed write | one operation per endpoint; nobody disturbs a staged candidate | 1,592,744 |
| `calls_return` | one change set or one operation, two callers, one failed write, fairness | every call of `ChangeSets` and of `Operations` returns | 111,068 |
| `evidence_pipeline` | two changes, segments of two records, one tracked change, two process lifetimes, one fault, fairness | order, no fork, no holes, durable intents, the backlog drains, a stop completes | 284,976 |
| `transport_limits` | three requests of two tokens, one device, one session in all and per token, in-flight limit 2, per-token limit 1 or 2 | slots, caps and no orphans | 2,040,275 |
| `separate_parts` | see below | limiter, state locks, key cache, poller, transfers | 1,852,555 |
| `files_and_calls` | see below | token file, inventory file, HTTP client, verification | 1,313,678 |
| `apply_leaves_lock`, `torn_outbox`, `inventory_lost_edit` | smallest instances | the findings below | stop at the violation |

Bounds. `MaxClock` stops the clock: 2 is past the approval deadline (1) and past the
expiry of a waiver granted until 1 or 2, so every order of a deadline and a step
occurs. `MaxFaults` bounds failed writes of the state file in `Operations`: two cover
a failed write followed by a failed repair of it; in `Evidence` it bounds failures of the
disk, the ledger, the receiver and rebuilds together. Two callers are every pairwise race
on the store, whose critical sections are serialised by one mutex. One change set is
enough for the races because nothing but capacity and the pending slot relates two
records; those have their own run, with more records than places. A store of one
operation forces the eviction. Callers, ids and names are symmetric in the safety
runs; `calls_return` uses no symmetry. `Evidence` needs two lifetimes for a restart over
an undelivered run, two changes for two flushes at once and for an eviction (one tracked
change), and segments of two records so that one is open when another closes. In
`Transport` two requests share a token and the third has its own, so that a cap is both
met and missed; a session times out after one idle tick and after two in all. The parts:
two callers, two keys and one bucket (an eviction at every change of key), two ticks to a
second, rate 1, burst 2, five ticks, six checks; two servers, two repairs, two operations,
three process ends; three verifiers, refresh and backoff 2, maximum age 4, eight ticks
(past the maximum age); deadline 5, intervals 1 to 3 doubling, seven ticks (past the
deadline); files of up to two chunks, three transfers, two permission bits and setuid, so
that an interrupted transfer, its late operations and a whole one after it all fit. The
files and calls: one token name and one secret for every command with valid and invalid
scopes, grants and provenance, three secrets beside a server so that a rotation falls on
either side of a reload; ten documents, one of each shape and one for each reason to
refuse, two migrations, two devices to add; three tasks on one slot and one place in the
queue, so that one is served, one waits and one is refused, two attempts, a timeout of 2,
a total wait of 3 and five ticks; one server with up to three segments over two runs, of
one or two records, and two changes to its files (one for three segments): three segments
are what a gap needs, two changes what a consistent rewriting of two linked segments needs.

Fairness. `Fairness` gives every call under way weak fairness on its next step: the
tokio runtime polls a ready task again, and an RPC answers or fails. Waiting for a
device guard gets strong fairness: `tokio::sync::Mutex` is first come, first served.
Requests, crashes, restarts, the clock and vendor decisions have no fairness. Liveness
holds across crashes because a crash ends the calls. In `Evidence` each flush under way,
the delivery pass, the drain thread, the steps of a shutdown and a start after a death
are weakly fair: threads are scheduled, and a supervisor restarts the server. Faults are
bounded, so the receiver is up in the end; `BacklogDrains` needs that.

In `calls_return` the fairness of each half is asked for only in the behaviours that move it.

Deadlock is checked except in `separate_parts` and `files_and_calls`, whose parts stop at
their bounds.

## Proofs

Every theorem is for all values of the constants that satisfy the named assumptions of the
module it is about; sets of requests and of ids may be of any finite size, bounds such as
`MaxClock` and `MaxFaults` may be any number. All safety properties the runs check are
proved except those listed under "Only model-checked".

| Module | Theorem | States |
|---|---|---|
| `ChangeSetProofs` | `TypeCorrect` | `Spec => []TypeOK` |
| | `ApprovalSpentOnce` | `Spec => []OneApprovalOneRun` |
| | `RetiredStaysRetired` | `Spec => RetiredNeverRuns` |
| | `ClaimsAreKept` | `Spec => []ClaimNotForgotten` |
| | `RunsWereAuthorised` | `Spec => RunsAreAuthorised` |
| | `RefinesOneShot` | `Spec => ImplementsOneShot` |
| | `FileStaysLoadable` | `Spec => []FileLoadable` |
| | `TrailStaysPersisted` | `Spec => []TrailIsPersisted` |
| | `StoreStaysWithinLimits` | `Spec => []StoreWithinLimits` |
| `OperationProofs` | `OperationTypes` | `Spec => []TypeOK` |
| | `OneStaysActive` | `Spec => []OneActivePerEndpoint` |
| | `SettledRemainsSettled` | `Spec => SettledStaysSettled` |
| | `StagedStaysUndisturbed` | `Spec => StagedUndisturbed` |
| | `ResidueStaysRecorded` | `AllOrNone => (Spec => []ResidueIsRecorded)` |
| | `RecordsStayTrue` | `AllOrNone => (Spec => []RecordsTellTheTruth)` |
| | `LockStaysRecorded` | `OnlyStages => (Spec => []LockIsRecorded)` |
| | `StagingStaysOnObserved` | `AllOrNone /\ RequiresLock => (Spec => StagedOnWhatWasObserved)` |
| `TransportProofs` | `SessionsStayAccounted` | `Spec => []SessionsAreAccounted` |
| | `LimitsStayHeld` | `Spec => []LimitsHold` |
| | `NoSessionIsOrphaned` | `Spec => []NoOrphanSession` |
| `HttpClientProofs` | `CallsStayBounded` | `HttpSpec => []CallsAreBounded` |
| | `MemoryStaysBounded` | `HttpSpec => []MemoryIsBounded` |
| `FileProofs` | `TokenFileLoads` | `TokenSpec => []FileLoads` |
| | `StoreStaysCurrent` | `TokenSpec => []StoreIsCurrent` |
| | `TakingStaysConfirmed` | `OneOperator => (TokenSpec => TakingIsConfirmed)` |
| | `MigrationStaysReversible` | `InventorySpec => []MigrationIsReversible` |
| | `EditsStaySomewhere` | `InventorySpec => []EditsAreSomewhere` |
| `StateFileProofs` | `ResolutionStands` | `FileSpec => []ResolutionHolds` |
| `PartProofs` | `PollReturnsInTime` | `PollSpec => []PollOutcome` |
| | `OutageStaysBounded` | `KeySpec => []OutageIsBounded` |
| | `LimiterStaysExact` | `RateSpec => []LimiterIsExact` |
| | `TransferStaysSafe` | `ScpSpec => []TransferIsSafe` |
| `EvidenceProofs` | `ContextStaysLive` | `Spec => []ContextIsLive` |
| | `ChainStaysOneLine` | `Quiesced /\ Spec => []ChainIsOneLine` |
| | `DeliveryStaysOrdered` | `Quiesced /\ Spec => []DeliveryIsOrdered` |
| | `IntentStaysDurable` | `Quiesced /\ "outbox" \notin TornFiles /\ Spec => IntentDurable` |

The hypotheses that are not assumptions of the models:

- `AllOrNone` is `"apply" \notin Entry \/ ~TaintedStage`: wherever `apply_change_set` is
  offered, a `stage()` that failed left nothing in the candidate. That is the contract of
  `DeviceTransaction::stage`, and `apply_change_set` relies on it: it drops the record of an
  operation whose stage failed. `stage_operation` does not rely on it, so without "apply"
  the theorems hold for devices that leave residue too.
- `OnlyStages` is `"apply" \notin Entry`. With "apply" `LockIsRecorded` is false: the run
  `apply_leaves_lock` shows how.
- `RequiresLock`: a device that is staged without a lock can be edited by another
  administrator between the fingerprint and `stage()`; no record can prevent that.
- `OneOperator`: one administrator runs token commands at a time. The commands read the
  file, ask and write without a lock, so that of two at once the second may write back
  what the first took away.
- `Quiesced`: the server answers its calls before it stops the evidence service. Without it
  a caller still inside a flush can spool after `shutdown` took the closed segments, and the
  order is lost (see the smaller disagreements below). `evidence_pipeline` assumes it too.
- `"outbox" \notin TornFiles`: an append to the outbox that fails leaves no part of a line.
  Where it may, `IntentDurable` is false: the run `torn_outbox` shows how. The chain and the
  delivery theorems hold with torn files.

The assumptions on constants are what the code's types and start-up checks guarantee:
limits are positive (`LimitsConfig::validate`, the builders of the client), a token's scopes
name known devices and its grant is one that exists, a sentinel is none of the values it
stands beside, the first document of an inventory is a document.

### The arguments

*Change sets.* None of the properties is inductive alone. Call a record unclaimed while it
is Planned or Approved. The write gate lets an unclaimed record replace only an unclaimed
one, an insert uses a fresh id, and recovery never makes a record unclaimed; so leaving
that set is permanent, in memory and on disk separately. `SpendInv` adds that what was run
or reported retired has left it in both places (`Spent`), that a terminal record in memory
has left it on disk (`SettledOnDisk`, needed because a write that reports an error is rolled
back in memory), and that only drawn ids have records (`Known`). A claim needs an Approved
record in memory, hence happens once. `Quiet`, `Told` and `StepOK` say of every action what
it does to one id; `AllQuiet` proves it of each disjunct of `Next`. `GrantInv` ties every
approval in memory, in the file and in a call's pending write to a consent that was given,
which is what `RunsAreAuthorised` and the `Run` step of the refinement need.

`PaperInv` is about the words in a record: every record loads and a Planned one carries no
approval (`Good`); a call carries the approval of the record it read, and a rendering that
does not fit the one that was signed differs from what is stored, so that the gate refuses
its write (`Linked`); what a call is about to emit, and what was emitted, the file holds as
long as it holds the record (`Papers`). With `DownInv` (no call outlives its process) it
gives `FileLoadable` and `TrailIsPersisted`. For the limits, every step but an insert only
keeps, settles or drops records (`Shrinks`), and `Room` survives that; an insert is let in
only after the sweep and the eviction made room for it.

*Operations.* `OpInv`: an id belongs to one device name and the guard is that name's, so a
call past its guard is the only one at work on its record, which is active in memory
(`WorkOK`), and whatever it writes replaces an active record by one of the same device
(`StoreOK`). Only `insert` makes a record active, and it looks at every name of the endpoint.
`DeviceInv` then relates record and device: `OnDevice` says for each operation what the
states of its records in memory and on disk allow to be locked, staged, sent and committed
on the device, `OnDeviceWork` how far the call at work may be ahead of its record.
The memory and the file are separate throughout because a failed write leaves them apart.

*Transport.* A session goes one way: created, counted, tracked, removed, uncounted, released.
`OrderInv` says that nothing is held of a session before its request created it, nor
tracked or unregistered before its registration was decided; requests never go back past
those points. `LeavingInv` says that unregistering begins after the inner session is gone
(or for a refused one), and that past its first step the session is no longer tracked.
Hence each of the one-time steps happens once, and `active` is the size of three disjoint
sets (`CountInv`): a cap checked by the value `fetch_add` returned holds because `active` is
never below the tracked and the about-to-be-tracked sessions together. `ChargeInv` is what
the token's slot needs: a reservation that may still be bound is in `unbound` and its session
is live, and clearing `unbound` with the last pending reservation clears nobody else's.
`TargetInv` says that every request holds the semaphore the registry names, so that a
semaphore made anew never coexists with a held one.

*Evidence.* `BaseInv` types the state and ties the flush mutex to the claim: at most one
flush holds segments, and the context map and its order hold the same changes, each once;
that is `ContextIsLive`. `QuietInv` says what each stage of a process's life has let go of,
with `Quiesced` that no flush is under way once a shutdown took the segments. So what was
closed and is not on disk is one queue: the claim, what a shutdown carries, the recorder's
closed segments (`Queue`). With the outbox and the receiver's rows it makes up `Known`.
`LinkInv` is about `Known` as a set: ids name segments, no two continue the same head, and
nothing known continues what the open segment will continue. `OrderInv` is about its
sequences: the queue is in order and comes after what is on disk, the last line on disk is
its newest, what the receiver holds is on disk or older than all that is, so that the head
a start resumes from is the newest there is. To both every action has one of
seven shapes (`StepShape`): a segment closes, a write moves the head of the queue
to disk or refuses it, a row lands, a process ends, a start resumes, a host is rebuilt, or
nothing known changes. `ProductionOrder` follows for the pipeline of a running server.
`DeliveryInv` adds `WaitInv`: everything older of its run that is on disk has landed before a
segment flies, and has landed or is still to be sent before one is sent. `IntentInv` follows an
intent from the open segment through the queue to a line on disk while its caller waits: a
flush that finds nothing closed answers Ok only because another flush wrote it.

*Rate limiter.* `BudgetInv` says that what a bucket holds and what was granted since any
earlier grant together are at most the burst and what the rate added since;
`AllowedWithinRate` alone is not inductive, because it does not know what is left in the
bucket. Times that go backwards refill nothing. `PromiseInv` says that the wait a refused
caller was told of fills its bucket. Products of the rate with times are isolated in lemmas
of their own.

*File transfer.* `DestInv` says which steps and which outstanding operations have a file they
may change; `CleanInv` what mode and which bytes a destination may have at each step of a
download that began with nothing outstanding; `FillInv` which of its chunks are on disk and which
one is in the blocking pool; `UploadInv` what the device has stored once it acknowledged.

*HTTP client.* `HttpInv` says for each step of a call which permits it holds, how far its
deadline lies ahead and how often it has sent; free and held permits add up (`PermitInv`).

*Files.* `TokenInv`: what a command is about to write was validated. `StoreIsCurrent` is
inductive with it. `ConfirmInv`: what a command is about to write differs from what the file
still holds only by what was confirmed, which is why the operator must be alone.
`InventoryInv`: at most one migration at a time is past `create_new` of the copy, the copy it
compared is what it read, and, while nobody edits, file and copies are the first document or
its canonical form.

`ResolutionHolds` needs to know which lock every step of a server and of a repair holds
(`LocksHeld`), that between a repair's probe and its write no server gets past waiting for
the read-modify-write lock (`ProbeStands`), and that what was read under that lock is still
what the file holds when it is written back (`CopiesAreCurrent`). `PollOutcome` compares
what was returned with the moment the answer landed; token and clock never go back, so what
a later look sees bounds that moment (`LandingInv`). `OutageIsBounded` is about the two
newest attempts; `AttemptInv` says that the recorded attempt is the newest one begun and
that no time lies in the future.

### Only model-checked

Liveness is out of the prover's reach: `CallsReturn`, `BacklogDrains`, `StopCompletes`. Of the
safety properties only `VerdictIsRight` is not proved: `verify_run` filters and sorts sequences of
records with library operators that are defined by recursion over the sequence, and what a
recursion computes for every input needs an induction the provers cannot do.

## Findings

1. `apply_leaves_lock`: `apply_change_set` drops the operation record while the device
   lock it took is still held, when `stage()` fails (`apply.rs:581`) or when the unlock
   after drift was not confirmed (`apply.rs:547`, `apply.rs:564`). `stage_operation` calls
   this "the worst of both" and avoids it. `operation_lock` shows that it does.
2. `torn_outbox`: a write of the outbox that fails part way (`ssdf.rs:313`) leaves an
   unterminated line; the requeued segment is appended to it, synced, and `apply_intent`
   answers Ok. The line cannot be parsed, so `load_outbox` fails from then on and the
   intent is not durable in any readable sense.
3. `inventory_lost_edit`: a migration computes the new document from one read of the file
   and compares the file with another (`mecmcp-inventory/file.rs:482`), so a device added
   between the two is written away by a migration that reports success, which the comment
   says the comparison prevents. `EditsAreSomewhere` shows that the copy then has it.

Smaller disagreements met while modelling, without a run:

- the change-set table of the crate's README omits `Cancelled` and `Applied -> Failed`;
- a restart leaves an Applying change set with a task handle, or claimed without one,
  Applying (`coordinator.rs:568`); the documentation of `load` (`coordinator.rs:336`) and the
  crate's README (line 164) say that it is marked Failed;
- `apply.rs:711` says the caller can commit or discard whatever became of the write, but
  the record is then Indeterminate and both calls refuse it;
- the header of `resolve_persisted_operation` (`recovery.rs:83`) says that only
  Indeterminate operations are resolved, the code resolves every one not terminal;
- the eviction in `insert` for operations is neither persisted nor undone when the insert
  is refused;
- `recovery.rs:150` says a server that loses the owner lock to a repair's probe "blocks
  here until we are done"; `coordinator.rs:473` refuses to start instead;
- `shutdown` takes the closed segments without the flush mutex: a caller still inside a
  flush can spool after it, out of order (`RunsLandInOrder` fails with `Quiesced = FALSE`);
- the comment in `remote_head` calls two unreferenced hashes "a chain that has already
  forked"; with two faults a late insert shows two for a while without a fork;
- a ledger write that fails part way, followed by one that succeeds, welds two lines, and
  `DeliveryLedger::open` refuses the ledger (`TornFiles = {"ledger"}`);
- `compute_backoff` adds 0 to 10 per cent and can pass `max_backoff`; its comments say
  "+/- 10%" and capped;
- a client that leaves after `create_session` returns its per-token reservation while the
  session lives until the reaper comes: with room under the global cap, live sessions of
  one token exceed the per-token cap meanwhile;
- `max_key_age` is measured from before the refresh, so keys are served past it by up to
  the length of a failing fetch;
- `apply_change_set` refuses every waived approval outside lab mode (`apply.rs:283`),
  although `waive_approval_operator` is documented as not requiring lab mode
  (`changeset.rs:482`): only a vendor server's own claim can run such a change set;
- the token file commands read, change and write with no lock between processes: of two
  at once one is lost, a revocation too; and the confirmation of `set-scopes` is judged on
  one read (`token_cmd.rs:335`) and the change made to another (`mecmcp-auth/file.rs:500`).
  `TakingIsConfirmed` holds for operators who take turns;
- `reload_warning` is documented as leaving the change "live before the command exits"
  (`token_cmd.rs:619`); the signal is only sent by then;
- revoke and rotate validate the references of the whole store (`mecmcp-auth/file.rs:660`),
  so a token that names a device no longer in the inventory blocks revoking another one;
  the documentation (line 811) says otherwise;
- `max_total_wait` of the HTTP client is documented as a ceiling (`mecmcp-http/lib.rs:898`);
  the last attempt may run up to `request_timeout` past it (line 1337). `ReturnsInTime`
  allows for that;
- a migration that fails after its rename (stat or chown, `mecmcp-inventory/file.rs:513`)
  leaves the file converted; line 421 says that a failed one "leaves the original in
  place". A copy left over by a killed migration blocks every later one;
- the manifest's `final_seq` is never compared, although `SegmentManifest` is documented as
  "expected head hash and record count" (`mecmcp-verify.rs:84`), and `close` gives a segment
  without records the hash it links to as its head: `VerdictIsRight` is stated for
  segments that have records. A server without a public key has its signatures unchecked
  and unreported, and the copies of the envelope in the records are not compared;
- a chmod, truncation or write that an interrupted download left in the blocking pool
  may run after a later download to the same path returned Ok and change its content or
  mode; `TransferIsWhole` holds for downloads that start with none outstanding, and TLC
  finds the violation without that condition.

## Not modelled

- Pure functions of one input: digests, canonical JSON, authorisation, policy matching,
  redaction, parsing of inventories and device logs, OpenAPI and XML conversion, claim
  checks, host-key lines. They keep no state between calls; TLC would check a copy of
  their text against itself.
- Input and output around a library: TLS, metrics, OpenTelemetry, command lines, secret
  files, SSH authentication, the assembly of the server's layers.
- Device file locks: no await lies between the kernel's grant and the guard. The shutdown
  latch is tokio-util's `CancellationToken`.
- The forward sink, row formats and checkpoints of the evidence delivery.

Of about 71,000 lines that the workspace counts as implementation, some 31,000 are unit
tests inside the source files, and most of the remaining 40,000 is the kinds of code
above. The map covers 14 per cent of all lines, which is about a quarter of the code that
is not tests, and nearly all of the code that keeps state while something else happens.

## Keeping it up to date

A change to one of the modelled files is first a change to the definitions `map` in
`PROJECT.json` names for its lines, then a run of the module's configuration, then of its
proofs: most have one lemma per action, so that a changed action reopens few of them.

What could be added, most useful first: the forward sink beside `Evidence`, futures dropped by a caller at every await of
`Operations`, and the device file locks as soon as an await lies between their grant and
their guard.
