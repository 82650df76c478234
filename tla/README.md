# Verification of the pixelplus provider gateway

TLA+ models, TLC configurations and TLAPS proofs for the gateway under
`src/apps/gateway`: a Go service that lets a Tenant's clients run image render
jobs and chat completions on the Tenant's own provider accounts. Paths below are
relative to `src/apps/gateway/internal` unless they begin with `src/`.

1. [Inventory](#1-inventory) - parts, state, operations, what is hard
2. [Modules](#2-modules) - what models what
3. [Runs](#3-runs) - what TLC checks, within which bounds
4. [Proofs](#4-proofs) - what TLAPS proves, and how
5. [Divergences](#5-divergences) - where code and documentation disagree
6. [Plan](#6-plan) - what comes next

## 1. Inventory

One process runs an HTTP server and one job consumer
(`src/apps/gateway/cmd/gateway/main.go`, `composition/runtime.go`). Two
processes may run on the same files: a standby waits on the render ledger's lock.
Handlers of one process run concurrently; every store serialises its own calls
and none spans two of them, so between two store calls of a handler anything else
may happen. That is the source of almost every hazard below.

| Part | State | Operations | What is hard | What makes it correct |
|---|---|---|---|---|
| Render job store (`domain/render.go`, `infrastructure/persistence/render.go`) | one row per job: lifecycle, attempt, commit status, fence and lease, manifest, entries, markers | Create, ClaimWorker, RenewWorkerLease, ObserveAttempt, Transition, CaptureManifest, PlaceOutput, Cancel, Mark... | the legal calls of several workers in any order; fields that are kept twice | only legal edges; a stale fence changes nothing; a row that can be restored |
| Render execution (`application/render.go`, `infrastructure/vault/render_authorized.go`) | an invocation's local attempt, fence and verdict; a heartbeat goroutine | ExecuteJob, recovery without render, cancel, cleanup | crash and takeover anywhere; cancel against capture; honest verdicts | the payload is sent once; no verdict claims more than is known; jobs end and are cleaned up |
| Output placement (`application/render.go`, `persistence/render_staging.go`, `persistence/asset.go`) | staged bytes, holds, committed Assets, delivery state per entry, purge debt | placement loop, RetryRenderJobOutput, purge sweep | three stores without a transaction; retries next to workers; the cap | available means stored; usage counted once, never over the cap; staged results not lost |
| Render creation and replay (`application/render.go`, `domain/replay.go`) | replay claims, admission reservations | Create, replay, ReconcileReplayTerminals, RecoverQueuePublications | a crash between claim, admission, row, completion and publication | one job per key; one occupancy per job; every durable job gets delivered |
| Render ledger (`persistence/render_file.go`, `render_lock_*.go`) | append-only JSONL file, each process's cursor and memory image, an OS lock | reload, append, restore | two writers; torn or invalid records | every process sees the one history |
| Job runtime (`infrastructure/jobs/runtime.go`) | pending references, what was ever published, closing flag | Enqueue, Run, Close | re-arming while running; closing while enqueuing | at-least-once delivery until the process ends |
| Supervision (`composition/runtime.go`, `main.go`) | readiness, worker loop | startup, RunWorkers, drain, Close | a handler error ends the process | startup repairs what a crash left |
| Provider accounts (`application/provideraccount*.go`, `domain/provideraccount.go`, `persistence/provideraccount.go`) | account row: lifecycle, active and pending credential version, OAuth marker, revision | connect, validate, disable, enable, delete, controls | several flows rewrite one row under optimistic fences | disable wins; no version lost or revived |
| Credentials (`application/credential.go`) | vault versions, pending version | submit, probe, activate, retire, reauthenticate | a probe's result against concurrent rotation | only a validated version becomes active; a retired one is never used |
| OAuth (`application/oauth.go`) | one authorization per account, one-shot material | start, poll, expire | two polls, one material | one settlement per authorization |
| Health (`persistence/health.go`) | conditions per scope and credential version, one recovery permit | observe, cooldown, claim, resolve, renew, controls | late evidence about old versions; permit against reset | a permit is used once, on the condition it was taken for |
| Capability (`application/capability.go`) | snapshot per account and version | mint, read, expire | snapshot against version change | no operation on evidence of another version |
| Routing policy (`application/routing.go`, `persistence/routing.go`) | one revisioned policy per Tenant | read, replace | candidates change after the check; O_EXCL lock file | no lost update |
| Chat (`application/chat*.go`) | replay claim, reservation, execution registry, residual holds | complete, stream, cancel, settle, drain | cancel, disconnect and terminal race | one terminal event; one settlement; held while work survives |
| Asset exchange (`application/asset.go`, `persistence/asset.go`) | metadata, content, usage, replay | create, fetch, delete, expire | partial upload; accounting at expiry | usage equals what is stored |
| HTTP transport, vault digests, identity and error taxonomy, observability | none that decides | decode, classify, record | - | covered by the repository's contract tests |
| Provider adapters (`adapters/`) | none kept | protocol decoding, streams | what the end of a turn proves of the Provider | no answer says more than the Adapter can know |

The photoshop plugin is a README, contracts and docs are not executable. The
components list of `PROJECT.json` has every part with its status, and its
hazards list says at which line each hard behaviour bites and which property
covers it.

How the parts interact: a create request claims its replay key, reserves
admission, writes the job row and enqueues a reference. The consumer takes the
reference, claims the row (a fresh fencing token and a lease), and either runs the
job - bind an account, gate it on health and capability, record the attempt, cross
the send boundary, wait for the Adapter while a heartbeat renews the lease and
watches for a cancel, capture the manifest, place its outputs, write the terminal
state, clean up - or, when the row says the payload may have gone out, finishes it
from the row without calling the Provider. A handler error ends the worker loop
and with it the process; startup restores the ledger and re-arms every job that
has not ended.

## 2. Modules

| Module | Models | State and actions |
|---|---|---|
| `RenderCreate` | create requests under one Idempotency-Key, on several processes | `ledger`, `view` the replay ledger and what each process remembers of it; `rows`, `prompts`, `occupancy` the other stores; `proc` startup, readiness and queue of each process; `call` the requests; one action per store call |
| `RenderJobRow` | one row and the store's mutators as operators from row to row | pure: `ClaimWorker`, `ObserveAttempt`, `Transition`, `CaptureManifest`, `PlaceOutput`, `Cancel`, `ValidateDurable`, ... |
| `RenderWorker` | one job on several processes | `job` the row; `up`, `queue`, `w`, `canceling`, `blind` what each process holds in memory; `provider`, `calls` the Provider's side; one action per store call of ExecuteJob |
| `RenderContract` | what a client is promised about lifecycle and commit status | abstract; `RenderWorker` implements it with `status` and `commit` read off the row |
| `RenderOutput` | placement of captured outputs and their retry | `job` the row's delivery part; `staged`, `stale` the staging store; `store` the Asset store's accounting; `h` the handlers; one action per store call |
| `AccountRow` | the provider account row | pure: the gates (`AcceptsProbe`, ...), the transitions (`WithReplacementCredential`, `WithProbeActivated`, ...), `ValidAccountRow` |
| `AccountHealth` | an account's health record | pure: `ObserveCooldown`, `ClaimPermit`, `ResolveRecovery`, `RecordActivation`, `ResetForCredentialEpoch`, `ValidRecord`, ... |
| `ProviderAccount` | one account under concurrent management requests | `row`, `health`, `vault`, `snapshot`, `journeys` the five stores; `h` the handlers; `proven` what the provider authenticated; one action per store call |
| `ChatStream` | chat requests, streamed and plain | `call` the goroutines; `replay`, `occupancy`, `lease`, `residual`, `registry` the services; `wire` the SSE responses; `fate` the Provider's side |
| `MC...` | the instances TLC runs | setups and symmetry sets |
| `RenderWorkerProofs` | theorems: types and the send boundary of `RenderWorker` | |
| `RenderVerdictProofs` | theorems: verdicts, results, occupancy and the contract of `RenderWorker` | |
| `RenderOutputProofs` | theorems: accounting, storage and deliveries in `RenderOutput` | |
| `NaturalSets` | lemmas: induction over a set of naturals, for the proofs about sequences | |
| `RenderCreateProofs` | theorems: replay, durability and one render per key in `RenderCreate` | |
| `ProviderAccountProofs` | theorems: cutover, disable, permits and cooldowns in `ProviderAccount` | |
| `ChatStreamSteps` | lemmas: the invariant of `ChatStream` and every step that calls share | |
| `ChatStreamProofs` | theorems: generation, settlement and replay in `ChatStream` | |

The modules meet at rows and slots. `RenderCreate` ends where a reference is taken
from the queue: `Execute` there is a whole run of `RenderWorker`, which begins with
the row and the published reference `RenderCreate` leaves. `Place` of `RenderWorker`
is one step; `RenderOutput` opens it up, and begins with the captured manifest.
Account choice and the gates on health and capability, which `ProviderAccount`
keeps, are one verdict in `RenderWorker`, `RenderCreate` and `ChatStream`.

### RenderJobRow and RenderWorker

The row keeps what decides: lifecycle, the commit status of the job and of its
attempt (the code keeps both, and they can differ), `PayloadSent`, fence and lease,
whether a manifest was captured, one entry's delivery state, whether the reference
was published, and the cleanup and claim-audit markers. Revisions, timestamps,
progress, classes of failure and audit markers that decide nothing are left out.
Time is one bit of the row, `expired`: the lease's deadline has passed.

`w[p].pc` names the next store call of process p's handler. An action performs that
call and the local decisions up to the next one. `Return` acknowledges the
reference or, when the handler returns an error, takes the process down, as
`RunWorkers` and `main` do; draining of HTTP handlers is folded into `Down`.
A behaviour begins with the row that a create has stored, its reference in the
creator's queue or not: the creator died, or lives on without one because the replay
record could not be completed or the queue refused the request's context.
`Save` is the ledger: `FileRenderJobStore` takes the file lock and reloads before
every operation, so all processes see one row; a row that `ValidateDurable`
refuses makes the other processes' reloads fail, which `blind` records.
The Provider is an external party: it decides by itself (`ProviderDecides`), and
`Answers` is the promise of `ports.RenderProviderAdapter`: success only for a
committed generation, non-commit only with proof, failure or unknown at will.
Account selection and the gates before the payload are one verdict (`Preflight`),
placement is one step (`Place`), which `RenderOutput` opens up.

Faults - crashes, failing calls, failed writes that reached the file, leases that
expire under a live worker - are counted by `faults` and bounded by `MaxFaults`.
A lease whose holder is gone expires for free.

### RenderOutput

Starts where capture ends. Two kinds of handler place outputs: a worker that owns
the fence visits every entry and then ends the job, a client's retry places one
entry of an ended job with fence 0. `Visit`, `Continue` and `GiveUp` are the three
ways out of the placement of an entry (next entry or completion; cleanup debt and
the cap go on; everything else fails the job, or the entry when a client asked).
Holds are keyed by placement, as in `consumeHold`; an ordinary upload reserves
without a key and commits or releases. The job store, the staging store and the
Asset stores outlive a handler that crashes: that is what the recovery paths of
`placeOutputBytes` are written for, and what the ports allow, though the
foundation composition keeps staging and Assets in process memory. One output and
one upload weigh one unit against `Cap`, which stands for the byte cap and the
object cap alike. Deletion and expiry of Assets are left out.

### RenderCreate

A call claims the key, admits, picks an account, passes the gates, stores the
prompt, writes the row, completes the claim, loads the row again, enqueues, marks
the row published and answers; a failure on the way takes the undo the code has
for that place (`RollsBack`). A second call of the key replays or answers that one
is in progress. Both ledgers fail as files do: an operation is refused (lock taken,
file unreadable), an append is lost, is torn half-way, or is durable although Sync
reports an error (`kept`). A torn last record stops every later operation on that
ledger, as `reloadLocked` refuses the line. Memory is written before the file, and
`view` says what each process remembers and up to which record. A process starts
(`Start`), settles claims whose job exists (`ReconcileClaim`, `ReconcileComplete`),
arms unpublished and unfinished jobs (`Recover`), and arms once more before it
consumes (`RunWorkers`, `Rearmed`); it serves requests from the beginning. `Crash`
loses memory, queue and the requests in it.

### AccountRow, AccountHealth and ProviderAccount

Every management request is a handler `h[x]` with the row it read last
(`acc`, `latest`); an action is one call to one of the five stores, and the fences
of `AccountUpdate` are the guard of the save (`Saves`, `Rejects`). Each failing call
takes the undo written for it (`Undo`, `Restore`, `Discard`, `Unmark`, `Unclaim`,
`Release`). The rows and the health records are numbers and small sets: versions
and authorizations are counted, an observation is named after the request that
made it, a cooldown may be due or not whenever it is looked at. Provider, OAuth
adapter and user are external and answer as they like (`UserDecides`, `Call`,
`Ask`). Labels, timestamps, administrative controls, pools, the circuit breaker and
replay of management requests are left out.

### ChatStream

A call is a goroutine; an action is what it does between two accesses to something
shared. The Adapter's goroutine writes into the stream (`AdapterWrites`) next to
the walk and, if the Adapter drifts, after its attempt returned (`AdapterDrifts`),
which the seal has to stop; `wire[c].late` counts the deltas that come after the
outcome was classified and before the stream is ended or sealed. Attempts go to the
selected account and a fallback chain, which may name that account again and has no
bound in the code; a setup bounds it (`fallbacks`, at most one). `fate` is what the
Provider made of each attempt: it takes a payload up, refuses it or ends, at any time.
`Reports` is what an Adapter may say of that. The chat Adapters of the repository
(`adapters/chatgptweb`, `adapters/chatgptcodex`) call a transport error, a 5xx and a
turn without content not committed although the payload went out, so those answers are
given here whatever the `fate` is; a refusal, which is a class of its own, only when
there was one. `disowned` records the attempts that were answered for as not
committed, for `OneStandingPayload`. `ClassifyStreamOutcome`,
`SealStream`, `Track`, `Drain`, `ReconcileStream`, `Untrack` and
`RecordStreamTerminalState` are the stages of the end, with the accounting context
that outlives the client; `FailsOnRequest` marks those calls which still use the
request's. A panic runs the deferred calls only.

## 3. Runs

| Run | Bounds | Shows |
|---|---|---|
| `worker` | 2 processes, 3 faults, fairness | a job's payload is sent at most once and is recorded; verdicts are honest and never weaken; a canceled job delivers nothing; a completed one is captured; occupancy is kept until the end; the contract is implemented; every job that a queue has held, or that a restarting process finds, ends, and is cleaned up if nothing failed |
| `create` | 2 processes and 2 calls with a fault or a crash; 1 process and 3 calls with a fault and a crash, or with 2 faults and a rival body | accepted requests name one durable job made for their body, with prompt and slot kept; one render per key unless a row reported as failed is durable; memory never runs ahead of the file; accepted jobs are carried out |
| `output` | 2 entries, 1 worker, 1 client, 1 upload, cap 2, 2 faults, fairness | what is available is stored; the cap holds; no hold is stranded; staged bytes go only when stored or out of retention; the loop ends the job |
| `takeover` | 2 entries, 2 workers, 2 clients, cap 2, 1 fault | usage is exact although placements share holds and Asset ids; no worker takes back what is available; completion means every entry is settled |
| `account` | 2 requests at a time out of 7 agendas, 2 faults | a probe puts into use the version it has proven and never undoes a disable; a recovery clears the cooldown it was granted for and no later one; cooldowns of the version in use are lifted only by those entitled to |
| `chat` | 2 calls with one key, the first upset (1 delta) or with a fallback account; 2 calls with a key each and one account, leased or not; 1 call of a drifting Adapter with a fallback account (2 deltas); 1 fault | of the payloads of one key at most one stands, neither refused nor answered for as not committed; a response has content of one attempt, is terminated, and is replayed as delivered up to the capture of its content; usage is final; leases, slots and claims are given back whether or not the client stayed |
| `restorable`, `reload`, `overtaken`, `rejected`, `regenerated`, `twice` | smallest that show it | section 5 |

Why the bounds are enough. The worker protocol hands a job from one holder to one
successor; two processes give a stale worker next to its successor, and with a
restart a third holder. Three faults allow a lost lease, a crash of the successor
and a failed write in one history. For placement, two entries are the least for
which the loop's order matters, a cap of two lets an upload take the place of an
output, and two faults allow a failed call whose effect happened followed by a
crash. For creation, two processes give a ledger that grows under a process which
has read part of it, three calls give a first request, its retry and one that
overlaps both; a fault with a crash is what startup has to repair. For accounts
the fences compare two handlers' views of one row, so two at once; the agendas are
the combinations whose requests pass each other's gates, and the file-backed row
is left to `reload`, as a first submission makes every later operation on it fail.
For chat, two calls are a request and its retry, or two requests for one slot and
one lease; one fallback account makes two payloads of one call, and two deltas put one
on each side of a capture, a seal or a failover. The upset client, the fallback chain
and the drifting Adapter are in setups of their own, since together they are beyond
TLC. Two clients in `takeover` are a retry that records what another has
committed. Apart from liveness everything the passing runs show is also proved
(section 4), for any number of entries, calls, processes and faults, and of handlers
except where `CapKept` says otherwise; it does not rest on these bounds.

Fairness. A handler that can take a step takes one: Go schedules runnable
goroutines, and store calls return. A process that is down is started again by its
supervisor (`deploy/sandbox` runs it under one). A cancel handler finishes. The
lease of a worker that is gone expires, because time passes. Nothing is assumed of
clients, of the Provider or of faults; in particular the Provider need not answer,
since the Adapter's call may always return unknown. `RenderOutput` assumes that
a worker takes its steps and that an orphaned job is delivered again, which is
what `worker` establishes of the layer below; its run has no symmetry, as that of
`takeover`, which checks no liveness, has. `RenderCreate` has one condition,
`WF_vars(Progress)`, over accepted requests, startup and consumers: none of its
behaviours returns to a state it left, so what is fair to one of them is to all. No
fairness is assumed of new requests, of faults or of crashes, and `AcknowledgedRuns` excepts a torn ledger
and a process that reports itself not ready. The account and chat modules state
safety only: their liveness would rest on the provider's answer.

Deadlock is not checked: a job, an account or a set of requests that has ended
leaves the system at rest.

Definitions marked "Wrong:" are slips of the operator that follows them; each
property is known to notice one of them. No specification uses them.

## 4. Proofs

For every set of processes, entries, workers, clients, calls, keys, accounts, handlers
and agendas, and every number of faults, crashes and uploads:

| Module | Theorem | Says |
|---|---|---|
| `RenderWorkerProofs` | `TypeCorrect` | `Spec => []TypeOK` |
| | `PayloadSentAtMostOnce` | `Spec => []AtMostOneGeneration` |
| | `PayloadMarkedForGood` | `Spec => []PayloadIsRecorded` |
| `RenderVerdictProofs` | `NonCommitProved` | `Spec => []NonCommitIsProved` |
| | `CanceledHasNoResult` | `Spec => []CanceledDeliversNothing` |
| | `CompletedHasResult` | `Spec => []CompletedIsCaptured` |
| | `OccupancyHeld` | `Spec => []OccupancyHeldUntilTerminal` |
| | `ImplementsTheContract` | `Spec => ImplementsContract` |
| | `CertaintyIsKept` | `Spec => CertaintyNeverWeakens` |
| `RenderOutputProofs` | `OutputTypeCorrect` | `Spec => []TypeOK` |
| | `UsageExact` | `Spec => []UsageIsExact` |
| | `AvailableStored` | `Spec => []AvailableIsStored` |
| | `StagedKept` | `Spec => StagedUntilPlaced` |
| | `CompletedIsSettled` | `Spec => CompletesWhenSettled` |
| | `DeliveriesStay` | `Spec => AvailableStays` |
| | `CapKept` | `Spec /\ []MovedApart => []CapNeverOverrun` |
| | `HoldsSettle` | `Spec /\ []MovedApart => []NoStrandedHold` |
| | `CapKeptByOne` | both of `Spec`, for one worker and one client |
| `RenderCreateProofs` | `CreateTypes` | `Spec => []TypeOK` |
| | `MemoryFollowsLedger` | `Spec => []ViewIsDurable` |
| | `AcknowledgedIsDurable` | `Spec => []AcknowledgedJob` |
| | `RenderedOnce` | `Spec => []OneRenderUnlessKept` |
| `ProviderAccountProofs` | `AccountTypes` | `Spec => []TypeOK` |
| | `CutoverIsProven` | `Spec => CutoverProven` |
| | `DisableWins` | `Spec => ProbeRespectsDisable` |
| | `RecoveryIsOfItsOwn` | `Spec => NoStaleClear` |
| | `CooldownsStay` | `Spec => CoolingKept` |
| `ChatStreamProofs` | `TypesHold` | `Spec => []TypeOK` |
| | `OnePayloadStands` | `Spec => []OneStandingPayload` |
| | `ResponsesDoNotMix` | `Spec => []OneGenerationPerStream` |
| | `KnownUsageIsFinal` | `Spec => []UsageIsFinal` |
| | `LeasesHold` | `Spec => []LeasedStreamStays` |
| | `ReplaysAreFaithful` | `Spec => []ReplayMatchesDelivered` |
| | `DebtsAreHeld` | `Spec => []HoldOutlivesDebt` |
| | `ContentEnds` | `Spec => []ContentIsTerminated` |
| | `StreamsSettle` | `Spec => []StreamSettles` |
| | `AbortsAreKept` | `Spec => AbortRemembered` |

Assumed, and evaluated by TLC in the runs of the modules: `MaxFaultsAssumption`
(a natural number); `OutputAssumption` (bounds and cap are naturals, there is a
worker, and no worker is a client); `CreateAssumption` and `ChatAssumption` (the
instances' setups pick from the declared calls, keys, bodies, processes and accounts,
and there is one of each that an initial state needs); `AccountAssumption` (agendas
grant natural numbers of requests) and `AgendaAssumption` (some agenda grants the most
requests, so that there is a largest version). None bounds how many there are. That
the manifest has an entry is in `Init`, where a worker visits one.

**At most one generation.** `AtMostOneGeneration` is not inductive: from `calls = 1`
with a worker about to enter the Adapter the next step breaks it. `SendInv` is:
fencing tokens are granted once (`FencesGrantedOnce`); only a claim that is not
recovery-only gets to the send boundary, and only the boundary past it
(`RunsAreTyped`); a row without the marker means nothing was sent and nobody is past
the boundary (`UnmarkedIsUnsent`); a first run that still owns the fence and has not
crossed the boundary can rely on the same even if a failed write left the marker
behind (`HolderMaySend`); and whoever is past the boundary is alone there and nothing
was sent (`EntersAlone`). The proof has a lemma per group of actions - those that
leave row and workers' positions to a simple frame, those that write the attempt,
those that claim - and one step per conjunct an action can disturb.

**Verdicts.** What a worker persists was decided several store calls earlier, so each
property of the row needs to know what is true of the runs that will write it.
`VerdictInv` adds three parts to `SendInv`: what any row may hold (`RowKnows`: a job
that has not ended is never not-committed, and its manifest comes with a sent payload and
a committed verdict); what any run knows, stale or not (`RunKnows`: cleanup follows an
ended row, a result follows a generation); and what only the run with the row's fence
may rely on (`HolderKnows`), above all that a terminal verdict it is about to write is
right (`VerdictHolds`). A stale worker keeps the wrong beliefs it has; it only cannot
write, and the lemma `RunStillKnows` is that observation: a step of somebody else
either keeps what the row tells or takes the fence away. The invariant properties
follow by conjunction.

**Refinement.** With `VerdictInv` every step of `RenderWorker` is a step of
`RenderContract` or leaves its variables alone. A claim of a queued row is `Start`,
entering the Adapter is `Generate`, recording an attempt or capturing is `Judge`, a
cancel request is `RequestCancel`, the terminal write is `End`; store calls of stale
workers, renewals, placement, cleanup, crashes and queue steps stutter.
`CertaintyNeverWeakens` is then read off the contract's step.

**Accounting and storage.** The types of `RenderOutput` are not inductive without its
accounting, because reserved usage is taken back by releases and uploads: `UsageInv`
carries both, and the finiteness of holds and Assets, over which usage is a
cardinality. `PlacedInv` adds what the three stores say of each other
(`RowIsStored`) and what a handler has seen of the entry it works on (`SeesPlaced`):
at the commit its bytes are in content, at the record its Asset is committed, from
the purge on the row names it. Assets and the row's names of them only grow, so what a
handler saw stays true under every other handler. `StagedUntilPlaced` is the step
from the same invariant.

**Completion and deliveries.** `CompletesWhenSettled` needs to know what the worker
that completes has seen, over its whole loop and whoever else placed meanwhile.
`SettledInv` says it of the holder of the row's fence only: entries behind it in its
loop are available or capped (`HolderSettles`), fences are granted once, and clients
come after the job's end (`Ranked`). `StaysInv` adds the other half for
`AvailableStays`: entries still ahead of the holder are not available
(`HolderAhead`), so the write with which it may replace a delivery never meets one;
a worker that lost the fence writes nothing.

**The cap.** `CapNeverOverrun` is false of several handlers (section 5), so the proof
asks for the exact reason: `MovedApart` says that no two handlers are between the
check for an entry's Asset and the end of its hold at once. With it `CapInv` is
inductive: a handler about to put or commit has its hold open, one about to reserve
has seen no Asset, and nobody else takes either away. A crash leaves a hold that the
next handler of the entry finds under its key. `CapKeptByOne` discharges the condition
where one worker and one client run: the client begins when the job has ended, and the
worker that ended it places no more.

**Replay.** `RenderCreate` replays its ledger by a fold, so the proof begins with what
a fold does: the walk over a sequence exists, is unique, and splits at any prefix.
These are inductions over the length. The library's induction theorems take a
predicate as a parameter, which no installed prover can instantiate; `NaturalSets`
gives induction over a set of naturals instead, which is first-order, from the
well-foundedness of `<`. With it an operation of a store is what it does to `Now`, the
record the whole ledger says, however far the process that runs it had read, and no
later step looks at the ledger again. `CreateInv` then has what is true whatever the
files did (`Durable`: a terminal record names a durable row made for its body, a
queued row has prompt and slot unless its call rolls it back) and what is true unless
a row reported as failed is durable (`Single`: one call at a time may write a row, its
claim is the record, and there is no second row). `RenderedOnce` is read off the second
half, `AcknowledgedIsDurable` off the first, so it holds whatever rows are kept.

**Accounts.** `AccountInv` relates what each request remembers to the stores: request
ids are unique, a permit a request holds is its own, a result that is being applied is
of a version the provider authenticated (`Applies`), and a row that replaces the
credential of a disabled account remembers that it was disabled (`DisabledOrigin`), in
the store and in every copy a probe may write back. `CutoverProven` and
`ProbeRespectsDisable` are steps from it. A health record is a sequence of conditions
of which operations keep some; `Those` says which ones are then in it, by induction as
above, and the lemmas about `AccountHealth` use nothing else of it. `PermitInv` is what
`NoStaleClear` needs: while the record names a request as owner of the permit, it is
the permit that the request claimed, and the condition at that scope is still the
observation it saw, since a later observation takes the permit out of the record.
`CoolingKept` goes through every operation that rewrites the conditions; a rejection is
harmless because its condition never validates (section 5).

**Chat.** Calls meet at the record of a key, the lease of an account and their own
residual slot. `ChatInv` is therefore one statement about each call (`Sane`): how far
it has walked and what it may still try (`Walks`), that only its last payload can stand
and that its terminal says no more than is known of that (`Sends`), that the
key is its own while a payload of it stands (`Claims`), what is held
for it (`Settles`) and what its client got (`Delivers`). Each step has to show `Sane`
of the call that takes it, and `OthersKept`, which carries the others' over. Every
safety property is then a conjunct or two of the invariant.

Model-checked only:

- Liveness (`EventuallyTerminal`, `TerminalIsCleaned`, `JobEnds`, `AcknowledgedRuns`),
  which needs fairness and ENABLED and is out of the prover's reach.
- What a violation run refutes (`NoDuplicateGeneration`, `VersionGrows` and the others of
  section 5).

## 5. Divergences

Where code and documentation disagree. Six have a run in which TLC finds the
documented statement violated by what the code does; `PROJECT.json` quotes them.

- `restorable`: `Transition` keeps the job's commit status and the attempt's apart,
  and a legal sequence ends in a row that the ledger's validation refuses at the
  next reload.
- `twice`: an append of the job row that fails in Sync after the row is durable is
  rolled back as if there were no row. The key is abandoned, the queue recovery runs
  the job, and the client's retry creates another. `OneRenderUnlessKept`
  of the run `create` shows that nothing else renders twice.
- `reload`: a first submission stores a row with a pending origin and no pending
  version, which the file-backed store refuses to reload.
- `overtaken`: a probe that read the row before a replacement was promoted commits
  that whole row afterwards and returns the account to the revoked version.
- `regenerated`: the lifecycle specification has one key generate once, and
  `chat_stream.go:858` that an HTTP status or a missing response proves nothing. The
  Adapters answer such ends as not committed, so the next account or the client's retry
  is sent the payload while the first may be generating. `OneStandingPayload` of the
  run `chat` shows that nothing else sends a second one.
- `rejected`: a rejection is stored in the health record first, with a condition
  that never validates, so the row is not written and the account stays in use.

The following were met in the models and are described here without a run.

Execution and placement. After a crash between the terminal write and its cleanup
nothing delivers the job again, as startup re-arms nonterminal jobs only
(`TerminalIsCleaned` is for runs without a fault). The send boundary checks the
fence, which a cancel leaves in place, so a durable cancel does not prevent a
payload that is past the recheck. A create that stored its row and could not complete
the replay record or enqueue (the client was gone) leaves a queued job that nobody runs
until the create is repeated or a process restarts (`EventuallyTerminal` is for the
others). Of two concurrent output retries the slower may
replace available by failed, capped or expired (the exception in `AvailableStays`), and
they share a hold that one may release while the other commits, which is the only way
past the cap (`CapKept`). The purge debt is one flag per job, which the next entry's
success clears for the entry whose delete failed.

Creation. A kept job row leaves a key that startup reconciles while a retry has
claimed it again: the conflict leaves the process not ready for good, or a job is
told whose prompt is gone. A failed `Complete` leaves job and key as they are until a
restart. After a crash between claim and row the key answers in progress for ever,
as no job names it; likewise when another process finished the job before the
reconciliation looked. A torn last record stops every operation on its ledger. A
process that is not ready still accepts jobs that it does not run.

Accounts. A probe that returns decides on the row it reads then, and activates the
version that row names; when a replacement failed and another version was submitted
meanwhile, that is one no provider has seen. `CutoverProven` says that this takes
a probe of no replacement whose row moved while it was out; the commit otherwise
names a proven version. The claim of a replacement and the marker of an OAuth start write back the
row they read, fenced by the marker alone, so an account that was disabled in between
is in use again (`ProbeRespectsDisable` is about probes). When the epoch reset of a
replacement fails only the vault version is revoked; the row keeps marker and
pending version. The reset itself is not fenced by the row, so a replacement that lost
its race clears cooldowns of the winner's version (`Lifts` names that step). A first OAuth
connect puts its version in the vault before any row reserves it. A permit whose release
failed stays until disable clears it, and after disable and enable a second
recovery may run next to the first. `GetCapabilitySnapshot` does not compare the
snapshot's version with the row's. Delete revokes the versions of the row it read at
admission; one staged later stays in the vault, unused.

Chat. A stream refused after admission may return a zero canonical error; a
disconnect before the first byte settles usage as known (`UsageIsFinal` is for
streams the client saw open); heartbeats followed by an Adapter error end without a
terminal event (`ContentIsTerminated` is for streams with content). Of an Adapter that
writes on after its attempt returned, a delta between the capture of the content and
the terminal reaches the client and not the record (`ReplayMatchesDelivered` counts
them), and content that comes between the classification of an outcome owed no terminal
and the seal gets none (`ContentIsTerminated` is for streams whose content began
before). Of a plain
request a failing Reconcile or a client that leaves keeps key and slot for good
(`StreamSettles` is for streams). A stream refused by the fail-closed Adapter after the
payload mark counts as possibly committed, while a plain call that ends in an absent
credential, an unavailable Adapter or an unavailable dependency is answered as not
committed before anyone asks whether the payload was sent; Abandon compares the body and
not the owner of the claim; a committed outcome that reports a failed finish gives
the key of a committed generation back.

## 6. Plan

Not modelled, and why. Routing policy is one revisioned row per Tenant under one
lock. Asset upload replay, deletion and expiry are process memory in the foundation
composition. The HTTP transport other than the chat stream, vault digests, identity,
error taxonomy and observability decide nothing that persists. Of the chat
Adapters only what they report is modelled; a render Adapter does not exist in the
repository. Inside modelled parts: what admission decides by, the audit of a create after its
publication, the drain of requests at exit, blocking and closing of the queue, the
order of jobs in it; chat outcomes outside the port's vocabulary, the eviction of
finished executions, affinity, restart during a stream, and a lease that is refused
rather than unavailable; management replay, operator controls and pools.

Next, in this order:

1. An abstract create (one job per key, accepted at most once) that `RenderCreate`
   implements when no row is kept, proved step by step from `CreateInv`.
2. `Routing` and `AssetExchange`: the O_EXCL ledger lock, uploads with replay,
   deletion and expiry and the accounting of each.
