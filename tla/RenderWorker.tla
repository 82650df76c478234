---------------------------- MODULE RenderWorker ----------------------------
(***************************************************************************)
(* One Render Job executed by gateway processes that share its ledger.     *)
(*                                                                         *)
(* Each process has one queue consumer running ExecuteJob, one heartbeat   *)
(* goroutine while the Provider is called, and HTTP handlers that cancel.  *)
(* An action is one store call of ExecuteJob (application/render.go) with  *)
(* the local decisions up to the next one; between two actions anything    *)
(* else may run.  A handler that returns an error ends Runtime.Run, which  *)
(* takes the process down (cmd/gateway/main.go); a supervisor restarts it  *)
(* and startup re-arms the reference of a nonterminal job.                 *)
(*                                                                         *)
(* MaxFaults bounds what the environment may do wrong in one behaviour:    *)
(* process crashes, failing store or dependency calls, and leases that     *)
(* expire under a worker that is still alive.                              *)
(***************************************************************************)
EXTENDS RenderJobRow, FiniteSets

CONSTANTS Proc,        \* gateway processes sharing the ledger
          MaxFaults    \* bound on injected faults

ASSUME MaxFaultsAssumption == MaxFaults \in Nat

VARIABLES job,         \* the durable row
          up,          \* up[p]: process p is alive and ready
          queue,       \* queue[p]: the job's reference is pending in p's jobs.Runtime
          w,           \* w[p]: p's invocation of ExecuteJob
          canceling,   \* processes whose cancel handler still owes terminal cleanup
          blind,       \* processes whose ledger reload meets a row that fails validation
          provider,    \* what the Provider did with the last request it was sent
          calls,       \* how often the Provider Adapter sent the job's payload
          faults       \* faults injected so far

vars == <<job, up, queue, w, canceling, blind, provider, calls, faults>>

\* The store calls of ExecuteJob a crash, a race or a fault can fall between.
\* "terminal" is persistTerminal, "place" the placement of the manifest's entry.
PCs == {"idle", "refused", "audit", "recover", "bind", "recheck", "preflight",
        "observe", "render", "enter", "wait", "lostAttempt", "errAttempt",
        "recheckResult", "capture", "place", "terminal", "cleanup"}

Invocations ==
    [pc       : PCs,
     fence    : Nat,                         \* 0: no fence granted
     recovery : BOOLEAN,                     \* WorkerClaim.RecoveryOnly
     sent     : BOOLEAN,                     \* the local attempt.PayloadSent
     hb       : {"ok", "lost", "canceled"},  \* startLeaseHeartbeat's outcome
     empty    : BOOLEAN,                     \* the outcome has no manifest entries
     to       : Lifecycles,                  \* the terminal transition to persist
     commit   : CommitStatuses,
     fails    : BOOLEAN]                     \* the handler returns an error at the end

Idle == [pc |-> "idle", fence |-> 0, recovery |-> FALSE, sent |-> FALSE,
         hb |-> "ok", empty |-> FALSE, to |-> "failed",
         commit |-> "not_started", fails |-> FALSE]

ProviderStates == {"idle", "working", "committed", "rejected"}

\* Create has stored the row; its creator enqueued the reference, and perhaps
\* recorded that it did, or died on the way, or lives on without a reference: the
\* replay record could not be completed or the queue refused the request's context.
Init ==
    /\ job \in {NewQueuedRenderJob, MarkQueuePublished(NewQueuedRenderJob)}
    /\ \E creator \in Proc :
          \/ /\ up = [p \in Proc |-> TRUE]
             /\ queue = [p \in Proc |-> p = creator]
          \/ /\ up = [p \in Proc |-> p # creator]
             /\ queue = [p \in Proc |-> FALSE]
          \/ /\ ~job.published
             /\ up = [p \in Proc |-> TRUE]
             /\ queue = [p \in Proc |-> FALSE]
    /\ w = [p \in Proc |-> Idle]
    /\ canceling = {}
    /\ blind = {}
    /\ provider = "idle"
    /\ calls = 0
    /\ faults = 0

-----------------------------------------------------------------------------
(* Helpers. *)

At(p, pc) == up[p] /\ w[p].pc = pc

\* p's next step is a store call, and p can read the ledger.
Calls(p, pc) == At(p, pc) /\ p \notin blind

Owner(p) == OwnsFence(job, w[p].fence)

\* The worker that holds the lease is gone: no heartbeat renews it.
Orphaned == \A p \in Proc : w[p].fence # job.fence

Fault == faults < MaxFaults /\ faults' = faults + 1
NoFault == UNCHANGED faults

Goto(p, pc) == w' = [w EXCEPT ![p].pc = pc]

\* Go on to persistTerminal(to, commit).
Settle(p, to, commit) ==
    w' = [w EXCEPT ![p] = [@ EXCEPT !.pc = "terminal", !.to = to, !.commit = commit]]

Stay == UNCHANGED <<up, queue, canceling>>
Outside == UNCHANGED <<provider, calls>>

\* The process ends: everything it holds in memory is gone.
Down(p) ==
    /\ up' = [up EXCEPT ![p] = FALSE]
    /\ queue' = [queue EXCEPT ![p] = FALSE]
    /\ w' = [w EXCEPT ![p] = Idle]
    /\ canceling' = canceling \ {p}

\* The handler returns: nil acknowledges the reference, an error ends the process.
Return(p) ==
    IF w[p].fails THEN Down(p)
    ELSE w' = [w EXCEPT ![p] = Idle] /\ Stay

\* p writes the row; every other process validates it on its next reload.
Save(p, row) ==
    /\ job' = row
    /\ blind' = IF ValidateDurable(row) THEN blind ELSE blind \cup (Proc \ {p})

Unsaved == UNCHANGED <<job, blind>>

-----------------------------------------------------------------------------
(* Claim and recovery (ExecuteJob up to BindAccountLease). *)

Claim(p) ==
    /\ Calls(p, "idle") /\ queue[p]
    /\ queue' = [queue EXCEPT ![p] = FALSE]
    /\ IF Claimable(job)
       THEN /\ Save(p, ClaimWorker(job))
            /\ w' = [w EXCEPT ![p] = [Idle EXCEPT
                        !.pc = IF ~job.claimedAudited THEN "audit"
                               ELSE IF RecoveryOnly(job) THEN "recover" ELSE "bind",
                        !.fence = job.fence + 1,
                        !.recovery = RecoveryOnly(job)]]
       ELSE Unsaved /\ Goto(p, "refused")
    /\ UNCHANGED <<up, canceling>> /\ Outside /\ NoFault

\* ErrJobNotClaimable: a terminal row only owes cleanup, else the error is returned.
Refused(p) ==
    /\ Calls(p, "refused")
    /\ IF OwesCleanup(job)
       THEN Goto(p, "cleanup") /\ Stay
       ELSE Down(p)
    /\ Unsaved /\ Outside /\ NoFault

\* MarkClaimedAudited is not fenced; the row it returns decides what follows.
AuditClaim(p) ==
    /\ Calls(p, "audit")
    /\ Save(p, [job EXCEPT !.claimedAudited = TRUE])
    /\ Goto(p, IF OwesCleanup(job) THEN "cleanup"
               ELSE IF job.lifecycle = "cancel_requested" \/ w[p].recovery THEN "recover"
               ELSE "bind")
    /\ Stay /\ Outside /\ NoFault

\* recoverAttemptWithoutRender: decide from the durable row, never call the Provider.
Recover(p) ==
    /\ Calls(p, "recover")
    /\ CASE job.lifecycle = "cancel_requested" ->
              IF CancelIsSafe(job)
              THEN Settle(p, "canceled", job.commit)
              ELSE Settle(p, "failed", Uncertain(job.commit))
         [] job.lifecycle \in Terminal -> Goto(p, "cleanup")
         [] job.lifecycle \notin Terminal \cup {"cancel_requested"} ->
              IF job.manifest THEN Goto(p, "place")
              ELSE Settle(p, "failed", Uncertain(job.commit))
    /\ Unsaved /\ Stay /\ Outside /\ NoFault

-----------------------------------------------------------------------------
(* Before the payload. *)

\* Any error of BindAccountLease, a stale fence included, fails the job.
Bind(p) ==
    /\ Calls(p, "bind")
    /\ \/ Owner(p) /\ Goto(p, "recheck") /\ NoFault
       \/ ~Owner(p) /\ Settle(p, "failed", "not_started") /\ NoFault
       \/ Settle(p, "failed", "not_started") /\ Fault
    /\ Unsaved /\ Stay /\ Outside

RecheckCancel(p) ==
    /\ Calls(p, "recheck")
    /\ IF job.lifecycle = "cancel_requested"
       THEN Settle(p, "canceled", "not_started")
       ELSE Goto(p, "preflight")
    /\ Unsaved /\ Stay /\ Outside /\ NoFault

\* Account, health, capability, input and credential gates: outside this module.
Preflight(p) ==
    /\ Calls(p, "preflight")
    /\ Goto(p, "observe") \/ Settle(p, "failed", "not_started")
    /\ Unsaved /\ Stay /\ Outside /\ NoFault

\* The attempt ledger row written before the payload.
RecordAttempt(p) ==
    /\ Calls(p, "observe")
    /\ IF Owner(p)
       THEN /\ Save(p, ObserveAttempt(job, "not_started", FALSE))
            /\ Goto(p, "render") /\ Stay
       ELSE Unsaved /\ Return(p)
    /\ Outside /\ NoFault

-----------------------------------------------------------------------------
(* AuthorizedRender.Render and the dispatch on what it returns. *)

\* Where the handler goes once Render has returned and the heartbeat stopped.
\* The results: "err", "ctx" (the context's own cancellation), "not_committed",
\* "unknown", and "captured" or "empty" for a success with or without entries.
Dispatch(p, result) ==
    CASE w[p].hb = "lost" -> w' = [w EXCEPT ![p] =
                                            [@ EXCEPT !.pc = "lostAttempt", !.fails = TRUE]]
      [] w[p].hb = "canceled" /\ result = "ctx" ->
            IF w[p].sent THEN Settle(p, "failed", "unknown")
                         ELSE Settle(p, "canceled", "not_started")
      [] w[p].hb # "lost" /\ ~(w[p].hb = "canceled" /\ result = "ctx") ->
            CASE result \in {"err", "ctx"} -> Goto(p, "errAttempt")
              [] result = "not_committed" -> Settle(p, "failed", "not_committed")
              [] result = "unknown" -> Settle(p, "failed", "unknown")
              [] result \in {"captured", "empty"} ->
                    w' = [w EXCEPT ![p] = [@ EXCEPT !.pc = "recheckResult",
                                                    !.empty = (result = "empty")]]

\* A local failure; only a cancelled context fails with its own error.
LocalErrors(p) == IF w[p].hb = "ok" THEN {"err"} ELSE {"err", "ctx"}

\* Audit intent, credential, input assets or prompt refused: no send boundary.
RenderRefused(p) ==
    /\ At(p, "render")
    /\ \E result \in LocalErrors(p) : Dispatch(p, result)
    /\ Unsaved /\ Stay /\ Outside /\ NoFault

\* fencedPayloadSendBoundary: the fence is checked, the lifecycle and the
\* context are not.  A failed write may or may not have reached the ledger.
MarkPayloadSent(p) ==
    /\ Calls(p, "render")
    /\ \/ /\ Owner(p)
          /\ Save(p, ObserveAttempt(job, "not_started", TRUE))
          /\ w' = [w EXCEPT ![p] = [@ EXCEPT !.pc = "enter", !.sent = TRUE]]
          /\ NoFault
       \/ ~Owner(p) /\ Unsaved /\ Dispatch(p, "err") /\ NoFault
       \/ /\ Owner(p)
          /\ Unsaved \/ Save(p, ObserveAttempt(job, "not_started", TRUE))
          /\ Dispatch(p, "err") /\ Fault
    /\ Stay /\ Outside

\* The Adapter sends the request, or fails before it does.
EnterAdapter(p) ==
    /\ At(p, "enter")
    /\ \/ /\ calls' = calls + 1 /\ provider' = "working"
          /\ Goto(p, "wait")
       \/ /\ \E result \in LocalErrors(p) : Dispatch(p, result)
          /\ Outside
    /\ Unsaved /\ Stay /\ NoFault

\* What the Adapter may answer: a success only for a committed generation, a
\* non-commit only with proof, a failure or "unknown" whenever it likes.
Answers(p) ==
    LocalErrors(p) \cup {"unknown"}
        \cup (IF provider = "committed" THEN {"captured", "empty"} ELSE {})
        \cup (IF provider = "rejected" THEN {"not_committed"} ELSE {})

AdapterReturns(p) ==
    /\ At(p, "wait")
    /\ \E result \in Answers(p) : Dispatch(p, result)
    /\ Unsaved /\ Stay /\ Outside /\ NoFault

\* RenewWorkerLease for a job that still runs.
Renews(p) == Owner(p) /\ ~job.expired

\* The heartbeat goroutine: a visible cancel wins over a failed renewal.
\* A renewal that succeeds leaves the lease live and changes nothing here.
Heartbeat(p) ==
    /\ up[p] /\ w[p].pc \in {"render", "enter", "wait"} /\ w[p].hb = "ok"
    /\ \/ /\ p \notin blind /\ job.lifecycle \in {"cancel_requested", "canceled"}
          /\ w' = [w EXCEPT ![p].hb = "canceled"] /\ NoFault
       \/ /\ p \in blind \/ (job.lifecycle \notin {"cancel_requested", "canceled"}
                                /\ ~Renews(p))
          /\ w' = [w EXCEPT ![p].hb = "lost"] /\ NoFault
       \/ /\ job.lifecycle \notin {"cancel_requested", "canceled"}
          /\ w' = [w EXCEPT ![p].hb = "lost"] /\ Fault
    /\ Unsaved /\ Stay /\ Outside

-----------------------------------------------------------------------------
(* After Render. *)

AttemptCommit(p) == IF w[p].sent THEN "unknown" ELSE "not_started"

PersistAttempt(p) ==
    IF Owner(p) THEN Save(p, ObserveAttempt(job, AttemptCommit(p), w[p].sent)) ELSE Unsaved

\* Lost lease: record the attempt, fail the job if the payload was sent, and
\* return the heartbeat's error in either case.
LostAttempt(p) ==
    /\ Calls(p, "lostAttempt")
    /\ PersistAttempt(p)
    /\ IF w[p].sent THEN Settle(p, "failed", "unknown") /\ Stay ELSE Down(p)
    /\ Outside /\ NoFault

ErrAttempt(p) ==
    /\ Calls(p, "errAttempt")
    /\ PersistAttempt(p)
    /\ Settle(p, "failed", AttemptCommit(p))
    /\ Stay /\ Outside /\ NoFault

RecheckResult(p) ==
    /\ Calls(p, "recheckResult")
    /\ IF job.lifecycle = "cancel_requested" THEN Settle(p, "canceled", "committed")
       ELSE IF w[p].empty THEN Settle(p, "failed", "committed")
       ELSE Goto(p, "capture")
    /\ Unsaved /\ Stay /\ Outside /\ NoFault

\* A cancel since the recheck is a conflict, which the handler returns.
Capture(p) ==
    /\ Calls(p, "capture")
    /\ IF Owner(p) /\ CanCapture(job)
       THEN Save(p, CaptureManifest(job)) /\ Goto(p, "place") /\ Stay
       ELSE Unsaved /\ IF Owner(p) THEN Down(p) ELSE Return(p)
    /\ Outside /\ NoFault

\* Staging, the Asset store and its cap decide; the fence is checked by PlaceOutput.
Place(p) ==
    /\ Calls(p, "place")
    /\ IF job.delivery = "available"
       THEN Unsaved /\ Stay /\ Settle(p, "completed", "committed")
       ELSE \/ /\ Owner(p) /\ job.delivery # "expired"
               /\ \E d \in {"available", "capped"} : Save(p, PlaceOutput(job, d))
               /\ Settle(p, "completed", "committed") /\ Stay
            \/ ~Owner(p) /\ Unsaved /\ Return(p)
            \/ /\ Unsaved \/ (Owner(p) /\ Save(p, PlaceOutput(job, "expired")))
               /\ Settle(p, "failed", "committed") /\ Stay
    /\ Outside /\ NoFault

\* persistTerminal: a stale fence is swallowed, an invalid edge is returned.
PersistTerminal(p) ==
    /\ Calls(p, "terminal")
    /\ IF ~Owner(p) THEN Unsaved /\ Return(p)
       ELSE IF CanTransition(job.lifecycle, w[p].to)
       THEN Save(p, Transition(job, w[p].to, w[p].commit)) /\ Goto(p, "cleanup") /\ Stay
       ELSE Unsaved /\ Down(p)
    /\ Outside /\ NoFault

\* finishTerminalCleanup: a failed purge does not stop the settlement, and
\* either failure is returned.
Cleanup(p) ==
    /\ Calls(p, "cleanup")
    /\ \/ Save(p, MarkCleaned(job, TRUE, TRUE)) /\ Return(p) /\ NoFault
       \/ /\ \E purge, settle \in BOOLEAN :
                ~(purge /\ settle) /\ Save(p, MarkCleaned(job, purge, settle))
          /\ Down(p) /\ Fault
    /\ Outside

-----------------------------------------------------------------------------
(* Clients, the Provider, time, crashes and restarts. *)

\* CancelRenderJob, on any ready process; a terminal result owes cleanup.
ClientCancel(p) ==
    /\ up[p] /\ p \notin blind
    /\ Save(p, Cancel(job))
    /\ canceling' = IF OwesCleanup(Cancel(job)) THEN canceling \cup {p} ELSE canceling
    /\ UNCHANGED <<up, queue, w>> /\ Outside /\ NoFault

\* A client repeats its create request: ensureQueuePublished on the process it reaches.
CreateRetry(p) ==
    /\ up[p] /\ p \notin blind /\ ~job.published
    /\ queue' = [queue EXCEPT ![p] = TRUE]
    /\ Save(p, MarkQueuePublished(job))
    /\ UNCHANGED <<up, w, canceling>> /\ Outside /\ NoFault

\* The cancel handler's finishTerminalCleanup; its error only fails the request.
CancelCleanup(p) ==
    /\ up[p] /\ p \in canceling
    /\ canceling' = canceling \ {p}
    /\ \/ p \notin blind /\ Save(p, MarkCleaned(job, TRUE, TRUE)) /\ NoFault
       \/ p \in blind /\ Unsaved /\ NoFault
       \/ /\ p \notin blind
          /\ \E purge, settle \in BOOLEAN :
                ~(purge /\ settle) /\ Save(p, MarkCleaned(job, purge, settle))
          /\ Fault
    /\ UNCHANGED <<up, queue, w>> /\ Outside

\* The Provider works on by itself, whether or not anyone still waits.
ProviderDecides ==
    /\ provider = "working"
    /\ provider' \in {"committed", "rejected"}
    /\ UNCHANGED <<job, up, queue, w, canceling, blind, calls, faults>>

LeaseExpires ==
    /\ LeaseActive(job)
    /\ job' = [job EXCEPT !.expired = TRUE]
    /\ IF Orphaned THEN NoFault ELSE Fault
    /\ UNCHANGED <<up, queue, w, canceling, blind>> /\ Outside

\* Any store call of p's handler fails on a ledger it cannot reload.
LedgerUnreadable(p) ==
    /\ up[p] /\ p \in blind
    /\ w[p].pc \notin {"enter", "wait"}
    /\ w[p].pc # "idle" \/ queue[p]
    /\ Down(p)
    /\ Unsaved /\ Outside /\ NoFault

\* A crash, or a store error in a handler that returns it.
Crash(p) ==
    /\ up[p]
    /\ Down(p) /\ Fault
    /\ Unsaved /\ Outside

\* Startup restores the ledger, fails closed on an invalid row, and re-arms the
\* reference of a nonterminal job.
Restart(p) ==
    /\ ~up[p] /\ ValidateDurable(job)
    /\ up' = [up EXCEPT ![p] = TRUE]
    /\ IF job.lifecycle \in Terminal
       THEN UNCHANGED queue /\ Unsaved
       ELSE /\ queue' = [queue EXCEPT ![p] = TRUE]
            /\ Save(p, MarkQueuePublished(job))
    /\ UNCHANGED <<w, canceling>> /\ Outside /\ NoFault

-----------------------------------------------------------------------------

Worker(p) ==
    \/ Claim(p) \/ Refused(p) \/ AuditClaim(p) \/ Recover(p) \/ Bind(p)
    \/ RecheckCancel(p) \/ Preflight(p) \/ RecordAttempt(p) \/ RenderRefused(p)
    \/ MarkPayloadSent(p) \/ EnterAdapter(p) \/ AdapterReturns(p)
    \/ LostAttempt(p) \/ ErrAttempt(p) \/ RecheckResult(p) \/ Capture(p)
    \/ Place(p) \/ PersistTerminal(p) \/ Cleanup(p) \/ LedgerUnreadable(p)

Next ==
    \/ \E p \in Proc : \/ Worker(p) \/ Heartbeat(p) \/ ClientCancel(p)
                       \/ CreateRetry(p) \/ CancelCleanup(p) \/ Crash(p) \/ Restart(p)
    \/ ProviderDecides
    \/ LeaseExpires

Spec == Init /\ [][Next]_vars

\* Handlers run on, the supervisor restarts a process, and the lease of a dead
\* worker runs out.  Clients, the Provider and faults are under no obligation.
Fairness ==
    /\ \A p \in Proc : /\ WF_vars(Worker(p))
                       /\ WF_vars(Restart(p))
                       /\ WF_vars(CancelCleanup(p))
    /\ WF_vars(Orphaned /\ LeaseExpires)

FairSpec == Spec /\ Fairness

-----------------------------------------------------------------------------
(* Properties. *)

\* Every variable stays in its type.
TypeOK ==
    /\ job \in Rows
    /\ up \in [Proc -> BOOLEAN]
    /\ queue \in [Proc -> BOOLEAN]
    /\ w \in [Proc -> Invocations]
    /\ canceling \subseteq Proc
    /\ blind \subseteq Proc
    /\ provider \in ProviderStates
    /\ calls \in Nat
    /\ faults \in 0..MaxFaults

\* Redelivery, lease takeover, stale workers, cancels and restarts together never
\* make the Adapter send a job's payload twice (ClaimWorker's recovery-only claims
\* and the fenced send boundary of ExecuteJob).
AtMostOneGeneration == calls <= 1

\* The row marks the payload before the Provider can see it, and no later write of
\* the attempt, which replaces it with a worker's local copy, unmarks it.
PayloadIsRecorded == calls > 0 => job.sent

\* A terminal row that says no generation was committed is right about it: the
\* Provider was never sent the payload or rejected it, and no worker, however
\* stale, is about to send it (the commit status every persistTerminal call picks).
NonCommitIsProved ==
    job.lifecycle \in Terminal /\ job.commit \notin ForbidsReplacement =>
        /\ provider \in {"idle", "rejected"}
        /\ \A p \in Proc : w[p].pc # "enter"

\* A job reported canceled has no captured result, so nothing is ever delivered
\* for it, though capture and cancel race and a dead worker's job is recovered.
CanceledDeliversNothing == job.lifecycle = "canceled" => ~job.manifest

\* A completed job has its result captured and its entry delivered or waiting for
\* storage, on the live path and after recovery from a crash at any point.
CompletedIsCaptured ==
    job.lifecycle = "completed" =>
        job.manifest /\ job.commit = "committed" /\ job.delivery \in {"available", "capped"}

\* Prompt and admission occupancy are kept while any worker may still render: they
\* go only when the row is terminal (finishTerminalCleanup's callers).
OccupancyHeldUntilTerminal == job.purged \/ job.settled => job.lifecycle \in Terminal

\* Once the row says committed or unknown no later write changes the verdict,
\* whichever worker, recovery or cancel writes it.
CertaintyNeverWeakens ==
    [][job.commit \in ForbidsReplacement => job'.commit = job.commit]_vars

\* The client-visible contract, read off the durable row.
Contract == INSTANCE RenderContract WITH status <- job.lifecycle, commit <- job.commit
ImplementsContract == Contract!Spec

\* With finitely many faults a job that a queue has held, or that a restarting process
\* will find in the ledger, ends, whatever was lost on the way.  A job whose creator could
\* not enqueue it waits for the client to repeat the create or for a restart.
EventuallyTerminal ==
    (job.published \/ \E p \in Proc : queue[p] \/ ~up[p]) ~> job.lifecycle \in Terminal

\* When nothing fails, a job that ends also gives its occupancy back and purges
\* its prompt, whichever of worker and cancel handler ends it.
TerminalIsCleaned ==
    [](faults = 0) => (job.lifecycle \in Terminal ~> job.purged /\ job.settled)

-----------------------------------------------------------------------------
(* Why the payload is sent at most once: the conjuncts below are preserved    *)
(* together by every step, which AtMostOneGeneration alone is not.            *)

\* The calls of a first run before the send boundary, and those up to its last
\* write of the attempt.
BeforeSend == {"bind", "recheck", "preflight", "observe", "render"}
FirstRun == BeforeSend \cup {"errAttempt", "lostAttempt"}

NobodyEnters == \A p \in Proc : w[p].pc # "enter"

\* A granted token is never granted again.
FencesGrantedOnce ==
    /\ \A p \in Proc : w[p].fence <= job.fence
    /\ \A p, q \in Proc : w[p].fence # 0 /\ w[p].fence = w[q].fence => p = q

\* Only a full claim leads to the send boundary, only the boundary past it.
RunsAreTyped ==
    \A p \in Proc : /\ w[p].pc \in FirstRun \cup {"enter", "wait"} => ~w[p].recovery
                    /\ w[p].pc \in BeforeSend \cup {"audit"} => ~w[p].sent
                    /\ w[p].pc \in {"enter", "wait"} => w[p].sent
                    /\ w[p].pc \notin {"idle", "refused", "cleanup"} => w[p].fence # 0

QueuedIsFresh == job.lifecycle = "queued" => ~job.sent /\ ~job.held

\* No marker in the row: nothing was sent and nobody is past the boundary.
UnmarkedIsUnsent == ~job.sent => calls = 0 /\ NobodyEnters

\* The same holds while the lease's holder has not crossed the boundary itself,
\* even if a failed write left the marker in the row.
HolderMaySend ==
    \A p \in Proc :
        w[p].pc \in FirstRun \cup {"audit"} /\ ~w[p].recovery /\ ~w[p].sent /\ Owner(p)
            => calls = 0 /\ NobodyEnters

EntersAlone ==
    \A p, q \in Proc : w[p].pc = "enter" => calls = 0 /\ (w[q].pc = "enter" => q = p)

SendInv == /\ TypeOK /\ FencesGrantedOnce /\ RunsAreTyped /\ QueuedIsFresh
           /\ UnmarkedIsUnsent /\ HolderMaySend /\ EntersAlone /\ AtMostOneGeneration

-----------------------------------------------------------------------------
(* What the comments and the specification say and the code does not do; each *)
(* has a run that shows the disagreement.                                      *)

\* The state machine never produces a row that a ledger reload refuses
\* (ValidateDurable's comment, domain/render.go).
DurableRowsRestorable == ValidateDurable(job)
=============================================================================
