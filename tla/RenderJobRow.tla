---------------------------- MODULE RenderJobRow ----------------------------
(***************************************************************************)
(* The durable row of one Render Job and what each operation of the job    *)
(* store does to it (apps/gateway/internal/infrastructure/persistence/     *)
(* render.go).  Every store operation holds the store mutex and the ledger *)
(* lock for its whole length, so each is a pure operator here: a guard on  *)
(* the row and the row it saves.  No variable lives in this module.        *)
(*                                                                         *)
(* Time is abstracted to one bit: "expired" says whether LeaseExpiresAt is *)
(* in the past.  The manifest is abstracted to its presence and its one    *)
(* output entry to its delivery state; "capped" is the delivery state      *)
(* pending with failure class storage_cap_exceeded.                        *)
(* Attempt.ResponseCaptured is set with the manifest and never apart from  *)
(* it, so "manifest" stands for both.                                      *)
(*                                                                         *)
(* Operators whose comment begins "Wrong:" are not the code.  Each is a    *)
(* plausible slip in the operator that follows it, kept to show that some  *)
(* property of the runs notices it; no specification uses them.            *)
(***************************************************************************)
EXTENDS Naturals

Lifecycles == {"queued", "running", "cancel_requested",
               "canceled", "failed", "completed"}
Terminal == {"canceled", "failed", "completed"}
CommitStatuses == {"not_started", "not_committed", "committed", "unknown"}
Deliveries == {"none", "pending", "capped", "available", "expired"}

\* Statuses under which the Provider may hold a result: a replacement
\* generation is forbidden (CommitStatus.ForbidsReplacement).
ForbidsReplacement == {"committed", "unknown"}

Rows == [lifecycle     : Lifecycles,
         commit        : CommitStatuses,   \* RenderJob.CommitStatus
         attempted     : BOOLEAN,          \* Attempt.ID is set
         attemptCommit : CommitStatuses,   \* Attempt.CommitStatus
         sent          : BOOLEAN,          \* Attempt.PayloadSent
         manifest      : BOOLEAN,          \* Manifest.ID is set
         delivery      : Deliveries,
         fence         : Nat,              \* WorkerFencingToken
         held          : BOOLEAN,          \* LeaseHeld
         expired       : BOOLEAN,
         published     : BOOLEAN,          \* QueuePublished
         claimedAudited : BOOLEAN,
         purged        : BOOLEAN,          \* PromptPurged
         settled       : BOOLEAN]          \* AdmissionSettled

NewQueuedRenderJob ==
    [lifecycle |-> "queued", commit |-> "not_started", attempted |-> FALSE,
     attemptCommit |-> "not_started", sent |-> FALSE, manifest |-> FALSE,
     delivery |-> "none", fence |-> 0, held |-> FALSE, expired |-> FALSE,
     published |-> FALSE, claimedAudited |-> FALSE, purged |-> FALSE, settled |-> FALSE]

CanTransition(from, to) ==
    \/ from = to /\ from \in Terminal
    \/ from = "queued" /\ to \in {"running", "canceled"}
    \/ from = "running" /\ to \in {"running", "cancel_requested", "completed", "failed"}
    \/ from = "cancel_requested" /\ to \in {"canceled", "failed"}

-----------------------------------------------------------------------------
(* The worker fence. *)

\* Wrong: an expired lease still counts.
LeaseHeldForever(row) == row.held

LeaseActive(row) == row.held /\ ~row.expired

\* Expiry is not looked at: an expired token that nobody superseded still writes.
OwnsFence(row, token) == row.held /\ row.fence = token

Claimable(row) ==
    \/ row.lifecycle = "queued"
    \/ row.lifecycle \in {"running", "cancel_requested"} /\ ~LeaseActive(row)

\* Wrong: looks for a verdict or a result, not for a payload on its way.
RecoveryOnlyByVerdict(row) ==
    \/ row.lifecycle = "cancel_requested"
    \/ row.lifecycle = "running" /\ (row.manifest \/ row.commit \in ForbidsReplacement)

\* Post-payload and cancel_requested rows are claimed to be drained, never rendered.
RecoveryOnly(row) ==
    \/ row.lifecycle = "cancel_requested"
    \/ /\ row.lifecycle = "running"
       /\ row.sent \/ row.manifest \/ row.commit \in ForbidsReplacement

\* One row is modelled, so the store's nextFence counter is the row's own
\* token; all that matters is that the new token exceeds every earlier one.
ClaimWorker(row) ==
    [row EXCEPT !.lifecycle = IF @ = "cancel_requested" THEN @ ELSE "running",
                !.fence = @ + 1, !.held = TRUE, !.expired = FALSE]

-----------------------------------------------------------------------------
(* Mutations under the fence; the caller checks OwnsFence first. *)

\* Wrong: forgets the payload marker.
ObserveVerdict(row, status, sent) ==
    [row EXCEPT !.attempted = TRUE, !.attemptCommit = status, !.commit = status]

ObserveAttempt(row, status, sent) ==
    [row EXCEPT !.attempted = TRUE, !.attemptCommit = status, !.sent = sent,
                !.commit = status]

\* Wrong: stores the empty status of a transition that carries none.
TransitionUnset(row, to, status) ==
    [row EXCEPT !.lifecycle = to, !.commit = "", !.held = FALSE]

\* The attempt's own CommitStatus is left alone.
Transition(row, to, status) ==
    [row EXCEPT !.lifecycle = to, !.commit = status, !.held = FALSE]

CanCapture(row) == row.lifecycle = "running"

\* Wrong: copies the entries and forgets the manifest itself.
CaptureEntries(row) ==
    [row EXCEPT !.delivery = "pending", !.commit = "committed",
                !.attemptCommit = "committed"]

CaptureManifest(row) ==
    IF row.manifest THEN row
    ELSE [row EXCEPT !.manifest = TRUE, !.delivery = "pending",
                     !.commit = "committed", !.attemptCommit = "committed"]

PlaceOutput(row, delivery) == [row EXCEPT !.delivery = delivery]

-----------------------------------------------------------------------------
(* What a recovery may say of an attempt it did not run. *)

\* Wrong: honours every cancel.
CancelsAnyway(row) == TRUE

\* A cancel is confirmed only when no generation can exist.
CancelIsSafe(row) == ~row.sent \/ row.commit = "not_committed"

\* Wrong: takes the absence of a verdict for a proof.
AsWritten(commit) == commit

\* Wrong: forgets a verdict already given.
NeverSure(commit) == "unknown"

\* No verdict after a payload is an unknown one.
Uncertain(commit) == IF commit = "not_started" THEN "unknown" ELSE commit

-----------------------------------------------------------------------------
(* Mutations without a fence. *)

\* Wrong: ends a running job on the spot.
CancelAtOnce(row) ==
    IF row.lifecycle \in {"queued", "running"}
    THEN [row EXCEPT !.lifecycle = "canceled", !.held = FALSE] ELSE row

MarkQueuePublished(row) == [row EXCEPT !.published = TRUE]

Cancel(row) ==
    CASE row.lifecycle = "queued"  -> [row EXCEPT !.lifecycle = "canceled", !.held = FALSE]
      [] row.lifecycle = "running" -> [row EXCEPT !.lifecycle = "cancel_requested"]
      [] OTHER -> row

\* Wrong: cleans up after any job it meets.
CleansAnyway(row) == TRUE

\* Wrong: leaves every cleanup to someone else.
NeverCleans(row) == FALSE

\* Only a terminal row is cleaned up.
OwesCleanup(row) == row.lifecycle \in Terminal

\* finishTerminalCleanup's two markers; each side effect precedes its marker.
MarkCleaned(row, purge, settle) ==
    [row EXCEPT !.purged = @ \/ purge, !.settled = @ \/ settle]

\* The cross-field check a ledger reload applies to every row it reads.
ValidateDurable(row) ==
    /\ row.attempted => row.attemptCommit = row.commit
    /\ row.sent => row.attempted
    /\ row.manifest => row.attempted /\ row.attemptCommit # "not_started"
    /\ row.held => row.fence > 0 /\ row.lifecycle \notin Terminal
    /\ row.lifecycle = "queued" =>
           ~row.held /\ row.commit = "not_started" /\ ~row.sent /\ ~row.manifest
=============================================================================
