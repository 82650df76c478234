------------------------- MODULE RenderWorkerProofs -------------------------
(***************************************************************************)
(* Machine-checked proofs about RenderWorker, for any set of processes and *)
(* any number of faults.                                                   *)
(***************************************************************************)
EXTENDS RenderWorker, TLAPS

-----------------------------------------------------------------------------
(* Every store operation takes rows to rows. *)

\* What a store operation saves is again a row of the job's type (the mutators of
\* persistence/render.go).
LEMMA StoreKeepsRows ==
    ASSUME NEW row \in Rows
    PROVE  /\ ClaimWorker(row) \in Rows
           /\ \A status \in CommitStatuses, sent \in BOOLEAN :
                 ObserveAttempt(row, status, sent) \in Rows
           /\ \A to \in Lifecycles, status \in CommitStatuses :
                 Transition(row, to, status) \in Rows
           /\ CaptureManifest(row) \in Rows
           /\ \A d \in Deliveries : PlaceOutput(row, d) \in Rows
           /\ Cancel(row) \in Rows
           /\ MarkQueuePublished(row) \in Rows
           /\ \A purge, settle \in BOOLEAN : MarkCleaned(row, purge, settle) \in Rows
  <1>1. ClaimWorker(row) \in Rows
    <2> DEFINE l == IF row.lifecycle = "cancel_requested" THEN row.lifecycle ELSE "running"
               n == row.fence + 1
    <2>1. ClaimWorker(row) = [row EXCEPT !.lifecycle = l, !.fence = n,
                                         !.held = TRUE, !.expired = FALSE]
      BY Zenon DEF ClaimWorker
    <2>2. l \in Lifecycles /\ n \in Nat
      BY DEF Rows, Lifecycles
    <2> HIDE DEF l, n
    <2> QED BY <2>1, <2>2 DEF Rows
  <1>2. \A status \in CommitStatuses, sent \in BOOLEAN :
           ObserveAttempt(row, status, sent) \in Rows
    BY DEF Rows, ObserveAttempt
  <1>3. \A to \in Lifecycles, status \in CommitStatuses :
           Transition(row, to, status) \in Rows
    BY DEF Rows, Transition
  <1>4. CaptureManifest(row) \in Rows
    <2>1. CASE row.manifest
      BY <2>1 DEF CaptureManifest
    <2>2. CASE ~row.manifest
      BY <2>2 DEF Rows, CaptureManifest, Deliveries, CommitStatuses
    <2> QED BY <2>1, <2>2
  <1>5. \A d \in Deliveries : PlaceOutput(row, d) \in Rows
    BY DEF Rows, PlaceOutput
  <1>6. Cancel(row) \in Rows
    BY DEF Rows, Cancel, Lifecycles
  <1>7. MarkQueuePublished(row) \in Rows
    BY DEF Rows, MarkQueuePublished
  <1>8. \A purge, settle \in BOOLEAN : MarkCleaned(row, purge, settle) \in Rows
    <2> TAKE purge, settle \in BOOLEAN
    <2>1. (row.purged \/ purge) \in BOOLEAN /\ (row.settled \/ settle) \in BOOLEAN
      OBVIOUS
    <2> DEFINE a == row.purged \/ purge
               b == row.settled \/ settle
    <2>2. MarkCleaned(row, purge, settle) = [row EXCEPT !.purged = a, !.settled = b]
      BY Zenon DEF MarkCleaned
    <2>3. a \in BOOLEAN /\ b \in BOOLEAN
      BY <2>1
    <2> HIDE DEF a, b
    <2> QED BY <2>2, <2>3 DEF Rows
  <1> QED BY <1>1, <1>2, <1>3, <1>4, <1>5, <1>6, <1>7, <1>8

-----------------------------------------------------------------------------
(* The helpers of the specification keep the types of what they assign. *)

Results == {"err", "ctx", "not_committed", "unknown", "captured", "empty"}

RunsTyped == w \in [Proc -> Invocations]

LEMMA IdleIsTyped == Idle \in Invocations
  BY DEF Idle, Invocations, PCs, Lifecycles, CommitStatuses

\* Moving an invocation on, with or without a terminal transition to persist.
LEMMA GotoKeepsType ==
    ASSUME RunsTyped, NEW p \in Proc, NEW pc \in PCs, Goto(p, pc)
    PROVE  RunsTyped'
  BY DEF RunsTyped, Goto, Invocations

LEMMA SettleKeepsType ==
    ASSUME RunsTyped, NEW p \in Proc, NEW to \in Lifecycles,
           NEW commit \in CommitStatuses, Settle(p, to, commit)
    PROVE  RunsTyped'
  <1> DEFINE n == [w[p] EXCEPT !.pc = "terminal", !.to = to, !.commit = commit]
  <1>1. n \in Invocations
    BY DEF RunsTyped, Invocations, PCs
  <1>2. w' = [w EXCEPT ![p] = n]
    BY Zenon DEF Settle
  <1> QED BY <1>1, <1>2 DEF RunsTyped

LEMMA DispatchKeepsType ==
    ASSUME RunsTyped, NEW p \in Proc, NEW result \in Results, Dispatch(p, result)
    PROVE  RunsTyped'
  <1>0. "failed" \in Lifecycles /\ "canceled" \in Lifecycles
        /\ "unknown" \in CommitStatuses /\ "not_started" \in CommitStatuses
        /\ "not_committed" \in CommitStatuses /\ "errAttempt" \in PCs
        /\ "lostAttempt" \in PCs /\ "recheckResult" \in PCs
    BY DEF Lifecycles, CommitStatuses, PCs
  <1>1. CASE w[p].hb = "lost"
    <2> DEFINE n == [w[p] EXCEPT !.pc = "lostAttempt", !.fails = TRUE]
    <2>1. n \in Invocations
      BY <1>0 DEF RunsTyped, Invocations
    <2>2. w' = [w EXCEPT ![p] = n]
      BY <1>1 DEF Dispatch
    <2> QED BY <2>1, <2>2 DEF RunsTyped
  <1>2. CASE w[p].hb = "canceled" /\ result = "ctx"
    BY <1>0, <1>2, SettleKeepsType DEF Dispatch
  <1>3. CASE w[p].hb # "lost" /\ ~(w[p].hb = "canceled" /\ result = "ctx")
    <2>1. CASE result \in {"err", "ctx"}
      BY <1>0, <1>3, <2>1, GotoKeepsType DEF Dispatch
    <2>2. CASE result \in {"not_committed", "unknown"}
      BY <1>0, <1>3, <2>2, SettleKeepsType DEF Dispatch
    <2>3. CASE result \in {"captured", "empty"}
      <3> DEFINE e == result = "empty"
                 n == [w[p] EXCEPT !.pc = "recheckResult", !.empty = e]
      <3>1. w' = [w EXCEPT ![p] = n]
        BY <1>3, <2>3 DEF Dispatch
      <3>2. e \in BOOLEAN
        OBVIOUS
      <3> HIDE DEF e
      <3>3. n \in Invocations
        BY <1>0, <3>2 DEF RunsTyped, Invocations
      <3> QED BY <3>1, <3>3 DEF RunsTyped
    <2> QED BY <2>1, <2>2, <2>3 DEF Results
  <1> QED BY <1>1, <1>2, <1>3

HostsTyped == /\ up \in [Proc -> BOOLEAN] /\ queue \in [Proc -> BOOLEAN]
              /\ RunsTyped /\ canceling \subseteq Proc

LEMMA DownKeepsType ==
    ASSUME HostsTyped, NEW p \in Proc, Down(p)
    PROVE  HostsTyped'
  BY IdleIsTyped DEF HostsTyped, RunsTyped, Down

LEMMA ReturnKeepsType ==
    ASSUME HostsTyped, NEW p \in Proc, Return(p)
    PROVE  HostsTyped'
  BY IdleIsTyped, DownKeepsType DEF HostsTyped, RunsTyped, Return, Stay

StoreTyped == job \in Rows /\ blind \subseteq Proc

LEMMA SaveKeepsType ==
    ASSUME StoreTyped, NEW p \in Proc, NEW row \in Rows, Save(p, row)
    PROVE  StoreTyped'
  BY DEF StoreTyped, Save

EnvTyped == /\ provider \in ProviderStates /\ calls \in Nat /\ faults \in 0..MaxFaults

LEMMA TypeParts == /\ TypeOK <=> HostsTyped /\ StoreTyped /\ EnvTyped
                   /\ TypeOK' <=> HostsTyped' /\ StoreTyped' /\ EnvTyped'
  BY DEF TypeOK, HostsTyped, RunsTyped, StoreTyped, EnvTyped

LEMMA FaultKeepsType ==
    ASSUME faults \in 0..MaxFaults, Fault \/ NoFault
    PROVE  faults' \in 0..MaxFaults
  BY MaxFaultsAssumption DEF Fault, NoFault

\* The pieces most actions leave alone.
LEMMA StayKeepsType == ASSUME HostsTyped, RunsTyped', Stay PROVE HostsTyped'
  BY DEF HostsTyped, Stay

LEMMA UnsavedKeepsType == ASSUME StoreTyped, Unsaved PROVE StoreTyped'
  BY DEF StoreTyped, Unsaved

LEMMA EnvKeepsType == ASSUME EnvTyped, Outside, Fault \/ NoFault PROVE EnvTyped'
  BY FaultKeepsType DEF EnvTyped, Outside

-----------------------------------------------------------------------------
(* Type correctness: one lemma for a worker's steps, one for everybody       *)
(* else's.                                                                   *)

LEMMA WorkerKeepsType ==
    ASSUME TypeOK, NEW p \in Proc, Worker(p)
    PROVE  TypeOK'
  <1> USE TypeParts
  <1>0. HostsTyped /\ RunsTyped /\ StoreTyped /\ EnvTyped /\ job \in Rows
    BY DEF HostsTyped, StoreTyped
  <1>1. CASE Claim(p)
    <2>1. CASE Claimable(job)
      <3> DEFINE pc == IF ~job.claimedAudited THEN "audit"
                       ELSE IF RecoveryOnly(job) THEN "recover" ELSE "bind"
                 fence == job.fence + 1
                 n == [Idle EXCEPT !.pc = pc, !.fence = fence, !.recovery = RecoveryOnly(job)]
      <3>1. Save(p, ClaimWorker(job)) /\ w' = [w EXCEPT ![p] = n]
        BY <1>1, <2>1, Zenon DEF Claim
      <3>2. pc \in PCs /\ fence \in Nat /\ RecoveryOnly(job) \in BOOLEAN
        BY <1>0 DEF PCs, Rows, RecoveryOnly
      <3>3. n \in Invocations
        <4> HIDE DEF pc, fence
        <4> QED BY <3>2, IdleIsTyped DEF Invocations
      <3>4. RunsTyped'
        <4> HIDE DEF n
        <4> QED BY <1>0, <3>1, <3>3 DEF RunsTyped
      <3>5. HostsTyped'
        BY <1>0, <1>1, <3>4 DEF HostsTyped, Claim
      <3> QED BY <1>0, <1>1, <3>1, <3>5, SaveKeepsType, StoreKeepsRows, EnvKeepsType DEF Claim
    <2>2. CASE ~Claimable(job)
      <3>1. RunsTyped'
        BY <1>0, <1>1, <2>2, GotoKeepsType DEF Claim, PCs
      <3>2. HostsTyped'
        BY <1>0, <1>1, <3>1 DEF HostsTyped, Claim
      <3> QED BY <1>0, <1>1, <2>2, <3>2, UnsavedKeepsType, EnvKeepsType DEF Claim
    <2> QED BY <2>1, <2>2
  <1>2. CASE Refused(p)
    <2>1. HostsTyped'
      BY <1>0, <1>2, GotoKeepsType, StayKeepsType, DownKeepsType DEF Refused, PCs
    <2> QED BY <1>0, <1>2, <2>1, UnsavedKeepsType, EnvKeepsType DEF Refused
  <1>3. CASE AuditClaim(p)
    <2> DEFINE pc == IF OwesCleanup(job) THEN "cleanup"
                     ELSE IF job.lifecycle = "cancel_requested" \/ w[p].recovery
                          THEN "recover" ELSE "bind"
    <2>1. Goto(p, pc) /\ pc \in PCs
      BY <1>3, Zenon DEF AuditClaim, PCs
    <2>2. [job EXCEPT !.claimedAudited = TRUE] \in Rows
      BY <1>0 DEF Rows
    <2> HIDE DEF pc
    <2>3. HostsTyped'
      BY <1>0, <1>3, <2>1, GotoKeepsType, StayKeepsType DEF AuditClaim
    <2> QED BY <1>0, <1>3, <2>2, <2>3, SaveKeepsType, EnvKeepsType DEF AuditClaim
  <1>4. CASE Recover(p)
    <2>1. RunsTyped'
      BY <1>0, <1>4, GotoKeepsType, SettleKeepsType
      DEF Recover, PCs, Lifecycles, CommitStatuses, Rows, Uncertain
    <2> QED BY <1>0, <1>4, <2>1, StayKeepsType, UnsavedKeepsType, EnvKeepsType DEF Recover
  <1>5. CASE Bind(p) \/ RecheckCancel(p) \/ Preflight(p)
    <2>1. RunsTyped'
      BY <1>0, <1>5, GotoKeepsType, SettleKeepsType
      DEF Bind, RecheckCancel, Preflight, PCs, Lifecycles, CommitStatuses
    <2> QED BY <1>0, <1>5, <2>1, StayKeepsType, UnsavedKeepsType, EnvKeepsType
            DEF Bind, RecheckCancel, Preflight
  <1>6. CASE RecordAttempt(p)
    <2>1. CASE Owner(p)
      <3>1. StoreTyped' /\ RunsTyped'
        BY <1>0, <1>6, <2>1, SaveKeepsType, StoreKeepsRows, GotoKeepsType
        DEF RecordAttempt, CommitStatuses, PCs
      <3> QED BY <1>0, <1>6, <2>1, <3>1, StayKeepsType, EnvKeepsType DEF RecordAttempt
    <2>2. CASE ~Owner(p)
      BY <1>0, <1>6, <2>2, UnsavedKeepsType, ReturnKeepsType, EnvKeepsType DEF RecordAttempt
    <2> QED BY <2>1, <2>2
  <1>7. LocalErrors(p) \subseteq Results /\ Answers(p) \subseteq Results
    BY DEF LocalErrors, Answers, Results
  <1>8. CASE RenderRefused(p) \/ AdapterReturns(p)
    <2>1. RunsTyped'
      BY <1>0, <1>7, <1>8, DispatchKeepsType DEF RenderRefused, AdapterReturns
    <2> QED BY <1>0, <1>8, <2>1, StayKeepsType, UnsavedKeepsType, EnvKeepsType
            DEF RenderRefused, AdapterReturns
  <1>9. CASE MarkPayloadSent(p)
    <2> DEFINE n == [w[p] EXCEPT !.pc = "enter", !.sent = TRUE]
    <2>1. n \in Invocations
      BY <1>0 DEF RunsTyped, Invocations, PCs
    <2>2. w' = [w EXCEPT ![p] = n] \/ Dispatch(p, "err")
      BY <1>9, Zenon DEF MarkPayloadSent
    <2>3. RunsTyped'
      <3> HIDE DEF n
      <3> QED BY <1>0, <2>1, <2>2, DispatchKeepsType DEF RunsTyped, Results
    <2>4. StoreTyped'
      BY <1>0, <1>9, UnsavedKeepsType, SaveKeepsType, StoreKeepsRows
      DEF MarkPayloadSent, CommitStatuses
    <2> QED BY <1>0, <1>9, <2>3, <2>4, StayKeepsType, EnvKeepsType DEF MarkPayloadSent
  <1>10. CASE EnterAdapter(p)
    <2>1. RunsTyped'
      BY <1>0, <1>7, <1>10, GotoKeepsType, DispatchKeepsType DEF EnterAdapter, PCs
    <2>2. EnvTyped'
      BY <1>0, <1>10, FaultKeepsType DEF EnterAdapter, EnvTyped, Outside, ProviderStates
    <2> QED BY <1>0, <1>10, <2>1, <2>2, StayKeepsType, UnsavedKeepsType DEF EnterAdapter
  <1>11. AttemptCommit(p) \in CommitStatuses /\ w[p].sent \in BOOLEAN
    BY <1>0 DEF AttemptCommit, CommitStatuses, RunsTyped, Invocations
  <1>12. PersistAttempt(p) => StoreTyped'
    BY <1>0, <1>11, SaveKeepsType, UnsavedKeepsType, StoreKeepsRows DEF PersistAttempt
  <1>13. CASE LostAttempt(p)
    <2>1. HostsTyped'
      BY <1>0, <1>13, SettleKeepsType, StayKeepsType, DownKeepsType
      DEF LostAttempt, Lifecycles, CommitStatuses
    <2> QED BY <1>0, <1>12, <1>13, <2>1, EnvKeepsType DEF LostAttempt
  <1>14. CASE ErrAttempt(p)
    <2>1. HostsTyped'
      BY <1>0, <1>11, <1>14, SettleKeepsType, StayKeepsType DEF ErrAttempt, Lifecycles
    <2> QED BY <1>0, <1>12, <1>14, <2>1, EnvKeepsType DEF ErrAttempt
  <1>15. CASE RecheckResult(p)
    <2>1. RunsTyped'
      BY <1>0, <1>15, GotoKeepsType, SettleKeepsType
      DEF RecheckResult, PCs, Lifecycles, CommitStatuses
    <2> QED BY <1>0, <1>15, <2>1, StayKeepsType, UnsavedKeepsType, EnvKeepsType
            DEF RecheckResult
  <1>16. CASE Capture(p)
    <2>1. StoreTyped'
      BY <1>0, <1>16, SaveKeepsType, UnsavedKeepsType, StoreKeepsRows DEF Capture
    <2>2. HostsTyped'
      BY <1>0, <1>16, GotoKeepsType, StayKeepsType, DownKeepsType, ReturnKeepsType
      DEF Capture, PCs
    <2> QED BY <1>0, <1>16, <2>1, <2>2, EnvKeepsType DEF Capture
  <1>17. CASE Place(p)
    <2>1. StoreTyped'
      BY <1>0, <1>17, SaveKeepsType, UnsavedKeepsType, StoreKeepsRows
      DEF Place, Deliveries
    <2>2. HostsTyped'
      BY <1>0, <1>17, SettleKeepsType, StayKeepsType, ReturnKeepsType
      DEF Place, Lifecycles, CommitStatuses
    <2> QED BY <1>0, <1>17, <2>1, <2>2, EnvKeepsType DEF Place
  <1>18. CASE PersistTerminal(p)
    <2>1. w[p].to \in Lifecycles /\ w[p].commit \in CommitStatuses
      BY <1>0 DEF RunsTyped, Invocations
    <2>2. StoreTyped'
      BY <1>0, <1>18, <2>1, SaveKeepsType, UnsavedKeepsType, StoreKeepsRows
      DEF PersistTerminal
    <2>3. HostsTyped'
      BY <1>0, <1>18, GotoKeepsType, StayKeepsType, DownKeepsType, ReturnKeepsType
      DEF PersistTerminal, PCs
    <2> QED BY <1>0, <1>18, <2>2, <2>3, EnvKeepsType DEF PersistTerminal
  <1>19. CASE Cleanup(p)
    <2>1. StoreTyped'
      BY <1>0, <1>19, SaveKeepsType, StoreKeepsRows DEF Cleanup
    <2>2. HostsTyped'
      BY <1>0, <1>19, DownKeepsType, ReturnKeepsType DEF Cleanup
    <2> QED BY <1>0, <1>19, <2>1, <2>2, EnvKeepsType DEF Cleanup
  <1>20. CASE LedgerUnreadable(p)
    BY <1>0, <1>20, DownKeepsType, UnsavedKeepsType, EnvKeepsType DEF LedgerUnreadable
  <1> QED BY <1>1, <1>2, <1>3, <1>4, <1>5, <1>6, <1>8, <1>9, <1>10, <1>13, <1>14,
             <1>15, <1>16, <1>17, <1>18, <1>19, <1>20 DEF Worker

LEMMA OthersKeepType ==
    ASSUME TypeOK,
           NEW p \in Proc,
           Heartbeat(p) \/ ClientCancel(p) \/ CreateRetry(p) \/ CancelCleanup(p)
              \/ Crash(p) \/ Restart(p) \/ ProviderDecides \/ LeaseExpires
    PROVE  TypeOK'
  <1> USE TypeParts
  <1>0. HostsTyped /\ RunsTyped /\ StoreTyped /\ EnvTyped /\ job \in Rows
    BY DEF HostsTyped, StoreTyped
  <1>1. CASE Heartbeat(p)
    <2>1. RunsTyped'
      BY <1>0, <1>1 DEF Heartbeat, RunsTyped, Invocations
    <2> QED BY <1>0, <1>1, <2>1, StayKeepsType, UnsavedKeepsType, EnvKeepsType DEF Heartbeat
  <1>2. CASE ClientCancel(p)
    <2>1. HostsTyped'
      BY <1>0, <1>2 DEF ClientCancel, HostsTyped, RunsTyped
    <2> QED BY <1>0, <1>2, <2>1, SaveKeepsType, StoreKeepsRows, EnvKeepsType DEF ClientCancel
  <1>3. CASE CreateRetry(p)
    <2>1. HostsTyped'
      BY <1>0, <1>3 DEF CreateRetry, HostsTyped, RunsTyped
    <2> QED BY <1>0, <1>3, <2>1, SaveKeepsType, StoreKeepsRows, EnvKeepsType DEF CreateRetry
  <1>4. CASE CancelCleanup(p)
    <2>1. HostsTyped'
      BY <1>0, <1>4 DEF CancelCleanup, HostsTyped, RunsTyped
    <2>2. StoreTyped'
      BY <1>0, <1>4, SaveKeepsType, UnsavedKeepsType, StoreKeepsRows DEF CancelCleanup
    <2> QED BY <1>0, <1>4, <2>1, <2>2, EnvKeepsType DEF CancelCleanup
  <1>5. CASE Crash(p)
    BY <1>0, <1>5, DownKeepsType, UnsavedKeepsType, EnvKeepsType DEF Crash
  <1>6. CASE Restart(p)
    <2>1. HostsTyped'
      BY <1>0, <1>6 DEF Restart, HostsTyped, RunsTyped
    <2>2. StoreTyped'
      BY <1>0, <1>6, SaveKeepsType, UnsavedKeepsType, StoreKeepsRows DEF Restart
    <2> QED BY <1>0, <1>6, <2>1, <2>2, EnvKeepsType DEF Restart
  <1>7. CASE ProviderDecides
    BY <1>0, <1>7 DEF ProviderDecides, HostsTyped, RunsTyped, StoreTyped, EnvTyped,
                      ProviderStates
  <1>8. CASE LeaseExpires
    <2>1. [job EXCEPT !.expired = TRUE] \in Rows
      BY <1>0 DEF Rows
    <2>2. HostsTyped' /\ StoreTyped'
      BY <1>0, <1>8, <2>1 DEF LeaseExpires, HostsTyped, RunsTyped, StoreTyped
    <2> QED BY <1>0, <1>8, <2>2, EnvKeepsType DEF LeaseExpires
  <1> QED BY <1>1, <1>2, <1>3, <1>4, <1>5, <1>6, <1>7, <1>8

LEMMA InitHasType == ASSUME Init PROVE TypeOK
  <1>1. NewQueuedRenderJob \in Rows
    BY DEF NewQueuedRenderJob, Rows, Lifecycles, CommitStatuses, Deliveries
  <1>2. job \in Rows
    BY <1>1, StoreKeepsRows DEF Init
  <1>3. w \in [Proc -> Invocations] /\ up \in [Proc -> BOOLEAN] /\ queue \in [Proc -> BOOLEAN]
    BY IdleIsTyped DEF Init
  <1> QED BY <1>2, <1>3, MaxFaultsAssumption DEF Init, TypeOK, ProviderStates

\* With no process the Provider and the lease still take steps, but then there is
\* no initial state: Init needs a creator.
LEMMA StepKeepsType == ASSUME TypeOK, Proc # {}, [Next]_vars PROVE TypeOK'
  <1>1. CASE Next
    <2>1. PICK p \in Proc : TRUE
      OBVIOUS
    <2>2. CASE ProviderDecides \/ LeaseExpires
      BY <2>1, <2>2, OthersKeepType
    <2>3. CASE ~(ProviderDecides \/ LeaseExpires)
      BY <1>1, <2>3, WorkerKeepsType, OthersKeepType DEF Next
    <2> QED BY <2>2, <2>3
  <1>2. CASE UNCHANGED vars
    BY <1>2 DEF TypeOK, vars
  <1> QED BY <1>1, <1>2

\* In every state of every behaviour each variable is in its type, for any number
\* of processes and faults.
THEOREM TypeCorrect == Spec => []TypeOK
  <1>1. Init => TypeOK /\ Proc # {}
    BY InitHasType DEF Init
  <1>2. TypeOK /\ Proc # {} /\ [Next]_vars => TypeOK' /\ (Proc # {})'
    BY StepKeepsType
  <1> QED BY <1>1, <1>2, PTL DEF Spec

-----------------------------------------------------------------------------
(* The payload is sent at most once.  Three steps matter: a full claim, the   *)
(* marker, and the send.  Every other step is quiet: it leaves the fences and *)
(* the marker alone, or clears a marker only while nothing was sent.          *)

\* Process p's invocation keeps its fence, its mode and its marker.
Moved(p) == /\ \A q \in Proc \ {p} : w'[q] = w[q]
            /\ w'[p].fence = w[p].fence
            /\ w'[p].recovery = w[p].recovery
            /\ w'[p].sent = w[p].sent

Ended(p) == /\ \A q \in Proc \ {p} : w'[q] = w[q]
            /\ w'[p] = Idle

\* After the marker or past the boundary.
After == {"recover", "recheckResult", "capture", "place", "terminal"}
Over == {"idle", "refused", "cleanup"}

LEMMA PCParts ==
    /\ PCs = {"audit", "enter", "wait"} \cup BeforeSend
                 \cup {"errAttempt", "lostAttempt"} \cup After \cup Over
    /\ Idle.pc = "idle" /\ Idle.fence = 0 /\ Idle.recovery = FALSE /\ Idle.sent = FALSE
  BY DEF PCs, BeforeSend, After, Over, Idle

\* p's step never brings it to the boundary, nor back before it.
LocalQuiet(p) ==
    \/ Ended(p)
    \/ /\ Moved(p)
       /\ \/ w'[p].pc = w[p].pc
          \/ w'[p].pc \in Over
          \/ w'[p].pc \in After /\ w[p].pc \notin Over
          \/ w'[p].pc \in BeforeSend /\ w[p].pc \in BeforeSend
          \/ w'[p].pc = "bind" /\ w[p].pc = "audit" /\ ~w[p].recovery
          \/ /\ w'[p].pc \in {"errAttempt", "lostAttempt"}
             /\ w[p].pc \in BeforeSend \cup {"enter", "wait"}

RowQuiet ==
    /\ job'.fence = job.fence
    /\ job'.held => job.held
    /\ ~job'.sent => calls = 0 /\ NobodyEnters
    /\ job'.lifecycle = "queued" => ~job'.sent /\ ~job'.held

LEMMA GotoMoves ==
    ASSUME RunsTyped, NEW p \in Proc, NEW pc \in PCs, Goto(p, pc)
    PROVE  Moved(p) /\ w'[p].pc = pc
  BY DEF RunsTyped, Invocations, Goto, Moved

LEMMA SettleMoves ==
    ASSUME RunsTyped, NEW p \in Proc, NEW to, NEW commit, Settle(p, to, commit)
    PROVE  Moved(p) /\ w'[p].pc = "terminal"
  <1> DEFINE n == [w[p] EXCEPT !.pc = "terminal", !.to = to, !.commit = commit]
  <1>1. w[p] \in Invocations /\ w' = [w EXCEPT ![p] = n]
    BY Zenon DEF Settle, RunsTyped
  <1>2. n.pc = "terminal" /\ n.fence = w[p].fence
        /\ n.recovery = w[p].recovery /\ n.sent = w[p].sent
    BY <1>1 DEF Invocations
  <1> HIDE DEF n
  <1> QED BY <1>1, <1>2 DEF RunsTyped, Moved

LEMMA DispatchMoves ==
    ASSUME RunsTyped, NEW p \in Proc, NEW result \in Results, Dispatch(p, result)
    PROVE  /\ Moved(p)
           /\ w'[p].pc \in {"lostAttempt", "errAttempt", "terminal", "recheckResult"}
  <1>1. CASE w[p].hb = "lost"
    <2> DEFINE n == [w[p] EXCEPT !.pc = "lostAttempt", !.fails = TRUE]
    <2>1. w[p] \in Invocations /\ w' = [w EXCEPT ![p] = n]
      BY <1>1 DEF Dispatch, RunsTyped
    <2>2. n.pc = "lostAttempt" /\ n.fence = w[p].fence
          /\ n.recovery = w[p].recovery /\ n.sent = w[p].sent
      BY <2>1 DEF Invocations
    <2> HIDE DEF n
    <2> QED BY <2>1, <2>2 DEF RunsTyped, Moved
  <1>2. CASE w[p].hb = "canceled" /\ result = "ctx"
    BY <1>2, SettleMoves DEF Dispatch
  <1>3. CASE w[p].hb # "lost" /\ ~(w[p].hb = "canceled" /\ result = "ctx")
    <2>1. CASE result \in {"err", "ctx"}
      BY <1>3, <2>1, GotoMoves DEF Dispatch, PCs
    <2>2. CASE result \in {"not_committed", "unknown"}
      BY <1>3, <2>2, SettleMoves DEF Dispatch
    <2>3. CASE result \in {"captured", "empty"}
      <3> DEFINE n == [w[p] EXCEPT !.pc = "recheckResult", !.empty = (result = "empty")]
      <3>1. w[p] \in Invocations /\ w' = [w EXCEPT ![p] = n]
        BY <1>3, <2>3 DEF Dispatch, RunsTyped
      <3>2. n.pc = "recheckResult" /\ n.fence = w[p].fence
            /\ n.recovery = w[p].recovery /\ n.sent = w[p].sent
        BY <3>1, Zenon DEF Invocations
      <3> HIDE DEF n
      <3> QED BY <3>1, <3>2 DEF RunsTyped, Moved
    <2> QED BY <2>1, <2>2, <2>3 DEF Results
  <1> QED BY <1>1, <1>2, <1>3

LEMMA DownEnds == ASSUME RunsTyped, NEW p \in Proc, Down(p) PROVE Ended(p)
  BY DEF RunsTyped, Down, Ended

LEMMA ReturnEnds == ASSUME RunsTyped, NEW p \in Proc, Return(p) PROVE Ended(p)
  BY DownEnds DEF RunsTyped, Return, Ended

LEMMA QuietKeepsInv ==
    ASSUME SendInv, TypeOK', NEW p \in Proc, LocalQuiet(p), RowQuiet, calls' = calls
    PROVE  SendInv'
  <1> DEFINE Kept(q) == w'[q].fence = w[q].fence /\ w'[q].recovery = w[q].recovery
                        /\ w'[q].sent = w[q].sent
  <1>0. /\ \A q \in Proc : w[q].fence \in Nat /\ w[q].pc \in PCs /\ w'[q].fence \in Nat
        /\ job.fence \in Nat /\ job'.fence = job.fence
    BY DEF SendInv, TypeOK, Invocations, Rows, RowQuiet
  <1>1. \A q \in Proc : w'[q] = Idle \/ Kept(q)
    BY DEF LocalQuiet, Moved, Ended
  <1>2. \A q \in Proc : w'[q].pc = "enter" => w[q].pc = "enter"
    BY PCParts DEF LocalQuiet, Moved, Ended, Over, After, BeforeSend
  <1>3. FencesGrantedOnce'
    BY <1>0, <1>1, PCParts DEF SendInv, FencesGrantedOnce
  <1>4. RunsAreTyped'
    <2> SUFFICES ASSUME NEW q \in Proc
                 PROVE  /\ w'[q].pc \in FirstRun \cup {"enter", "wait"} => ~w'[q].recovery
                        /\ w'[q].pc \in BeforeSend \cup {"audit"} => ~w'[q].sent
                        /\ w'[q].pc \in {"enter", "wait"} => w'[q].sent
                        /\ w'[q].pc \notin {"idle", "refused", "cleanup"} => w'[q].fence # 0
      BY DEF RunsAreTyped
    <2>1. CASE q # p
      BY <2>1 DEF SendInv, RunsAreTyped, LocalQuiet, Moved, Ended
    <2>2. CASE q = p /\ Ended(p)
      BY <2>2, PCParts DEF Ended, FirstRun, BeforeSend
    <2>3. CASE q = p /\ Moved(p)
      BY <2>3, PCParts DEF SendInv, RunsAreTyped, LocalQuiet, Moved, Ended, FirstRun,
                  BeforeSend, After, Over
    <2> QED BY <2>1, <2>2, <2>3 DEF LocalQuiet
  <1>5. QueuedIsFresh'
    BY DEF RowQuiet, QueuedIsFresh
  <1>6. NobodyEnters => NobodyEnters'
    BY <1>2 DEF NobodyEnters
  <1>7. UnmarkedIsUnsent'
    BY <1>6 DEF RowQuiet, UnmarkedIsUnsent
  <1>8. HolderMaySend'
    <2> SUFFICES ASSUME NEW q \in Proc, w'[q].pc \in FirstRun \cup {"audit"},
                        ~w'[q].recovery, ~w'[q].sent, Owner(q)'
                 PROVE  calls' = 0 /\ NobodyEnters'
      BY DEF HolderMaySend
    <2>1. w'[q] # Idle
      BY PCParts DEF FirstRun, BeforeSend
    <2>2. Kept(q)
      BY <1>1, <2>1
    <2>3. Owner(q)
      BY <2>2 DEF Owner, OwnsFence, RowQuiet
    <2>4. w[q].pc \in FirstRun \cup {"audit"}
      <3>1. CASE q # p
        BY <3>1 DEF LocalQuiet, Moved, Ended
      <3>2. CASE q = p
        BY <2>1, <2>2, <3>2 DEF SendInv, RunsAreTyped, LocalQuiet, Moved, Ended, FirstRun,
                                BeforeSend, After, Over
      <3> QED BY <3>1, <3>2
    <2> QED BY <1>6, <2>2, <2>3, <2>4 DEF SendInv, HolderMaySend
  <1>9. EntersAlone'
    BY <1>2 DEF SendInv, EntersAlone
  <1> QED BY <1>3, <1>4, <1>5, <1>7, <1>8, <1>9 DEF SendInv, AtMostOneGeneration

LEMMA ClaimGrantsFence ==
    ASSUME NEW row \in Rows
    PROVE  LET r == ClaimWorker(row)
           IN  r.fence = row.fence + 1 /\ r.sent = row.sent /\ r.lifecycle # "queued"
  BY DEF Rows, ClaimWorker, Lifecycles

\* A step of p that saves nothing, or a row with the same fence, marker and
\* lifecycle, leaves the row quiet.
SameClaim(row) == /\ row.fence = job.fence /\ (row.held => job.held)
                  /\ row.sent = job.sent
                  /\ row.lifecycle = "queued" => job.lifecycle = "queued"

\* The store's mutators that keep it so.
LEMMA StoreKeepsClaim ==
    ASSUME job \in Rows
    PROVE  /\ \A to \in Lifecycles \ {"queued"}, status \in CommitStatuses :
                 SameClaim(Transition(job, to, status))
           /\ SameClaim(CaptureManifest(job))
           /\ \A d \in Deliveries : SameClaim(PlaceOutput(job, d))
           /\ SameClaim(Cancel(job))
           /\ SameClaim(MarkQueuePublished(job))
           /\ \A purge, settle \in BOOLEAN : SameClaim(MarkCleaned(job, purge, settle))
  BY DEF SameClaim, Rows, Transition, CaptureManifest, PlaceOutput, Cancel,
         MarkQueuePublished, MarkCleaned, Lifecycles

LEMMA SameClaimIsQuiet == ASSUME SendInv, SameClaim(job') PROVE RowQuiet
  BY DEF SendInv, UnmarkedIsUnsent, QueuedIsFresh, SameClaim, RowQuiet

LEMMA UnsavedIsQuiet == ASSUME SendInv, Unsaved PROVE RowQuiet
  BY SameClaimIsQuiet DEF SameClaim, Unsaved

\* The holder writes its attempt back: with its own marker, or without one while
\* nothing was sent.
LEMMA AttemptIsQuiet ==
    ASSUME SendInv, NEW p \in Proc, Owner(p), NEW status, NEW sent \in BOOLEAN,
           ~sent => w[p].pc \in FirstRun /\ ~w[p].sent,
           job' = ObserveAttempt(job, status, sent)
    PROVE  RowQuiet
  <1>1. job \in Rows /\ job.held
    BY DEF SendInv, TypeOK, Owner, OwnsFence
  <1>2. /\ job'.fence = job.fence /\ job'.held = job.held /\ job'.sent = sent
        /\ job'.lifecycle = job.lifecycle
    BY <1>1 DEF ObserveAttempt, Rows
  <1>3. job.lifecycle # "queued"
    BY <1>1 DEF SendInv, QueuedIsFresh
  <1>4. ~sent => calls = 0 /\ NobodyEnters
    BY DEF SendInv, HolderMaySend, RunsAreTyped
  <1> QED BY <1>2, <1>3, <1>4 DEF RowQuiet

-----------------------------------------------------------------------------

LEMMA ClaimKeepsInv ==
    ASSUME SendInv, TypeOK', NEW p \in Proc, Claim(p)
    PROVE  SendInv'
  <1>0. /\ RunsTyped /\ job \in Rows /\ job.fence \in Nat /\ calls' = calls
        /\ \A q \in Proc : w[q].fence \in Nat
    BY DEF SendInv, TypeOK, RunsTyped, Invocations, Rows, Claim, Outside
  <1>1. CASE ~Claimable(job)
    <2>1. Moved(p) /\ w'[p].pc = "refused"
      BY <1>0, <1>1, GotoMoves DEF Claim, PCs
    <2>2. RowQuiet
      BY <1>1, UnsavedIsQuiet DEF Claim
    <2> QED BY <1>0, <2>1, <2>2, QuietKeepsInv DEF LocalQuiet, Over
  <1>2. CASE Claimable(job)
    <2> DEFINE pc == IF ~job.claimedAudited THEN "audit"
                     ELSE IF RecoveryOnly(job) THEN "recover" ELSE "bind"
               fence == job.fence + 1
               n == [Idle EXCEPT !.pc = pc, !.fence = fence, !.recovery = RecoveryOnly(job)]
    <2>1. job' = ClaimWorker(job) /\ w' = [w EXCEPT ![p] = n]
      BY <1>2, Zenon DEF Claim, Save
    <2>2. n.pc = pc /\ n.fence = fence /\ n.sent = FALSE /\ n.recovery = RecoveryOnly(job)
      <3> HIDE DEF pc, fence
      <3> QED BY DEF Idle
    <2>3. /\ pc \in {"audit", "recover", "bind"}
          /\ pc = "bind" => ~RecoveryOnly(job)
      OBVIOUS
    <2> HIDE DEF n, pc
    <2>4. /\ w'[p] = n
          /\ \A q \in Proc \ {p} : w'[q] = w[q]
      BY <1>0, <2>1 DEF RunsTyped
    <2>5. job'.fence = fence /\ job'.sent = job.sent /\ job'.lifecycle # "queued"
      BY <1>0, <2>1, ClaimGrantsFence
    <2>6. \A q \in Proc : w[q].fence <= job.fence
      BY DEF SendInv, FencesGrantedOnce
    <2>7. \A q \in Proc : w'[q].pc = "enter" => w[q].pc = "enter"
      BY <2>2, <2>3, <2>4
    <2>8. FencesGrantedOnce'
      BY <1>0, <2>2, <2>4, <2>5, <2>6 DEF SendInv, FencesGrantedOnce
    <2>9. RunsAreTyped'
      BY <1>0, <2>2, <2>3, <2>4 DEF SendInv, RunsAreTyped, FirstRun, BeforeSend
    <2>10. QueuedIsFresh'
      BY <2>5 DEF QueuedIsFresh
    <2>11. UnmarkedIsUnsent'
      BY <1>0, <2>5, <2>7 DEF SendInv, UnmarkedIsUnsent, NobodyEnters
    <2>12. ~RecoveryOnly(job) => ~job.sent
      BY <1>2 DEF SendInv, QueuedIsFresh, Claimable, RecoveryOnly
    <2>13. HolderMaySend'
      <3> SUFFICES ASSUME NEW q \in Proc, ~w'[q].recovery, Owner(q)'
                   PROVE  calls' = 0 /\ NobodyEnters'
        BY DEF HolderMaySend
      <3>1. q = p
        <4>1. w'[q].fence = job.fence + 1
          BY <2>5 DEF Owner, OwnsFence
        <4> QED BY <1>0, <2>4, <2>6, <4>1
      <3>2. ~job.sent
        BY <2>2, <2>4, <2>12, <3>1
      <3> QED BY <1>0, <2>7, <3>2 DEF SendInv, UnmarkedIsUnsent, NobodyEnters
    <2>14. EntersAlone'
      BY <1>0, <2>7 DEF SendInv, EntersAlone
    <2> QED BY <1>0, <2>8, <2>9, <2>10, <2>11, <2>13, <2>14 DEF SendInv, AtMostOneGeneration
  <1> QED BY <1>1, <1>2

LEMMA MarkKeepsInv ==
    ASSUME SendInv, TypeOK', NEW p \in Proc, MarkPayloadSent(p)
    PROVE  SendInv'
  <1>0. /\ RunsTyped /\ job \in Rows /\ calls' = calls /\ w[p].pc = "render"
        /\ "err" \in Results
    BY DEF SendInv, TypeOK, RunsTyped, MarkPayloadSent, Outside, Calls, At, Results
  <1> DEFINE n == [w[p] EXCEPT !.pc = "enter", !.sent = TRUE]
  <1>1. CASE Dispatch(p, "err")
    <2>1. LocalQuiet(p)
      BY <1>0, <1>1, DispatchMoves DEF LocalQuiet, BeforeSend, After, Over
    <2>2. RowQuiet
      <3>1. CASE Unsaved
        BY <3>1, UnsavedIsQuiet
      <3>2. CASE Owner(p) /\ job' = ObserveAttempt(job, "not_started", TRUE)
        BY <3>2, AttemptIsQuiet
      <3>3. CASE w' = [w EXCEPT ![p] = n] /\ ~Dispatch(p, "err")
        BY <1>1, <3>3
      <3> QED BY <1>0, <1>1, <3>1, <3>2, Zenon DEF MarkPayloadSent, Save
    <2> QED BY <1>0, <2>1, <2>2, QuietKeepsInv
  <1>2. CASE Owner(p) /\ job' = ObserveAttempt(job, "not_started", TRUE)
             /\ w' = [w EXCEPT ![p] = n]
    <2>1. w[p] \in Invocations
      BY <1>0 DEF RunsTyped
    <2>2. n.pc = "enter" /\ n.sent = TRUE /\ n.fence = w[p].fence
          /\ n.recovery = w[p].recovery
      BY <2>1 DEF Invocations
    <2> HIDE DEF n
    <2>3. w'[p] = n /\ \A q \in Proc \ {p} : w'[q] = w[q]
      BY <1>0, <1>2 DEF RunsTyped
    <2>4. /\ job'.fence = job.fence /\ job'.sent = TRUE /\ job'.lifecycle = job.lifecycle
          /\ job'.held = job.held
      BY <1>0, <1>2 DEF ObserveAttempt, Rows
    <2>5. w[p].fence = job.fence /\ job.held /\ w[p].fence # 0 /\ ~w[p].recovery /\ ~w[p].sent
      BY <1>0, <1>2 DEF Owner, OwnsFence, SendInv, RunsAreTyped, FirstRun, BeforeSend
    <2>6. calls = 0 /\ NobodyEnters
      BY <1>0, <1>2, <2>5 DEF SendInv, HolderMaySend, FirstRun, BeforeSend
    <2>7. FencesGrantedOnce'
      BY <2>2, <2>3, <2>4 DEF SendInv, FencesGrantedOnce
    <2>8. RunsAreTyped'
      BY <2>2, <2>3, <2>5 DEF SendInv, RunsAreTyped, BeforeSend
    <2>9. QueuedIsFresh' /\ UnmarkedIsUnsent'
      BY <2>4, <2>5 DEF SendInv, QueuedIsFresh, UnmarkedIsUnsent
    <2>10. HolderMaySend'
      <3> SUFFICES ASSUME NEW q \in Proc, w'[q].pc \in FirstRun \cup {"audit"}, Owner(q)'
                   PROVE  FALSE
        BY DEF HolderMaySend
      <3>1. q # p
        BY <2>2, <2>3 DEF FirstRun, BeforeSend
      <3>2. w[q].fence = w[p].fence
        BY <2>3, <2>4, <2>5, <3>1 DEF Owner, OwnsFence
      <3> QED BY <2>5, <3>1, <3>2 DEF SendInv, FencesGrantedOnce
    <2>11. EntersAlone'
      BY <1>0, <2>3, <2>6 DEF EntersAlone, NobodyEnters
    <2> QED BY <1>0, <2>6, <2>7, <2>8, <2>9, <2>10, <2>11 DEF SendInv, AtMostOneGeneration
  <1> QED BY <1>1, <1>2, Zenon DEF MarkPayloadSent, Save

LEMMA EnterKeepsInv ==
    ASSUME SendInv, TypeOK', NEW p \in Proc, EnterAdapter(p)
    PROVE  SendInv'
  <1>0. /\ RunsTyped /\ w[p].pc = "enter" /\ Unsaved /\ RowQuiet
        /\ LocalErrors(p) \subseteq Results
    BY UnsavedIsQuiet DEF SendInv, TypeOK, RunsTyped, EnterAdapter, At, LocalErrors, Results
  <1>1. CASE Outside /\ \E result \in LocalErrors(p) : Dispatch(p, result)
    <2>1. LocalQuiet(p)
      BY <1>0, <1>1, DispatchMoves DEF LocalQuiet, BeforeSend, After, Over
    <2> QED BY <1>0, <1>1, <2>1, QuietKeepsInv DEF Outside
  <1>2. CASE calls' = calls + 1 /\ Goto(p, "wait")
    <2>1. Moved(p) /\ w'[p].pc = "wait"
      BY <1>0, <1>2, GotoMoves DEF PCs
    <2>2. calls = 0 /\ \A q \in Proc \ {p} : w[q].pc # "enter"
      BY <1>0 DEF SendInv, EntersAlone
    <2>3. NobodyEnters' /\ calls' = 1
      BY <1>2, <2>1, <2>2 DEF NobodyEnters, Moved
    <2>4. job' = job /\ job.sent
      BY <1>0 DEF Unsaved, SendInv, UnmarkedIsUnsent, NobodyEnters
    <2>5. FencesGrantedOnce'
      BY <2>1, <2>4 DEF SendInv, FencesGrantedOnce, Moved
    <2>6. RunsAreTyped'
      BY <1>0, <2>1 DEF SendInv, RunsAreTyped, Moved, FirstRun, BeforeSend
    <2>7. QueuedIsFresh' /\ UnmarkedIsUnsent'
      BY <2>4 DEF SendInv, QueuedIsFresh, UnmarkedIsUnsent
    <2>8. HolderMaySend'
      <3> SUFFICES ASSUME NEW q \in Proc, w'[q].pc \in FirstRun \cup {"audit"},
                          ~w'[q].recovery, ~w'[q].sent, Owner(q)'
                   PROVE  FALSE
        BY DEF HolderMaySend
      <3>1. q # p
        BY <2>1 DEF FirstRun, BeforeSend
      <3>2. w'[q] = w[q] /\ Owner(q)
        BY <2>1, <2>4, <3>1 DEF Moved, Owner, OwnsFence
      <3> QED BY <1>0, <3>2 DEF SendInv, HolderMaySend, NobodyEnters
    <2>9. EntersAlone'
      BY <2>3 DEF EntersAlone, NobodyEnters
    <2> QED BY <2>3, <2>5, <2>6, <2>7, <2>8, <2>9 DEF SendInv, AtMostOneGeneration
  <1> QED BY <1>1, <1>2 DEF EnterAdapter

\* The steps of a worker that are quiet as they stand.
LEMMA WorkerIsQuiet ==
    ASSUME SendInv, NEW p \in Proc, Worker(p),
           ~Claim(p), ~MarkPayloadSent(p), ~EnterAdapter(p)
    PROVE  LocalQuiet(p) /\ RowQuiet /\ calls' = calls
  <1> USE DEF Outside
  <1>0. /\ RunsTyped /\ job \in Rows
        /\ LocalErrors(p) \subseteq Results /\ Answers(p) \subseteq Results
    BY DEF SendInv, TypeOK, RunsTyped, LocalErrors, Answers, Results
  <1>1. CASE Refused(p)
    <2>1. LocalQuiet(p)
      BY <1>0, <1>1, GotoMoves, DownEnds DEF Refused, PCs, LocalQuiet, Over
    <2> QED BY <1>1, <2>1, UnsavedIsQuiet DEF Refused
  <1>2. CASE AuditClaim(p)
    <2> DEFINE pc == IF OwesCleanup(job) THEN "cleanup"
                     ELSE IF job.lifecycle = "cancel_requested" \/ w[p].recovery
                          THEN "recover" ELSE "bind"
    <2>1. Goto(p, pc) /\ pc \in PCs
      BY <1>2, Zenon DEF AuditClaim, PCs
    <2>2. pc \in {"cleanup", "recover"} \/ (pc = "bind" /\ ~w[p].recovery)
      OBVIOUS
    <2> HIDE DEF pc
    <2>3. LocalQuiet(p)
      BY <1>0, <1>2, <2>1, <2>2, GotoMoves DEF AuditClaim, Calls, At, LocalQuiet, Over, After
    <2>4. SameClaim(job')
      BY <1>0, <1>2 DEF AuditClaim, Save, SameClaim, Rows
    <2> QED BY <1>2, <2>3, <2>4, SameClaimIsQuiet DEF AuditClaim
  <1>3. CASE Recover(p)
    <2>1. LocalQuiet(p)
      BY <1>0, <1>3, GotoMoves, SettleMoves
      DEF Recover, Calls, At, PCs, Rows, Lifecycles, LocalQuiet, Over, After
    <2> QED BY <1>3, <2>1, UnsavedIsQuiet DEF Recover
  <1>4. CASE Bind(p) \/ RecheckCancel(p) \/ Preflight(p)
    <2>1. LocalQuiet(p)
      BY <1>0, <1>4, GotoMoves, SettleMoves
      DEF Bind, RecheckCancel, Preflight, Calls, At, PCs, LocalQuiet, BeforeSend, Over, After
    <2> QED BY <1>4, <2>1, UnsavedIsQuiet DEF Bind, RecheckCancel, Preflight
  <1>5. CASE RecordAttempt(p)
    <2>1. LocalQuiet(p)
      BY <1>0, <1>5, GotoMoves, ReturnEnds
      DEF RecordAttempt, Calls, At, PCs, LocalQuiet, BeforeSend
    <2>2. CASE Owner(p)
      <3>1. job' = ObserveAttempt(job, "not_started", FALSE)
            /\ w[p].pc \in FirstRun /\ ~w[p].sent
        BY <1>5, <2>2 DEF RecordAttempt, Save, Calls, At, SendInv, RunsAreTyped,
                          FirstRun, BeforeSend
      <3> QED BY <1>5, <2>1, <2>2, <3>1, AttemptIsQuiet DEF RecordAttempt
    <2>3. CASE ~Owner(p)
      BY <1>5, <2>1, <2>3, UnsavedIsQuiet DEF RecordAttempt
    <2> QED BY <2>2, <2>3
  <1>6. CASE RenderRefused(p) \/ AdapterReturns(p)
    <2>1. LocalQuiet(p)
      BY <1>0, <1>6, DispatchMoves
      DEF RenderRefused, AdapterReturns, At, LocalQuiet, BeforeSend, After, Over
    <2> QED BY <1>6, <2>1, UnsavedIsQuiet DEF RenderRefused, AdapterReturns
  <1>7. CASE LostAttempt(p) \/ ErrAttempt(p)
    <2>1. LocalQuiet(p)
      BY <1>0, <1>7, SettleMoves, DownEnds
      DEF LostAttempt, ErrAttempt, Calls, At, LocalQuiet, Over, After
    <2>2. w[p].pc \in FirstRun /\ w[p].sent \in BOOLEAN /\ PersistAttempt(p)
      BY <1>0, <1>7 DEF LostAttempt, ErrAttempt, Calls, At, FirstRun, RunsTyped, Invocations
    <2>3. RowQuiet
      <3>1. CASE Owner(p)
        BY <2>2, <3>1, AttemptIsQuiet DEF PersistAttempt, Save
      <3>2. CASE ~Owner(p)
        BY <2>2, <3>2, UnsavedIsQuiet DEF PersistAttempt
      <3> QED BY <3>1, <3>2
    <2> QED BY <1>7, <2>1, <2>3 DEF LostAttempt, ErrAttempt
  <1>8. CASE RecheckResult(p)
    <2>1. LocalQuiet(p)
      BY <1>0, <1>8, GotoMoves, SettleMoves
      DEF RecheckResult, Calls, At, PCs, LocalQuiet, Over, After
    <2> QED BY <1>8, <2>1, UnsavedIsQuiet DEF RecheckResult
  <1>9. CASE Capture(p)
    <2>1. LocalQuiet(p)
      BY <1>0, <1>9, GotoMoves, DownEnds, ReturnEnds
      DEF Capture, Calls, At, PCs, LocalQuiet, Over, After
    <2>2. Unsaved \/ SameClaim(job')
      BY <1>0, <1>9, StoreKeepsClaim DEF Capture, Save
    <2> QED BY <1>9, <2>1, <2>2, UnsavedIsQuiet, SameClaimIsQuiet DEF Capture
  <1>10. CASE Place(p)
    <2>1. LocalQuiet(p)
      BY <1>0, <1>10, SettleMoves, ReturnEnds DEF Place, Calls, At, LocalQuiet, Over, After
    <2>2. Unsaved \/ SameClaim(job')
      BY <1>0, <1>10, StoreKeepsClaim DEF Place, Save, Deliveries
    <2> QED BY <1>10, <2>1, <2>2, UnsavedIsQuiet, SameClaimIsQuiet DEF Place
  <1>11. CASE PersistTerminal(p)
    <2>1. LocalQuiet(p)
      BY <1>0, <1>11, GotoMoves, DownEnds, ReturnEnds
      DEF PersistTerminal, Calls, At, PCs, LocalQuiet, Over, After
    <2>2. ASSUME CanTransition(job.lifecycle, w[p].to)
          PROVE  w[p].to # "queued"
      BY <2>2 DEF CanTransition, Terminal
    <2>3. Unsaved \/ SameClaim(job')
      <3>1. w[p].to \in Lifecycles /\ w[p].commit \in CommitStatuses
        BY <1>0 DEF RunsTyped, Invocations
      <3> QED BY <1>0, <1>11, <2>2, <3>1, StoreKeepsClaim DEF PersistTerminal, Save
    <2> QED BY <1>11, <2>1, <2>3, UnsavedIsQuiet, SameClaimIsQuiet DEF PersistTerminal
  <1>12. CASE Cleanup(p)
    <2>1. LocalQuiet(p)
      BY <1>0, <1>12, DownEnds, ReturnEnds DEF Cleanup, LocalQuiet
    <2>2. SameClaim(job')
      BY <1>0, <1>12, StoreKeepsClaim DEF Cleanup, Save
    <2> QED BY <1>12, <2>1, <2>2, SameClaimIsQuiet DEF Cleanup
  <1>13. CASE LedgerUnreadable(p)
    BY <1>0, <1>13, DownEnds, UnsavedIsQuiet DEF LedgerUnreadable, LocalQuiet
  <1> QED BY <1>1, <1>2, <1>3, <1>4, <1>5, <1>6, <1>7, <1>8, <1>9, <1>10, <1>11,
             <1>12, <1>13 DEF Worker

LEMMA OthersAreQuiet ==
    ASSUME SendInv, NEW p \in Proc,
           Heartbeat(p) \/ ClientCancel(p) \/ CreateRetry(p) \/ CancelCleanup(p)
              \/ Crash(p) \/ Restart(p) \/ ProviderDecides \/ LeaseExpires
    PROVE  LocalQuiet(p) /\ RowQuiet /\ calls' = calls
  <1> USE DEF Outside
  <1>0. RunsTyped /\ job \in Rows
    BY DEF SendInv, TypeOK, RunsTyped
  <1>1. w' = w => LocalQuiet(p)
    BY DEF LocalQuiet, Moved
  <1>2. CASE Heartbeat(p)
    <2>1. LocalQuiet(p)
      BY <1>0, <1>2 DEF Heartbeat, RunsTyped, Invocations, LocalQuiet, Moved
    <2> QED BY <1>2, <2>1, UnsavedIsQuiet DEF Heartbeat
  <1>3. CASE ClientCancel(p)
    <2>1. SameClaim(job')
      BY <1>0, <1>3, StoreKeepsClaim DEF ClientCancel, Save
    <2> QED BY <1>1, <1>3, <2>1, SameClaimIsQuiet DEF ClientCancel
  <1>4. CASE CreateRetry(p)
    <2>1. SameClaim(job')
      BY <1>0, <1>4, StoreKeepsClaim DEF CreateRetry, Save
    <2> QED BY <1>1, <1>4, <2>1, SameClaimIsQuiet DEF CreateRetry
  <1>5. CASE CancelCleanup(p)
    <2>1. Unsaved \/ SameClaim(job')
      BY <1>0, <1>5, StoreKeepsClaim DEF CancelCleanup, Save
    <2> QED BY <1>1, <1>5, <2>1, SameClaimIsQuiet, UnsavedIsQuiet DEF CancelCleanup
  <1>6. CASE Crash(p)
    BY <1>0, <1>6, DownEnds, UnsavedIsQuiet DEF Crash, LocalQuiet
  <1>7. CASE Restart(p)
    <2>1. Unsaved \/ SameClaim(job')
      BY <1>0, <1>7, StoreKeepsClaim DEF Restart, Save
    <2> QED BY <1>1, <1>7, <2>1, SameClaimIsQuiet, UnsavedIsQuiet DEF Restart
  <1>8. CASE ProviderDecides
    BY <1>1, <1>8, UnsavedIsQuiet DEF ProviderDecides, Unsaved
  <1>9. CASE LeaseExpires
    <2>1. SameClaim(job')
      BY <1>0, <1>9 DEF LeaseExpires, SameClaim, Rows
    <2> QED BY <1>1, <1>9, <2>1, SameClaimIsQuiet DEF LeaseExpires
  <1> QED BY <1>2, <1>3, <1>4, <1>5, <1>6, <1>7, <1>8, <1>9

LEMMA InitSatisfiesInv == ASSUME Init PROVE SendInv
  <1>1. /\ job.sent = FALSE /\ job.held = FALSE /\ job.fence = 0 /\ calls = 0
        /\ \A p \in Proc : w[p] = Idle
    BY DEF Init, NewQueuedRenderJob, MarkQueuePublished
  <1>2. \A p \in Proc : w[p].pc = "idle" /\ w[p].fence = 0
    BY <1>1, PCParts
  <1>3. FencesGrantedOnce /\ RunsAreTyped
    BY <1>1, <1>2 DEF FencesGrantedOnce, RunsAreTyped, FirstRun, BeforeSend
  <1>4. QueuedIsFresh /\ UnmarkedIsUnsent /\ EntersAlone /\ AtMostOneGeneration
    BY <1>1, <1>2 DEF QueuedIsFresh, UnmarkedIsUnsent, NobodyEnters, EntersAlone,
                      AtMostOneGeneration
  <1>5. HolderMaySend
    BY <1>1 DEF HolderMaySend, Owner, OwnsFence
  <1> QED BY <1>3, <1>4, <1>5, InitHasType DEF SendInv

LEMMA StepKeepsInv ==
    ASSUME SendInv, Proc # {}, [Next]_vars
    PROVE  SendInv'
  <1>1. TypeOK'
    BY StepKeepsType DEF SendInv
  <1>2. PICK r \in Proc : TRUE
    OBVIOUS
  <1>3. CASE \E p \in Proc : Worker(p)
    <2>1. PICK p \in Proc : Worker(p)
      BY <1>3
    <2>2. CASE Claim(p) \/ MarkPayloadSent(p) \/ EnterAdapter(p)
      BY <1>1, <2>2, ClaimKeepsInv, MarkKeepsInv, EnterKeepsInv
    <2>3. CASE ~(Claim(p) \/ MarkPayloadSent(p) \/ EnterAdapter(p))
      BY <1>1, <2>1, <2>3, WorkerIsQuiet, QuietKeepsInv
    <2> QED BY <2>2, <2>3
  <1>4. CASE Next /\ ~(\E p \in Proc : Worker(p))
    BY <1>1, <1>2, <1>4, OthersAreQuiet, QuietKeepsInv DEF Next
  <1>5. CASE UNCHANGED vars
    <2>1. LocalQuiet(r) /\ Unsaved /\ calls' = calls
      BY <1>5 DEF vars, LocalQuiet, Moved, Unsaved
    <2> QED BY <1>1, <2>1, UnsavedIsQuiet, QuietKeepsInv
  <1> QED BY <1>3, <1>4, <1>5

\* The inductive invariant: fences are granted once, only a full claim reaches the
\* send boundary, and a full claim exists only while nothing was sent (ClaimWorker,
\* ObserveAttempt and MarkPayloadSent).
THEOREM SendInvariant == Spec => []SendInv
  <1>1. Init => SendInv /\ Proc # {}
    BY InitSatisfiesInv DEF Init
  <1>2. SendInv /\ Proc # {} /\ [Next]_vars => SendInv' /\ (Proc # {})'
    BY StepKeepsInv
  <1> QED BY <1>1, <1>2, PTL DEF Spec

\* Whatever processes crash, leases expire, workers linger and clients cancel, the
\* Provider Adapter sends a job's payload at most once (the recovery-only claims of
\* ClaimWorker and the fenced send boundary of ExecuteJob).
THEOREM PayloadSentAtMostOnce == Spec => []AtMostOneGeneration
  <1>1. SendInv => AtMostOneGeneration
    BY DEF SendInv
  <1> QED BY <1>1, SendInvariant, PTL

\* Once the Adapter has sent the payload the row is marked, and stays so: the
\* marker precedes the send and no stale copy of the attempt overwrites it.
THEOREM PayloadMarkedForGood == Spec => []PayloadIsRecorded
  <1>1. SendInv => PayloadIsRecorded
    BY DEF SendInv, TypeOK, UnmarkedIsUnsent, PayloadIsRecorded
  <1> QED BY <1>1, SendInvariant, PTL
=============================================================================
