------------------------ MODULE RenderVerdictProofs ------------------------
(***************************************************************************)
(* Machine-checked proofs of what a row of RenderWorker says about the     *)
(* Provider, the result and the occupancy, for any set of processes and    *)
(* any number of faults.  One invariant carries them all: what a row may   *)
(* hold (RowKnows), what any run knows (RunKnows), and what the run that   *)
(* holds the fence may rely on (HolderKnows), which is where a stale       *)
(* worker differs from the holder.  With it every step of RenderWorker is  *)
(* a step of RenderContract or leaves what a client reads alone.           *)
(***************************************************************************)
EXTENDS RenderWorkerProofs

-----------------------------------------------------------------------------
(* The inductive invariant, on top of SendInv. *)

\* No generation exists, and none can come to exist without the fence.
Ungenerated == NobodyEnters /\ provider \in {"idle", "rejected"}

\* A first run that may still capture a result.
MayCapture(p) ==
    /\ ~w[p].recovery
    /\ w[p].pc \in FirstRun \cup {"audit", "enter", "wait", "recheckResult", "capture"}

RowKnows ==
    /\ job.lifecycle = "queued" => ~job.manifest /\ job.commit = "not_started"
    /\ job.lifecycle \in Terminal => ~job.held
    /\ job.lifecycle \notin Terminal =>
          /\ job.commit # "not_committed" /\ canceling = {}
          /\ job.manifest => job.sent /\ job.commit = "committed"
    /\ job.manifest \/ job.commit = "committed" => calls # 0
    /\ OccupancyHeldUntilTerminal /\ CanceledDeliversNothing
    /\ CompletedIsCaptured /\ NonCommitIsProved
    /\ provider # "idle" => calls # 0

RunKnows(p) ==
    /\ w[p].pc = "terminal" => w[p].to \in Terminal
    /\ w[p].pc = "cleanup" => job.lifecycle \in Terminal
    /\ w[p].pc \in {"recheckResult", "capture"} => ~w[p].recovery /\ w[p].sent /\ calls # 0

\* What the run is about to persist.
VerdictHolds(p) ==
    /\ job.commit \in ForbidsReplacement => w[p].commit = job.commit
    /\ w[p].commit \notin ForbidsReplacement => Ungenerated
    /\ IF w[p].commit = "not_started" THEN calls = 0 ELSE w[p].commit # "unknown" => calls # 0
    /\ w[p].to = "canceled" => ~job.manifest
    /\ w[p].to = "completed" => /\ job.manifest /\ w[p].commit = "committed"
                                /\ job.delivery \in {"available", "capped"}

HolderKnows(p) ==
    /\ w[p].sent => job.sent
    /\ MayCapture(p) => ~job.manifest /\ job.commit \notin ForbidsReplacement
    /\ w[p].pc = "place" => job.manifest
    /\ w[p].pc = "terminal" => VerdictHolds(p)

Knows(p) == RunKnows(p) /\ (Owner(p) => HolderKnows(p))

VerdictInv == SendInv /\ RowKnows /\ \A p \in Proc : Knows(p)

-----------------------------------------------------------------------------
(* What the helpers of the specification do to the run that takes the step. *)

LEMMA SettleSays ==
    ASSUME RunsTyped, NEW p \in Proc, NEW to, NEW commit, Settle(p, to, commit)
    PROVE  /\ Moved(p) /\ w'[p].pc = "terminal"
           /\ w'[p].to = to /\ w'[p].commit = commit
  <1> DEFINE n == [w[p] EXCEPT !.pc = "terminal", !.to = to, !.commit = commit]
  <1>1. w[p] \in Invocations /\ w' = [w EXCEPT ![p] = n]
    BY Zenon DEF Settle, RunsTyped
  <1>2. n.to = to /\ n.commit = commit
    BY <1>1 DEF Invocations
  <1> HIDE DEF n
  <1> QED BY <1>1, <1>2, SettleMoves DEF RunsTyped

\* What a result of Render may lead to.
Dispatched(p, result) ==
    \/ w'[p].pc \in {"lostAttempt", "errAttempt"}
    \/ w'[p].pc = "terminal" /\ w'[p].to = "failed" /\ w'[p].commit = "unknown"
    \/ /\ w'[p].pc = "terminal" /\ w'[p].to = "canceled" /\ w'[p].commit = "not_started"
       /\ ~w[p].sent
    \/ /\ w'[p].pc = "terminal" /\ w'[p].to = "failed" /\ w'[p].commit = "not_committed"
       /\ result = "not_committed"
    \/ w'[p].pc = "recheckResult" /\ result \in {"captured", "empty"}

LEMMA DispatchSays ==
    ASSUME RunsTyped, NEW p \in Proc, NEW result \in Results, Dispatch(p, result)
    PROVE  Moved(p) /\ Dispatched(p, result)
  <1>1. CASE w[p].hb = "lost"
    <2> DEFINE n == [w[p] EXCEPT !.pc = "lostAttempt", !.fails = TRUE]
    <2>1. w[p] \in Invocations /\ w' = [w EXCEPT ![p] = n]
      BY <1>1 DEF Dispatch, RunsTyped
    <2>2. n.pc = "lostAttempt"
      BY <2>1 DEF Invocations
    <2> HIDE DEF n
    <2> QED BY <2>1, <2>2, DispatchMoves DEF RunsTyped, Dispatched
  <1>2. CASE w[p].hb = "canceled" /\ result = "ctx"
    BY <1>2, SettleSays DEF Dispatch, Dispatched
  <1>3. CASE w[p].hb # "lost" /\ ~(w[p].hb = "canceled" /\ result = "ctx")
    <2>1. CASE result \in {"err", "ctx"}
      BY <1>3, <2>1, GotoMoves DEF Dispatch, PCs, Dispatched
    <2>2. CASE result \in {"not_committed", "unknown"}
      BY <1>3, <2>2, SettleSays DEF Dispatch, Dispatched
    <2>3. CASE result \in {"captured", "empty"}
      <3> DEFINE n == [w[p] EXCEPT !.pc = "recheckResult", !.empty = (result = "empty")]
      <3>1. w[p] \in Invocations /\ w' = [w EXCEPT ![p] = n]
        BY <1>3, <2>3 DEF Dispatch, RunsTyped
      <3>2. n.pc = "recheckResult"
        BY <3>1, Zenon DEF Invocations
      <3> HIDE DEF n
      <3> QED BY <2>3, <3>1, <3>2, DispatchMoves DEF RunsTyped, Dispatched
    <2> QED BY <2>1, <2>2, <2>3 DEF Results
  <1> QED BY <1>1, <1>2, <1>3

-----------------------------------------------------------------------------
(* What a step of p leaves to the others, and what it may do to the row. *)

\* A row that tells a run nothing new.
RowKept ==
    /\ job'.fence = job.fence /\ (job'.held => job.held)
    /\ job'.sent = job.sent /\ job'.manifest = job.manifest
    /\ job'.commit = job.commit /\ job'.delivery = job.delivery

\* Nobody generates in this step.
ProviderKept ==
    /\ calls' = calls /\ (NobodyEnters => NobodyEnters')
    /\ provider' = provider \/ (provider = "working" /\ calls # 0)

TerminalKept == job.lifecycle \in Terminal => job'.lifecycle \in Terminal

OthersStay(p) == \A q \in Proc \ {p} : w'[q] = w[q]

\* A run that took no step still knows what it knew: the row is kept, or the run
\* does not hold the fence.
LEMMA RunStillKnows ==
    ASSUME VerdictInv, NEW q \in Proc, w'[q] = w[q], TerminalKept,
           \/ RowKept /\ ProviderKept
           \/ ~Owner(q)' /\ (calls # 0 => calls' # 0)
    PROVE  Knows(q)'
  <1>1. Knows(q)
    BY DEF VerdictInv
  <1>2. RunKnows(q)'
    BY <1>1 DEF Knows, RunKnows, ProviderKept, TerminalKept
  <1>3. ASSUME Owner(q)' PROVE HolderKnows(q)'
    <2>1. RowKept /\ ProviderKept
      BY <1>3
    <2>2. Owner(q)
      BY <1>3, <2>1 DEF Owner, OwnsFence, RowKept
    <2>3. Ungenerated => Ungenerated'
      BY <2>1 DEF Ungenerated, ProviderKept
    <2> QED BY <1>1, <2>1, <2>2, <2>3
            DEF Knows, HolderKnows, MayCapture, VerdictHolds, RowKept, ProviderKept
  <1> QED BY <1>2, <1>3 DEF Knows

\* The other runs still know what they knew: the row is kept, or its holder wrote it.
LEMMA OthersKnow ==
    ASSUME VerdictInv, NEW p \in Proc, OthersStay(p), TerminalKept,
           \/ RowKept /\ ProviderKept
           \/ /\ Owner(p) /\ w[p].fence # 0 /\ (calls # 0 => calls' # 0)
              /\ job'.fence = job.fence
    PROVE  \A q \in Proc \ {p} : Knows(q)'
  <1> SUFFICES ASSUME NEW q \in Proc \ {p}
               PROVE  Knows(q)'
    OBVIOUS
  <1>1. w'[q] = w[q]
    BY DEF OthersStay
  <1>2. CASE RowKept /\ ProviderKept
    BY <1>1, <1>2, RunStillKnows
  <1>3. CASE /\ Owner(p) /\ w[p].fence # 0 /\ (calls # 0 => calls' # 0)
             /\ job'.fence = job.fence
    <2>1. w[p].fence = job.fence /\ w[q].fence # job.fence
      BY <1>3 DEF Owner, OwnsFence, VerdictInv, SendInv, FencesGrantedOnce
    <2>2. ~Owner(q)'
      BY <1>1, <1>3, <2>1 DEF Owner, OwnsFence
    <2> QED BY <1>1, <1>3, <2>2, RunStillKnows
  <1> QED BY <1>2, <1>3

\* A run that ended knows nothing.
LEMMA IdleKnows == ASSUME NEW p \in Proc, w'[p] = Idle PROVE Knows(p)'
  BY DEF Idle, Knows, RunKnows, HolderKnows, MayCapture, FirstRun, BeforeSend

\* A step that keeps the row, but for a cancel or the cleanup of a terminal one,
\* keeps what the row may hold.
LEMMA KeptRowKnows ==
    ASSUME VerdictInv, RowKept, ProviderKept,
           canceling' \subseteq canceling \/ job'.lifecycle \in Terminal,
           job'.purged \/ job'.settled =>
               job.purged \/ job.settled \/ job.lifecycle \in Terminal,
           \/ job'.lifecycle = job.lifecycle
           \/ job.lifecycle = "queued" /\ job'.lifecycle = "canceled" /\ ~job'.held
           \/ job.lifecycle = "running" /\ job'.lifecycle = "cancel_requested"
    PROVE  RowKnows' /\ TerminalKept
  <1>1. TerminalKept /\ (job'.lifecycle \notin Terminal => job.lifecycle \notin Terminal)
    BY DEF TerminalKept, Terminal
  <1>2. NonCommitIsProved'
    <2>1. Ungenerated => Ungenerated'
      BY DEF Ungenerated, ProviderKept
    <2>2. CASE job.lifecycle = "queued"
      BY <2>1, <2>2 DEF VerdictInv, RowKnows, SendInv, QueuedIsFresh, UnmarkedIsUnsent, TypeOK,
                        ProviderStates, NonCommitIsProved, Ungenerated, NobodyEnters
    <2>3. CASE job.lifecycle # "queued"
      BY <2>1, <2>3 DEF VerdictInv, RowKnows, NonCommitIsProved, Ungenerated, NobodyEnters,
                        RowKept, Terminal
    <2> QED BY <2>2, <2>3
  <1>3. CanceledDeliversNothing' /\ CompletedIsCaptured' /\ OccupancyHeldUntilTerminal'
    BY DEF VerdictInv, RowKnows, CanceledDeliversNothing, CompletedIsCaptured,
           OccupancyHeldUntilTerminal, RowKept, Terminal
  <1> QED BY <1>1, <1>2, <1>3 DEF VerdictInv, RowKnows, RowKept, ProviderKept, Terminal

\* What a step of p has to show, and how much of it follows when nothing is saved.
AllKnow == RowKnows' /\ \A q \in Proc : Knows(q)'

LEMMA UnsavedKnows ==
    ASSUME VerdictInv, NEW p \in Proc, Unsaved, ProviderKept, OthersStay(p),
           canceling' \subseteq canceling, Knows(p)'
    PROVE  AllKnow
  <1>1. RowKept
    BY DEF Unsaved, RowKept
  <1>2. RowKnows' /\ TerminalKept
    BY <1>1, KeptRowKnows DEF Unsaved
  <1> QED BY <1>1, <1>2, OthersKnow DEF AllKnow

LEMMA StayMeans == (Stay => canceling' \subseteq canceling) /\ (Unsaved => job' = job)
  BY DEF Stay, Unsaved

\* A step that only moves p between places keeps the Provider where it is.
LEMMA MoveKeepsProvider ==
    ASSUME NEW p \in Proc, Outside, OthersStay(p), w'[p].pc = "enter" => w[p].pc = "enter"
    PROVE  ProviderKept
  BY DEF Outside, OthersStay, ProviderKept, NobodyEnters

LEMMA EndKeepsProvider ==
    ASSUME NEW p \in Proc, Outside, Ended(p)
    PROVE  ProviderKept /\ OthersStay(p) /\ Knows(p)'
  <1>1. OthersStay(p) /\ w'[p] = Idle /\ w'[p].pc # "enter"
    BY DEF Ended, OthersStay, Idle
  <1> QED BY <1>1, IdleKnows, MoveKeepsProvider

LEMMA ReturnCancels ==
    ASSUME NEW p, Return(p) \/ Down(p)
    PROVE  canceling' \subseteq canceling
  BY DEF Return, Down, Stay

\* A run that ends without saving anything.
LEMMA EndUnsavedKnows ==
    ASSUME VerdictInv, NEW p \in Proc, Unsaved, Outside, Return(p) \/ Down(p)
    PROVE  AllKnow
  <1>1. Ended(p)
    BY ReturnEnds, DownEnds DEF VerdictInv, SendInv, TypeOK, RunsTyped
  <1> QED BY <1>1, EndKeepsProvider, ReturnCancels, UnsavedKnows

\* A run that moves on without saving anything: it still knows what it has to.
LEMMA MoveUnsavedKnows ==
    ASSUME VerdictInv, NEW p \in Proc, Unsaved, Outside, Stay, Moved(p),
           w'[p].pc = "enter" => w[p].pc = "enter",
           Knows(p)'
    PROVE  AllKnow
  <1>1. OthersStay(p)
    BY DEF Moved, OthersStay
  <1> QED BY <1>1, MoveKeepsProvider, StayMeans, UnsavedKnows

\* Render has returned, and nothing is saved.
LEMMA DispatchKnows ==
    ASSUME VerdictInv, NEW p \in Proc, Unsaved, Outside, Stay,
           w[p].pc \in {"render", "enter", "wait"},
           NEW result \in Results, Dispatch(p, result),
           result = "not_committed" => provider = "rejected" /\ w[p].pc = "wait",
           result \in {"captured", "empty"} => provider = "committed" /\ w[p].pc = "wait"
    PROVE  AllKnow
  <1>0. /\ RunsTyped /\ RowKnows /\ Knows(p) /\ job' = job
        /\ provider \in ProviderStates
    BY DEF VerdictInv, SendInv, TypeOK, RunsTyped, Unsaved
  <1>1. /\ ~w[p].recovery /\ MayCapture(p)
        /\ w[p].pc \in {"enter", "wait"} => w[p].sent
        /\ w[p].pc = "render" => w[p].pc \in FirstRun
    BY DEF VerdictInv, SendInv, RunsAreTyped, FirstRun, BeforeSend, MayCapture
  <1>2. Owner(p) /\ w[p].pc = "render" /\ ~w[p].sent => calls = 0 /\ Ungenerated
    BY <1>0, <1>1 DEF VerdictInv, SendInv, HolderMaySend, RowKnows, Ungenerated
  <1>3. Moved(p) /\ Dispatched(p, result)
    BY <1>0, DispatchSays
  <1>4. provider \in {"committed", "rejected"} => calls # 0
    BY <1>0 DEF RowKnows
  <1>5. provider = "rejected" => NobodyEnters
    BY <1>4 DEF VerdictInv, SendInv, EntersAlone, NobodyEnters
  <1>6. Ungenerated => Ungenerated'
    BY <1>3 DEF Ungenerated, NobodyEnters, Moved, Outside, Dispatched
  <1>7. Knows(p)'
    BY <1>0, <1>1, <1>2, <1>3, <1>4, <1>5, <1>6
    DEF Knows, RunKnows, HolderKnows, MayCapture, VerdictHolds, Moved, Owner, Terminal,
        ForbidsReplacement, FirstRun, BeforeSend, Outside, Dispatched, Ungenerated
  <1> QED BY <1>3, <1>7, MoveUnsavedKnows DEF Dispatched

-----------------------------------------------------------------------------
(* The steps of a worker that save nothing. *)

LEMMA LookingKnows ==
    ASSUME VerdictInv, NEW p \in Proc,
           Refused(p) \/ Recover(p) \/ Bind(p) \/ RecheckCancel(p) \/ Preflight(p)
              \/ RenderRefused(p) \/ AdapterReturns(p) \/ RecheckResult(p)
              \/ LedgerUnreadable(p) \/ Heartbeat(p) \/ Crash(p)
    PROVE  AllKnow
  <1>0. /\ RunsTyped /\ job \in Rows /\ RowKnows /\ Knows(p)
        /\ LocalErrors(p) \subseteq Results /\ Answers(p) \subseteq Results
        /\ calls \in Nat /\ provider \in ProviderStates
    BY DEF VerdictInv, SendInv, TypeOK, RunsTyped, LocalErrors, Answers, Results
  <1>1. /\ w[p].pc \in FirstRun \cup {"enter", "wait"} => ~w[p].recovery
        /\ w[p].pc \in BeforeSend => ~w[p].sent
        /\ w[p].pc \in {"enter", "wait"} => w[p].sent
    BY DEF VerdictInv, SendInv, RunsAreTyped
  <1>2. Owner(p) /\ w[p].pc \in FirstRun /\ ~w[p].sent => calls = 0 /\ Ungenerated
    BY <1>0, <1>1 DEF VerdictInv, SendInv, HolderMaySend, RowKnows, Ungenerated
  <1>3. ~job.sent => calls = 0 /\ Ungenerated
    BY <1>0 DEF VerdictInv, SendInv, UnmarkedIsUnsent, RowKnows, Ungenerated
  <1>4. CASE Refused(p) \/ LedgerUnreadable(p) \/ Crash(p)
    <2>1. CASE Down(p)
      BY <1>4, <2>1, EndUnsavedKnows DEF Refused, LedgerUnreadable, Crash
    <2>2. CASE Refused(p) /\ ~Down(p)
      <3>1. Goto(p, "cleanup") /\ job.lifecycle \in Terminal /\ Stay /\ Unsaved /\ Outside
        BY <2>2 DEF Refused, OwesCleanup
      <3>2. Moved(p) /\ w'[p].pc = "cleanup" /\ job' = job
        BY <1>0, <3>1, GotoMoves DEF PCs, Unsaved
      <3>3. Knows(p)'
        BY <1>0, <3>1, <3>2 DEF Knows, RunKnows, HolderKnows, MayCapture, Moved, Owner,
                                FirstRun, BeforeSend
      <3> QED BY <3>1, <3>2, <3>3, MoveUnsavedKnows
    <2> QED BY <1>4, <2>1, <2>2 DEF LedgerUnreadable, Crash
  <1>5. CASE Recover(p)
    <2>0. Unsaved /\ Stay /\ Outside /\ w[p].pc = "recover" /\ job' = job
      BY <1>5 DEF Recover, Calls, At, Unsaved
    <2>1. CASE job.lifecycle = "cancel_requested"
      <3>1. \/ Settle(p, "canceled", job.commit) /\ ~job.sent
            \/ Settle(p, "failed", Uncertain(job.commit))
        BY <1>0, <1>5, <2>1 DEF Recover, CancelIsSafe, RowKnows, Terminal
      <3>2. /\ Moved(p) /\ w'[p].pc = "terminal"
            /\ \/ w'[p].to = "canceled" /\ w'[p].commit = job.commit /\ ~job.sent
               \/ w'[p].to = "failed" /\ w'[p].commit = Uncertain(job.commit)
        BY <1>0, <3>1, SettleSays
      <3>3. Knows(p)'
        BY <1>0, <1>3, <2>0, <2>1, <3>2
        DEF Knows, RunKnows, HolderKnows, MayCapture, VerdictHolds, Uncertain, Moved, Owner,
            RowKnows, Terminal, ForbidsReplacement, FirstRun, BeforeSend, Ungenerated,
            NobodyEnters, Outside, Rows, CommitStatuses
      <3> QED BY <2>0, <3>2, <3>3, MoveUnsavedKnows
    <2>2. CASE job.lifecycle \in Terminal
      <3>1. Goto(p, "cleanup")
        BY <1>5, <2>2 DEF Recover, Terminal
      <3>2. Moved(p) /\ w'[p].pc = "cleanup"
        BY <1>0, <3>1, GotoMoves DEF PCs
      <3>3. Knows(p)'
        BY <1>0, <2>0, <2>2, <3>2
        DEF Knows, RunKnows, HolderKnows, MayCapture, Moved, Owner, FirstRun, BeforeSend
      <3> QED BY <2>0, <3>2, <3>3, MoveUnsavedKnows
    <2>3. CASE job.lifecycle \notin Terminal \cup {"cancel_requested"}
      <3>1. IF job.manifest THEN Goto(p, "place") ELSE Settle(p, "failed", Uncertain(job.commit))
        BY <1>5, <2>3 DEF Recover
      <3>2. /\ Moved(p)
            /\ \/ w'[p].pc = "place" /\ job.manifest
               \/ w'[p].pc = "terminal" /\ w'[p].to = "failed"
                  /\ w'[p].commit = Uncertain(job.commit)
        BY <1>0, <3>1, SettleSays, GotoMoves DEF PCs
      <3>3. Knows(p)'
        BY <1>0, <2>0, <2>3, <3>2
        DEF Knows, RunKnows, HolderKnows, MayCapture, VerdictHolds, Uncertain, Moved, Owner,
            RowKnows, Terminal, ForbidsReplacement, FirstRun, BeforeSend, Outside, Rows,
            CommitStatuses
      <3> QED BY <2>0, <3>2, <3>3, MoveUnsavedKnows
    <2> QED BY <2>1, <2>2, <2>3
  <1>6. CASE Bind(p) \/ RecheckCancel(p) \/ Preflight(p)
    <2>1. /\ Unsaved /\ Stay /\ Outside /\ job' = job
          /\ w[p].pc \in {"bind", "recheck", "preflight"}
          /\ \/ \E pc \in {"recheck", "preflight", "observe"} : Goto(p, pc)
             \/ \E to \in {"failed", "canceled"} : Settle(p, to, "not_started")
      BY <1>6 DEF Bind, RecheckCancel, Preflight, Calls, At, Unsaved
    <2>2. /\ Moved(p)
          /\ \/ w'[p].pc \in {"recheck", "preflight", "observe"}
             \/ w'[p].pc = "terminal" /\ w'[p].to \in {"failed", "canceled"}
                /\ w'[p].commit = "not_started"
      BY <1>0, <2>1, SettleSays, GotoMoves DEF PCs
    <2>3. w[p].pc \in BeforeSend /\ w[p].pc \in FirstRun /\ ~w[p].sent /\ MayCapture(p)
      BY <1>1, <2>1 DEF BeforeSend, FirstRun, MayCapture
    <2>4. Ungenerated => Ungenerated'
      BY <2>1, <2>2 DEF Ungenerated, NobodyEnters, Moved, Outside
    <2>5. Knows(p)'
      BY <1>0, <1>2, <2>1, <2>2, <2>3, <2>4
      DEF Knows, RunKnows, HolderKnows, MayCapture, VerdictHolds, Moved, Owner, Terminal,
          ForbidsReplacement, FirstRun, BeforeSend, Outside
    <2> QED BY <2>1, <2>2, <2>5, MoveUnsavedKnows
  <1>7. CASE RenderRefused(p) \/ AdapterReturns(p)
    <2>1. PICK result \in Results :
             /\ Dispatch(p, result)
             /\ result = "not_committed" => provider = "rejected" /\ w[p].pc = "wait"
             /\ result \in {"captured", "empty"} => provider = "committed" /\ w[p].pc = "wait"
      BY <1>0, <1>7 DEF RenderRefused, AdapterReturns, LocalErrors, Answers, At
    <2>2. Unsaved /\ Outside /\ Stay /\ w[p].pc \in {"render", "enter", "wait"}
      BY <1>7 DEF RenderRefused, AdapterReturns, At
    <2> QED BY <2>1, <2>2, DispatchKnows
  <1>8. CASE RecheckResult(p)
    <2>1. /\ Unsaved /\ Stay /\ Outside /\ job' = job /\ w[p].pc = "recheckResult"
          /\ \/ Goto(p, "capture")
             \/ \E to \in {"failed", "canceled"} : Settle(p, to, "committed")
      BY <1>8 DEF RecheckResult, Calls, At, Unsaved
    <2>2. /\ Moved(p)
          /\ \/ w'[p].pc = "capture"
             \/ w'[p].pc = "terminal" /\ w'[p].to \in {"failed", "canceled"}
                /\ w'[p].commit = "committed"
      BY <1>0, <2>1, SettleSays, GotoMoves DEF PCs
    <2>3. Knows(p)'
      BY <1>0, <2>1, <2>2
      DEF Knows, RunKnows, HolderKnows, MayCapture, VerdictHolds, Moved, Owner, Terminal,
          ForbidsReplacement, FirstRun, BeforeSend, Outside
    <2> QED BY <2>1, <2>2, <2>3, MoveUnsavedKnows
  <1>9. CASE Heartbeat(p)
    <2>1. /\ Unsaved /\ Stay /\ Outside /\ job' = job
          /\ Moved(p) /\ w'[p].pc = w[p].pc
          /\ w'[p].pc \in {"render", "enter", "wait"}
      BY <1>0, <1>9 DEF Heartbeat, RunsTyped, Invocations, Moved, Unsaved
    <2>2. Knows(p)'
      BY <1>0, <2>1
      DEF Knows, RunKnows, HolderKnows, MayCapture, Moved, Owner, Outside
    <2> QED BY <2>1, <2>2, MoveUnsavedKnows
  <1> QED BY <1>4, <1>5, <1>6, <1>7, <1>8, <1>9

-----------------------------------------------------------------------------
(* The steps in which the holder of the fence writes the row. *)

LEMMA HolderHolds ==
    ASSUME VerdictInv, NEW p \in Proc, Owner(p)
    PROVE  /\ job.lifecycle \in {"running", "cancel_requested"} /\ HolderKnows(p)
           /\ job.commit # "not_committed" /\ canceling = {} /\ ~job.purged /\ ~job.settled
  BY DEF VerdictInv, SendInv, TypeOK, QueuedIsFresh, RowKnows, Knows, Owner, OwnsFence, Rows,
         Lifecycles, Terminal, OccupancyHeldUntilTerminal

LEMMA WrittenKnows ==
    ASSUME VerdictInv, NEW p \in Proc, Owner(p), w[p].pc \notin Over,
           job'.fence = job.fence, OthersStay(p), ProviderKept,
           RowKnows', Knows(p)'
    PROVE  AllKnow
  <1>1. job.held /\ w[p].fence # 0
    BY DEF Owner, OwnsFence, VerdictInv, SendInv, RunsAreTyped, Over
  <1>2. TerminalKept
    BY HolderHolds DEF TerminalKept, Terminal
  <1> QED BY <1>1, <1>2, OthersKnow DEF AllKnow, ProviderKept

\* The attempt is written back by a run that may still capture.
LEMMA AttemptRowKnows ==
    ASSUME VerdictInv, NEW p \in Proc, Owner(p), MayCapture(p), Outside,
           canceling' \subseteq canceling,
           NEW status \in {"not_started", "unknown"}, NEW sent \in BOOLEAN,
           job' = ObserveAttempt(job, status, sent)
    PROVE  /\ RowKnows'
           /\ job'.fence = job.fence /\ job'.sent = sent /\ job'.manifest = job.manifest
           /\ job'.commit = status /\ job'.lifecycle = job.lifecycle /\ job'.held = job.held
  <1>1. job \in Rows
    BY DEF VerdictInv, SendInv, TypeOK
  <1>2. /\ job'.fence = job.fence /\ job'.sent = sent /\ job'.manifest = job.manifest
        /\ job'.commit = status /\ job'.lifecycle = job.lifecycle /\ job'.held = job.held
        /\ job'.purged = job.purged /\ job'.settled = job.settled
    BY <1>1 DEF ObserveAttempt, Rows
  <1>3. ~job.manifest
    BY HolderHolds DEF HolderKnows
  <1>4. RowKnows'
    BY <1>2, <1>3, HolderHolds
    DEF VerdictInv, RowKnows, Terminal, OccupancyHeldUntilTerminal, CanceledDeliversNothing,
        CompletedIsCaptured, NonCommitIsProved, Outside
  <1> QED BY <1>2, <1>4

LEMMA HolderWritesKnows ==
    ASSUME VerdictInv, NEW p \in Proc,
           RecordAttempt(p) \/ LostAttempt(p) \/ ErrAttempt(p) \/ Capture(p) \/ Place(p)
              \/ PersistTerminal(p)
    PROVE  AllKnow
  <1>0. /\ RunsTyped /\ job \in Rows /\ RowKnows /\ Knows(p) /\ calls \in Nat
        /\ Outside /\ w[p].sent \in BOOLEAN
        /\ w[p].pc \in {"observe", "lostAttempt", "errAttempt", "capture", "place", "terminal"}
    BY DEF VerdictInv, SendInv, TypeOK, RunsTyped, Invocations, RecordAttempt, LostAttempt,
           ErrAttempt, Capture, Place, PersistTerminal, Calls, At
  <1>1. /\ w[p].pc \in {"observe", "lostAttempt", "errAttempt"} => MayCapture(p) /\ w[p].pc \in FirstRun
        /\ w[p].pc \in {"capture"} => MayCapture(p) /\ w[p].sent /\ calls # 0
        /\ w[p].pc = "observe" => ~w[p].sent
        /\ w[p].pc \notin Over
    BY <1>0 DEF VerdictInv, SendInv, RunsAreTyped, FirstRun, BeforeSend, MayCapture, Knows,
                RunKnows, Over
  <1>2. Owner(p) /\ w[p].pc \in FirstRun /\ ~w[p].sent => calls = 0 /\ Ungenerated
    BY <1>1 DEF VerdictInv, SendInv, RunsAreTyped, FirstRun, HolderMaySend, RowKnows, Ungenerated
  <1>3. CASE RecordAttempt(p)
    <2>1. CASE Owner(p)
      <3>1. /\ job' = ObserveAttempt(job, "not_started", FALSE) /\ Goto(p, "render") /\ Stay
            /\ w[p].pc = "observe"
        BY <1>3, <2>1 DEF RecordAttempt, Save, Calls, At
      <3>2. Moved(p) /\ w'[p].pc = "render"
        BY <1>0, <3>1, GotoMoves DEF PCs
      <3>3. OthersStay(p) /\ ProviderKept
        BY <1>0, <3>2, MoveKeepsProvider DEF Moved, OthersStay
      <3>4. /\ RowKnows' /\ job'.fence = job.fence /\ job'.manifest = job.manifest
            /\ job'.commit = "not_started" /\ job'.lifecycle = job.lifecycle
        BY <1>0, <1>1, <2>1, <3>1, StayMeans, AttemptRowKnows
      <3>5. Knows(p)'
        BY <1>1, <2>1, <3>1, <3>2, <3>4, HolderHolds
        DEF Knows, RunKnows, HolderKnows, MayCapture, Moved, ForbidsReplacement
      <3> QED BY <1>1, <2>1, <3>3, <3>4, <3>5, WrittenKnows
    <2>2. CASE ~Owner(p)
      BY <1>0, <1>3, <2>2, EndUnsavedKnows DEF RecordAttempt
    <2> QED BY <2>1, <2>2
  <1>4. CASE LostAttempt(p) \/ ErrAttempt(p)
    <2>1. /\ w[p].pc \in {"lostAttempt", "errAttempt"} /\ PersistAttempt(p)
          /\ \/ Settle(p, "failed", AttemptCommit(p)) /\ Stay
             \/ Down(p) /\ ~w[p].sent
      BY <1>4 DEF LostAttempt, ErrAttempt, Calls, At, AttemptCommit
    <2>2. canceling' \subseteq canceling
      BY <2>1, StayMeans, ReturnCancels
    <2>3. /\ ProviderKept /\ OthersStay(p)
          /\ \/ w'[p] = Idle
             \/ /\ Moved(p) /\ w'[p].pc = "terminal" /\ w'[p].to = "failed"
                /\ w'[p].commit = AttemptCommit(p)
      <3>1. CASE Down(p)
        BY <1>0, <3>1, DownEnds, EndKeepsProvider DEF Ended
      <3>2. CASE Settle(p, "failed", AttemptCommit(p))
        <4>1. /\ Moved(p) /\ w'[p].pc = "terminal" /\ w'[p].to = "failed"
              /\ w'[p].commit = AttemptCommit(p)
          BY <1>0, <3>2, SettleSays
        <4> QED BY <1>0, <4>1, MoveKeepsProvider DEF Moved, OthersStay
      <3> QED BY <2>1, <3>1, <3>2
    <2>4. CASE Owner(p)
      <3>1. job' = ObserveAttempt(job, AttemptCommit(p), w[p].sent)
        BY <2>1, <2>4 DEF PersistAttempt, Save
      <3>2. /\ AttemptCommit(p) \in {"not_started", "unknown"}
            /\ AttemptCommit(p) = "not_started" => ~w[p].sent
        BY DEF AttemptCommit
      <3>3. /\ RowKnows' /\ job'.fence = job.fence /\ job'.sent = w[p].sent
            /\ job'.manifest = job.manifest /\ job'.commit = AttemptCommit(p)
        BY <1>0, <1>1, <2>1, <2>2, <2>3, <2>4, <3>1, <3>2, AttemptRowKnows
      <3>4. Ungenerated => Ungenerated'
        BY <2>3 DEF Ungenerated, ProviderKept
      <3>5. CASE w'[p] = Idle
        BY <1>1, <2>3, <2>4, <3>3, <3>5, IdleKnows, WrittenKnows
      <3>6. CASE w'[p] # Idle
        <4>1. Knows(p)'
          BY <1>1, <1>2, <2>1, <2>3, <2>4, <3>2, <3>3, <3>4, <3>6
          DEF Knows, RunKnows, HolderKnows, VerdictHolds, MayCapture, Moved, Terminal,
              ForbidsReplacement, ProviderKept, FirstRun, BeforeSend
        <4> QED BY <1>1, <2>3, <2>4, <3>3, <4>1, WrittenKnows
      <3> QED BY <3>5, <3>6
    <2>5. CASE ~Owner(p)
      <3>1. Unsaved
        BY <2>1, <2>5 DEF PersistAttempt
      <3>2. Knows(p)'
        <4>1. CASE w'[p] = Idle
          BY <4>1, IdleKnows
        <4>2. CASE w'[p] # Idle
          BY <2>3, <2>5, <3>1, <4>2 DEF Knows, RunKnows, Moved, Terminal, Owner, Unsaved
        <4> QED BY <4>1, <4>2
      <3> QED BY <2>2, <2>3, <3>1, <3>2, UnsavedKnows
    <2> QED BY <2>4, <2>5
  <1>5. CASE Capture(p)
    <2>1. CASE Owner(p) /\ CanCapture(job)
      <3>1. /\ job' = CaptureManifest(job) /\ Goto(p, "place") /\ Stay /\ w[p].pc = "capture"
        BY <1>5, <2>1 DEF Capture, Save, Calls, At
      <3>2. Moved(p) /\ w'[p].pc = "place"
        BY <1>0, <3>1, GotoMoves DEF PCs
      <3>3. OthersStay(p) /\ ProviderKept
        BY <1>0, <3>2, MoveKeepsProvider DEF Moved, OthersStay
      <3>4. ~job.manifest /\ job.sent
        BY <1>1, <2>1, <3>1, HolderHolds DEF HolderKnows
      <3>5. /\ job'.fence = job.fence /\ job'.sent = job.sent /\ job'.manifest = TRUE
            /\ job'.commit = "committed" /\ job'.lifecycle = job.lifecycle
            /\ job'.purged = job.purged /\ job'.settled = job.settled
        BY <1>0, <3>1, <3>4 DEF CaptureManifest, Rows
      <3>6. RowKnows'
        BY <1>1, <2>1, <3>1, <3>3, <3>4, <3>5, HolderHolds, StayMeans
        DEF VerdictInv, RowKnows, Terminal, OccupancyHeldUntilTerminal,
            CanceledDeliversNothing, CompletedIsCaptured, NonCommitIsProved, ProviderKept
      <3>7. Knows(p)'
        BY <3>2, <3>4, <3>5
        DEF Knows, RunKnows, HolderKnows, MayCapture, Moved, FirstRun, BeforeSend
      <3> QED BY <1>1, <2>1, <3>3, <3>5, <3>6, <3>7, WrittenKnows
    <2>2. CASE ~(Owner(p) /\ CanCapture(job))
      BY <1>0, <1>5, <2>2, EndUnsavedKnows DEF Capture
    <2> QED BY <2>1, <2>2
  <1>6. CASE Place(p)
    <2>1. CASE Unsaved /\ Return(p)
      BY <1>0, <2>1, EndUnsavedKnows
    <2>2. CASE ~(Unsaved /\ Return(p))
      <3>1. /\ w[p].pc = "place" /\ Stay
            /\ \E to \in {"failed", "completed"} :
                  /\ Settle(p, to, "committed")
                  /\ \/ Unsaved /\ (to = "completed" => job.delivery = "available")
                     \/ /\ Owner(p)
                        /\ \E d \in {"available", "capped", "expired"} :
                              /\ job' = PlaceOutput(job, d)
                              /\ to = "completed" => d # "expired"
        BY <1>6, <2>2 DEF Place, Save, Calls, At
      <3>2. PICK to \in {"failed", "completed"} :
               /\ Moved(p) /\ w'[p].pc = "terminal" /\ w'[p].to = to
               /\ w'[p].commit = "committed"
               /\ \/ Unsaved /\ (to = "completed" => job.delivery = "available")
                  \/ /\ Owner(p)
                     /\ \E d \in {"available", "capped", "expired"} :
                           /\ job' = PlaceOutput(job, d)
                           /\ to = "completed" => d # "expired"
        BY <1>0, <3>1, SettleSays
      <3>3. OthersStay(p) /\ ProviderKept /\ canceling' \subseteq canceling
        BY <1>0, <3>1, <3>2, MoveKeepsProvider, StayMeans DEF Moved, OthersStay
      <3>4. Owner(p) => /\ job.manifest /\ job.commit = "committed" /\ calls # 0
                        /\ job.lifecycle \in {"running", "cancel_requested"}
        BY <1>0, <3>1, HolderHolds DEF HolderKnows, RowKnows, Terminal
      <3>5. CASE Unsaved /\ (to = "completed" => job.delivery = "available")
        <4>0. job' = job
          BY <3>5 DEF Unsaved
        <4>1. RunKnows(p)'
          BY <3>2 DEF RunKnows, Terminal
        <4>2. Owner(p)' <=> Owner(p)
          BY <3>2, <4>0 DEF Owner, Moved
        <4>3. ASSUME Owner(p) PROVE VerdictHolds(p)'
          BY <3>2, <3>3, <3>4, <3>5, <4>0, <4>3
          DEF VerdictHolds, ForbidsReplacement, ProviderKept, Unsaved
        <4>4. Knows(p)'
          BY <1>0, <3>2, <3>4, <4>0, <4>1, <4>2, <4>3
          DEF Knows, HolderKnows, MayCapture, Moved, FirstRun, BeforeSend
        <4> QED BY <3>3, <3>5, <4>4, UnsavedKnows
      <3>6. CASE ~(Unsaved /\ (to = "completed" => job.delivery = "available"))
        <4>1. PICK d \in {"available", "capped", "expired"} :
                 job' = PlaceOutput(job, d) /\ (to = "completed" => d # "expired")
          BY <3>2, <3>6
        <4>2. Owner(p)
          BY <3>2, <3>6
        <4>3. /\ job'.fence = job.fence /\ job'.sent = job.sent /\ job'.manifest = job.manifest
              /\ job'.commit = job.commit /\ job'.lifecycle = job.lifecycle
              /\ job'.purged = job.purged /\ job'.settled = job.settled /\ job'.delivery = d
          BY <1>0, <4>1 DEF PlaceOutput, Rows
        <4>4. RowKnows'
          BY <3>3, <3>4, <4>2, <4>3, HolderHolds
          DEF VerdictInv, RowKnows, Terminal, OccupancyHeldUntilTerminal,
              CanceledDeliversNothing, CompletedIsCaptured, NonCommitIsProved, ProviderKept
        <4>5. Knows(p)'
          BY <1>0, <3>2, <3>3, <3>4, <4>1, <4>2, <4>3
          DEF Knows, RunKnows, HolderKnows, VerdictHolds, MayCapture, Moved,
              ForbidsReplacement, ProviderKept, Terminal, FirstRun, BeforeSend
        <4> QED BY <1>1, <3>3, <4>2, <4>3, <4>4, <4>5, WrittenKnows
      <3> QED BY <3>5, <3>6
    <2> QED BY <2>1, <2>2
  <1>7. CASE PersistTerminal(p)
    <2>1. CASE Unsaved /\ (Return(p) \/ Down(p))
      BY <1>0, <2>1, EndUnsavedKnows
    <2>2. CASE ~(Unsaved /\ (Return(p) \/ Down(p)))
      <3>1. /\ Owner(p) /\ job' = Transition(job, w[p].to, w[p].commit) /\ Goto(p, "cleanup")
            /\ Stay /\ w[p].pc = "terminal"
        BY <1>7, <2>2 DEF PersistTerminal, Save, Calls, At
      <3>2. Moved(p) /\ w'[p].pc = "cleanup"
        BY <1>0, <3>1, GotoMoves DEF PCs
      <3>3. OthersStay(p) /\ ProviderKept
        BY <1>0, <3>2, MoveKeepsProvider DEF Moved, OthersStay
      <3>4. w[p].to \in Terminal /\ VerdictHolds(p)
        BY <1>0, <3>1, HolderHolds DEF Knows, RunKnows, HolderKnows
      <3>5. /\ job'.fence = job.fence /\ job'.manifest = job.manifest /\ ~job'.held
            /\ job'.commit = w[p].commit /\ job'.lifecycle = w[p].to
            /\ job'.delivery = job.delivery
        BY <1>0, <3>1 DEF Transition, Rows
      <3>6. Ungenerated => Ungenerated'
        BY <3>3 DEF Ungenerated, ProviderKept
      <3>7. NonCommitIsProved'
        BY <3>4, <3>5, <3>6 DEF NonCommitIsProved, VerdictHolds, Ungenerated, NobodyEnters
      <3>8. RowKnows'
        BY <1>0, <3>1, <3>3, <3>4, <3>5, <3>7
        DEF RowKnows, Terminal, OccupancyHeldUntilTerminal, CanceledDeliversNothing,
            CompletedIsCaptured, ProviderKept, VerdictHolds
      <3>9. Knows(p)'
        BY <3>2, <3>4, <3>5 DEF Knows, RunKnows, Owner, OwnsFence
      <3> QED BY <1>1, <3>1, <3>3, <3>5, <3>8, <3>9, WrittenKnows
    <2> QED BY <2>1, <2>2
  <1> QED BY <1>3, <1>4, <1>5, <1>6, <1>7

-----------------------------------------------------------------------------
(* The steps that touch neither the attempt nor the fence. *)

LEMMA StoreKeepsRow ==
    ASSUME job \in Rows
    PROVE  /\ job' = Cancel(job) => RowKept
           /\ job' = MarkQueuePublished(job) => RowKept
           /\ job' = [job EXCEPT !.claimedAudited = TRUE] => RowKept
           /\ job' = [job EXCEPT !.expired = TRUE] => RowKept
           /\ \A purge, settle \in BOOLEAN : job' = MarkCleaned(job, purge, settle) => RowKept
  BY DEF RowKept, Rows, Cancel, MarkQueuePublished, MarkCleaned, Lifecycles

LEMMA QuietKnows ==
    ASSUME VerdictInv, NEW p \in Proc, OthersStay(p), RowKept, ProviderKept,
           TerminalKept, RowKnows', Knows(p)'
    PROVE  AllKnow
  BY OthersKnow DEF AllKnow

LEMMA IdlersKnow ==
    ASSUME VerdictInv, w' = w, RowKept, ProviderKept, TerminalKept, RowKnows'
    PROVE  AllKnow
  BY RunStillKnows DEF AllKnow

LEMMA AuditKnows ==
    ASSUME VerdictInv, NEW p \in Proc, AuditClaim(p)
    PROVE  AllKnow
  <1> DEFINE pc == IF OwesCleanup(job) THEN "cleanup"
                   ELSE IF job.lifecycle = "cancel_requested" \/ w[p].recovery
                        THEN "recover" ELSE "bind"
  <1>0. /\ RunsTyped /\ job \in Rows /\ Knows(p) /\ w[p].pc = "audit" /\ Outside /\ Stay
        /\ job' = [job EXCEPT !.claimedAudited = TRUE] /\ Goto(p, pc) /\ pc \in PCs
    BY Zenon DEF VerdictInv, SendInv, TypeOK, RunsTyped, AuditClaim, Calls, At, Save, PCs
  <1>1. /\ pc = "cleanup" => job.lifecycle \in Terminal
        /\ pc = "bind" => ~w[p].recovery
        /\ pc \in {"cleanup", "recover", "bind"}
    BY DEF OwesCleanup
  <1> HIDE DEF pc
  <1>2. Moved(p) /\ w'[p].pc = pc
    BY <1>0, GotoMoves
  <1>3. OthersStay(p) /\ ProviderKept
    BY <1>0, <1>1, <1>2, MoveKeepsProvider DEF Moved, OthersStay
  <1>4. RowKept /\ job'.lifecycle = job.lifecycle /\ job'.purged = job.purged
        /\ job'.settled = job.settled
    BY <1>0, StoreKeepsRow DEF Rows
  <1>5. RowKnows' /\ TerminalKept
    BY <1>0, <1>3, <1>4, StayMeans, KeptRowKnows
  <1>6. Knows(p)'
    <2>1. RunKnows(p)'
      BY <1>1, <1>2, <1>4 DEF RunKnows
    <2>2. Owner(p)' => Owner(p)
      BY <1>2, <1>4 DEF Owner, OwnsFence, Moved, RowKept
    <2> QED BY <1>0, <1>1, <1>2, <1>4, <2>1, <2>2
            DEF Knows, HolderKnows, MayCapture, Moved, RowKept, FirstRun, BeforeSend
  <1> QED BY <1>3, <1>4, <1>5, <1>6, QuietKnows

\* Marking a terminal row cleaned, whoever does it.
LEMMA CleanedRowKnows ==
    ASSUME VerdictInv, ProviderKept, job.lifecycle \in Terminal, canceling' \subseteq canceling,
           NEW purge \in BOOLEAN, NEW settle \in BOOLEAN, job' = MarkCleaned(job, purge, settle)
    PROVE  RowKnows' /\ TerminalKept /\ RowKept
  <1>1. job \in Rows
    BY DEF VerdictInv, SendInv, TypeOK
  <1>2. RowKept /\ job'.lifecycle = job.lifecycle
    BY <1>1, StoreKeepsRow DEF MarkCleaned, Rows
  <1> QED BY <1>2, KeptRowKnows

LEMMA CleanupKnows ==
    ASSUME VerdictInv, NEW p \in Proc, Cleanup(p)
    PROVE  AllKnow
  <1>1. /\ RunsTyped /\ job.lifecycle \in Terminal /\ Outside /\ (Return(p) \/ Down(p))
        /\ \E purge, settle \in BOOLEAN : job' = MarkCleaned(job, purge, settle)
    BY DEF VerdictInv, SendInv, TypeOK, RunsTyped, Knows, RunKnows, Cleanup, Calls, At, Save
  <1>2. Ended(p) /\ canceling' \subseteq canceling
    BY <1>1, ReturnEnds, DownEnds, ReturnCancels
  <1>3. ProviderKept /\ OthersStay(p) /\ Knows(p)'
    BY <1>1, <1>2, EndKeepsProvider
  <1>4. RowKnows' /\ TerminalKept /\ RowKept
    BY <1>1, <1>2, <1>3, CleanedRowKnows
  <1> QED BY <1>3, <1>4, QuietKnows

\* Clients, restarts, time and the Provider.
LEMMA WorldKnows ==
    ASSUME VerdictInv,
           \/ \E p \in Proc : ClientCancel(p) \/ CreateRetry(p) \/ CancelCleanup(p) \/ Restart(p)
           \/ ProviderDecides \/ LeaseExpires \/ UNCHANGED vars
    PROVE  AllKnow
  <1>0. job \in Rows /\ w' = w /\ RowKnows
    BY DEF VerdictInv, SendInv, TypeOK, ClientCancel, CreateRetry, CancelCleanup, Restart,
           ProviderDecides, LeaseExpires, vars
  <1>1. Outside => ProviderKept
    BY <1>0 DEF Outside, ProviderKept, NobodyEnters
  <1>2. job' = job => RowKept
    BY DEF RowKept
  <1>3. ASSUME NEW p \in Proc, ClientCancel(p) PROVE AllKnow
    <2>1. job' = Cancel(job) /\ ProviderKept
      BY <1>1, <1>3 DEF ClientCancel, Save
    <2>2. RowKept
      BY <1>0, <2>1, StoreKeepsRow
    <2>3. /\ job'.purged = job.purged /\ job'.settled = job.settled
          /\ \/ job'.lifecycle = job.lifecycle
             \/ job.lifecycle = "queued" /\ job'.lifecycle = "canceled" /\ ~job'.held
             \/ job.lifecycle = "running" /\ job'.lifecycle = "cancel_requested"
      BY <1>0, <2>1 DEF Cancel, Rows
    <2>4. canceling' \subseteq canceling \/ job'.lifecycle \in Terminal
      BY <1>3 DEF ClientCancel, Save, OwesCleanup
    <2> QED BY <1>0, <2>1, <2>2, <2>3, <2>4, KeptRowKnows, IdlersKnow
  <1>4. ASSUME NEW p \in Proc, CancelCleanup(p) PROVE AllKnow
    <2>1. /\ job.lifecycle \in Terminal /\ canceling' \subseteq canceling /\ ProviderKept
          /\ \/ job' = job
             \/ \E purge, settle \in BOOLEAN : job' = MarkCleaned(job, purge, settle)
      BY <1>0, <1>1, <1>4 DEF CancelCleanup, Save, Unsaved, RowKnows
    <2> QED BY <1>0, <1>2, <2>1, KeptRowKnows, CleanedRowKnows, IdlersKnow
  <1>5. CASE \/ \E p \in Proc : CreateRetry(p) \/ Restart(p)
             \/ ProviderDecides \/ LeaseExpires \/ UNCHANGED vars
    <2>1. /\ canceling' = canceling
          /\ \/ job' = job
             \/ job' = MarkQueuePublished(job)
             \/ job' = [job EXCEPT !.expired = TRUE]
      BY <1>5 DEF CreateRetry, Restart, ProviderDecides, LeaseExpires, vars, Save, Unsaved
    <2>2. RowKept /\ job'.lifecycle = job.lifecycle /\ job'.purged = job.purged
          /\ job'.settled = job.settled
      BY <1>0, <1>2, <2>1, StoreKeepsRow DEF MarkQueuePublished, Rows
    <2>3. ProviderKept
      BY <1>0, <1>1, <1>5 DEF CreateRetry, Restart, ProviderDecides, LeaseExpires, vars,
                              Outside, ProviderKept, RowKnows, NobodyEnters
    <2> QED BY <1>0, <2>1, <2>2, <2>3, KeptRowKnows, IdlersKnow
  <1> QED BY <1>3, <1>4, <1>5

-----------------------------------------------------------------------------
(* The claim, the marker and the send. *)

LEMMA ClaimedRow ==
    ASSUME job \in Rows, Claimable(job), job' = ClaimWorker(job)
    PROVE  /\ job'.fence = job.fence + 1 /\ job.lifecycle \notin Terminal
           /\ job'.lifecycle \in {"running", "cancel_requested"}
           /\ job'.sent = job.sent /\ job'.manifest = job.manifest
           /\ job'.commit = job.commit /\ job'.purged = job.purged
           /\ job'.settled = job.settled
  BY DEF Rows, Lifecycles, Terminal, Claimable, ClaimWorker

LEMMA ClaimKnows ==
    ASSUME VerdictInv, NEW p \in Proc, Claim(p)
    PROVE  AllKnow
  <1>0. /\ RunsTyped /\ job \in Rows /\ RowKnows /\ Knows(p) /\ job.fence \in Nat
        /\ \A q \in Proc : w[q].fence \in Nat /\ w[q].fence <= job.fence
        /\ Outside /\ canceling' = canceling /\ w[p].pc = "idle"
    BY DEF VerdictInv, SendInv, TypeOK, RunsTyped, Invocations, Rows, FencesGrantedOnce, Claim,
           Calls, At
  <1>1. CASE ~Claimable(job)
    <2>1. Unsaved /\ Goto(p, "refused") /\ job' = job
      BY <1>1 DEF Claim, Unsaved
    <2>2. Moved(p) /\ w'[p].pc = "refused"
      BY <1>0, <2>1, GotoMoves DEF PCs
    <2>3. OthersStay(p) /\ ProviderKept
      BY <1>0, <2>2, MoveKeepsProvider DEF Moved, OthersStay
    <2>4. Knows(p)'
      BY <1>0, <2>1, <2>2 DEF Knows, RunKnows, HolderKnows, MayCapture, Moved, Owner,
                              FirstRun, BeforeSend
    <2> QED BY <1>0, <2>1, <2>3, <2>4, UnsavedKnows
  <1>2. CASE Claimable(job)
    <2> DEFINE pc == IF ~job.claimedAudited THEN "audit"
                     ELSE IF RecoveryOnly(job) THEN "recover" ELSE "bind"
               fence == job.fence + 1
               n == [Idle EXCEPT !.pc = pc, !.fence = fence, !.recovery = RecoveryOnly(job)]
    <2>1. job' = ClaimWorker(job) /\ w' = [w EXCEPT ![p] = n]
      BY <1>2, Zenon DEF Claim, Save
    <2>2. n.pc = pc /\ n.fence = fence /\ n.sent = FALSE /\ n.recovery = RecoveryOnly(job)
      <3> HIDE DEF pc, fence
      <3> QED BY DEF Idle
    <2>3. pc \in {"audit", "recover", "bind"}
      OBVIOUS
    <2> HIDE DEF n, pc
    <2>4. OthersStay(p) /\ w'[p] = n
      BY <1>0, <2>1 DEF RunsTyped, OthersStay
    <2>5. ProviderKept
      BY <1>0, <2>2, <2>3, <2>4, MoveKeepsProvider
    <2>6. /\ job'.fence = job.fence + 1 /\ job.lifecycle \notin Terminal
          /\ job'.lifecycle \in {"running", "cancel_requested"}
          /\ job'.sent = job.sent /\ job'.manifest = job.manifest
          /\ job'.commit = job.commit /\ job'.purged = job.purged /\ job'.settled = job.settled
      BY <1>0, <1>2, <2>1, ClaimedRow
    <2>7. RowKnows'
      BY <1>0, <2>6
      DEF RowKnows, Terminal, Outside, OccupancyHeldUntilTerminal, CanceledDeliversNothing,
          CompletedIsCaptured, NonCommitIsProved
    <2>8. ASSUME NEW q \in Proc \ {p} PROVE Knows(q)'
      <3>1. w'[q] = w[q] /\ ~Owner(q)'
        BY <1>0, <2>4, <2>6 DEF OthersStay, Owner, OwnsFence
      <3> QED BY <1>0, <2>6, <3>1, RunStillKnows DEF TerminalKept, Outside
    <2>9. Knows(p)'
      <3>1. ~RecoveryOnly(job) => ~job.manifest /\ job.commit \notin ForbidsReplacement
        BY <1>0, <1>2 DEF RecoveryOnly, Claimable, RowKnows, ForbidsReplacement
      <3> QED BY <2>2, <2>3, <2>4, <2>6, <3>1 DEF Knows, RunKnows, HolderKnows, MayCapture
    <2> QED BY <2>7, <2>8, <2>9 DEF AllKnow
  <1> QED BY <1>1, <1>2

LEMMA MarkKnows ==
    ASSUME VerdictInv, NEW p \in Proc, MarkPayloadSent(p)
    PROVE  AllKnow
  <1> DEFINE n == [w[p] EXCEPT !.pc = "enter", !.sent = TRUE]
  <1>0. /\ RunsTyped /\ job \in Rows /\ RowKnows /\ Knows(p) /\ w[p].pc = "render" /\ Stay
        /\ Outside /\ "err" \in Results /\ w[p].pc \in FirstRun /\ w[p].pc \notin Over
    BY DEF VerdictInv, SendInv, TypeOK, RunsTyped, MarkPayloadSent, Calls, At, Results, Over,
           FirstRun, BeforeSend
  <1>1. MayCapture(p) /\ ~w[p].sent /\ w[p].fence # 0 /\ w[p] \in Invocations
    BY <1>0 DEF VerdictInv, SendInv, RunsAreTyped, RunsTyped, MayCapture, FirstRun, BeforeSend
  <1>2. CASE Unsaved /\ Dispatch(p, "err")
    BY <1>0, <1>2, DispatchKnows
  <1>3. ASSUME Owner(p), job' = ObserveAttempt(job, "not_started", TRUE)
        PROVE  /\ RowKnows' /\ job'.fence = job.fence /\ job'.sent = TRUE
               /\ ~job'.manifest /\ job'.commit = "not_started"
               /\ calls = 0 /\ Ungenerated /\ TerminalKept
    <2>1. HolderKnows(p) /\ calls = 0 /\ Ungenerated
      BY <1>0, <1>1, <1>3, HolderHolds
      DEF VerdictInv, SendInv, HolderMaySend, MayCapture, RowKnows, Ungenerated, TypeOK,
          ProviderStates
    <2>2. /\ RowKnows' /\ job'.fence = job.fence /\ job'.sent = TRUE
          /\ job'.manifest = job.manifest /\ job'.commit = "not_started"
          /\ job'.lifecycle = job.lifecycle
      BY <1>0, <1>1, <1>3, StayMeans, AttemptRowKnows
    <2> QED BY <1>1, <2>1, <2>2 DEF HolderKnows, TerminalKept
  <1>4. CASE Owner(p) /\ job' = ObserveAttempt(job, "not_started", TRUE) /\ Dispatch(p, "err")
    <2>1. Moved(p) /\ Dispatched(p, "err")
      BY <1>0, <1>4, DispatchSays
    <2>2. OthersStay(p) /\ ProviderKept
      BY <1>0, <2>1, MoveKeepsProvider DEF Moved, OthersStay, Dispatched
    <2>3. Ungenerated'
      BY <1>3, <1>4, <2>2 DEF Ungenerated, ProviderKept
    <2>4. Knows(p)'
      BY <1>1, <1>3, <1>4, <2>1, <2>2, <2>3
      DEF Knows, RunKnows, HolderKnows, MayCapture, VerdictHolds, Moved, Terminal,
          ForbidsReplacement, FirstRun, BeforeSend, Dispatched, ProviderKept
    <2> QED BY <1>0, <1>3, <1>4, <2>2, <2>4, WrittenKnows
  <1>5. CASE Owner(p) /\ job' = ObserveAttempt(job, "not_started", TRUE)
             /\ w' = [w EXCEPT ![p] = n]
    <2>1. n.pc = "enter" /\ n.sent = TRUE
      BY <1>1 DEF Invocations
    <2> HIDE DEF n
    <2>2. OthersStay(p) /\ w'[p] = n
      BY <1>0, <1>5 DEF RunsTyped, OthersStay
    <2>3. \A q \in Proc \ {p} : Knows(q)'
      BY <1>0, <1>1, <1>3, <1>5, <2>2, OthersKnow DEF Outside
    <2>4. Knows(p)'
      BY <1>3, <1>5, <2>1, <2>2
      DEF Knows, RunKnows, HolderKnows, MayCapture, ForbidsReplacement
    <2> QED BY <1>3, <1>5, <2>3, <2>4 DEF AllKnow
  <1> QED BY <1>0, <1>2, <1>4, <1>5, Zenon DEF MarkPayloadSent, Save

LEMMA EnterKnows ==
    ASSUME VerdictInv, NEW p \in Proc, EnterAdapter(p)
    PROVE  AllKnow
  <1>0. /\ RunsTyped /\ job \in Rows /\ RowKnows /\ w[p].pc = "enter" /\ Unsaved /\ Stay
        /\ job' = job /\ LocalErrors(p) \subseteq {"err", "ctx"} /\ calls \in Nat
        /\ \A q \in Proc : Knows(q)
    BY DEF VerdictInv, SendInv, TypeOK, RunsTyped, EnterAdapter, At, LocalErrors, Unsaved
  <1>1. CASE Outside /\ \E result \in LocalErrors(p) : Dispatch(p, result)
    BY <1>0, <1>1, DispatchKnows DEF Results
  <1>2. CASE calls' = calls + 1 /\ provider' = "working" /\ Goto(p, "wait")
    <2>1. Moved(p) /\ w'[p].pc = "wait"
      BY <1>0, <1>2, GotoMoves DEF PCs
    <2>2. ~Ungenerated /\ calls' # 0
      BY <1>0, <1>2 DEF Ungenerated, NobodyEnters
    <2>3. RowKnows'
      BY <1>0, <2>2, StayMeans
      DEF RowKnows, Ungenerated, NonCommitIsProved, NobodyEnters, CanceledDeliversNothing,
          CompletedIsCaptured, OccupancyHeldUntilTerminal
    <2>4. ASSUME NEW q \in Proc PROVE Knows(q)'
      <3>1. /\ w'[q].fence = w[q].fence /\ w'[q].recovery = w[q].recovery
            /\ w'[q].sent = w[q].sent
            /\ q # p => w'[q] = w[q]
        BY <2>1 DEF Moved
      <3>2. CASE q = p
        BY <1>0, <2>1, <3>1, <3>2
        DEF Knows, RunKnows, HolderKnows, MayCapture, Owner, FirstRun, BeforeSend
      <3>3. CASE q # p
        <4>1. w'[q] = w[q] /\ Knows(q)
          BY <1>0, <3>1, <3>3
        <4>2. RunKnows(q)'
          BY <1>0, <2>2, <4>1 DEF Knows, RunKnows
        <4>3. ASSUME Owner(q)' PROVE HolderKnows(q)'
          <5>1. HolderKnows(q)
            BY <1>0, <4>1, <4>3 DEF Knows, Owner
          <5>2. VerdictHolds(q) => VerdictHolds(q)'
            BY <1>0, <2>2, <4>1 DEF VerdictHolds, ForbidsReplacement
          <5> QED BY <1>0, <4>1, <5>1, <5>2 DEF HolderKnows, MayCapture
        <4> QED BY <4>2, <4>3 DEF Knows
      <3> QED BY <3>2, <3>3
    <2> QED BY <2>3, <2>4 DEF AllKnow
  <1> QED BY <1>1, <1>2 DEF EnterAdapter

-----------------------------------------------------------------------------

LEMMA InitKnows == ASSUME Init PROVE VerdictInv
  <1>1. /\ job.sent = FALSE /\ job.held = FALSE /\ calls = 0 /\ provider = "idle"
        /\ job.lifecycle = "queued" /\ job.commit = "not_started" /\ job.manifest = FALSE
        /\ job.purged = FALSE /\ job.settled = FALSE /\ canceling = {}
        /\ \A p \in Proc : w[p] = Idle
    BY DEF Init, NewQueuedRenderJob, MarkQueuePublished
  <1>2. RowKnows
    BY <1>1 DEF RowKnows, Terminal, OccupancyHeldUntilTerminal, CanceledDeliversNothing,
                CompletedIsCaptured, NonCommitIsProved
  <1>3. \A p \in Proc : Knows(p)
    BY <1>1 DEF Knows, RunKnows, Owner, OwnsFence, Idle
  <1> QED BY <1>2, <1>3, InitSatisfiesInv DEF VerdictInv

LEMMA StepKnows ==
    ASSUME VerdictInv, [Next]_vars
    PROVE  AllKnow
  <1>1. ASSUME NEW p \in Proc, Worker(p) PROVE AllKnow
    BY <1>1, ClaimKnows, MarkKnows, EnterKnows, AuditKnows, CleanupKnows, LookingKnows,
       HolderWritesKnows DEF Worker
  <1>2. ASSUME NEW p \in Proc, Heartbeat(p) \/ Crash(p) PROVE AllKnow
    BY <1>2, LookingKnows
  <1> QED BY <1>1, <1>2, WorldKnows DEF Next

\* The inductive invariant behind the four theorems below: what the row may hold,
\* what any run knows and what only the holder of the fence may rely on, kept by
\* every store call of ExecuteJob, every cancel, crash, restart and expiry.
THEOREM VerdictInvariant == Spec => []VerdictInv
  <1>1. Init => VerdictInv /\ Proc # {}
    BY InitKnows DEF Init
  <1>2. VerdictInv /\ Proc # {} /\ [Next]_vars => VerdictInv' /\ (Proc # {})'
    <2>1. ASSUME VerdictInv, Proc # {}, [Next]_vars PROVE VerdictInv'
      BY <2>1, StepKeepsInv, StepKnows DEF VerdictInv, AllKnow
    <2> QED BY <2>1
  <1> QED BY <1>1, <1>2, PTL DEF Spec

\* A terminal row that denies a generation is right, whatever a stale worker still
\* does: the Provider has no result and nobody is about to ask it for one (the
\* commit status each persistTerminal call of ExecuteJob and its recovery picks).
THEOREM NonCommitProved == Spec => []NonCommitIsProved
  <1>1. VerdictInv => NonCommitIsProved
    BY DEF VerdictInv, RowKnows
  <1> QED BY <1>1, VerdictInvariant, PTL

\* A canceled job never has a captured result (Capture's conflict with a cancel,
\* and the cancellations a recovery confirms).
THEOREM CanceledHasNoResult == Spec => []CanceledDeliversNothing
  <1>1. VerdictInv => CanceledDeliversNothing
    BY DEF VerdictInv, RowKnows
  <1> QED BY <1>1, VerdictInvariant, PTL

\* A completed job has its manifest, a committed verdict and an entry that is
\* delivered or waits for storage, on the live path and on every recovery path.
THEOREM CompletedHasResult == Spec => []CompletedIsCaptured
  <1>1. VerdictInv => CompletedIsCaptured
    BY DEF VerdictInv, RowKnows
  <1> QED BY <1>1, VerdictInvariant, PTL

\* finishTerminalCleanup purges the prompt and settles the admission of terminal
\* rows only, from the worker, the refused claim and the cancel handler alike.
THEOREM OccupancyHeld == Spec => []OccupancyHeldUntilTerminal
  <1>1. VerdictInv => OccupancyHeldUntilTerminal
    BY DEF VerdictInv, RowKnows
  <1> QED BY <1>1, VerdictInvariant, PTL

-----------------------------------------------------------------------------
(* Every step is a step of the contract, or none of its business. *)

ContractStep == [Contract!Next]_(Contract!cvars)

LEMMA SilentSteps ==
    ASSUME job'.lifecycle = job.lifecycle, job'.commit = job.commit, calls' = calls
    PROVE  ContractStep
  BY DEF ContractStep, Contract!cvars

\* The verdict of an attempt, or of a captured result.
LEMMA JudgeSteps ==
    ASSUME job.lifecycle \in {"running", "cancel_requested"}, job'.lifecycle = job.lifecycle,
           job.commit = "not_started", calls' = calls,
           \/ job'.commit \in {"not_started", "unknown"}
           \/ job'.commit = "committed" /\ calls = 1
    PROVE  ContractStep
  BY DEF ContractStep, Contract!cvars, Contract!Next, Contract!Judge

LEMMA HolderSteps ==
    ASSUME VerdictInv, NEW p \in Proc,
           RecordAttempt(p) \/ MarkPayloadSent(p) \/ LostAttempt(p) \/ ErrAttempt(p)
              \/ Capture(p) \/ Place(p)
    PROVE  ContractStep
  <1>0. /\ job \in Rows /\ Knows(p) /\ calls' = calls /\ calls \in Nat /\ calls <= 1
        /\ w[p].pc \in {"observe", "render", "lostAttempt", "errAttempt", "capture", "place"}
    BY DEF VerdictInv, SendInv, TypeOK, AtMostOneGeneration, RecordAttempt, MarkPayloadSent,
           LostAttempt, ErrAttempt, Capture, Place, Calls, At, Outside
  <1>1. CASE job' = job
    BY <1>0, <1>1, SilentSteps
  <1>2. CASE Owner(p) /\ w[p].pc # "place"
             /\ \E status \in {"not_started", "unknown"}, sent \in BOOLEAN :
                   job' = ObserveAttempt(job, status, sent)
    <2>1. w[p].pc # "capture" => w[p].pc \in FirstRun /\ ~w[p].recovery
      BY <1>0, <1>2 DEF VerdictInv, SendInv, RunsAreTyped, FirstRun, BeforeSend
    <2>2. MayCapture(p)
      BY <1>0, <2>1 DEF MayCapture, Knows, RunKnows
    <2>3. job.commit = "not_started" /\ job.lifecycle \in {"running", "cancel_requested"}
      BY <1>0, <1>2, <2>2, HolderHolds DEF HolderKnows, Rows, CommitStatuses, ForbidsReplacement
    <2>4. job'.lifecycle = job.lifecycle /\ job'.commit \in {"not_started", "unknown"}
      BY <1>0, <1>2 DEF ObserveAttempt, Rows
    <2> QED BY <1>0, <2>3, <2>4, JudgeSteps
  <1>3. CASE Owner(p) /\ w[p].pc = "capture" /\ job' = CaptureManifest(job)
    <2>1. MayCapture(p) /\ calls = 1
      BY <1>0, <1>3 DEF MayCapture, Knows, RunKnows
    <2>2. /\ job.commit = "not_started" /\ job.lifecycle \in {"running", "cancel_requested"}
          /\ ~job.manifest
      BY <1>0, <1>3, <2>1, HolderHolds DEF HolderKnows, Rows, CommitStatuses, ForbidsReplacement
    <2>3. job'.lifecycle = job.lifecycle /\ job'.commit = "committed"
      BY <1>0, <1>3, <2>2 DEF CaptureManifest, Rows
    <2> QED BY <1>0, <2>1, <2>2, <2>3, JudgeSteps
  <1>4. CASE \E d \in Deliveries : job' = PlaceOutput(job, d)
    <2>1. job'.lifecycle = job.lifecycle /\ job'.commit = job.commit
      BY <1>0, <1>4 DEF PlaceOutput, Rows
    <2> QED BY <1>0, <2>1, SilentSteps
  <1>5. CASE RecordAttempt(p) \/ MarkPayloadSent(p)
    BY <1>1, <1>2, <1>5 DEF RecordAttempt, MarkPayloadSent, Save, Unsaved, Calls, At
  <1>6. CASE LostAttempt(p) \/ ErrAttempt(p)
    <2>1. /\ PersistAttempt(p) /\ w[p].pc \in {"lostAttempt", "errAttempt"}
          /\ w[p].sent \in BOOLEAN
      BY <1>6 DEF LostAttempt, ErrAttempt, Calls, At, VerdictInv, SendInv, TypeOK, Invocations
    <2> QED BY <1>1, <1>2, <2>1 DEF PersistAttempt, AttemptCommit, Save, Unsaved
  <1>7. CASE Capture(p)
    BY <1>1, <1>3, <1>7 DEF Capture, Save, Unsaved, Calls, At
  <1>8. CASE Place(p)
    BY <1>1, <1>4, <1>8 DEF Place, Save, Unsaved, Deliveries
  <1> QED BY <1>5, <1>6, <1>7, <1>8

LEMMA EndSteps ==
    ASSUME VerdictInv, NEW p \in Proc, PersistTerminal(p)
    PROVE  ContractStep
  <1>0. /\ job \in Rows /\ Knows(p) /\ calls' = calls /\ calls \in Nat /\ calls <= 1
        /\ w[p].pc = "terminal" /\ w[p].commit \in CommitStatuses
    BY DEF VerdictInv, SendInv, TypeOK, Invocations, AtMostOneGeneration, PersistTerminal,
           Calls, At, Outside
  <1>1. CASE job' = job
    BY <1>0, <1>1, SilentSteps
  <1>2. CASE /\ Owner(p) /\ CanTransition(job.lifecycle, w[p].to)
             /\ job' = Transition(job, w[p].to, w[p].commit)
    <2>1. /\ job.lifecycle \in {"running", "cancel_requested"} /\ job.commit # "not_committed"
          /\ VerdictHolds(p) /\ w[p].to \in Terminal
      BY <1>0, <1>2, HolderHolds DEF HolderKnows, Knows, RunKnows
    <2>2. job'.lifecycle = w[p].to /\ job'.commit = w[p].commit
      BY <1>0, <1>2 DEF Transition, Rows
    <2>3. \/ job.lifecycle = "running" /\ w[p].to \in {"failed", "completed"}
          \/ job.lifecycle = "cancel_requested" /\ w[p].to \in {"failed", "canceled"}
      BY <1>2, <2>1 DEF CanTransition, Terminal
    <2>4. /\ \/ w[p].commit = job.commit
             \/ /\ job.commit = "not_started"
                /\ w[p].commit \in {"not_committed", "committed", "unknown"}
          /\ w[p].commit \in {"not_committed", "committed"} => calls = 1
          /\ w[p].to = "completed" => w[p].commit = "committed"
          /\ w[p].commit = "not_started" => calls = 0
      BY <1>0, <2>1 DEF VerdictHolds, ForbidsReplacement, CommitStatuses, Rows
    <2>5. Contract!End
      BY <1>0, <2>2, <2>3, <2>4 DEF Contract!End
    <2> QED BY <2>5 DEF ContractStep, Contract!Next
  <1> QED BY <1>1, <1>2 DEF PersistTerminal, Save, Unsaved

LEMMA ClaimSteps ==
    ASSUME VerdictInv, NEW p \in Proc, Claim(p)
    PROVE  ContractStep
  <1>0. job \in Rows /\ calls' = calls
    BY DEF VerdictInv, SendInv, TypeOK, Claim, Outside
  <1>1. CASE job' = job
    BY <1>0, <1>1, SilentSteps
  <1>2. CASE Claimable(job) /\ job' = ClaimWorker(job)
    <2>1. /\ job'.commit = job.commit
          /\ \/ job.lifecycle = "queued" /\ job'.lifecycle = "running"
             \/ job'.lifecycle = job.lifecycle
      BY <1>0, <1>2 DEF Claimable, ClaimWorker, Rows
    <2> QED BY <1>0, <2>1, SilentSteps
            DEF ContractStep, Contract!cvars, Contract!Next, Contract!Start
  <1> QED BY <1>1, <1>2 DEF Claim, Save, Unsaved

LEMMA EnterSteps ==
    ASSUME VerdictInv, NEW p \in Proc, EnterAdapter(p)
    PROVE  ContractStep
  <1>0. job' = job /\ w[p].pc = "enter"
    BY DEF EnterAdapter, Unsaved, At
  <1>1. CASE calls' = calls
    BY <1>0, <1>1, SilentSteps
  <1>2. CASE calls' = calls + 1
    <2>1. calls = 0 /\ job.sent
      BY <1>0 DEF VerdictInv, SendInv, EntersAlone, UnmarkedIsUnsent, NobodyEnters
    <2>2. job.lifecycle # "queued"
      BY <2>1 DEF VerdictInv, SendInv, QueuedIsFresh
    <2>3. job.lifecycle \in Terminal => job.commit \in ForbidsReplacement
      BY <1>0 DEF VerdictInv, RowKnows, NonCommitIsProved
    <2>4. Contract!Generate
      BY <1>0, <1>2, <2>1, <2>2, <2>3
      DEF Contract!Generate, Contract!Ended, Terminal, ForbidsReplacement
    <2> QED BY <2>4 DEF ContractStep, Contract!Next
  <1> QED BY <1>1, <1>2 DEF EnterAdapter, Outside

LEMMA CancelSteps ==
    ASSUME VerdictInv, NEW p \in Proc, ClientCancel(p)
    PROVE  ContractStep
  <1>1. job \in Rows /\ job' = Cancel(job) /\ calls' = calls
    BY DEF VerdictInv, SendInv, TypeOK, ClientCancel, Save, Outside
  <1>2. /\ job'.commit = job.commit
        /\ \/ job.lifecycle = "queued" /\ job'.lifecycle = "canceled"
           \/ job.lifecycle = "running" /\ job'.lifecycle = "cancel_requested"
           \/ job'.lifecycle = job.lifecycle
    BY <1>1 DEF Cancel, Rows
  <1> QED BY <1>1, <1>2, SilentSteps
          DEF ContractStep, Contract!cvars, Contract!Next, Contract!RequestCancel

\* Everything else writes neither the lifecycle nor the verdict.
LEMMA QuietSteps ==
    ASSUME VerdictInv,
           \/ \E p \in Proc :
                 \/ Refused(p) \/ AuditClaim(p) \/ Recover(p) \/ Bind(p) \/ RecheckCancel(p)
                 \/ Preflight(p) \/ RenderRefused(p) \/ AdapterReturns(p) \/ RecheckResult(p)
                 \/ Cleanup(p) \/ LedgerUnreadable(p) \/ Heartbeat(p) \/ CreateRetry(p)
                 \/ CancelCleanup(p) \/ Crash(p) \/ Restart(p)
           \/ ProviderDecides \/ LeaseExpires \/ UNCHANGED vars
    PROVE  ContractStep
  <1>1. /\ job \in Rows /\ calls' = calls
        /\ \/ job' = job
           \/ job' = [job EXCEPT !.claimedAudited = TRUE]
           \/ job' = [job EXCEPT !.expired = TRUE]
           \/ job' = MarkQueuePublished(job)
           \/ \E purge, settle \in BOOLEAN : job' = MarkCleaned(job, purge, settle)
    BY DEF VerdictInv, SendInv, TypeOK, Refused, AuditClaim, Recover, Bind, RecheckCancel,
           Preflight, RenderRefused, AdapterReturns, RecheckResult, Cleanup, LedgerUnreadable,
           Heartbeat, CreateRetry, CancelCleanup, Crash, Restart, ProviderDecides,
           LeaseExpires, vars, Outside, Save, Unsaved
  <1>2. job'.lifecycle = job.lifecycle /\ job'.commit = job.commit
    BY <1>1 DEF MarkQueuePublished, MarkCleaned, Rows
  <1> QED BY <1>1, <1>2, SilentSteps

LEMMA StepIsContract ==
    ASSUME VerdictInv, [Next]_vars
    PROVE  ContractStep
  <1>1. ASSUME NEW p \in Proc, Worker(p) PROVE ContractStep
    BY <1>1, HolderSteps, EndSteps, ClaimSteps, EnterSteps, QuietSteps DEF Worker
  <1> QED BY <1>1, CancelSteps, QuietSteps DEF Next

\* The workers, their leases, queues, crashes and restarts implement the contract a
\* client reads off the row: domain.CanTransition's edges, one generation at most,
\* and one verdict, which a generation sent later does not contradict.
THEOREM ImplementsTheContract == Spec => ImplementsContract
  <1>1. Init => Contract!Init
    BY DEF Init, Contract!Init, NewQueuedRenderJob, MarkQueuePublished
  <1>2. VerdictInv /\ [Next]_vars => [Contract!Next]_(Contract!cvars)
    BY StepIsContract DEF ContractStep
  <1> QED BY <1>1, <1>2, VerdictInvariant, PTL DEF Spec, ImplementsContract, Contract!Spec

\* A committed or unknown verdict is never changed, by whichever worker, recovery
\* or cancel writes the row next (ObserveAttempt, CaptureManifest and Transition).
THEOREM CertaintyIsKept == Spec => CertaintyNeverWeakens
  <1>1. VerdictInv /\ [Next]_vars =>
            [job.commit \in ForbidsReplacement => job'.commit = job.commit]_vars
    <2>1. ASSUME ContractStep, job.commit \in ForbidsReplacement
          PROVE  job'.commit = job.commit
      BY <2>1 DEF ContractStep, Contract!cvars, Contract!Next, Contract!Start,
                  Contract!RequestCancel, Contract!Generate, Contract!Judge, Contract!End,
                  ForbidsReplacement
    <2> QED BY <2>1, StepIsContract
  <1> QED BY <1>1, VerdictInvariant, PTL DEF Spec, CertaintyNeverWeakens
=============================================================================
