--------------------------- MODULE RenderContract ---------------------------
(***************************************************************************)
(* What a client of the render API is promised about one job, without      *)
(* workers, leases, queues or crashes: the lifecycle edges of              *)
(* domain.CanTransition, one generation at the very most, and a commit     *)
(* verdict that is given once and that a later generation cannot           *)
(* contradict.  RenderWorker implements it.                                *)
(***************************************************************************)
EXTENDS Naturals

VARIABLES status,   \* the lifecycle the client reads
          commit,   \* the commit verdict
          calls     \* generations requested from the Provider

cvars == <<status, commit, calls>>

Ended == {"canceled", "failed", "completed"}

Init == status = "queued" /\ commit = "not_started" /\ calls = 0

\* A worker starts; before that no verdict and no generation exists.
Start == status = "queued" /\ status' = "running" /\ UNCHANGED <<commit, calls>>

RequestCancel ==
    /\ \/ status = "queued" /\ status' = "canceled"
       \/ status = "running" /\ status' = "cancel_requested"
    /\ UNCHANGED <<commit, calls>>

\* The one generation.  A verdict already published must allow for it.
Generate ==
    /\ calls = 0 /\ calls' = 1
    /\ status # "queued"
    /\ status \in Ended => commit \in {"committed", "unknown"}
    /\ UNCHANGED <<status, commit>>

\* The verdict is given before or together with the end, and only once.
Judge ==
    /\ status \in {"running", "cancel_requested"}
    /\ commit = "not_started" /\ commit' \in {"not_committed", "committed", "unknown"}
    /\ commit' \in {"not_committed", "committed"} => calls = 1
    /\ UNCHANGED <<status, calls>>

End ==
    /\ \/ status = "running" /\ status' \in {"failed", "completed"}
       \/ status = "cancel_requested" /\ status' \in {"failed", "canceled"}
    /\ \/ commit' = commit
       \/ commit = "not_started" /\ commit' \in {"not_committed", "committed", "unknown"}
    /\ commit' \in {"not_committed", "committed"} => calls = 1
    /\ status' = "completed" => commit' = "committed"
    /\ commit' = "not_started" => calls = 0
    /\ UNCHANGED calls

Next == Start \/ RequestCancel \/ Generate \/ Judge \/ End

Spec == Init /\ [][Next]_cvars
=============================================================================
