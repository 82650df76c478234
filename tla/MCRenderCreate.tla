---------------------------- MODULE MCRenderCreate ----------------------------
(* Two processes share the ledgers of two calls and a call fails or one of    *)
(* them crashes; or one process serves three calls, with a fault and a crash  *)
(* or with two faults.                                                        *)
EXTENDS RenderCreate

CONSTANTS p1, p2, c1, c2, c3, b1, b2

Setup(ps, cs, bodies, kept, f, k) ==
    [procs : {ps}, calls : {cs}, body : bodies, kept : kept, faults : {f}, crashes : {k}]

\* Every call sends the same body, or c2 another one.
Same == [c \in Calls |-> b1]
Other == [Same EXCEPT ![c2] = b2]

Shared ==
    Setup({p1, p2}, {c1, c2}, {Same}, {{"replay"}}, 1, 0) \cup
    Setup({p1, p2}, {c1, c2}, {Same}, {{"replay"}}, 0, 1)
Retried == Setup({p1}, {c1, c2, c3}, {Same}, {{"replay", "jobs"}}, 1, 1)
Rival == Setup({p1}, {c1, c2, c3}, {Other}, {{"replay"}}, 2, 0)

AllSetups == Shared \cup Retried \cup Rival

\* One process and one failing call.
KeptRow == Setup({p1}, {c1, c2}, {Same}, {{"jobs"}}, 1, 0)
=============================================================================
