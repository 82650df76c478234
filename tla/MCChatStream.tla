----------------------------- MODULE MCChatStream -----------------------------
(* Two requests of one client: with one key, the first upset or with a      *)
(* fallback account; with a key each and one account to share; or one       *)
(* request of a drifting Adapter, upset and with a fallback account.        *)
EXTENDS ChatStream, TLC

CONSTANTS c1, c2, k1, k2, a1, a2

\* The setups of calls cs with keys ks over accounts as.
Setup(cs, ks, as, leases, fallbacks, deltas, upset, drifts) ==
    [calls : {cs}, keys : {ks}, accounts : {as}, leases : leases, fallbacks : {fallbacks},
     deltas : {deltas}, upset : {upset}, drifts : {drifts}]

Retried == Setup({c1, c2}, {k1}, {a1}, {FALSE}, 0, 1, {c1}, {})
Refallen == Setup({c1, c2}, {k1}, {a1}, {FALSE}, 1, 0, {}, {})
Shared == Setup({c1, c2}, {k1, k2}, {a1}, BOOLEAN, 0, 0, {c1}, {})
Drifting == Setup({c1}, {k1}, {a1, a2}, BOOLEAN, 1, 2, {c1}, {c1})

AllSetups == Retried \cup Refallen \cup Shared \cup Drifting

Symmetry == Permutations({a1, a2})
=============================================================================
