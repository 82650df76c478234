------------------------------ MODULE ChatStream ------------------------------
(***************************************************************************)
(* Chat executions of one Tenant and Client API Key, streaming and plain   *)
(* (application/chat_stream.go, chat.go, chat_cancel.go): the claim of the *)
(* Idempotency-Key, admission, the account lease, the walk over accounts,  *)
(* the SSE stream an Adapter writes into, the terminal, settlement of what *)
(* the upstream may still be doing, disconnect and explicit cancel.        *)
(*                                                                         *)
(* Each call runs in its own goroutine; an action is what it does between  *)
(* two accesses to something shared: the replay store, admission, leases,  *)
(* residual tracking, the registry of running executions, its own          *)
(* transport (which the Adapter's goroutine writes too) and the Provider.  *)
(* Audit, telemetry and affinity decide nothing and are left out, and so   *)
(* is the eviction of terminal registry entries.  The Adapter reports one  *)
(* of the three outcome classes of its port or an error.                   *)
(*                                                                         *)
(* Operators whose comment begins "Wrong:" are slips in the operator that  *)
(* follows them; no specification uses them.                               *)
(***************************************************************************)
EXTENDS Naturals, FiniteSets

CONSTANTS Calls,        \* requests, each made once
          Keys,         \* Idempotency-Keys
          Accounts,
          NoCall,
          Setups,       \* [calls, keys, accounts, leases, fallbacks, deltas, upset, drifts]: the
                        \* requests and keys of the client, the candidates and lease policy of its
                        \* Tenant, bounds on its fallback chain (the code has none) and on the deltas
                        \* of a stream, the calls whose client may leave or cancel and whose store
                        \* calls may fail, the calls of a drifting Adapter
          ResidualCap,  \* the Tenant's limit on residual tracking
          MaxDeltas,    \* the largest of those bounds
          MaxFaults     \* bound on failing calls and panics

MaxFallbacks == 1       \* the largest bound on the fallback chain

ASSUME ChatAssumption ==
    /\ NoCall \notin Calls /\ Keys # {} /\ Accounts # {} /\ IsFiniteSet(Accounts)
    /\ \A s \in Setups : /\ s.keys \subseteq Keys /\ s.accounts \subseteq Accounts
                          /\ s.leases \in BOOLEAN
                          /\ s.calls \cup s.upset \cup s.drifts \subseteq Calls
                          /\ s.deltas \in 0 .. MaxDeltas /\ s.fallbacks \in 0 .. MaxFallbacks
    /\ ResidualCap \in Nat /\ MaxDeltas \in Nat /\ MaxFaults \in Nat

VARIABLES setup,      \* the setup of this behaviour
          call,       \* what the goroutine of each call remembers
          replay,     \* replay store: the record of each key
          occupancy,  \* what admission holds for the call, and the usage it settled to
          lease,      \* lease store: the execution that holds the account
          residual,   \* residual store: the executions tracked
          registry,   \* running and finished executions, for explicit cancel
          wire,       \* the SSE response: event order, content deltas, those of them written
                      \* after the outcome was settled, the attempts that wrote, terminal
          fate,       \* what the Provider made of each attempt
          disowned,   \* history: the attempts that were answered for as not committed
          faults      \* failing calls and panics so far

vars == <<setup, call, replay, occupancy, lease, residual, registry, wire, fate, disowned, faults>>

Attempts == 1 .. 2      \* the selected account and the chain

NoTerm == [event |-> "none", code |-> "none", abort |-> FALSE, stop |-> FALSE, content |-> 0]

Fresh == [pc |-> "idle", kind |-> "stream", key |-> CHOOSE k \in Keys : TRUE,
          acc |-> CHOOSE a \in Accounts : TRUE, left |-> {}, leased |-> FALSE, at |-> 0,
          gone |-> FALSE, answer |-> "none", abort |-> FALSE, stop |-> FALSE,
          open |-> "no", sealed |-> FALSE, got |-> 0,
          term |-> NoTerm, opened |-> FALSE, tracked |-> FALSE, confirmed |-> FALSE,
          hurt |-> FALSE]

Unclaimed == [state |-> "none", kind |-> "stream", by |-> NoCall, content |-> 0, end |-> "none"]

Init ==
    /\ setup \in Setups
    /\ call = [c \in Calls |-> Fresh]
    /\ replay = [k \in Keys |-> Unclaimed]
    /\ occupancy = [c \in Calls |-> "none"]
    /\ lease = [a \in Accounts |-> NoCall]
    /\ residual = {}
    /\ registry = [c \in Calls |-> [state |-> "none", abort |-> FALSE]]
    /\ wire = [c \in Calls |-> [order |-> "awaiting", deltas |-> 0, late |-> 0, by |-> {}, end |-> "none"]]
    /\ fate = [c \in Calls |-> [i \in Attempts |-> "none"]]
    /\ disowned = [c \in Calls |-> {}]
    /\ faults = 0

-----------------------------------------------------------------------------
(* Steps of a call *)

At(c, pc) == call[c].pc = pc

Becomes(c, next) == call' = [call EXCEPT ![c] = next]

Go(c, pc) == call' = [call EXCEPT ![c].pc = pc]

\* The goroutine is over: what only it knew is forgotten.
Over(me) ==
    [Fresh EXCEPT !.pc = "done", !.kind = me.kind, !.key = me.key, !.at = me.at, !.opened = me.opened,
                  !.term.code = me.term.code, !.hurt = me.hurt]

Stream(c) == call[c].kind = "stream"

\* What remains of a call whose store call failed on a live context, or that panicked.
Hurt(c) == [call[c] EXCEPT !.hurt = @ \/ faults' # faults]

\* Wrong: accounting runs on the request's context.
FailsWithRequest(c) ==
    \/ call[c].gone /\ UNCHANGED faults
    \/ c \in setup.upset /\ faults < MaxFaults /\ faults' = faults + 1

\* Accounting runs on a context of its own.
Fails(c) == c \in setup.upset /\ faults < MaxFaults /\ faults' = faults + 1

\* A call with the request's context fails freely once the client is gone.
FailsOnRequest(c) ==
    IF call[c].gone THEN UNCHANGED faults ELSE Fails(c)

NoFault == UNCHANGED faults

Signaled(c) == call[c].gone \/ registry[c].abort

Matches(c) == replay[call[c].key].state # "none" /\ replay[call[c].key].kind = call[c].kind

\* An unfinished claim of the same request is cleared.
Abandon(c) ==
    replay' = IF Matches(c) /\ replay[call[c].key].state = "claimed"
              THEN [replay EXCEPT ![call[c].key] = Unclaimed] ELSE replay

\* Wrong: the record keeps the end and not the content.
CompleteEmpty(c) ==
    LET r == replay[call[c].key] IN
    replay' = IF Matches(c) /\ r.state = "claimed"
              THEN [replay EXCEPT ![call[c].key] = [r EXCEPT !.state = "terminal", !.by = c,
                        !.end = call[c].term.event]]
              ELSE replay

\* The outcome is recorded; a terminal record stays.
Complete(c) ==
    LET r == replay[call[c].key] IN
    replay' = IF Matches(c) /\ r.state = "claimed"
              THEN [replay EXCEPT ![call[c].key] = [r EXCEPT !.state = "terminal", !.by = c,
                        !.content = call[c].term.content, !.end = call[c].term.event]]
              ELSE replay

-----------------------------------------------------------------------------
(* The response: lazyStream over sseStream *)

\* The order of events: open, content, one terminal.  "refused" leaves the order as it is.
OrderAdmits(order, event) ==
    CASE event = "open" -> IF order = "awaiting" THEN "open" ELSE "refused"
      [] event = "content" -> IF order = "open" THEN "open" ELSE "refused"
      [] OTHER -> IF order = "open" THEN "closed" ELSE "refused"

\* A write to the client; on a broken connection it may fail.
Writes(c) == {TRUE} \cup (IF call[c].gone THEN {FALSE} ELSE {})

\* Wrong: a transport that is open already is taken for a fresh one.
TransportOpensAgain(c) ==
    {[open |-> IF ok THEN "open" ELSE "broken", wire |-> [wire[c] EXCEPT !.order = "open"]] : ok \in Writes(c)}

\* Writing the open event advances the order even when the write fails.
TransportOpens(c) ==
    IF OrderAdmits(wire[c].order, "open") = "refused"
    THEN {[open |-> "broken", wire |-> wire[c]]}
    ELSE {[open |-> IF ok THEN "open" ELSE "broken", wire |-> [wire[c] EXCEPT !.order = "open"]] :
            ok \in Writes(c)}

\* The stream opens on first demand: what the lazy stream then holds, and the wire.
EnsureOpen(c) ==
    IF call[c].sealed THEN {}
    ELSE IF call[c].open # "no" THEN {[open |-> call[c].open, wire |-> wire[c]]}
    ELSE TransportOpens(c)

\* The deltas that a write of content adds to the response.
TransportDelta(c, w) ==
    IF OrderAdmits(w.order, "content") = "refused" THEN {0} ELSE {IF ok THEN 1 ELSE 0 : ok \in Writes(c)}

\* The response after its terminal event.
TransportTerminal(w, event) ==
    IF OrderAdmits(w.order, event) = "refused" THEN w ELSE [w EXCEPT !.order = "closed", !.end = event]

\* A delta that comes when the outcome is classified and its content captured, but the
\* stream not yet ended or sealed.
Late(c, n) == IF At(c, "end") \/ At(c, "seal") THEN n ELSE 0

\* Content opens the stream first; what the transport accepted counts as delivered.
Delta(c) ==
    /\ wire[c].deltas < setup.deltas
    /\ \E o \in EnsureOpen(c) :
        /\ o.open = "open" \/ call[c].open = "no"
        /\ \E n \in IF o.open = "open" THEN TransportDelta(c, o.wire) ELSE {0} :
            /\ wire' = [wire EXCEPT ![c] = [o.wire EXCEPT !.deltas = @ + n, !.late = @ + Late(c, n),
                            !.by = IF n > 0 THEN @ \cup {call[c].at} ELSE @]]
            /\ Becomes(c, [call[c] EXCEPT !.open = o.open, !.got = @ + n])
    /\ UNCHANGED <<replay, occupancy, lease, residual, registry, setup, fate, disowned, faults>>

\* A keepalive that opens the stream; later ones change nothing.
Heartbeat(c) ==
    /\ call[c].open = "no"
    /\ \E o \in EnsureOpen(c) :
        /\ wire' = [wire EXCEPT ![c] = o.wire]
        /\ Becomes(c, [call[c] EXCEPT !.open = o.open])
    /\ UNCHANGED <<replay, occupancy, lease, residual, registry, setup, fate, disowned, faults>>

\* An Adapter writes during its attempt.
AdapterWrites(c) == Stream(c) /\ At(c, "adapter") /\ (Delta(c) \/ Heartbeat(c))

\* A drifting one writes after its attempt returned.
AdapterDrifts(c) ==
    /\ c \in setup.drifts
    /\ Stream(c) /\ call[c].at # 0 /\ ~At(c, "adapter") /\ ~At(c, "done")
    /\ fate[c][call[c].at] # "none"
    /\ Delta(c) \/ Heartbeat(c)

-----------------------------------------------------------------------------
(* Claim, admission, selection *)

\* The recorded outcome as a stream of its own: open, one delta, the terminal.
StreamReplay(c, r) ==
    wire' = [wire EXCEPT ![c] = [order |-> "closed", deltas |-> r.content, late |-> 0, by |-> {},
                                 end |-> r.end]]

\* An HTTP answer, which the handler leaves out once the stream is open.
AnswersHTTP(c) ==
    wire' = IF wire[c].order = "awaiting" THEN [wire EXCEPT ![c].end = "http"] ELSE wire

\* MemoryChatReplayStore.Claim: the kind of call is part of the fingerprint.
Claimed(r, kind) ==
    CASE r.state = "none" -> "claimed"
      [] r.state # "none" /\ r.kind # kind -> "conflict"
      [] r.state = "claimed" /\ r.kind = kind -> "in_progress"
      [] OTHER -> "terminal"

\* A request that passed its checks becomes the owner of its key, or is over.
Enters(c, kind, key) ==
    LET me == [Fresh EXCEPT !.kind = kind, !.key = key]
    IN  IF Claimed(replay[key], kind) = "claimed"
        THEN /\ replay' = [replay EXCEPT ![key] = [Unclaimed EXCEPT !.state = "claimed", !.kind = kind, !.by = c]]
             /\ Becomes(c, [me EXCEPT !.pc = "admit"])
        ELSE UNCHANGED replay /\ Becomes(c, Over(me))

StreamChat(c) ==
    /\ c \in setup.calls /\ At(c, "idle")
    /\ \E k \in setup.keys :
        /\ Enters(c, "stream", k)
        /\ CASE Claimed(replay[k], "stream") = "claimed" -> UNCHANGED wire
             [] Claimed(replay[k], "stream") = "terminal" -> StreamReplay(c, replay[k])
             [] OTHER -> AnswersHTTP(c)
    /\ UNCHANGED <<occupancy, lease, residual, registry, setup, fate, disowned, faults>>

CreateChatCompletion(c) ==
    /\ c \in setup.calls /\ At(c, "idle")
    /\ \E k \in setup.keys :
        /\ Enters(c, "plain", k)
        /\ IF Claimed(replay[k], "plain") = "claimed" THEN UNCHANGED wire ELSE AnswersHTTP(c)
    /\ UNCHANGED <<occupancy, lease, residual, registry, setup, fate, disowned, faults>>

\* The claim is given back, with the request's context.
Unclaim(c) ==
    \/ Abandon(c) /\ NoFault /\ Becomes(c, Over(call[c]))
    \/ UNCHANGED replay /\ FailsOnRequest(c) /\ Becomes(c, Over(Hurt(c)))

\* A refused request gives its claim back.
Admit(c) ==
    /\ At(c, "admit")
    /\ \/ /\ occupancy' = [occupancy EXCEPT ![c] = "held"] /\ Go(c, "select")
          /\ UNCHANGED <<replay, wire, faults>>
       \/ UNCHANGED occupancy /\ Unclaim(c) /\ AnswersHTTP(c)
    /\ UNCHANGED <<lease, residual, registry, setup, fate, disowned>>

\* failAfterRollback: both calls are made, whatever the first returns.
Rollback(c) ==
    \/ occupancy' = [occupancy EXCEPT ![c] = "none"] /\ Unclaim(c)
    \/ /\ UNCHANGED occupancy /\ FailsOnRequest(c)
       /\ Abandon(c) \/ UNCHANGED replay
       /\ Becomes(c, Over(Hurt(c)))

\* The accounts that pass what the account, health and capability stores and the
\* circuit say of them at the moment they are read.
Passing == SUBSET setup.accounts

\* The hard lease of a stream, when policy has one.
LeasesStream(c) == Stream(c) /\ setup.leases

LeaseAcquired(c, a) == [lease EXCEPT ![a] = c]

LeaseReleased(c) == [a \in Accounts |-> IF lease[a] = c THEN NoCall ELSE lease[a]]

\* An account that another stream holds refuses this one; nothing is tried elsewhere.
AcquireStreamLease(c, a) ==
    /\ LeasesStream(c) => lease[a] = NoCall
    /\ lease' = IF LeasesStream(c) THEN LeaseAcquired(c, a) ELSE lease

\* The pinned, the preferred or the first account that passes is selected and, for a
\* stream, leased; else everything is rolled back.
Select(c) ==
    /\ At(c, "select")
    /\ \/ \E passing \in Passing : \E a \in passing :
            /\ AcquireStreamLease(c, a)
            /\ Becomes(c, [call[c] EXCEPT !.acc = a, !.leased = LeasesStream(c), !.pc = "plan"])
            /\ UNCHANGED <<replay, occupancy, wire, faults>>
       \/ UNCHANGED lease /\ Rollback(c) /\ AnswersHTTP(c)
    /\ UNCHANGED <<residual, registry, setup, fate, disowned>>

\* The fallback accounts of the policy that pass, to be tried after the selected one,
\* which the policy may name again.
AttemptAccounts(c) == {L \in Passing : Cardinality(L) <= setup.fallbacks}

\* Wrong: a leased stream falls back like any other.
StreamAttemptsAny(c) == AttemptAccounts(c)

\* A leased stream tries its account only.
StreamAttempts(c) == IF call[c].leased THEN {{}} ELSE AttemptAccounts(c)

Register(c) == registry' = [registry EXCEPT ![c].state = "running"]

\* The stream becomes known to explicit cancel, and the walk over accounts is laid out.
Plan(c) ==
    /\ At(c, "plan")
    /\ IF Stream(c) THEN Register(c) ELSE UNCHANGED registry
    /\ \E left \in IF Stream(c) THEN StreamAttempts(c) ELSE AttemptAccounts(c) :
            Becomes(c, [call[c] EXCEPT !.left = left, !.pc = "attempt"])
    /\ UNCHANGED <<replay, occupancy, lease, residual, setup, wire, fate, disowned, faults>>

-----------------------------------------------------------------------------
(* One attempt *)

Failed(code) == [NoTerm EXCEPT !.event = "failed", !.code = code]

Advanced(me) ==
    LET a == CHOOSE x \in me.left : TRUE
    IN  [me EXCEPT !.acc = a, !.left = @ \ {a}, !.pc = "attempt"]

\* Wrong: an uncertain outcome falls back too.
RunStreamOn(me) == IF me.left = {} THEN [me EXCEPT !.pc = "mark"] ELSE Advanced(me)

\* The walk of a stream that is not open goes on unless the commit is uncertain.
RunStream(me) ==
    IF me.left = {} \/ me.term.code = "possibly" THEN [me EXCEPT !.pc = "mark"] ELSE Advanced(me)

RunExecution(me) ==
    IF me.left = {} \/ me.term.code = "possibly" \/ me.term.event = "completed"
    THEN [me EXCEPT !.pc = "reconcile"] ELSE Advanced(me)

\* The gates and the Vault reject the account, or the call fails before the payload:
\* a rejected stream attempt carries the zero terminal.
Unsent(c) ==
    LET rejects == \E passing \in Passing : call[c].acc \notin passing
    IN  {Failed("proven")} \cup (IF Stream(c) /\ rejects THEN {NoTerm} ELSE {})

\* The send boundary is marked and the Adapter entered.
SendPayload(c, me) ==
    /\ Becomes(c, [me EXCEPT !.pc = "adapter"])
    /\ fate' = [fate EXCEPT ![c][me.at] = "sent"]

\* After content of an earlier attempt an error is owed to the client as a terminal;
\* else the attempt is sealed, or was never opened.
UnsentStream(c, me, t) ==
    IF t # NoTerm /\ wire[c].deltas > 0
    THEN [me EXCEPT !.term = Failed("possibly"), !.answer = "error", !.opened = TRUE, !.pc = "end"]
    ELSE RunStream([me EXCEPT !.sealed = TRUE, !.term = t])

AttemptStreamOnAccount(c) ==
    /\ Stream(c) /\ At(c, "attempt")
    /\ LET me == [call[c] EXCEPT !.at = @ + 1, !.open = "no", !.sealed = FALSE, !.got = 0]
       IN  \/ SendPayload(c, me)
           \/ \E t \in Unsent(c) : Becomes(c, UnsentStream(c, me, t)) /\ UNCHANGED fate
    /\ UNCHANGED <<replay, occupancy, lease, residual, registry, setup, wire, disowned, faults>>

AttemptOnAccount(c) ==
    /\ ~Stream(c) /\ At(c, "attempt")
    /\ LET me == [call[c] EXCEPT !.at = @ + 1]
       IN  \/ SendPayload(c, me)
           \/ \E t \in Unsent(c) : Becomes(c, RunExecution([me EXCEPT !.term = t])) /\ UNCHANGED fate
    /\ UNCHANGED <<replay, occupancy, lease, residual, registry, setup, wire, disowned, faults>>

\* The Provider takes up a payload, at any time after it was sent, and ends.
ProviderAccepts(c, i) ==
    /\ fate[c][i] = "sent"
    /\ fate' = [fate EXCEPT ![c][i] = "running"]
    /\ UNCHANGED <<call, replay, occupancy, lease, residual, registry, setup, wire, disowned, faults>>

\* When its attempt or its call is over nobody looks any more.
ProviderEnds(c, i) ==
    /\ fate[c][i] = "running" /\ i = call[c].at /\ ~At(c, "done")
    /\ fate' = [fate EXCEPT ![c][i] = "ended"]
    /\ UNCHANGED <<call, replay, occupancy, lease, residual, registry, setup, wire, disowned, faults>>

\* The payload is turned down, by the Provider or by an Adapter that never sends it.
ProviderRefuses(c, i) ==
    /\ fate[c][i] = "sent" /\ i = call[c].at /\ ~At(c, "done")
    /\ fate' = [fate EXCEPT ![c][i] = "refused"]
    /\ UNCHANGED <<call, replay, occupancy, lease, residual, registry, setup, wire, disowned, faults>>

Report(answer, abort, stop) == [answer |-> answer, abort |-> abort, stop |-> stop]

\* How an Adapter classifies a failure.  A refusal by the Provider is a class of its own;
\* a transport error, a 5xx or a turn without content is called not committed as well,
\* whatever the Provider made of the payload, or is uncertain; once content has come the
\* Adapters of the repository say the latter, the port allows either.
FailureReports(f) ==
    {Report("unknown", FALSE, FALSE), Report("upstream", FALSE, FALSE)}
    \cup {r \in {Report("rejected", FALSE, FALSE)} : f = "refused"}

\* Errors are those of the layers between.  A stream may end committed and failed or, in
\* no Adapter of the repository, canceled after a signal, a stop being claimed only when
\* it is proved; a plain call has a class of errors that is answered as a non-commit
\* before anyone asks whether the payload was sent.
Reports(c) ==
    LET f == fate[c][call[c].at]
    IN  FailureReports(f) \cup {Report("error", FALSE, FALSE)}
        \cup {r \in {Report("completed", FALSE, FALSE)} : f = "ended"}
        \cup {r \in {Report("failed", FALSE, FALSE)} : Stream(c) /\ f = "ended"}
        \cup {r \in {Report("canceled", FALSE, FALSE), Report("canceled", TRUE, f = "ended")} :
                 Stream(c) /\ Signaled(c) /\ f \in {"running", "ended"}}
        \cup {r \in {Report("unavailable", FALSE, FALSE)} : ~Stream(c)}

\* The answers after which the key and the walk go on as if nothing had been generated.
Disowning == {"rejected", "upstream", "unavailable", "failed"}

AdapterReturns(c) ==
    /\ At(c, "adapter")
    /\ \E r \in Reports(c) :
        /\ Becomes(c, [call[c] EXCEPT !.pc = "returned", !.answer = r.answer, !.abort = r.abort, !.stop = r.stop])
        /\ disowned' = IF r.answer \in Disowning
                       THEN [disowned EXCEPT ![c] = @ \cup {call[c].at}] ELSE disowned
    /\ UNCHANGED <<replay, occupancy, lease, residual, registry, setup, wire, fate, faults>>

\* The canonical error of a proved non-commit: some of its classes do not prove
\* that the upstream stopped.
NotCommittedCanonical(answer) == IF answer = "rejected" THEN "proven" ELSE "upstream"

\* Wrong: the finish class is passed on as the event.
TerminalByFinishClass(me) ==
    IF me.answer = "completed" THEN [NoTerm EXCEPT !.event = "stop"] ELSE Failed("possibly")

\* The terminal an outcome stands for.
Terminal(me) ==
    CASE me.answer = "completed" -> [NoTerm EXCEPT !.event = "completed"]
      [] me.answer = "canceled" ->
            [NoTerm EXCEPT !.event = "canceled", !.abort = me.abort, !.stop = me.stop]
      [] me.answer = "failed" -> Failed("none")
      [] me.answer = "unavailable" -> Failed("proven")
      [] me.answer \in {"rejected", "upstream"} -> Failed(NotCommittedCanonical(me.answer))
      [] OTHER -> Failed("possibly")

\* Wrong: a stream that ends in an error is answered over HTTP, content or not.
OwesTerminalUnlessError(c) ==
    CASE call[c].answer \in {"completed", "failed", "canceled", "unknown"} -> TRUE
      [] call[c].answer = "error" -> FALSE
      [] OTHER -> wire[c].deltas > 0 \/ call[c].open = "open"

\* Whether the outcome is owed to the client as a terminal event.
OwesTerminal(c) ==
    CASE call[c].answer \in {"completed", "failed", "canceled", "unknown"} -> TRUE
      [] call[c].answer = "error" -> wire[c].deltas > 0
      [] OTHER -> wire[c].deltas > 0 \/ call[c].open = "open"

\* A plain outcome ends the walk unless it proves that nothing was generated.
ClassifyOutcome(c) ==
    /\ ~Stream(c) /\ At(c, "returned")
    /\ Becomes(c, RunExecution([call[c] EXCEPT !.term = Terminal(call[c])]))
    /\ UNCHANGED <<replay, occupancy, lease, residual, registry, setup, wire, fate, disowned, faults>>

\* The content is captured when the stream is to be ended with an event.
ClassifyStreamOutcome(c) ==
    /\ Stream(c) /\ At(c, "returned")
    /\ LET owes == OwesTerminal(c)
           content == IF owes /\ call[c].answer # "error" THEN call[c].got ELSE 0
       IN  Becomes(c, [call[c] EXCEPT !.term = [Terminal(call[c]) EXCEPT !.content = content],
                                      !.opened = owes, !.pc = IF owes THEN "end" ELSE "seal"])
    /\ UNCHANGED <<replay, occupancy, lease, residual, registry, setup, wire, fate, disowned, faults>>

\* The terminal is written, opening the stream first if need be, and seals it.
\* When it cannot be opened the generation counts as possibly committed.
EndStream(c) ==
    /\ At(c, "end")
    /\ \E o \in EnsureOpen(c) :
        \/ /\ o.open = "open"
           /\ wire' = [wire EXCEPT ![c] = TransportTerminal(o.wire, call[c].term.event)]
           /\ Becomes(c, [call[c] EXCEPT !.open = "open", !.sealed = TRUE, !.pc = "mark"])
        \/ /\ o.open = "broken"
           /\ wire' = [wire EXCEPT ![c] = o.wire]
           /\ Becomes(c, IF call[c].answer = "error" THEN [call[c] EXCEPT !.open = "broken", !.pc = "mark"]
                         ELSE [call[c] EXCEPT !.open = "broken", !.pc = "mark",
                                              !.term.code = "possibly", !.opened = FALSE])
    /\ UNCHANGED <<replay, occupancy, lease, residual, registry, setup, fate, disowned, faults>>

SealStream(c) ==
    /\ At(c, "seal")
    /\ Becomes(c, RunStream([call[c] EXCEPT !.sealed = TRUE]))
    /\ UNCHANGED <<replay, occupancy, lease, residual, registry, setup, wire, fate, disowned, faults>>

-----------------------------------------------------------------------------
(* Settlement and record *)

CarriesUsage(t) == t.event \in {"completed", "canceled"}

\* Errors that prove the upstream never committed.
AuthoritativeNonCommit(code) == code = "proven"

\* Wrong: a canceled upstream is taken for a stopped one.
UpstreamStoppedByCancel(t) ==
    \/ t.event \in {"completed", "canceled"}
    \/ t.event = "failed" /\ AuthoritativeNonCommit(t.code)

\* Whether nothing is left to drain when the stream is over.
UpstreamStopped(t) ==
    \/ t.event = "completed"
    \/ t.event \in {"canceled", "failed"} /\ t.stop
    \/ t.event = "failed" /\ AuthoritativeNonCommit(t.code)

\* Wrong: what the terminal says replaces what cancel recorded.
MarkedOver(c) == [state |-> "terminal", abort |-> call[c].term.abort]

\* What an explicit cancel recorded is kept.
Marked(c) == [state |-> "terminal", abort |-> registry[c].abort \/ call[c].term.abort]

MarkTerminal(c) ==
    /\ At(c, "mark")
    /\ registry' = [registry EXCEPT ![c] = Marked(c)]
    /\ Go(c, IF ~call[c].opened THEN "release claim"
             ELSE IF UpstreamStopped(call[c].term) THEN "reconcile" ELSE "track")
    /\ UNCHANGED <<replay, occupancy, lease, residual, setup, wire, fate, disowned, faults>>

\* Nothing reached the client: the claim is given back unless the commit is uncertain.
ReleaseClaim(c) ==
    /\ At(c, "release claim")
    /\ \/ call[c].term.code = "possibly" /\ UNCHANGED replay /\ NoFault /\ Go(c, "reconcile")
       \/ call[c].term.code # "possibly" /\ Abandon(c) /\ NoFault /\ Go(c, "reconcile")
       \/ /\ call[c].term.code # "possibly" /\ UNCHANGED replay /\ Fails(c)
          /\ Becomes(c, [Hurt(c) EXCEPT !.pc = "reconcile"])
    /\ UNCHANGED <<occupancy, lease, residual, registry, setup, wire, fate, disowned>>

\* The upstream may survive: track it while there is room, or go on without.
Track(c) ==
    /\ At(c, "track")
    /\ \/ /\ Cardinality(residual) < ResidualCap /\ NoFault
          /\ residual' = residual \cup {c}
          /\ Becomes(c, [call[c] EXCEPT !.tracked = TRUE, !.pc = "drain"])
       \/ Cardinality(residual) >= ResidualCap /\ NoFault /\ UNCHANGED residual /\ Go(c, "drain")
       \/ Fails(c) /\ UNCHANGED residual /\ Go(c, "drain")
    /\ UNCHANGED <<replay, occupancy, lease, registry, setup, wire, fate, disowned>>

\* The bounded drain learns the final usage of an upstream that ended, or nothing.
Drain(c) ==
    /\ At(c, "drain")
    /\ \E known \in BOOLEAN :
        /\ known => fate[c][call[c].at] \in {"ended", "refused"}
        /\ Becomes(c, [call[c] EXCEPT !.confirmed = known, !.pc = "reconcile"])
    /\ UNCHANGED <<replay, occupancy, lease, residual, registry, setup, wire, fate, disowned, faults>>

\* The usage admission is told: of a terminal that carries it, or of the drain.
SettledUsage(me) ==
    IF ~me.opened \/ UpstreamStopped(me.term)
    THEN (IF CarriesUsage(me.term) THEN "known" ELSE "unknown")
    ELSE (IF me.confirmed THEN "known" ELSE "unknown")

\* Wrong: the slot is released whatever the settlement returned.
AfterReconcileAnyway(me, settled) ==
    IF ~me.opened THEN "exit" ELSE IF me.tracked THEN "untrack" ELSE "record"

\* Where a stream goes from there: its slot is released only if usage was settled.
AfterReconcile(me, settled) ==
    IF ~me.opened THEN "exit" ELSE IF settled /\ me.tracked THEN "untrack" ELSE "record"

\* Accounting of a stream is detached from the request.
ReconcileStream(c) ==
    /\ Stream(c) /\ At(c, "reconcile")
    /\ \/ /\ NoFault /\ occupancy' = [occupancy EXCEPT ![c] = SettledUsage(call[c])]
          /\ Go(c, AfterReconcile(call[c], TRUE))
       \/ /\ Fails(c) /\ UNCHANGED occupancy
          /\ Becomes(c, [Hurt(c) EXCEPT !.pc = AfterReconcile(call[c], FALSE)])
    /\ UNCHANGED <<replay, lease, residual, registry, setup, wire, fate, disowned>>

\* That of a plain call is not, and a failure ends the call then and there.
Reconcile(c) ==
    /\ ~Stream(c) /\ At(c, "reconcile")
    /\ \/ /\ NoFault /\ UNCHANGED wire
          /\ occupancy' = [occupancy EXCEPT ![c] = IF CarriesUsage(call[c].term) THEN "known" ELSE "unknown"]
          /\ Go(c, "record")
       \/ /\ FailsOnRequest(c) /\ UNCHANGED occupancy
          /\ Becomes(c, Over(Hurt(c))) /\ AnswersHTTP(c)
    /\ UNCHANGED <<replay, lease, residual, registry, setup, fate, disowned>>

Untrack(c) ==
    /\ At(c, "untrack")
    /\ \/ residual' = residual \ {c} /\ NoFault /\ Go(c, "record")
       \/ UNCHANGED residual /\ Fails(c) /\ Becomes(c, [Hurt(c) EXCEPT !.pc = "record"])
    /\ UNCHANGED <<replay, occupancy, lease, registry, setup, wire, fate, disowned>>

\* A committed outcome is recorded, a proven non-commit gives the claim back, an
\* uncertain one keeps it.
Concludes(c) ==
    CASE CarriesUsage(call[c].term) -> Complete(c)
      [] ~CarriesUsage(call[c].term) /\ call[c].term.code = "possibly" -> UNCHANGED replay
      [] OTHER -> Abandon(c)

RecordStreamTerminalState(c) ==
    /\ Stream(c) /\ At(c, "record")
    /\ \/ NoFault /\ Concludes(c)
       \/ Fails(c) /\ UNCHANGED replay
    /\ Becomes(c, [Hurt(c) EXCEPT !.pc = "exit"])
    /\ UNCHANGED <<occupancy, lease, residual, registry, setup, wire, fate, disowned>>

Record(c) ==
    /\ ~Stream(c) /\ At(c, "record")
    /\ \/ NoFault /\ Concludes(c)
       \/ FailsOnRequest(c) /\ UNCHANGED replay
    /\ Becomes(c, Over(Hurt(c)))
    /\ AnswersHTTP(c)
    /\ UNCHANGED <<occupancy, lease, residual, registry, setup, fate, disowned>>

\* The deferred calls of StreamChat: an entry that is not terminal is removed
\* from the registry and the lease released.
Unregistered(c) ==
    IF registry[c].state = "running" THEN [registry EXCEPT ![c].state = "none"] ELSE registry

Leaves(c) == registry' = Unregistered(c) /\ lease' = LeaseReleased(c)

Exit(c) ==
    /\ At(c, "exit")
    /\ \/ NoFault /\ Leaves(c)
       \/ call[c].leased /\ Fails(c) /\ UNCHANGED <<registry, lease>>
    /\ Becomes(c, Over(Hurt(c)))
    /\ IF call[c].opened THEN UNCHANGED wire ELSE AnswersHTTP(c)
    /\ UNCHANGED <<replay, occupancy, residual, setup, fate, disowned>>

\* A panic in the walk runs the deferred calls and nothing else.
Panic(c) ==
    /\ Stream(c) /\ call[c].pc \in {"adapter", "returned"}
    /\ Fails(c) /\ Leaves(c) /\ Becomes(c, Over(Hurt(c)))
    /\ UNCHANGED <<replay, occupancy, residual, setup, wire, fate, disowned>>

-----------------------------------------------------------------------------
(* The client *)

Disconnect(c) ==
    /\ c \in setup.upset /\ ~At(c, "idle") /\ ~At(c, "done") /\ ~call[c].gone
    /\ Becomes(c, [call[c] EXCEPT !.gone = TRUE])
    /\ UNCHANGED <<replay, occupancy, lease, residual, registry, setup, wire, fate, disowned, faults>>

\* An explicit cancel records the abort and signals the running execution.
Cancel(c) ==
    /\ c \in setup.upset /\ registry[c].state = "running" /\ ~registry[c].abort
    /\ registry' = [registry EXCEPT ![c].abort = TRUE]
    /\ UNCHANGED <<call, replay, occupancy, lease, residual, setup, wire, fate, disowned, faults>>

Works(c) ==
    \/ StreamChat(c) \/ CreateChatCompletion(c) \/ Admit(c) \/ Select(c) \/ Plan(c)
    \/ AttemptStreamOnAccount(c) \/ AttemptOnAccount(c) \/ AdapterReturns(c)
    \/ ClassifyOutcome(c) \/ ClassifyStreamOutcome(c) \/ EndStream(c) \/ SealStream(c)
    \/ MarkTerminal(c) \/ ReleaseClaim(c) \/ Track(c) \/ Drain(c) \/ ReconcileStream(c)
    \/ Reconcile(c) \/ Untrack(c) \/ RecordStreamTerminalState(c) \/ Record(c) \/ Exit(c)

Next ==
    \E c \in Calls :
        \/ Works(c) \/ Panic(c) \/ AdapterWrites(c) \/ AdapterDrifts(c) \/ Disconnect(c) \/ Cancel(c)
        \/ \E i \in Attempts : ProviderAccepts(c, i) \/ ProviderRefuses(c, i) \/ ProviderEnds(c, i)

Spec == Init /\ [][Next]_vars

-----------------------------------------------------------------------------
(* Properties *)

Events == {"none", "completed", "canceled", "failed"}

Places == {"idle", "admit", "select", "plan", "attempt", "adapter",
           "returned", "end", "seal", "mark", "release claim", "track", "drain", "reconcile",
           "untrack", "record", "exit", "done"}

Terms == [event : Events, code : {"none", "possibly", "proven", "upstream"},
          abort : BOOLEAN, stop : BOOLEAN, content : 0 .. MaxDeltas]

\* What each store, the response and the goroutines may hold.
TypeOK ==
    /\ \A c \in Calls :
        /\ call[c].pc \in Places /\ call[c].kind \in {"stream", "plain"} /\ call[c].key \in Keys
        /\ call[c].acc \in Accounts /\ call[c].left \in SUBSET Accounts /\ call[c].at \in 0 .. 2
        /\ call[c].term \in Terms /\ call[c].open \in {"no", "open", "broken"}
        /\ call[c].got \in 0 .. MaxDeltas
        /\ wire[c] \in [order : {"awaiting", "open", "closed"}, deltas : 0 .. MaxDeltas,
                        late : 0 .. MaxDeltas, by : SUBSET Attempts, end : Events \cup {"http"}]
        /\ registry[c] \in [state : {"none", "running", "terminal"}, abort : BOOLEAN]
        /\ fate[c] \in [Attempts -> {"none", "sent", "running", "ended", "refused"}]
        /\ disowned[c] \in SUBSET Attempts
    /\ replay \in [Keys -> [state : {"none", "claimed", "terminal"}, kind : {"stream", "plain"},
                            by : Calls \cup {NoCall}, content : 0 .. MaxDeltas, end : Events]]
    /\ occupancy \in [Calls -> {"none", "held", "known", "unknown"}]
    /\ lease \in [Accounts -> Calls \cup {NoCall}]
    /\ residual \in SUBSET Calls /\ faults \in 0 .. MaxFaults

Done(c) == At(c, "done")

Generated(c, i) == fate[c][i] \in {"running", "ended"}

\* A payload that was sent stands until the Provider refuses it or it is answered for as
\* not committed.
Stands(c, i) == fate[c][i] \notin {"none", "refused"} /\ i \notin disowned[c]

\* Of the payloads sent under one Idempotency-Key at most one stands, over retries by the
\* client, fallback accounts, disconnects, lost answers and failing stores: a second is
\* sent only after every other was refused or answered for as not committed.
OneStandingPayload ==
    \A k \in Keys :
        Cardinality({p \in Calls \X Attempts : call[p[1]].key = k /\ Stands(p[1], p[2])}) <= 1

\* One Idempotency-Key never makes the Provider generate twice, as the lifecycle
\* specification has it.  False: an answer of not committed does not prove it.
NoDuplicateGeneration ==
    \A k \in Keys :
        Cardinality({p \in Calls \X Attempts : call[p[1]].key = k /\ Generated(p[1], p[2])}) <= 1

\* The content of one response comes from one attempt, even of an Adapter that
\* writes on after its attempt returned.
OneGenerationPerStream == \A c \in Calls : Cardinality(wire[c].by) <= 1

\* When the client has seen the stream open, usage settles as known only if the
\* upstream has ended: a canceled stream is not refunded while it generates on.
UsageIsFinal ==
    \A c \in Calls :
        occupancy[c] = "known" /\ call[c].opened => fate[c][call[c].at] \notin {"sent", "running"}

\* While a leased stream runs, its account is leased to it and no payload of its
\* went anywhere else.
LeasedStreamStays ==
    \A c \in Calls :
        call[c].leased /\ ~Done(c) => lease[call[c].acc] = c /\ call[c].at <= 1

\* A finished stream is replayed as the client of the first call received it, the same
\* content and the same end, whatever its Adapter writes after it returned; only a delta
\* between the capture of the content and the terminal is delivered and not recorded.
ReplayMatchesDelivered ==
    \A k \in setup.keys :
        LET r == replay[k] IN
        r.state = "terminal" /\ r.kind = "stream" =>
            r.content + wire[r.by].late = wire[r.by].deltas /\ r.end = wire[r.by].end

\* The slot of a surviving upstream is not handed on while its usage is unsettled.
HoldOutlivesDebt ==
    \A c \in Calls : call[c].tracked /\ occupancy[c] = "held" => c \in residual

\* A client that received content receives the end of it, unless a store call failed or
\* the call panicked.  Content that a drifting Adapter delivers after its outcome was
\* classified, and before the stream is sealed, counts only if there was some before.
ContentIsTerminated ==
    \A c \in Calls :
        Done(c) /\ Stream(c) /\ ~call[c].hurt /\ wire[c].deltas > wire[c].late =>
            wire[c].order = "closed"

\* A stream that reached an account gives everything back when it is over, its
\* client there or not: occupancy settled, no lease, no residual slot, and its
\* key claimed only if a generation may have been committed.
StreamSettles ==
    \A c \in Calls :
        Done(c) /\ Stream(c) /\ call[c].at > 0 /\ ~call[c].hurt =>
            /\ occupancy[c] # "held" /\ c \notin residual
            /\ \A a \in Accounts : lease[a] # c
            /\ \A k \in Keys : replay[k].state = "claimed" /\ replay[k].by = c =>
                   call[c].term.code = "possibly"

\* An abort that was recorded when cancel was asked for is still reported after
\* the stream ended by itself.
AbortRemembered ==
    [][\A c \in Calls :
        registry[c].abort /\ registry'[c].state = "terminal" => registry'[c].abort]_vars

=============================================================================
