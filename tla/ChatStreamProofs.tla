--------------------------- MODULE ChatStreamProofs ---------------------------
(***************************************************************************)
(* The invariant of ChatStream holds in every behaviour, and what follows  *)
(* from it: each safety property of the module, for any set of calls, keys, *)
(* accounts and setups, any limits and any number of faults.               *)
(***************************************************************************)
EXTENDS ChatStreamSteps

-----------------------------------------------------------------------------
(* The steps with an outcome to choose *)

LEMMA FreshFor ==
    ASSUME NEW kind \in Kinds, NEW k \in Keys
    PROVE  [[Fresh EXCEPT !.kind = kind, !.key = k] EXCEPT !.pc = "admit"] \in CallStates
  BY FreshTyped DEF CallStates, Places

LEMMA StreamChatKeeps ==
    ASSUME ChatInv, NEW c \in Calls, StreamChat(c)
    PROVE  Good(c)
  <1>1. PICK k \in setup.keys :
            /\ Enters(c, "stream", k)
            /\ CASE Claimed(replay[k], "stream") = "claimed" -> UNCHANGED wire
                 [] Claimed(replay[k], "stream") = "terminal" -> StreamReplay(c, replay[k])
                 [] OTHER -> AnswersHTTP(c)
    BY DEF StreamChat
  <1>2. /\ k \in Keys /\ "stream" \in Kinds /\ At(c, "idle")
        /\ UNCHANGED <<setup, occupancy, lease, residual, registry, fate, disowned, faults>>
    BY ChatAssumption DEF StreamChat, ChatInv, Typed, Kinds
  <1>3. CASE Claimed(replay[k], "stream") = "claimed"
    <2>1. UNCHANGED wire
      BY <1>1, <1>3
    <2> QED BY <1>1, <1>2, <1>3, <2>1, EnteredKeeps DEF Enters
  <1>4. CASE Claimed(replay[k], "stream") # "claimed"
    <2>1. StreamReplay(c, replay[k]) \/ AnswersHTTP(c)
      BY <1>1, <1>4
    <2> QED BY <1>1, <1>2, <1>4, <2>1, TurnedAwayKeeps DEF Enters
  <1> QED BY <1>3, <1>4

LEMMA CreateChatCompletionKeeps ==
    ASSUME ChatInv, NEW c \in Calls, CreateChatCompletion(c)
    PROVE  Good(c)
  <1>1. PICK k \in setup.keys :
            /\ Enters(c, "plain", k)
            /\ IF Claimed(replay[k], "plain") = "claimed" THEN UNCHANGED wire ELSE AnswersHTTP(c)
    BY DEF CreateChatCompletion
  <1>2. /\ k \in Keys /\ "plain" \in Kinds /\ At(c, "idle")
        /\ UNCHANGED <<setup, occupancy, lease, residual, registry, fate, disowned, faults>>
    BY ChatAssumption DEF CreateChatCompletion, ChatInv, Typed, Kinds
  <1>3. CASE Claimed(replay[k], "plain") = "claimed"
    BY <1>1, <1>2, <1>3, EnteredKeeps DEF Enters
  <1>4. CASE Claimed(replay[k], "plain") # "claimed"
    BY <1>1, <1>2, <1>4, TurnedAwayKeeps DEF Enters
  <1> QED BY <1>3, <1>4

\* However giving the claim back ends, the call is over.
LEMMA Unclaiming ==
    ASSUME Typed, NEW c \in Calls, Unclaim(c)
    PROVE  /\ \E me \in {call[c], Hurt(c)} : Becomes(c, Over(me))
           /\ Abandon(c) \/ UNCHANGED replay
           /\ faults' \in 0 .. MaxFaults
  <1>1. CASE Abandon(c) /\ NoFault /\ Becomes(c, Over(call[c]))
    BY <1>1, Failing
  <1>2. CASE UNCHANGED replay /\ FailsOnRequest(c) /\ Becomes(c, Over(Hurt(c)))
    BY <1>2, Failing
  <1> QED BY <1>1, <1>2 DEF Unclaim

LEMMA AdmitKeeps ==
    ASSUME ChatInv, NEW c \in Calls, Admit(c)
    PROVE  Good(c)
  <1>1. At(c, "admit") /\ UNCHANGED <<lease, residual, registry, setup, fate, disowned>> /\ Typed
    BY DEF Admit, ChatInv
  <1>2. CASE /\ occupancy' = [occupancy EXCEPT ![c] = "held"] /\ Go(c, "select")
             /\ UNCHANGED <<replay, wire, faults>>
    BY <1>1, <1>2, AdmittedKeeps
  <1>3. CASE UNCHANGED occupancy /\ Unclaim(c) /\ AnswersHTTP(c)
    <2>1. Refused(c)
      BY <1>1, <1>3, Unclaiming DEF Refused, At
    <2> QED BY <2>1, RefusedKeeps
  <1> QED BY <1>2, <1>3 DEF Admit

LEMMA SelectKeeps ==
    ASSUME ChatInv, NEW c \in Calls, Select(c)
    PROVE  Good(c)
  <1>1. At(c, "select") /\ UNCHANGED <<residual, registry, setup, fate, disowned>> /\ Typed
    BY DEF Select, ChatInv
  <1>2. ASSUME NEW passing \in Passing, NEW a \in passing, AcquireStreamLease(c, a),
               Becomes(c, [call[c] EXCEPT !.acc = a, !.leased = LeasesStream(c), !.pc = "plan"]),
               UNCHANGED <<replay, occupancy, wire, faults>>
        PROVE  Good(c)
    <2>1. a \in Accounts
      BY <1>1, ChatAssumption DEF Passing, Typed
    <2> QED BY <1>1, <1>2, <2>1, SelectedKeeps
  <1>3. ASSUME UNCHANGED lease, Rollback(c), AnswersHTTP(c)
        PROVE  Good(c)
    <2>1. CASE occupancy' = [occupancy EXCEPT ![c] = "none"] /\ Unclaim(c)
      <3>1. Refused(c)
        BY <1>1, <1>3, <2>1, Unclaiming DEF Refused, At
      <3> QED BY <3>1, RefusedKeeps
    <2>2. CASE /\ UNCHANGED occupancy /\ FailsOnRequest(c)
               /\ Abandon(c) \/ UNCHANGED replay
               /\ Becomes(c, Over(Hurt(c)))
      <3>1. Refused(c)
        BY <1>1, <1>3, <2>2, Failing DEF Refused, At
      <3> QED BY <3>1, RefusedKeeps
    <2> QED BY <1>3, <2>1, <2>2 DEF Rollback
  <1> QED BY <1>2, <1>3 DEF Select

LEMMA EndStreamKeeps ==
    ASSUME ChatInv, NEW c \in Calls, EndStream(c)
    PROVE  Good(c)
  <1>1. At(c, "end") /\ UNCHANGED <<replay, occupancy, lease, residual, registry, setup, fate, disowned, faults>>
    BY DEF EndStream
  <1> PICK o \in EnsureOpen(c) :
        \/ /\ o.open = "open"
           /\ wire' = [wire EXCEPT ![c] = TransportTerminal(o.wire, call[c].term.event)]
           /\ Becomes(c, [call[c] EXCEPT !.open = "open", !.sealed = TRUE, !.pc = "mark"])
        \/ /\ o.open = "broken"
           /\ wire' = [wire EXCEPT ![c] = o.wire]
           /\ Becomes(c, IF call[c].answer = "error"
                         THEN [call[c] EXCEPT !.open = "broken", !.pc = "mark"]
                         ELSE [call[c] EXCEPT !.open = "broken", !.pc = "mark",
                                              !.term.code = "possibly", !.opened = FALSE])
    BY DEF EndStream
  <1>2. CASE /\ o.open = "open"
             /\ wire' = [wire EXCEPT ![c] = TransportTerminal(o.wire, call[c].term.event)]
             /\ Becomes(c, [call[c] EXCEPT !.open = "open", !.sealed = TRUE, !.pc = "mark"])
    BY <1>1, <1>2, EndedKeeps
  <1>3. CASE /\ o.open = "broken"
             /\ wire' = [wire EXCEPT ![c] = o.wire]
             /\ Becomes(c, IF call[c].answer = "error"
                           THEN [call[c] EXCEPT !.open = "broken", !.pc = "mark"]
                           ELSE [call[c] EXCEPT !.open = "broken", !.pc = "mark",
                                                !.term.code = "possibly", !.opened = FALSE])
    BY <1>1, <1>3, BrokenKeeps
  <1> QED BY <1>2, <1>3

LEMMA ReconcileKeeps ==
    ASSUME ChatInv, NEW c \in Calls, Reconcile(c)
    PROVE  Good(c)
  <1>1. /\ At(c, "reconcile") /\ ~Stream(c)
        /\ UNCHANGED <<replay, lease, residual, registry, setup, fate, disowned>>
    BY DEF Reconcile
  <1>2. CASE /\ NoFault /\ UNCHANGED wire
             /\ occupancy' = [occupancy EXCEPT ![c] =
                    IF CarriesUsage(call[c].term) THEN "known" ELSE "unknown"]
             /\ Go(c, "record")
    BY <1>1, <1>2, ReconciledKeeps DEF NoFault
  <1>3. CASE /\ FailsOnRequest(c) /\ UNCHANGED occupancy
             /\ Becomes(c, Over(Hurt(c))) /\ AnswersHTTP(c)
    BY <1>1, <1>3, UnreconciledKeeps
  <1> QED BY <1>2, <1>3 DEF Reconcile

\* A write of the Adapter, made in time or after its attempt returned.
LEMMA DeltaKeeps ==
    ASSUME ChatInv, NEW c \in Calls, Delta(c), Stream(c), call[c].at # 0, call[c].pc # "done"
    PROVE  Good(c)
  <1>1. PICK o \in EnsureOpen(c) :
        /\ o.open = "open" \/ call[c].open = "no"
        /\ \E n \in IF o.open = "open" THEN TransportDelta(c, o.wire) ELSE {0} :
            /\ wire' = [wire EXCEPT ![c] = [o.wire EXCEPT !.deltas = @ + n, !.late = @ + Late(c, n),
                            !.by = IF n > 0 THEN @ \cup {call[c].at} ELSE @]]
            /\ Becomes(c, [call[c] EXCEPT !.open = o.open, !.got = @ + n])
    BY DEF Delta
  <1>2. PICK n \in IF o.open = "open" THEN TransportDelta(c, o.wire) ELSE {0} :
            /\ wire' = [wire EXCEPT ![c] = [o.wire EXCEPT !.deltas = @ + n, !.late = @ + Late(c, n),
                            !.by = IF n > 0 THEN @ \cup {call[c].at} ELSE @]]
            /\ Becomes(c, [call[c] EXCEPT !.open = o.open, !.got = @ + n])
    BY <1>1
  <1>3. o.wire \in Responses
    BY Opening DEF ChatInv
  <1>4. n \in {0, 1} /\ (n = 1 => o.open = "open" /\ o.wire.order = "open")
    BY <1>2, <1>3 DEF TransportDelta, OrderAdmits, Responses
  <1>5. /\ wire[c].deltas < setup.deltas
        /\ UNCHANGED <<setup, replay, occupancy, lease, residual, registry, fate, disowned, faults>>
    BY DEF Delta
  <1> QED BY <1>1, <1>2, <1>4, <1>5, OpenedKeeps

LEMMA HeartbeatKeeps ==
    ASSUME ChatInv, NEW c \in Calls, Heartbeat(c), Stream(c), call[c].at # 0,
           call[c].pc # "done"
    PROVE  Good(c)
  <1>1. PICK o \in EnsureOpen(c) :
        /\ wire' = [wire EXCEPT ![c] = o.wire]
        /\ Becomes(c, [call[c] EXCEPT !.open = o.open])
    BY DEF Heartbeat
  <1>2. Typed /\ o.wire \in Responses /\ call[c] \in CallStates
    BY Opening, TypedAt DEF ChatInv
  <1>3. o.wire.deltas \in Nat /\ o.wire.late \in Nat /\ call[c].got \in Nat
    BY <1>2, ChatAssumption DEF Responses, CallStates
  <1> DEFINE n == 0
  <1>4. [o.wire EXCEPT !.deltas = @ + n, !.late = @ + Late(c, n),
                       !.by = IF n > 0 THEN @ \cup {call[c].at} ELSE @] = o.wire
    <2>1. o.wire.deltas + n = o.wire.deltas /\ o.wire.late + Late(c, n) = o.wire.late /\ ~(n > 0)
      BY <1>3 DEF Late
    <2> HIDE DEF n
    <2> QED BY <1>2, <2>1 DEF Responses
  <1>5. [call[c] EXCEPT !.open = o.open, !.got = @ + n] = [call[c] EXCEPT !.open = o.open]
    <2>1. call[c].got + n = call[c].got
      BY <1>3
    <2> HIDE DEF n
    <2> QED BY <1>2, <2>1 DEF CallStates
  <1>6. /\ call[c].open = "no"
        /\ UNCHANGED <<setup, replay, occupancy, lease, residual, registry, fate, disowned, faults>>
    BY DEF Heartbeat
  <1>7. n \in {0, 1} /\ n # 1
    OBVIOUS
  <1> HIDE DEF n
  <1>8. /\ wire' = [wire EXCEPT ![c] = [o.wire EXCEPT !.deltas = @ + n, !.late = @ + Late(c, n),
                        !.by = IF n > 0 THEN @ \cup {call[c].at} ELSE @]]
        /\ Becomes(c, [call[c] EXCEPT !.open = o.open, !.got = @ + n])
    BY <1>1, <1>4, <1>5
  <1> QED BY <1>6, <1>7, <1>8, OpenedKeeps

LEMMA AdapterWritesKeeps ==
    ASSUME ChatInv, NEW c \in Calls, AdapterWrites(c)
    PROVE  Good(c)
  <1>1. Stream(c) /\ call[c].pc = "adapter"
    BY DEF AdapterWrites, At
  <1>2. call[c].at # 0
    <2>1. Walks(c)
      BY DEF ChatInv, Sane
    <2>2. call[c].at = 1 \/ call[c].at = 2
      BY <1>1, <2>1 DEF Walks
    <2> QED BY <2>2
  <1>3. CASE Delta(c)
    BY <1>1, <1>2, <1>3, DeltaKeeps
  <1>4. CASE Heartbeat(c)
    BY <1>1, <1>2, <1>4, HeartbeatKeeps
  <1> QED BY <1>3, <1>4 DEF AdapterWrites

LEMMA AdapterDriftsKeeps ==
    ASSUME ChatInv, NEW c \in Calls, AdapterDrifts(c)
    PROVE  Good(c)
  <1>1. Stream(c) /\ call[c].at # 0 /\ call[c].pc # "done"
    BY DEF AdapterDrifts, At
  <1>2. CASE Delta(c)
    BY <1>1, <1>2, DeltaKeeps
  <1>3. CASE Heartbeat(c)
    BY <1>1, <1>3, HeartbeatKeeps
  <1> QED BY <1>2, <1>3 DEF AdapterDrifts

-----------------------------------------------------------------------------
(* The invariant *)

LEMMA WorkKeeps ==
    ASSUME ChatInv, NEW c \in Calls, Works(c)
    PROVE  Good(c)
  <1>1. ASSUME \/ StreamChat(c) \/ CreateChatCompletion(c) \/ Admit(c) \/ Select(c) \/ Plan(c)
               \/ AttemptStreamOnAccount(c) \/ AttemptOnAccount(c) \/ AdapterReturns(c)
        PROVE  Good(c)
    BY <1>1, StreamChatKeeps, CreateChatCompletionKeeps, AdmitKeeps, SelectKeeps, PlanKeeps,
       AttemptStreamOnAccountKeeps, AttemptOnAccountKeeps, AdapterReturnsKeeps
  <1>2. ASSUME \/ ClassifyOutcome(c) \/ ClassifyStreamOutcome(c) \/ EndStream(c) \/ SealStream(c)
               \/ MarkTerminal(c) \/ ReleaseClaim(c) \/ Track(c)
        PROVE  Good(c)
    BY <1>2, ClassifyOutcomeKeeps, ClassifyStreamOutcomeKeeps, EndStreamKeeps, SealStreamKeeps,
       MarkTerminalKeeps, ReleaseClaimKeeps, TrackKeeps
  <1>3. ASSUME \/ Drain(c) \/ ReconcileStream(c) \/ Reconcile(c) \/ Untrack(c)
               \/ RecordStreamTerminalState(c) \/ Record(c) \/ Exit(c)
        PROVE  Good(c)
    BY <1>3, DrainKeeps, ReconcileStreamKeeps, ReconcileKeeps, UntrackKeeps,
       RecordStreamTerminalStateKeeps, RecordKeeps, ExitKeeps
  <1> QED BY <1>1, <1>2, <1>3 DEF Works

LEMMA StepKeeps ==
    ASSUME ChatInv, Next
    PROVE  ChatInv'
  <1>1. PICK c \in Calls :
            \/ Works(c) \/ Panic(c) \/ AdapterWrites(c) \/ AdapterDrifts(c) \/ Disconnect(c)
            \/ Cancel(c) \/ \E i \in Attempts :
                            ProviderAccepts(c, i) \/ ProviderRefuses(c, i) \/ ProviderEnds(c, i)
    BY DEF Next
  <1>2. ASSUME NEW i \in Attempts,
               ProviderAccepts(c, i) \/ ProviderRefuses(c, i) \/ ProviderEnds(c, i)
        PROVE  Good(c)
    BY <1>2, ProviderAcceptsKeeps, ProviderRefusesKeeps, ProviderEndsKeeps
  <1>3. Good(c)
    BY <1>1, <1>2, WorkKeeps, PanicKeeps, AdapterWritesKeeps, AdapterDriftsKeeps,
       DisconnectKeeps, CancelKeeps
  <1>4. \A d \in Calls : Sane(d)'
    BY <1>3, OthersStaySane DEF Good
  <1> QED BY <1>3, <1>4 DEF Good, ChatInv

LEMMA StutterKeeps ==
    ASSUME ChatInv, UNCHANGED vars
    PROVE  ChatInv'
  <1>1. Typed' /\ NobodyMeansNone'
    BY DEF ChatInv, Typed, NobodyMeansNone, vars
  <1>2. ASSUME NEW c \in Calls
        PROVE  Sane(c)'
    <2>1. Sane(c) /\ UNCHANGED <<call, replay, occupancy, lease, residual, wire, fate, disowned>>
      BY DEF ChatInv, vars
    <2>2. Walks(c)'
      BY <2>1 DEF Sane, Walks, Stream
    <2>6. Sends(c)'
      BY <2>1 DEF Sane, Sends, Clean, Stands, Ended, Stream
    <2>3. Claims(c)'
      BY <2>1 DEF Sane, Claims, Holding, Owns, Clean, Stands, Stream
    <2>4. Settles(c)'
      BY <2>1 DEF Sane, Settles, Owns, Done, At, Stream
    <2>5. Delivers(c)'
      BY <2>1 DEF Sane, Delivers, Done, At, Stream
    <2> QED BY <2>2, <2>3, <2>4, <2>5, <2>6 DEF Sane
  <1> QED BY <1>1, <1>2 DEF ChatInv

LEMMA InitSane ==
    ASSUME Init
    PROVE  ChatInv
  <1>1. Typed
    <2>1. /\ Unclaimed \in Entries /\ 0 \in 0 .. MaxFaults
          /\ [state |-> "none", abort |-> FALSE] \in Registered
          /\ [order |-> "awaiting", deltas |-> 0, late |-> 0, by |-> {}, end |-> "none"] \in Responses
      BY ChatAssumption DEF Unclaimed, Entries, Kinds, Events, Registered, Responses
    <2> QED BY <2>1, FreshTyped, ChatAssumption DEF Init, Typed, Fates, Occupancies
  <1>2. NobodyMeansNone
    BY DEF Init, NobodyMeansNone, Unclaimed
  <1>3. ASSUME NEW c \in Calls
        PROVE  Sane(c)
    <2>1. /\ call[c] = Fresh /\ occupancy[c] = "none" /\ c \notin residual /\ c # NoCall
          /\ wire[c] \in Responses
          /\ wire[c] = [order |-> "awaiting", deltas |-> 0, late |-> 0, by |-> {}, end |-> "none"]
          /\ fate[c] = [i \in Attempts |-> "none"] /\ disowned[c] = {}
          /\ \A k \in Keys : replay[k] = Unclaimed
          /\ call[c].key \in Keys
      BY <1>1, TypedAt, ChatAssumption DEF Init
    <2>2. /\ call[c].pc = "idle" /\ call[c].kind = "stream" /\ call[c].at = 0
          /\ Spent(call[c].left) /\ ~call[c].tracked /\ ~call[c].opened /\ ~call[c].leased
          /\ ~call[c].confirmed /\ call[c].open = "no" /\ call[c].got = 0
      BY <2>1 DEF Fresh, Spent
    <2>3. /\ wire[c].order = "awaiting" /\ wire[c].deltas = 0 /\ wire[c].by = {}
          /\ wire[c].late = 0
          /\ \A i \in Attempts : fate[c][i] = "none" /\ ~Stands(c, i)
          /\ \A k \in Keys : replay[k].state = "none" /\ replay[k].by # c
      BY <2>1 DEF Unclaimed, Stands
    <2>9. ~Timely(wire[c]) /\ Bounded(wire[c]) /\ Tells(0, wire[c])
      BY <2>1, <2>3, AllLate
    <2>4. Walks(c)
      BY <2>1, <2>2, <2>3 DEF Walks, Early, Answered, After, StreamOnly, Stream
    <2>5. Sends(c)
      BY <2>2, <2>3 DEF Sends, Answered, After, Stream
    <2>6. Claims(c)
      BY <2>2, <2>3 DEF Claims, Holding, Clean
    <2>7. Settles(c)
      BY <2>1, <2>2 DEF Settles, Stream, Done, At
    <2>8. Delivers(c)
      BY <2>1, <2>2, <2>3, <2>9 DEF Delivers, Early, Answered, After, Done, At, Stream, AtMostOne
    <2> QED BY <2>4, <2>5, <2>6, <2>7, <2>8 DEF Sane
  <1> QED BY <1>1, <1>2, <1>3 DEF ChatInv

\* Every call of every behaviour stays sane: where it is in its walk, what it made of
\* its key, its lease, its residual slot and its response agree.
THEOREM ChatInvariant == Spec => []ChatInv
  <1>1. ChatInv /\ [Next]_vars => ChatInv'
    BY StepKeeps, StutterKeeps
  <1> QED BY <1>1, InitSane, PTL DEF Spec

-----------------------------------------------------------------------------
(* What it means *)

\* Each store, the response and what the goroutines remember keep their types.
THEOREM TypesHold == Spec => []TypeOK
  <1>1. ChatInv => TypeOK
    <2> SUFFICES ASSUME ChatInv
                 PROVE  TypeOK
      OBVIOUS
    <2>1. ASSUME NEW c \in Calls
          PROVE  /\ call[c] \in CallStates /\ wire[c] \in Responses
                 /\ registry[c] \in Registered /\ fate[c] \in [Attempts -> Fates]
                 /\ disowned[c] \in SUBSET Attempts
      BY TypedAt DEF ChatInv, Typed
    <2> QED BY <2>1 DEF ChatInv, Typed, TypeOK, CallStates, Kinds, Opens, Responses, Registered,
                        Fates, Entries, Occupancies
  <1> QED BY <1>1, ChatInvariant, PTL

\* Two payloads of one key that stand are one: the record of the key names the call that
\* sent one that stands, and only the latest attempt of that call can have.
LEMMA OneStands ==
    ASSUME ChatInv, NEW k \in Keys
    PROVE  AtMostOne({p \in Calls \X Attempts :
                          call[p[1]].key = k /\ Stands(p[1], p[2])})
  <1>1. ASSUME NEW c \in Calls, NEW i \in Attempts, call[c].key = k, Stands(c, i)
        PROVE  replay[k].by = c /\ i = call[c].at
    <2>1. Sane(c) /\ ~Clean(c)
      BY <1>1 DEF ChatInv, Clean
    <2> QED BY <1>1, <2>1 DEF Sane, Claims, Sends
  <1> QED BY <1>1 DEF AtMostOne

\* A second payload is sent under an Idempotency-Key only when every other sent under it
\* was refused by the Provider or answered for by its Adapter as not committed, over
\* retries by the client, fallback accounts, disconnects, lost answers and failing stores.
THEOREM OnePayloadStands == Spec => []OneStandingPayload
  <1>1. ChatInv => OneStandingPayload
    BY OneStands, OneAtMost DEF OneStandingPayload
  <1> QED BY <1>1, ChatInvariant, PTL

\* The content of one response comes from one attempt, even of an Adapter that writes
\* on after its attempt returned: the transport opens once, and a sealed stream refuses.
THEOREM ResponsesDoNotMix == Spec => []OneGenerationPerStream
  <1>1. ChatInv => OneGenerationPerStream
    <2> SUFFICES ASSUME ChatInv, NEW c \in Calls
                 PROVE  Cardinality(wire[c].by) <= 1
      BY DEF OneGenerationPerStream
    <2>1. AtMostOne(wire[c].by)
      BY DEF ChatInv, Sane, Delivers
    <2> QED BY <2>1, OneAtMost
  <1> QED BY <1>1, ChatInvariant, PTL

\* Of a stream its client saw open, usage settles as known only when the upstream ended.
THEOREM KnownUsageIsFinal == Spec => []UsageIsFinal
  <1>1. ChatInv => UsageIsFinal
    BY DEF ChatInv, Sane, Settles, UsageIsFinal
  <1> QED BY <1>1, ChatInvariant, PTL

\* A leased stream has its account to itself while it runs, and is sent nowhere else.
THEOREM LeasesHold == Spec => []LeasedStreamStays
  <1>1. ChatInv => LeasedStreamStays
    BY DEF ChatInv, Sane, Settles, Walks, LeasedStreamStays
  <1> QED BY <1>1, ChatInvariant, PTL

\* A finished stream is replayed as the client of the first call received it, whatever an
\* Adapter writes after its attempt returned, but for the deltas that came between the
\* capture of the content and the terminal.
THEOREM ReplaysAreFaithful == Spec => []ReplayMatchesDelivered
  <1>1. ChatInv => ReplayMatchesDelivered
    <2> SUFFICES ASSUME ChatInv, NEW k \in setup.keys, replay[k].state = "terminal",
                        replay[k].kind = "stream"
                 PROVE  /\ Tells(replay[k].content, wire[replay[k].by])
                        /\ replay[k].end = wire[replay[k].by].end
      BY DEF ReplayMatchesDelivered, Tells
    <2>1. k \in Keys /\ replay[k] \in Entries /\ replay[k].by # NoCall
      BY ChatAssumption DEF ChatInv, Typed, NobodyMeansNone
    <2>2. replay[k].by \in Calls
      BY <2>1 DEF Entries
    <2>3. k = call[replay[k].by].key /\ Stream(replay[k].by)
      BY <2>1, <2>2 DEF ChatInv, Sane, Claims, Stream
    <2> QED BY <2>2, <2>3 DEF ChatInv, Sane, Delivers
  <1> QED BY <1>1, ChatInvariant, PTL

\* The slot of a tracked upstream is not handed on while its usage is unsettled.
THEOREM DebtsAreHeld == Spec => []HoldOutlivesDebt
  <1>1. ChatInv => HoldOutlivesDebt
    BY DEF ChatInv, Sane, Settles, HoldOutlivesDebt
  <1> QED BY <1>1, ChatInvariant, PTL

\* A client that received content of a stream receives its terminal event, whatever an
\* Adapter writes after its attempt returned, unless every delta came when the outcome was
\* already classified, or a store call failed, or the call panicked.
THEOREM ContentEnds == Spec => []ContentIsTerminated
  <1>1. ChatInv => ContentIsTerminated
    BY DEF ChatInv, Sane, Delivers, ContentIsTerminated, Timely
  <1> QED BY <1>1, ChatInvariant, PTL

\* A stream that reached an account and is over has given back its occupancy, lease and
\* residual slot, and keeps its key only if a generation may have been committed.
THEOREM StreamsSettle == Spec => []StreamSettles
  <1>1. ChatInv => StreamSettles
    <2> SUFFICES ASSUME ChatInv, NEW c \in Calls, Done(c), Stream(c), call[c].at > 0,
                        ~call[c].hurt
                 PROVE  /\ occupancy[c] # "held" /\ c \notin residual
                        /\ \A a \in Accounts : lease[a] # c
                        /\ \A k \in Keys : replay[k].state = "claimed" /\ replay[k].by = c =>
                               call[c].term.code = "possibly"
      BY DEF StreamSettles
    <2>1. /\ occupancy[c] # "held" /\ c \notin residual /\ \A a \in Accounts : lease[a] # c
          /\ Owns(c) => call[c].term.code = "possibly"
      BY DEF ChatInv, Sane, Settles
    <2>2. ASSUME NEW k \in Keys, replay[k].state = "claimed", replay[k].by = c
          PROVE  Owns(c)
      BY <2>2 DEF ChatInv, Sane, Claims, Owns
    <2> QED BY <2>1, <2>2
  <1> QED BY <1>1, ChatInvariant, PTL

\* An abort recorded by an explicit cancel is still reported when the stream has ended
\* by itself: nothing that writes the registry forgets it.
THEOREM AbortsAreKept == Spec => AbortRemembered
  <1>1. ASSUME ChatInv, [Next]_vars
        PROVE  \A c \in Calls :
                   registry[c].abort /\ registry'[c].state = "terminal" => registry'[c].abort
    <2> SUFFICES ASSUME NEW d \in Calls, registry[d].abort, registry'[d].state = "terminal"
                 PROVE  registry'[d].abort
      OBVIOUS
    <2>1. Typed
      BY <1>1 DEF ChatInv
    <2>2. CASE UNCHANGED registry
      BY <2>2
    <2>3. ASSUME NEW c \in Calls, Plan(c) \/ MarkTerminal(c) \/ Cancel(c) \/ Leaves(c)
          PROVE  registry'[d].abort
      <3>1. CASE Plan(c)
        BY <2>1, <3>1 DEF Typed, Registered, Plan, Register
      <3>2. CASE MarkTerminal(c)
        BY <2>1, <3>2 DEF Typed, Registered, MarkTerminal, Marked
      <3>3. CASE Cancel(c)
        BY <2>1, <3>3 DEF Typed, Registered, Cancel
      <3>4. CASE Leaves(c)
        BY <2>1, <3>4 DEF Typed, Registered, Leaves, Unregistered
      <3> QED BY <2>3, <3>1, <3>2, <3>3, <3>4
    <2>4. ASSUME NEW c \in Calls, Works(c)
          PROVE  registry'[d].abort
      <3>1. ASSUME \/ StreamChat(c) \/ CreateChatCompletion(c) \/ Admit(c) \/ Select(c)
                   \/ AttemptStreamOnAccount(c) \/ AttemptOnAccount(c) \/ AdapterReturns(c)
                   \/ ClassifyOutcome(c) \/ ClassifyStreamOutcome(c) \/ EndStream(c)
            PROVE  UNCHANGED registry
        BY <3>1 DEF StreamChat, CreateChatCompletion, Admit, Select, AttemptStreamOnAccount,
           AttemptOnAccount, AdapterReturns, ClassifyOutcome, ClassifyStreamOutcome, EndStream
      <3>2. ASSUME \/ SealStream(c) \/ ReleaseClaim(c) \/ Track(c) \/ Drain(c)
                   \/ ReconcileStream(c) \/ Reconcile(c) \/ Untrack(c)
                   \/ RecordStreamTerminalState(c) \/ Record(c)
            PROVE  UNCHANGED registry
        BY <3>2 DEF SealStream, ReleaseClaim, Track, Drain, ReconcileStream, Reconcile, Untrack,
           RecordStreamTerminalState, Record
      <3>3. Exit(c) => Leaves(c) \/ UNCHANGED registry
        BY DEF Exit
      <3> QED BY <2>2, <2>3, <2>4, <3>1, <3>2, <3>3 DEF Works
    <2>5. ASSUME NEW c \in Calls, \/ Panic(c) \/ AdapterWrites(c) \/ AdapterDrifts(c)
                                  \/ Disconnect(c) \/ Cancel(c)
          PROVE  registry'[d].abort
      <3>1. AdapterWrites(c) \/ AdapterDrifts(c) \/ Disconnect(c) => UNCHANGED registry
        BY DEF AdapterWrites, AdapterDrifts, Delta, Heartbeat, Disconnect
      <3>2. Panic(c) => Leaves(c)
        BY DEF Panic
      <3> QED BY <2>2, <2>3, <2>5, <3>1, <3>2
    <2>6. ASSUME NEW c \in Calls, NEW i \in Attempts,
                 ProviderAccepts(c, i) \/ ProviderRefuses(c, i) \/ ProviderEnds(c, i)
          PROVE  UNCHANGED registry
      BY <2>6 DEF ProviderAccepts, ProviderRefuses, ProviderEnds
    <2>7. CASE Next
      BY <2>2, <2>4, <2>5, <2>6, <2>7 DEF Next
    <2>8. CASE UNCHANGED vars
      BY <2>2, <2>8 DEF vars
    <2> QED BY <1>1, <2>7, <2>8
  <1> QED BY <1>1, ChatInvariant, PTL DEF AbortRemembered, Spec
=============================================================================
