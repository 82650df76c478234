--------------------------- MODULE ChatStreamSteps ----------------------------
(***************************************************************************)
(* Machine-checked proofs about ChatStream, for any set of calls, keys,    *)
(* accounts and setups, any limits and any number of faults.  A call shares *)
(* little with the others: the record of its key, the lease of its account *)
(* and its residual slot.  The invariant is therefore one statement about  *)
(* each call (Sane), and every step of a call leaves what the others' says *)
(* alone (OthersKept).                                                     *)
(***************************************************************************)
EXTENDS ChatStream, FiniteSetTheorems, TLAPS

-----------------------------------------------------------------------------
(* Types *)

Answers == {"none", "unknown", "error", "completed", "canceled"} \cup Disowning
Kinds == {"stream", "plain"}
Opens == {"no", "open", "broken"}
Fates == {"none", "sent", "running", "ended", "refused"}

CallStates ==
    [pc : Places, kind : Kinds, key : Keys, acc : Accounts, left : SUBSET Accounts,
     leased : BOOLEAN, at : 0 .. 2, gone : BOOLEAN, answer : Answers, abort : BOOLEAN,
     stop : BOOLEAN, open : Opens, sealed : BOOLEAN, got : 0 .. MaxDeltas, term : Terms,
     opened : BOOLEAN, tracked : BOOLEAN, confirmed : BOOLEAN, hurt : BOOLEAN]

Responses == [order : {"awaiting", "open", "closed"}, deltas : 0 .. MaxDeltas,
              late : 0 .. MaxDeltas, by : SUBSET Attempts, end : Events \cup {"http"}]

Entries == [state : {"none", "claimed", "terminal"}, kind : Kinds, by : Calls \cup {NoCall},
            content : 0 .. MaxDeltas, end : Events]

Registered == [state : {"none", "running", "terminal"}, abort : BOOLEAN]

Occupancies == {"none", "held", "known", "unknown"}

Typed ==
    /\ setup \in Setups /\ faults \in 0 .. MaxFaults
    /\ call \in [Calls -> CallStates] /\ wire \in [Calls -> Responses]
    /\ fate \in [Calls -> [Attempts -> Fates]] /\ disowned \in [Calls -> SUBSET Attempts]
    /\ registry \in [Calls -> Registered]
    /\ replay \in [Keys -> Entries] /\ occupancy \in [Calls -> Occupancies]
    /\ lease \in [Accounts -> Calls \cup {NoCall}] /\ residual \in SUBSET Calls

-----------------------------------------------------------------------------
(* The inductive invariant *)

Early == {"idle", "admit", "select", "plan"}
Answered == {"end", "seal"}
After == {"mark", "release claim", "track", "drain", "reconcile", "untrack", "record", "exit"}
StreamOnly == {"end", "seal", "mark", "release claim", "track", "drain", "untrack", "exit"}

AtMostOne(S) == \A a, b \in S : a = b

Spent(left) == \A a \in Accounts : a \notin left

\* The account the call is at, those it has left, and what a place implies.
Walks(c) ==
    /\ call[c].pc \in Early => call[c].at = 0 /\ Spent(call[c].left) /\ ~call[c].tracked
    /\ call[c].pc = "attempt" =>
          \/ call[c].at = 0 /\ AtMostOne(call[c].left)
          \/ call[c].at = 1 /\ Spent(call[c].left)
    /\ call[c].pc \in {"adapter", "returned"} \cup Answered =>
          \/ call[c].at = 1 /\ AtMostOne(call[c].left)
          \/ call[c].at = 2 /\ Spent(call[c].left)
    /\ call[c].pc \in After => call[c].at # 0
    /\ call[c].pc \in StreamOnly \/ call[c].opened => Stream(c)
    /\ call[c].opened => call[c].pc \in {"end", "done"} \cup After /\ call[c].at # 0
    /\ call[c].pc \in {"end", "track", "drain", "untrack"} => call[c].opened
    /\ call[c].pc = "record" /\ Stream(c) => call[c].opened
    /\ call[c].pc = "release claim" => ~call[c].opened
    /\ call[c].got <= wire[c].deltas
    /\ call[c].pc = "idle" =>
          wire[c].order = "awaiting" /\ wire[c].deltas = 0 /\ wire[c].by = {}
    /\ call[c].leased => /\ Stream(c) /\ Spent(call[c].left) /\ call[c].at <= 1
                         /\ call[c].pc \notin {"idle", "admit", "select"}
                         /\ call[c].pc = "attempt" => call[c].at = 0

\* Nothing the call sent stands.
Clean(c) == \A i \in Attempts : ~Stands(c, i)

Ended(c) == fate[c][call[c].at] = "ended"

\* What became of the attempts: only the last can stand, and the terminal of a call says
\* no more than is known of it.
Sends(c) ==
    /\ \A i \in Attempts : i # call[c].at => ~Stands(c, i)
    /\ call[c].pc = "attempt" => Clean(c)
    /\ call[c].pc \in {"returned"} \cup Answered =>
          /\ call[c].answer # "none"
          /\ call[c].answer \in Disowning => ~Stands(c, call[c].at)
          /\ call[c].answer = "completed" => Ended(c)
          /\ call[c].answer = "canceled" => Stream(c) /\ (call[c].stop => Ended(c))
    /\ call[c].pc \in Answered =>
          /\ call[c].term.event = "completed" => call[c].answer = "completed"
          /\ call[c].term.event = "canceled" =>
                call[c].answer = "canceled" /\ call[c].term.stop = call[c].stop
          /\ \/ CarriesUsage(call[c].term) \/ call[c].term.code = "possibly"
             \/ call[c].answer \in Disowning
    /\ call[c].pc = "seal" => call[c].answer \in {"error"} \cup Disowning
    /\ call[c].pc \in After =>
          /\ CarriesUsage(call[c].term) \/ call[c].term.code = "possibly" \/ Clean(c)
          /\ Stream(c) /\ ~call[c].opened /\ CarriesUsage(call[c].term) =>
                call[c].term.code = "possibly"
          /\ CarriesUsage(call[c].term) /\ UpstreamStopped(call[c].term) => Ended(c)
    /\ call[c].confirmed => /\ call[c].pc \in After
                            /\ fate[c][call[c].at] \in {"ended", "refused"}

Owns(c) ==
    LET r == replay[call[c].key]
    IN  r.state = "claimed" /\ r.by = c /\ r.kind = call[c].kind

\* Places at which the key is the call's own, with nothing concluded yet.
Holding(c) ==
    \/ call[c].pc \in {"admit", "select", "plan", "attempt", "adapter", "returned", "end",
                       "seal", "mark", "release claim", "track", "drain", "untrack", "record"}
    \/ call[c].pc = "reconcile" /\ (call[c].opened \/ ~Stream(c))

\* The key stays with the call that may have made the Provider generate.
Claims(c) ==
    /\ Holding(c) => Owns(c)
    /\ ~Clean(c) => replay[call[c].key].by = c
    /\ \A k \in Keys : replay[k].by = c => /\ k = call[c].key /\ call[c].pc # "idle"
                                           /\ replay[k].kind = call[c].kind
    /\ call[c].pc = "idle" => Clean(c)

\* What is held for the call: its lease, its slot, its residual tracking, its claim.
Settles(c) ==
    /\ call[c].leased /\ ~Done(c) => lease[call[c].acc] = c
    /\ occupancy[c] = "known" => call[c].pc \in {"untrack", "record", "exit", "done"}
    /\ call[c].pc = "idle" => c \notin residual
    /\ occupancy[c] = "known" /\ call[c].opened => fate[c][call[c].at] \notin {"sent", "running"}
    /\ call[c].tracked /\ occupancy[c] = "held" => c \in residual
    /\ call[c].pc = "untrack" => occupancy[c] # "held"
    /\ call[c].pc \in {"record", "exit"} /\ Stream(c) /\ ~call[c].hurt => occupancy[c] # "held"
    /\ c \in residual /\ ~call[c].hurt =>
          /\ call[c].opened /\ call[c].tracked
          /\ call[c].pc \in {"drain", "reconcile", "untrack"}
    /\ call[c].pc = "exit" \/ (call[c].pc = "reconcile" /\ Stream(c) /\ ~call[c].opened) =>
          (Owns(c) /\ ~call[c].hurt => call[c].term.code = "possibly")
    /\ Done(c) /\ Stream(c) /\ call[c].at > 0 /\ ~call[c].hurt =>
          /\ occupancy[c] # "held" /\ c \notin residual
          /\ \A a \in Accounts : lease[a] # c
          /\ Owns(c) => call[c].term.code = "possibly"

\* Content of a response w that came before the outcome was classified; what is known of
\* the rest of it; and a number n that tells it.
Timely(w) == w.deltas > w.late
Bounded(w) == w.late <= w.deltas
Tells(n, w) == n + w.late = w.deltas

\* What the client of a stream got: of one attempt only, closed by one terminal,
\* and recorded as it was delivered.
Delivers(c) ==
    /\ AtMostOne(wire[c].by)
    /\ wire[c].order = "awaiting" => wire[c].by = {} /\ wire[c].deltas = 0
    /\ call[c].open = "open" => /\ wire[c].by \subseteq {call[c].at}
                                /\ call[c].sealed \/ wire[c].order = "open"
    /\ ~Stream(c) => call[c].open = "no" /\ call[c].got = 0
    /\ Bounded(wire[c])
    /\ call[c].pc \in Early \cup {"attempt", "seal"} => wire[c].deltas = wire[c].late
    /\ call[c].pc \in {"adapter", "returned"} => Tells(call[c].got, wire[c])
    /\ call[c].pc \in {"adapter", "returned", "end"} =>
          /\ Stream(c) => ~call[c].sealed
          /\ Timely(wire[c]) => call[c].open = "open"
    /\ call[c].pc \in {"attempt"} \cup After /\ Stream(c) /\ call[c].at # 0 =>
          call[c].sealed \/ call[c].open = "broken"
    /\ call[c].pc = "end" /\ CarriesUsage(call[c].term) =>
          Tells(call[c].term.content, wire[c])
    /\ call[c].pc \in After /\ Timely(wire[c]) => wire[c].order = "closed"
    /\ call[c].pc \in After /\ call[c].opened /\ CarriesUsage(call[c].term) =>
          /\ Tells(call[c].term.content, wire[c])
          /\ call[c].term.event = wire[c].end
    /\ Done(c) /\ Stream(c) /\ ~call[c].hurt /\ Timely(wire[c]) =>
          wire[c].order = "closed"
    /\ LET r == replay[call[c].key]
       IN  r.by = c /\ r.state = "terminal" /\ Stream(c) =>
              /\ call[c].pc \in {"exit", "done"} /\ call[c].opened
              /\ Tells(r.content, wire[c]) /\ r.end = wire[c].end

Sane(c) == Walks(c) /\ Sends(c) /\ Claims(c) /\ Settles(c) /\ Delivers(c)

NobodyMeansNone == \A k \in Keys : replay[k].by = NoCall <=> replay[k].state = "none"

ChatInv == Typed /\ NobodyMeansNone /\ \A c \in Calls : Sane(c)

-----------------------------------------------------------------------------
(* What a step of c leaves to the other calls. *)

OthersKept(c) ==
    /\ \A d \in Calls \ {c} :
          /\ call'[d] = call[d] /\ wire'[d] = wire[d] /\ fate'[d] = fate[d]
          /\ disowned'[d] = disowned[d]
          /\ occupancy'[d] = occupancy[d] /\ (d \in residual' <=> d \in residual)
    /\ \A a \in Accounts :
          lease'[a] = lease[a] \/ (lease[a] \in {c, NoCall} /\ lease'[a] \in {c, NoCall})
    /\ \A k \in Keys :
          replay'[k] = replay[k] \/ (replay[k].by \in {c, NoCall} /\ replay'[k].by \in {c, NoCall})

LEMMA TypedAt ==
    ASSUME Typed, NEW c \in Calls
    PROVE  /\ call[c] \in CallStates /\ wire[c] \in Responses /\ fate[c] \in [Attempts -> Fates]
           /\ registry[c] \in Registered /\ occupancy[c] \in Occupancies
           /\ call[c].key \in Keys /\ call[c].acc \in Accounts
           /\ replay[call[c].key] \in Entries
  <1>1. call[c] \in CallStates
    BY DEF Typed
  <1>2. call[c].key \in Keys /\ call[c].acc \in Accounts
    BY <1>1 DEF CallStates
  <1> QED BY <1>1, <1>2 DEF Typed

LEMMA OthersStaySane ==
    ASSUME ChatInv, NEW c \in Calls, OthersKept(c), NEW d \in Calls \ {c}
    PROVE  Sane(d)'
  <1>1. /\ Sane(d) /\ call[d].key \in Keys /\ call[d].acc \in Accounts /\ d # NoCall
        /\ call'[d] = call[d] /\ wire'[d] = wire[d] /\ fate'[d] = fate[d]
        /\ disowned'[d] = disowned[d]
        /\ occupancy'[d] = occupancy[d] /\ (d \in residual' <=> d \in residual)
    BY TypedAt, ChatAssumption DEF ChatInv, OthersKept
  <1>2. Walks(d)'
    BY <1>1 DEF Sane, Walks, Stream
  <1>6. Sends(d)'
    BY <1>1 DEF Sane, Sends, Clean, Stands, Ended, Stream
  <1>3. Claims(d)'
    BY <1>1 DEF OthersKept, Sane, Claims, Holding, Owns, Clean, Stands, Stream
  <1>4. Settles(d)'
    BY <1>1 DEF OthersKept, Sane, Settles, Owns, Done, At, Stream
  <1>5. Delivers(d)'
    BY <1>1 DEF OthersKept, Sane, Delivers, Done, At, Stream
  <1> QED BY <1>2, <1>3, <1>4, <1>5, <1>6 DEF Sane

Good(c) == Typed' /\ NobodyMeansNone' /\ OthersKept(c) /\ Sane(c)'

LEMMA Becoming ==
    ASSUME Typed, NEW c \in Calls, NEW n \in CallStates, Becomes(c, n)
    PROVE  /\ call' \in [Calls -> CallStates] /\ call'[c] = n
           /\ \A d \in Calls \ {c} : call'[d] = call[d]
  BY DEF Typed, Becomes

LEMMA Going ==
    ASSUME Typed, NEW c \in Calls, NEW pc \in Places, Go(c, pc)
    PROVE  /\ call' \in [Calls -> CallStates] /\ call'[c] = [call[c] EXCEPT !.pc = pc]
           /\ \A d \in Calls \ {c} : call'[d] = call[d]
  <1>1. [call[c] EXCEPT !.pc = pc] \in CallStates
    BY TypedAt DEF CallStates
  <1>2. Becomes(c, [call[c] EXCEPT !.pc = pc])
    BY DEF Go, Becomes
  <1> QED BY <1>1, <1>2, Becoming

LEMMA FreshTyped == Fresh \in CallStates
  <1>1. NoTerm \in Terms
    BY ChatAssumption DEF NoTerm, Terms, Events
  <1>2. (CHOOSE k \in Keys : TRUE) \in Keys /\ (CHOOSE a \in Accounts : TRUE) \in Accounts
    BY ChatAssumption
  <1> QED BY <1>1, <1>2, ChatAssumption DEF Fresh, CallStates, Places, Kinds, Answers, Opens

\* What remains of a call that is over.
LEMMA Overing ==
    ASSUME Typed, NEW c \in Calls, NEW me \in CallStates, Becomes(c, Over(me))
    PROVE  /\ call' \in [Calls -> CallStates]
           /\ \A d \in Calls \ {c} : call'[d] = call[d]
           /\ call'[c].pc = "done" /\ call'[c].kind = me.kind /\ call'[c].key = me.key
           /\ call'[c].at = me.at /\ call'[c].opened = me.opened
           /\ call'[c].term.code = me.term.code /\ call'[c].hurt = me.hurt
           /\ Spent(call'[c].left) /\ ~call'[c].leased
           /\ ~call'[c].tracked /\ ~call'[c].confirmed /\ call'[c].open = "no" /\ call'[c].got = 0
  <1>1. Over(me) \in CallStates
    BY FreshTyped DEF Over, CallStates, Places, Terms
  <1>2. /\ Over(me).pc = "done" /\ Over(me).kind = me.kind /\ Over(me).key = me.key
        /\ Over(me).at = me.at /\ Over(me).opened = me.opened
        /\ Over(me).term.code = me.term.code /\ Over(me).hurt = me.hurt
        /\ Spent(Over(me).left) /\ ~Over(me).leased
        /\ ~Over(me).tracked /\ ~Over(me).confirmed /\ Over(me).open = "no" /\ Over(me).got = 0
    BY DEF Over, Fresh, NoTerm, Spent
  <1>3. call'[c] = Over(me)
    BY <1>1, Becoming
  <1> QED BY <1>1, <1>2, <1>3, Becoming

\* A failing store call hurts the call unless it fails for want of a client.
LEMMA Hurting ==
    ASSUME Typed, NEW c \in Calls
    PROVE  \E h \in BOOLEAN : /\ Hurt(c) = [call[c] EXCEPT !.hurt = h]
                              /\ h <=> call[c].hurt \/ faults' # faults
                              /\ Hurt(c) \in CallStates
  <1>1. call[c] \in CallStates
    BY TypedAt
  <1> QED BY <1>1 DEF Hurt, CallStates

LEMMA Faulting ==
    ASSUME Typed, NEW c, Fails(c)
    PROVE  faults' \in 0 .. MaxFaults /\ faults' # faults
  BY ChatAssumption DEF Typed, Fails

LEMMA Failing ==
    ASSUME Typed, NEW c, NoFault \/ Fails(c) \/ FailsOnRequest(c)
    PROVE  faults' \in 0 .. MaxFaults
  BY ChatAssumption DEF Typed, NoFault, Fails, FailsOnRequest

\* A claim of the call's own is given back, and no other record is touched.
LEMMA Abandoning ==
    ASSUME Typed, NobodyMeansNone, NEW c \in Calls, Owns(c), Abandon(c)
    PROVE  /\ replay' \in [Keys -> Entries] /\ NobodyMeansNone'
           /\ replay'[call[c].key] = Unclaimed
           /\ \A k \in Keys \ {call[c].key} : replay'[k] = replay[k]
  <1>1. Unclaimed \in Entries /\ Unclaimed.state = "none" /\ Unclaimed.by = NoCall
    BY ChatAssumption DEF Unclaimed, Entries, Kinds, Events
  <1>2. replay' = [replay EXCEPT ![call[c].key] = Unclaimed]
    BY DEF Abandon, Owns, Matches
  <1>3. call[c].key \in Keys
    BY TypedAt
  <1> QED BY <1>1, <1>2, <1>3 DEF Typed, NobodyMeansNone

\* The record of a claim of the call's own holds what the call concludes.
LEMMA Completing ==
    ASSUME Typed, NobodyMeansNone, NEW c \in Calls, Owns(c), Complete(c)
    PROVE  /\ replay' \in [Keys -> Entries] /\ NobodyMeansNone'
           /\ replay'[call[c].key].state = "terminal" /\ replay'[call[c].key].by = c
           /\ replay'[call[c].key].kind = call[c].kind
           /\ replay'[call[c].key].content = call[c].term.content
           /\ replay'[call[c].key].end = call[c].term.event
           /\ \A k \in Keys \ {call[c].key} : replay'[k] = replay[k]
  <1> DEFINE r == [replay[call[c].key] EXCEPT !.state = "terminal", !.by = c,
                       !.content = call[c].term.content, !.end = call[c].term.event]
  <1>1. call[c].key \in Keys /\ replay[call[c].key] \in Entries /\ call[c].term \in Terms
    BY TypedAt DEF CallStates
  <1>2. replay' = [replay EXCEPT ![call[c].key] = r]
    BY DEF Complete, Owns, Matches
  <1>3. /\ r \in Entries /\ r.state = "terminal" /\ r.by = c /\ r.kind = replay[call[c].key].kind
        /\ r.content = call[c].term.content /\ r.end = call[c].term.event
    BY <1>1 DEF Entries, Terms
  <1>4. replay'[call[c].key] = r /\ \A k \in Keys \ {call[c].key} : replay'[k] = replay[k]
    BY <1>1, <1>2 DEF Typed
  <1>5. replay' \in [Keys -> Entries]
    BY <1>2, <1>3 DEF Typed
  <1>6. NobodyMeansNone'
    <2> HIDE DEF r
    <2>1. r.by # NoCall /\ r.state # "none"
      BY <1>3, ChatAssumption
    <2> QED BY <1>4, <2>1 DEF NobodyMeansNone
  <1> QED BY <1>3, <1>4, <1>5, <1>6 DEF Owns

\* The response changes in nothing but its order, its writers or its end.
LEMMA SameTally ==
    ASSUME NEW v, NEW w, v.deltas = w.deltas, v.late = w.late
    PROVE  /\ Timely(v) <=> Timely(w)
           /\ Bounded(v) <=> Bounded(w)
           /\ \A n : Tells(n, v) <=> Tells(n, w)
  BY DEF Timely, Bounded, Tells

\* An HTTP answer says nothing of content.
LEMMA Answering ==
    ASSUME Typed, NEW c \in Calls, AnswersHTTP(c)
    PROVE  /\ wire' \in [Calls -> Responses]
           /\ \A d \in Calls \ {c} : wire'[d] = wire[d]
           /\ wire'[c].order = wire[c].order /\ wire'[c].deltas = wire[c].deltas
           /\ wire'[c].by = wire[c].by /\ wire'[c].late = wire[c].late
           /\ wire[c].order # "awaiting" => wire'[c].end = wire[c].end
           /\ Timely(wire'[c]) <=> Timely(wire[c])
           /\ Bounded(wire'[c]) <=> Bounded(wire[c])
           /\ \A n : Tells(n, wire'[c]) <=> Tells(n, wire[c])
  <1>1. wire[c] \in Responses
    BY TypedAt
  <1>2. /\ wire' \in [Calls -> Responses]
        /\ \A d \in Calls \ {c} : wire'[d] = wire[d]
        /\ wire'[c].order = wire[c].order /\ wire'[c].deltas = wire[c].deltas
        /\ wire'[c].by = wire[c].by /\ wire'[c].late = wire[c].late
        /\ wire[c].order # "awaiting" => wire'[c].end = wire[c].end
    BY <1>1 DEF AnswersHTTP, Responses, Typed
  <1> QED BY <1>2, SameTally

\* A call turned away before it has a plan: nothing was sent and nothing is leased.
Refused(c) ==
    /\ call[c].pc \in {"admit", "select"} /\ AnswersHTTP(c)
    /\ \E me \in {call[c], Hurt(c)} : Becomes(c, Over(me))
    /\ Abandon(c) \/ UNCHANGED replay
    /\ occupancy' = occupancy \/ occupancy' = [occupancy EXCEPT ![c] = "none"]
    /\ faults' \in 0 .. MaxFaults
    /\ UNCHANGED <<lease, residual, registry, setup, fate, disowned>>

LEMMA FewAccounts ==
    ASSUME NEW L \in SUBSET Accounts, Cardinality(L) <= 1
    PROVE  AtMostOne(L)
  <1>1. IsFiniteSet(L)
    BY FS_Subset, ChatAssumption
  <1> SUFFICES ASSUME NEW a \in L, NEW b \in L, a # b
               PROVE  FALSE
    BY DEF AtMostOne
  <1>2. IsFiniteSet(L \ {a}) /\ Cardinality(L \ {a}) = Cardinality(L) - 1
    BY <1>1, FS_RemoveElement
  <1>3. Cardinality(L) \in Nat /\ Cardinality(L \ {a}) \in Nat
    BY <1>1, <1>2, FS_CardinalityType
  <1>4. L \ {a} = {}
    BY <1>2, <1>3, FS_EmptySet
  <1> QED BY <1>4

LEMMA OneAtMost ==
    ASSUME NEW S, AtMostOne(S)
    PROVE  Cardinality(S) <= 1
  <1>1. CASE S = {}
    BY <1>1, FS_EmptySet
  <1>2. CASE S # {}
    <2>1. PICK a : a \in S
      BY <1>2
    <2>2. \A b \in S : b = a
      BY <2>1 DEF AtMostOne
    <2>3. S = {a}
      BY <2>1, <2>2
    <2>4. Cardinality({a}) = 1
      BY FS_Singleton
    <2> QED BY <2>3, <2>4
  <1> QED BY <1>1, <1>2

\* What a stream that is opened on demand finds or becomes.
LEMMA Opening ==
    ASSUME Typed, NEW c \in Calls, NEW o \in EnsureOpen(c)
    PROVE  /\ o.open \in Opens /\ o.open # "no" /\ o.wire \in Responses /\ ~call[c].sealed
           /\ o.wire.deltas = wire[c].deltas /\ o.wire.by = wire[c].by /\ o.wire.end = wire[c].end
           /\ o.wire.late = wire[c].late
           /\ call[c].open # "no" => o.open = call[c].open /\ o.wire = wire[c]
           /\ call[c].open = "no" /\ wire[c].order = "awaiting" => o.wire.order = "open"
           /\ call[c].open = "no" /\ wire[c].order # "awaiting" => o.open = "broken" /\ o.wire = wire[c]
  <1>1. wire[c] \in Responses /\ call[c].open \in Opens /\ call[c].sealed \in BOOLEAN
    BY TypedAt DEF CallStates
  <1>2. ~call[c].sealed
    BY DEF EnsureOpen
  <1>3. CASE call[c].open # "no"
    BY <1>1, <1>2, <1>3 DEF EnsureOpen
  <1>4. CASE call[c].open = "no" /\ wire[c].order # "awaiting"
    BY <1>1, <1>2, <1>4 DEF EnsureOpen, TransportOpens, OrderAdmits, Opens
  <1>5. CASE call[c].open = "no" /\ wire[c].order = "awaiting"
    <2>1. PICK ok \in Writes(c) :
              o = [open |-> IF ok THEN "open" ELSE "broken", wire |-> [wire[c] EXCEPT !.order = "open"]]
      BY <1>2, <1>5 DEF EnsureOpen, TransportOpens, OrderAdmits
    <2> QED BY <1>1, <1>2, <1>5, <2>1 DEF Opens, Responses
  <1> QED BY <1>3, <1>4, <1>5

\* A walk over accounts that is about to go on or to end: me is what the call knows
\* when it decides, the terminal of its latest attempt included.
Deciding(c, me) ==
    /\ me \in CallStates /\ call[c].pc \in {"attempt", "returned", "seal"}
    /\ me.kind = call[c].kind /\ me.key = call[c].key /\ me.acc = call[c].acc
    /\ me.left = call[c].left /\ me.leased = call[c].leased /\ me.tracked = call[c].tracked
    /\ me.hurt = call[c].hurt
    /\ me.leased => me.at = 1
    /\ ~me.opened /\ ~me.confirmed /\ me.got <= wire[c].deltas
    /\ (me.at = 1 /\ AtMostOne(me.left)) \/ (me.at = 2 /\ Spent(me.left))
    /\ \A i \in Attempts : i # me.at => ~Stands(c, i)
    /\ me.kind = "stream" => me.sealed
    /\ me.kind # "stream" => me.open = "no" /\ me.got = 0
    /\ me.open = "open" => wire[c].by \subseteq {me.at}
    /\ CarriesUsage(me.term) \/ me.term.code = "possibly" \/ Clean(c)
    /\ CarriesUsage(me.term) => me.kind # "stream" /\ me.term.event = "completed"
    /\ CarriesUsage(me.term) => fate[c][me.at] = "ended"
    /\ wire[c].deltas = wire[c].late

\* The terminal says no more than the answer it stands for.
LEMMA TerminalSays ==
    ASSUME NEW me \in CallStates
    PROVE  /\ Terminal(me) \in Terms
           /\ Terminal(me).event = "completed" => me.answer = "completed"
           /\ Terminal(me).event = "canceled" => me.answer = "canceled" /\ Terminal(me).stop = me.stop
           /\ \/ CarriesUsage(Terminal(me)) \/ Terminal(me).code = "possibly"
              \/ me.answer \in Disowning
  <1>1. NoTerm \in Terms /\ NoTerm.event = "none"
    BY ChatAssumption DEF NoTerm, Terms, Events
  <1>2. CASE me.answer = "completed"
    BY <1>1, <1>2 DEF Terminal, CarriesUsage, Terms, Events
  <1>3. CASE me.answer = "canceled"
    <2>1. me.abort \in BOOLEAN /\ me.stop \in BOOLEAN
      BY DEF CallStates
    <2> QED BY <1>1, <1>3, <2>1 DEF Terminal, CarriesUsage, Terms, Events
  <1>4. CASE me.answer \in Disowning
    BY <1>1, <1>4 DEF Terminal, CarriesUsage, Terms, Events, Failed, NotCommittedCanonical, Disowning
  <1>5. CASE me.answer \notin {"completed", "canceled"} \cup Disowning
    BY <1>1, <1>5 DEF Terminal, CarriesUsage, Terms, Events, Failed, Disowning
  <1> QED BY <1>2, <1>3, <1>4, <1>5

LEMMA UnsentTyped ==
    ASSUME NEW c, NEW t \in Unsent(c)
    PROVE  t \in Terms /\ ~CarriesUsage(t)
  <1>1. t = Failed("proven") \/ t = NoTerm
    BY DEF Unsent
  <1>2. 0 \in 0 .. MaxDeltas
    BY ChatAssumption
  <1>3. Failed("proven") \in Terms /\ ~CarriesUsage(Failed("proven"))
    BY <1>2 DEF Failed, NoTerm, Terms, Events, CarriesUsage
  <1>4. NoTerm \in Terms /\ ~CarriesUsage(NoTerm)
    BY <1>2 DEF NoTerm, Terms, Events, CarriesUsage
  <1> QED BY <1>1, <1>3, <1>4

LEMMA Counting ==
    ASSUME Typed, NEW c \in Calls
    PROVE  wire[c].deltas \in Nat /\ wire[c].late \in Nat /\ call[c].got \in Nat
  <1>1. wire[c].deltas \in 0 .. MaxDeltas /\ wire[c].late \in 0 .. MaxDeltas
    BY TypedAt DEF Responses
  <1>2. call[c].got \in 0 .. MaxDeltas
    BY TypedAt DEF CallStates
  <1> QED BY <1>1, <1>2, ChatAssumption

\* All of the content is late.
LEMMA AllLate ==
    ASSUME NEW w \in Responses, w.deltas = w.late
    PROVE  ~Timely(w) /\ Bounded(w) /\ Tells(0, w)
  <1>1. w.late \in 0 .. MaxDeltas
    BY DEF Responses
  <1>2. w.late \in Nat
    BY <1>1, ChatAssumption
  <1> QED BY <1>2 DEF Timely, Bounded, Tells

\* A call that is over, its last store call having failed or not.
LEMMA Ending ==
    ASSUME Typed, NEW c \in Calls, Becomes(c, Over(Hurt(c)))
    PROVE  /\ call' \in [Calls -> CallStates]
           /\ \A d \in Calls \ {c} : call'[d] = call[d]
           /\ call'[c].pc = "done" /\ call'[c].kind = call[c].kind /\ call'[c].key = call[c].key
           /\ call'[c].at = call[c].at /\ call'[c].opened = call[c].opened
           /\ call'[c].term.code = call[c].term.code
           /\ Spent(call'[c].left) /\ ~call'[c].leased /\ ~call'[c].tracked
           /\ ~call'[c].confirmed /\ call'[c].open = "no" /\ call'[c].got = 0
           /\ call'[c].hurt <=> call[c].hurt \/ faults' # faults
  <1>1. PICK h \in BOOLEAN : /\ Hurt(c) = [call[c] EXCEPT !.hurt = h]
                             /\ h <=> call[c].hurt \/ faults' # faults
                             /\ Hurt(c) \in CallStates
    BY Hurting
  <1>2. call[c] \in CallStates
    BY TypedAt
  <1>3. /\ Hurt(c).kind = call[c].kind /\ Hurt(c).key = call[c].key /\ Hurt(c).at = call[c].at
        /\ Hurt(c).opened = call[c].opened /\ Hurt(c).term = call[c].term
        /\ Hurt(c).hurt = h
    BY <1>1, <1>2 DEF CallStates
  <1>4. Hurt(c) \in CallStates
    BY <1>1
  <1> DEFINE me == Hurt(c)
  <1>5. Becomes(c, Over(me)) /\ me \in CallStates
    BY <1>4
  <1> HIDE DEF me
  <1>6. /\ call' \in [Calls -> CallStates]
        /\ \A d \in Calls \ {c} : call'[d] = call[d]
        /\ call'[c].pc = "done" /\ call'[c].kind = me.kind /\ call'[c].key = me.key
        /\ call'[c].at = me.at /\ call'[c].opened = me.opened
        /\ call'[c].term.code = me.term.code /\ call'[c].hurt = me.hurt
        /\ Spent(call'[c].left) /\ ~call'[c].leased
        /\ ~call'[c].tracked /\ ~call'[c].confirmed /\ call'[c].open = "no" /\ call'[c].got = 0
    BY <1>5, Overing
  <1>7. /\ me.kind = call[c].kind /\ me.key = call[c].key /\ me.at = call[c].at
        /\ me.opened = call[c].opened /\ me.term = call[c].term
        /\ me.hurt = h
    BY <1>3 DEF me
  <1> QED BY <1>1, <1>6, <1>7

\* A call that goes on to another place, its last store call having failed or not.
LEMMA GoingHurt ==
    ASSUME Typed, NEW c \in Calls, NEW pc \in Places,
           Becomes(c, [Hurt(c) EXCEPT !.pc = pc]) \/ (Go(c, pc) /\ faults' = faults)
    PROVE  /\ call' \in [Calls -> CallStates]
           /\ \A d \in Calls \ {c} : call'[d] = call[d]
           /\ call'[c].pc = pc /\ call'[c].kind = call[c].kind /\ call'[c].key = call[c].key
           /\ call'[c].acc = call[c].acc /\ call'[c].left = call[c].left
           /\ call'[c].leased = call[c].leased /\ call'[c].term = call[c].term
           /\ call'[c].at = call[c].at /\ call'[c].opened = call[c].opened
           /\ call'[c].tracked = call[c].tracked /\ call'[c].confirmed = call[c].confirmed
           /\ call'[c].sealed = call[c].sealed /\ call'[c].open = call[c].open
           /\ call'[c].got = call[c].got
           /\ call'[c].hurt <=> call[c].hurt \/ faults' # faults
  <1>1. call[c] \in CallStates
    BY TypedAt
  <1>2. PICK h \in BOOLEAN : /\ Hurt(c) = [call[c] EXCEPT !.hurt = h]
                             /\ h <=> call[c].hurt \/ faults' # faults
                             /\ Hurt(c) \in CallStates
    BY Hurting
  <1>3. CASE Becomes(c, [Hurt(c) EXCEPT !.pc = pc])
    <2>1. [Hurt(c) EXCEPT !.pc = pc] \in CallStates
      BY <1>2 DEF CallStates
    <2>2. call'[c] = [Hurt(c) EXCEPT !.pc = pc]
      BY <1>3, <2>1, Becoming
    <2>3. /\ call'[c].pc = pc /\ call'[c].kind = call[c].kind /\ call'[c].key = call[c].key
          /\ call'[c].acc = call[c].acc /\ call'[c].left = call[c].left
          /\ call'[c].leased = call[c].leased /\ call'[c].term = call[c].term
          /\ call'[c].at = call[c].at /\ call'[c].opened = call[c].opened
          /\ call'[c].tracked = call[c].tracked /\ call'[c].confirmed = call[c].confirmed
          /\ call'[c].sealed = call[c].sealed /\ call'[c].open = call[c].open
          /\ call'[c].got = call[c].got
          /\ call'[c].hurt = h
      BY <1>1, <1>2, <2>2 DEF CallStates
    <2> QED BY <1>2, <1>3, <2>1, <2>3, Becoming
  <1>4. CASE Go(c, pc) /\ faults' = faults
    <2>1. call'[c] = [call[c] EXCEPT !.pc = pc]
      BY <1>4, Going
    <2>2. /\ call'[c].pc = pc /\ call'[c].kind = call[c].kind /\ call'[c].key = call[c].key
          /\ call'[c].acc = call[c].acc /\ call'[c].left = call[c].left
          /\ call'[c].leased = call[c].leased /\ call'[c].term = call[c].term
          /\ call'[c].at = call[c].at /\ call'[c].opened = call[c].opened
          /\ call'[c].tracked = call[c].tracked /\ call'[c].confirmed = call[c].confirmed
          /\ call'[c].sealed = call[c].sealed /\ call'[c].open = call[c].open
          /\ call'[c].got = call[c].got
          /\ call'[c].hurt = call[c].hurt
      BY <1>1, <2>1 DEF CallStates
    <2> QED BY <1>4, <2>2, Going
  <1> QED BY <1>3, <1>4

\* What the conclusion of a call does to the record of its key.
LEMMA Concluding ==
    ASSUME Typed, NobodyMeansNone, NEW c \in Calls, Owns(c), Concludes(c)
    PROVE  /\ replay' \in [Keys -> Entries] /\ NobodyMeansNone'
           /\ \A k \in Keys \ {call[c].key} : replay'[k] = replay[k]
           /\ \/ call[c].term.code = "possibly" /\ replay' = replay
              \/ /\ ~CarriesUsage(call[c].term) /\ call[c].term.code # "possibly"
                 /\ replay'[call[c].key] = Unclaimed
              \/ /\ CarriesUsage(call[c].term)
                 /\ replay'[call[c].key].state = "terminal" /\ replay'[call[c].key].by = c
                 /\ replay'[call[c].key].kind = call[c].kind
                 /\ replay'[call[c].key].content = call[c].term.content
                 /\ replay'[call[c].key].end = call[c].term.event
  <1>1. CASE CarriesUsage(call[c].term)
    <2>1. Complete(c)
      BY <1>1 DEF Concludes
    <2> QED BY <1>1, <2>1, Completing
  <1>2. CASE ~CarriesUsage(call[c].term) /\ call[c].term.code = "possibly"
    <2>1. replay' = replay
      BY <1>2 DEF Concludes
    <2> QED BY <1>2, <2>1 DEF Typed, NobodyMeansNone
  <1>3. CASE ~CarriesUsage(call[c].term) /\ call[c].term.code # "possibly"
    <2>1. Abandon(c)
      BY <1>3 DEF Concludes
    <2> QED BY <1>3, <2>1, Abandoning
  <1> QED BY <1>1, <1>2, <1>3

LEMMA Leaving ==
    ASSUME Typed, NEW c \in Calls, Leaves(c)
    PROVE  /\ lease' \in [Accounts -> Calls \cup {NoCall}] /\ registry' \in [Calls -> Registered]
           /\ \A a \in Accounts : /\ lease'[a] = lease[a] \/ (lease[a] = c /\ lease'[a] = NoCall)
                                  /\ lease'[a] # c
  <1>1. registry' \in [Calls -> Registered]
    BY DEF Typed, Leaves, Unregistered, Registered
  <1> QED BY <1>1, ChatAssumption DEF Typed, Leaves, LeaseReleased

LEMMA DrainKeeps ==
    ASSUME ChatInv, NEW c \in Calls, Drain(c)
    PROVE  Good(c)
  <1>0. /\ Typed /\ NobodyMeansNone /\ Sane(c) /\ call[c] \in CallStates
        /\ wire[c] \in Responses /\ fate[c] \in [Attempts -> Fates]
        /\ occupancy[c] \in Occupancies /\ call[c].key \in Keys /\ call[c].acc \in Accounts
    BY TypedAt DEF ChatInv
  <1>1. PICK known \in BOOLEAN :
           /\ known => fate[c][call[c].at] \in {"ended", "refused"}
           /\ Becomes(c, [call[c] EXCEPT !.confirmed = known, !.pc = "reconcile"])
    BY DEF Drain
  <1>2. [call[c] EXCEPT !.confirmed = known, !.pc = "reconcile"] \in CallStates
    BY <1>0 DEF CallStates, Places
  <1>3. call'[c] = [call[c] EXCEPT !.confirmed = known, !.pc = "reconcile"]
    BY <1>0, <1>1, <1>2, Becoming
  <1>4. /\ known => fate[c][call[c].at] \in {"ended", "refused"}
        /\ call[c].pc = "drain"
        /\ UNCHANGED <<wire, fate, disowned, replay, occupancy, lease, residual>>
    BY <1>1 DEF Drain, At
  <1>frame. Typed' /\ NobodyMeansNone' /\ OthersKept(c)
    BY <1>0, <1>1, <1>2, Becoming DEF Typed, NobodyMeansNone, OthersKept, Drain
  <1>walks. Walks(c)'
    BY <1>0, <1>3, <1>4 DEF CallStates, Sane, Walks, Stream, Early, After, Answered,
       StreamOnly
  <1>sends. Sends(c)'
    BY <1>0, <1>3, <1>4 DEF CallStates, Sane, Sends, After, Answered, Clean, Stands, Ended, Stream
  <1>claims. Claims(c)'
    BY <1>0, <1>3, <1>4 DEF CallStates, Sane, Claims, Holding, Owns, Stream, Clean, Stands
  <1>settles. Settles(c)'
    BY <1>0, <1>3, <1>4 DEF CallStates, Sane, Settles, Owns, Stream, Done, At, Walks
  <1>delivers. Delivers(c)'
    BY <1>0, <1>3, <1>4 DEF CallStates, Sane, Delivers, Stream, Done, At, Early, After,
       Answered
  <1> QED BY <1>frame, <1>walks, <1>sends, <1>claims, <1>settles, <1>delivers DEF Good, Sane

LEMMA DisconnectKeeps ==
    ASSUME ChatInv, NEW c \in Calls, Disconnect(c)
    PROVE  Good(c)
  <1>0. /\ Typed /\ NobodyMeansNone /\ Sane(c) /\ call[c] \in CallStates
        /\ wire[c] \in Responses /\ fate[c] \in [Attempts -> Fates]
        /\ occupancy[c] \in Occupancies /\ call[c].key \in Keys /\ call[c].acc \in Accounts
    BY TypedAt DEF ChatInv
  <1>1. Becomes(c, [call[c] EXCEPT !.gone = TRUE])
    BY DEF Disconnect
  <1>2. [call[c] EXCEPT !.gone = TRUE] \in CallStates
    BY <1>0 DEF CallStates
  <1>3. call'[c] = [call[c] EXCEPT !.gone = TRUE]
    BY <1>0, <1>1, <1>2, Becoming
  <1>4. /\ call[c].pc # "idle" /\ call[c].pc # "done"
        /\ UNCHANGED <<wire, fate, disowned, replay, occupancy, lease, residual>>
    BY DEF Disconnect, At
  <1>5. /\ call'[c].pc = call[c].pc /\ call'[c].kind = call[c].kind /\ call'[c].key = call[c].key
        /\ call'[c].acc = call[c].acc /\ call'[c].left = call[c].left
        /\ call'[c].leased = call[c].leased /\ call'[c].term = call[c].term
        /\ call'[c].at = call[c].at /\ call'[c].opened = call[c].opened
        /\ call'[c].answer = call[c].answer /\ call'[c].stop = call[c].stop
        /\ call'[c].tracked = call[c].tracked /\ call'[c].confirmed = call[c].confirmed
        /\ call'[c].open = call[c].open /\ call'[c].sealed = call[c].sealed
        /\ call'[c].got = call[c].got
        /\ call'[c].hurt = call[c].hurt
    BY <1>0, <1>3 DEF CallStates
  <1>frame. Typed' /\ NobodyMeansNone' /\ OthersKept(c)
    BY <1>0, <1>1, <1>2, Becoming DEF Typed, NobodyMeansNone, OthersKept, Disconnect
  <1>i. Walks(c) /\ Sends(c) /\ Claims(c) /\ Settles(c) /\ Delivers(c)
    BY <1>0 DEF Sane
  <1>walks. Walks(c)'
    BY <1>4, <1>5, <1>i DEF Walks, Stream, Early, After, Answered, StreamOnly
  <1>sends. Sends(c)'
    BY <1>4, <1>5, <1>i DEF Sends, After, Answered, Clean, Stands, Ended, Stream
  <1>claims. Claims(c)'
    BY <1>4, <1>5, <1>i DEF Claims, Holding, Owns, Stream, Clean, Stands
  <1>settles. Settles(c)'
    BY <1>4, <1>5, <1>i DEF Settles, Owns, Stream, Done, At
  <1>delivers. Delivers(c)'
    BY <1>4, <1>5, <1>i DEF Delivers, Stream, Done, At
  <1> QED BY <1>frame, <1>walks, <1>sends, <1>claims, <1>settles, <1>delivers DEF Good, Sane

LEMMA MarkTerminalKeeps ==
    ASSUME ChatInv, NEW c \in Calls, MarkTerminal(c)
    PROVE  Good(c)
  <1>0. /\ Typed /\ NobodyMeansNone /\ Sane(c) /\ call[c] \in CallStates
        /\ wire[c] \in Responses /\ fate[c] \in [Attempts -> Fates]
        /\ occupancy[c] \in Occupancies /\ call[c].key \in Keys /\ call[c].acc \in Accounts
    BY TypedAt DEF ChatInv
  <1>1. PICK pc \in {"release claim", "reconcile", "track"} :
           /\ Go(c, pc)
           /\ pc = IF ~call[c].opened THEN "release claim"
                   ELSE IF UpstreamStopped(call[c].term) THEN "reconcile" ELSE "track"
    BY DEF MarkTerminal
  <1>2. Marked(c) \in Registered
    BY <1>0, TypedAt DEF Marked, Registered
  <1>3. call'[c] = [call[c] EXCEPT !.pc = pc]
    BY <1>0, <1>1, Going DEF Places
  <1>4. /\ call[c].pc = "mark" /\ pc \in {"release claim", "reconcile", "track"}
        /\ pc = "release claim" <=> ~call[c].opened
        /\ UNCHANGED <<wire, fate, disowned, replay, occupancy, lease, residual>>
    BY <1>1 DEF MarkTerminal, At
  <1>frame. Typed' /\ NobodyMeansNone' /\ OthersKept(c)
    BY <1>0, <1>1, <1>2, Going DEF Typed, NobodyMeansNone, OthersKept, MarkTerminal, Places
  <1>walks. Walks(c)'
    BY <1>0, <1>3, <1>4 DEF CallStates, Sane, Walks, Stream, Early, After, Answered,
       StreamOnly
  <1>sends. Sends(c)'
    BY <1>0, <1>3, <1>4 DEF CallStates, Sane, Sends, After, Answered, Clean, Stands, Ended, Stream
  <1>claims. Claims(c)'
    BY <1>0, <1>3, <1>4 DEF CallStates, Sane, Claims, Holding, Owns, Stream, Clean, Stands
  <1>settles. Settles(c)'
    BY <1>0, <1>3, <1>4 DEF CallStates, Sane, Settles, Owns, Stream, Done, At
  <1>delivers. Delivers(c)'
    BY <1>0, <1>3, <1>4 DEF CallStates, Sane, Delivers, Stream, Done, At, Early, After,
       Answered
  <1> QED BY <1>frame, <1>walks, <1>sends, <1>claims, <1>settles, <1>delivers DEF Good, Sane

LEMMA TrackKeeps ==
    ASSUME ChatInv, NEW c \in Calls, Track(c)
    PROVE  Good(c)
  <1>0. /\ Typed /\ NobodyMeansNone /\ Sane(c) /\ call[c] \in CallStates
        /\ wire[c] \in Responses /\ fate[c] \in [Attempts -> Fates]
        /\ occupancy[c] \in Occupancies /\ call[c].key \in Keys /\ call[c].acc \in Accounts
    BY TypedAt DEF ChatInv
  <1>1. PICK t \in BOOLEAN :
           /\ Becomes(c, [call[c] EXCEPT !.tracked = t, !.pc = "drain"])
           /\ \/ t /\ residual' = residual \cup {c}
              \/ t = call[c].tracked /\ residual' = residual
    <2>0. call[c].tracked \in BOOLEAN
      BY <1>0 DEF CallStates
    <2>1. Go(c, "drain") => Becomes(c, [call[c] EXCEPT !.tracked = call[c].tracked, !.pc = "drain"])
      BY <1>0 DEF Go, Becomes, CallStates
    <2> QED BY <2>0, <2>1 DEF Track
  <1>2. [call[c] EXCEPT !.tracked = t, !.pc = "drain"] \in CallStates
    BY <1>0 DEF CallStates, Places
  <1>3. call'[c] = [call[c] EXCEPT !.tracked = t, !.pc = "drain"]
    BY <1>0, <1>1, <1>2, Becoming
  <1>4. /\ call[c].pc = "track"
        /\ UNCHANGED <<wire, fate, disowned, replay, occupancy, lease>>
    BY DEF Track, At
  <1>5. residual' = residual \/ residual' = residual \cup {c}
    BY <1>1
  <1>6. faults' \in 0 .. MaxFaults /\ setup' \in Setups
    BY <1>0, ChatAssumption DEF Track, Fails, NoFault, Typed
  <1>7. residual' \subseteq Calls
    BY <1>0, <1>5 DEF Typed
  <1>frame. Typed' /\ NobodyMeansNone' /\ OthersKept(c)
    BY <1>0, <1>1, <1>2, <1>5, <1>6, <1>7, Becoming DEF Typed, NobodyMeansNone, OthersKept, Track
  <1>walks. Walks(c)'
    BY <1>0, <1>1, <1>3, <1>4, <1>5 DEF CallStates, Sane, Walks, Stream, Early, After,
       Answered, StreamOnly
  <1>sends. Sends(c)'
    BY <1>0, <1>1, <1>3, <1>4, <1>5 DEF CallStates, Sane, Sends, After, Answered, Clean, Stands,
       Ended, Stream
  <1>claims. Claims(c)'
    BY <1>0, <1>1, <1>3, <1>4, <1>5 DEF CallStates, Sane, Claims, Holding, Owns, Stream,
       Clean, Stands
  <1>settles. Settles(c)'
    BY <1>0, <1>1, <1>3, <1>4, <1>5 DEF CallStates, Sane, Settles, Owns, Stream, Done, At,
       Walks
  <1>delivers. Delivers(c)'
    BY <1>0, <1>1, <1>3, <1>4, <1>5 DEF CallStates, Sane, Delivers, Stream, Done, At, Early,
       After, Answered
  <1> QED BY <1>frame, <1>walks, <1>sends, <1>claims, <1>settles, <1>delivers DEF Good, Sane

LEMMA RefusedKeeps ==
    ASSUME ChatInv, NEW c \in Calls, Refused(c)
    PROVE  Good(c)
  <1>0. /\ Typed /\ NobodyMeansNone /\ Sane(c) /\ call[c] \in CallStates
        /\ wire[c] \in Responses /\ fate[c] \in [Attempts -> Fates]
        /\ occupancy[c] \in Occupancies /\ call[c].key \in Keys /\ call[c].acc \in Accounts
    BY TypedAt DEF ChatInv
  <1>1. PICK me \in {call[c], Hurt(c)} : Becomes(c, Over(me))
    BY DEF Refused
  <1>2. /\ me \in CallStates
        /\ me.kind = call[c].kind /\ me.key = call[c].key /\ me.at = call[c].at
        /\ me.opened = call[c].opened /\ me.term = call[c].term
        /\ call[c].hurt => me.hurt
    BY <1>0, <1>1, Hurting DEF CallStates
  <1>3. /\ call'[c].pc = "done" /\ call'[c].kind = call[c].kind /\ call'[c].key = call[c].key
        /\ call'[c].at = call[c].at /\ call'[c].opened = call[c].opened
        /\ call'[c].term.code = call[c].term.code
        /\ Spent(call'[c].left) /\ ~call'[c].leased /\ ~call'[c].tracked
        /\ ~call'[c].confirmed /\ call'[c].open = "no" /\ call'[c].got = 0
        /\ call[c].hurt => call'[c].hurt
    BY <1>0, <1>1, <1>2, Overing
  <1>a. /\ call[c].pc \in {"admit", "select"} /\ call[c].at = 0 /\ ~call[c].opened
        /\ call[c].hurt \/ c \notin residual
    BY <1>0 DEF Refused, Sane, Walks, Settles, Early, After
  <1>b. /\ occupancy[c] # "known" /\ wire[c].deltas \in 0 .. MaxDeltas
        /\ wire[c].deltas = wire[c].late /\ Bounded(wire[c]) /\ ~Timely(wire[c])
        /\ AtMostOne(wire[c].by) /\ (wire[c].order = "awaiting" => wire[c].by = {} /\ wire[c].deltas = 0)
    BY <1>0, AllLate DEF Refused, Sane, Delivers, Settles, Early, Responses
  <1>n. call' \in [Calls -> CallStates] /\ \A d \in Calls \ {c} : call'[d] = call[d]
    BY <1>0, <1>1, <1>2, Overing
  <1>4. Owns(c) /\ call[c].pc \in {"admit", "select"}
    BY <1>0 DEF Refused, Sane, Claims, Holding
  <1>r. replay' \in [Keys -> Entries] /\ NobodyMeansNone'
    BY <1>0, <1>4, Abandoning DEF Refused, Typed, NobodyMeansNone
  <1>5. /\ replay'[call[c].key] \in {Unclaimed, replay[call[c].key]}
        /\ \A k \in Keys \ {call[c].key} : replay'[k] = replay[k]
    BY <1>0, <1>4, Abandoning DEF Refused, Typed, NobodyMeansNone
  <1>6. Unclaimed.by = NoCall /\ Unclaimed.state = "none" /\ c # NoCall
    BY ChatAssumption DEF Unclaimed
  <1>v. wire' \in [Calls -> Responses] /\ \A d \in Calls \ {c} : wire'[d] = wire[d]
    BY <1>0, Answering DEF Refused
  <1>7. /\ wire'[c].order = wire[c].order /\ wire'[c].deltas = wire[c].deltas
        /\ wire'[c].by = wire[c].by
        /\ Timely(wire'[c]) <=> Timely(wire[c])
        /\ Bounded(wire'[c]) <=> Bounded(wire[c])
        /\ \A n : Tells(n, wire'[c]) <=> Tells(n, wire[c])
    BY <1>0, Answering DEF Refused
  <1>o. /\ occupancy' \in [Calls -> Occupancies]
        /\ \A d \in Calls \ {c} : occupancy'[d] = occupancy[d]
    BY <1>0 DEF Refused, Typed, Occupancies
  <1>8. occupancy'[c] \in {occupancy[c], "none"}
    BY <1>0 DEF Refused, Typed, Occupancies
  <1>e. /\ Clean(c)
        /\ \A k \in Keys : replay[k].by = c => k = call[c].key /\ replay[k].kind = call[c].kind
    BY <1>0, <1>a DEF Sane, Sends, Claims, Clean, Stands, Attempts
  <1>9. UNCHANGED <<lease, residual, fate, disowned>>
    BY DEF Refused
  <1>frame. Typed' /\ NobodyMeansNone' /\ OthersKept(c)
    BY <1>0, <1>n, <1>r, <1>4, <1>5, <1>6, <1>v, <1>o DEF Typed, OthersKept, Owns, Refused
  <1>walks. Walks(c)'
    BY <1>0, <1>3, <1>a, <1>b, <1>7 DEF Walks, Stream, Early, After, Answered, StreamOnly
  <1>sends. Sends(c)'
    BY <1>0, <1>3, <1>4, <1>9 DEF CallStates, Sane, Sends, After, Answered, Clean, Stands, Ended,
       Stream
  <1>claims. Claims(c)'
    BY <1>0, <1>3, <1>4, <1>5, <1>6, <1>9, <1>e DEF Claims, Holding, Owns, Stream, Clean, Stands
  <1>settles. Settles(c)'
    BY <1>3, <1>a, <1>b, <1>8, <1>9 DEF Settles, Stream, Done, At
  <1>delivers. Delivers(c)'
    BY <1>3, <1>4, <1>5, <1>6, <1>a, <1>b, <1>7 DEF Delivers, Stream, Done, At, Early,
       After, Answered, Owns
  <1> QED BY <1>frame, <1>walks, <1>sends, <1>claims, <1>settles, <1>delivers DEF Good, Sane

LEMMA AdmittedKeeps ==
    ASSUME ChatInv, NEW c \in Calls, At(c, "admit"), Go(c, "select"),
           occupancy' = [occupancy EXCEPT ![c] = "held"],
           UNCHANGED <<setup, replay, lease, residual, registry, wire, fate, disowned, faults>>
    PROVE  Good(c)
  <1>0. /\ Typed /\ NobodyMeansNone /\ Sane(c) /\ call[c] \in CallStates
        /\ wire[c] \in Responses /\ fate[c] \in [Attempts -> Fates]
        /\ occupancy[c] \in Occupancies /\ call[c].key \in Keys /\ call[c].acc \in Accounts
    BY TypedAt DEF ChatInv
  <1>2. call'[c] = [call[c] EXCEPT !.pc = "select"]
    BY <1>0, Going DEF Places
  <1>3. call' \in [Calls -> CallStates] /\ \A d \in Calls \ {c} : call'[d] = call[d]
    BY <1>0, Going DEF Places
  <1>4. /\ occupancy' \in [Calls -> Occupancies] /\ \A d \in Calls \ {c} : occupancy'[d] = occupancy[d]
    BY <1>0 DEF Typed, Occupancies
  <1>5. /\ call[c].pc = "admit" /\ occupancy'[c] = "held"
        /\ UNCHANGED <<wire, fate, disowned, replay, lease, residual>>
    BY <1>0 DEF Typed, At
  <1>frame. Typed' /\ NobodyMeansNone' /\ OthersKept(c)
    BY <1>0, <1>3, <1>4, <1>5 DEF Typed, NobodyMeansNone, OthersKept
  <1>6. ~call[c].tracked
    BY <1>0, <1>5 DEF Sane, Walks, Early
  <1>walks. Walks(c)'
    BY <1>0, <1>2, <1>5 DEF CallStates, Sane, Walks, Stream, Early, After, Answered,
       StreamOnly
  <1>sends. Sends(c)'
    BY <1>0, <1>2, <1>5 DEF CallStates, Sane, Sends, After, Answered, Clean, Stands, Ended, Stream
  <1>claims. Claims(c)'
    BY <1>0, <1>2, <1>5 DEF CallStates, Sane, Claims, Holding, Owns, Stream, Clean, Stands
  <1>settles. Settles(c)'
    BY <1>0, <1>2, <1>5, <1>6 DEF CallStates, Sane, Settles, Owns, Stream, Done, At
  <1>delivers. Delivers(c)'
    BY <1>0, <1>2, <1>5 DEF CallStates, Sane, Delivers, Stream, Done, At, Early, After,
       Answered
  <1> QED BY <1>frame, <1>walks, <1>sends, <1>claims, <1>settles, <1>delivers DEF Good, Sane

LEMMA SelectedKeeps ==
    ASSUME ChatInv, NEW c \in Calls, NEW a \in Accounts, At(c, "select"), AcquireStreamLease(c, a),
           Becomes(c, [call[c] EXCEPT !.acc = a, !.leased = LeasesStream(c), !.pc = "plan"]),
           UNCHANGED <<setup, replay, occupancy, residual, registry, wire, fate, disowned, faults>>
    PROVE  Good(c)
  <1>0. /\ Typed /\ NobodyMeansNone /\ Sane(c) /\ call[c] \in CallStates
        /\ wire[c] \in Responses /\ fate[c] \in [Attempts -> Fates]
        /\ occupancy[c] \in Occupancies /\ call[c].key \in Keys /\ call[c].acc \in Accounts
    BY TypedAt DEF ChatInv
  <1>1. LeasesStream(c) \in BOOLEAN /\ (LeasesStream(c) => Stream(c)) /\ c # NoCall
    BY <1>0, ChatAssumption DEF LeasesStream, Typed
  <1>2. [call[c] EXCEPT !.acc = a, !.leased = LeasesStream(c), !.pc = "plan"] \in CallStates
    BY <1>0, <1>1 DEF CallStates, Places
  <1>3. call'[c] = [call[c] EXCEPT !.acc = a, !.leased = LeasesStream(c), !.pc = "plan"]
    BY <1>0, <1>2, Becoming
  <1>4. /\ call[c].pc = "select" /\ (LeasesStream(c) => lease'[a] = c)
        /\ UNCHANGED <<wire, fate, disowned, replay, occupancy, residual>>
    BY <1>0 DEF Typed, At, AcquireStreamLease, LeaseAcquired
  <1>5. \A x \in Accounts : lease'[x] = lease[x] \/ (lease[x] = NoCall /\ lease'[x] = c)
    BY <1>0 DEF Typed, AcquireStreamLease, LeaseAcquired
  <1>6. lease' \in [Accounts -> Calls \cup {NoCall}]
    BY <1>0 DEF Typed, AcquireStreamLease, LeaseAcquired
  <1>frame. Typed' /\ NobodyMeansNone' /\ OthersKept(c)
    BY <1>0, <1>2, <1>5, <1>6, Becoming DEF Typed, NobodyMeansNone, OthersKept
  <1>7. call[c].at = 0 /\ Spent(call[c].left) /\ ~call[c].tracked
    BY <1>0, <1>4 DEF Sane, Walks, Early
  <1>walks. Walks(c)'
    BY <1>0, <1>1, <1>3, <1>4, <1>7 DEF CallStates, Sane, Walks, Stream, Early, After,
       Answered, StreamOnly
  <1>sends. Sends(c)'
    BY <1>0, <1>3, <1>4 DEF CallStates, Sane, Sends, After, Answered, Clean, Stands, Ended, Stream
  <1>claims. Claims(c)'
    BY <1>0, <1>3, <1>4 DEF CallStates, Sane, Claims, Holding, Owns, Stream, Clean, Stands
  <1>settles. Settles(c)'
    BY <1>0, <1>3, <1>4, <1>7 DEF CallStates, Sane, Settles, Owns, Stream, Done, At
  <1>delivers. Delivers(c)'
    BY <1>0, <1>3, <1>4 DEF CallStates, Sane, Delivers, Stream, Done, At, Early, After,
       Answered
  <1> QED BY <1>frame, <1>walks, <1>sends, <1>claims, <1>settles, <1>delivers DEF Good, Sane

LEMMA PlanKeeps ==
    ASSUME ChatInv, NEW c \in Calls, Plan(c)
    PROVE  Good(c)
  <1>0. /\ Typed /\ NobodyMeansNone /\ Sane(c) /\ call[c] \in CallStates
        /\ wire[c] \in Responses /\ fate[c] \in [Attempts -> Fates]
        /\ occupancy[c] \in Occupancies /\ call[c].key \in Keys /\ call[c].acc \in Accounts
    BY TypedAt DEF ChatInv
  <1>1. PICK left \in SUBSET Accounts : /\ AtMostOne(left) /\ (call[c].leased => Spent(left))
                                        /\ Becomes(c, [call[c] EXCEPT !.left = left, !.pc = "attempt"])
    <2>1. ASSUME NEW L \in AttemptAccounts(c)
          PROVE  L \in SUBSET Accounts /\ AtMostOne(L)
      <3>1. setup.fallbacks \in 0 .. 1 /\ setup.accounts \subseteq Accounts
        BY <1>0, ChatAssumption DEF Typed, MaxFallbacks
      <3>2. L \in SUBSET Accounts /\ Cardinality(L) <= setup.fallbacks
        BY <3>1 DEF AttemptAccounts, Passing
      <3>3. Cardinality(L) \in Nat
        BY <3>2, ChatAssumption, FS_Subset, FS_CardinalityType
      <3>4. Cardinality(L) <= 1
        BY <3>1, <3>2, <3>3
      <3> QED BY <3>2, <3>4, FewAccounts
    <2>2. call[c].leased => Stream(c)
      BY <1>0 DEF Sane, Walks
    <2>3. CASE call[c].leased
      BY <2>2, <2>3 DEF Plan, StreamAttempts, AtMostOne, Spent
    <2>4. CASE ~call[c].leased
      BY <2>1, <2>4 DEF Plan, StreamAttempts
    <2> QED BY <2>3, <2>4
  <1>2. [call[c] EXCEPT !.left = left, !.pc = "attempt"] \in CallStates
    BY <1>0 DEF CallStates, Places
  <1>3. call'[c] = [call[c] EXCEPT !.left = left, !.pc = "attempt"]
    BY <1>0, <1>1, <1>2, Becoming
  <1>4. /\ call[c].pc = "plan"
        /\ UNCHANGED <<wire, fate, disowned, replay, occupancy, lease, residual>>
    BY DEF Plan, At
  <1>5. registry' \in [Calls -> Registered]
    BY <1>0 DEF Typed, Plan, Register, Registered
  <1>frame. Typed' /\ NobodyMeansNone' /\ OthersKept(c)
    BY <1>0, <1>1, <1>2, <1>5, Becoming DEF Typed, NobodyMeansNone, OthersKept, Plan
  <1>6. call[c].at = 0 /\ ~call[c].tracked
    BY <1>0, <1>4 DEF Sane, Walks, Early
  <1>7. Clean(c)
    BY <1>0, <1>6 DEF Sane, Sends, Clean, Stands, Attempts
  <1>walks. Walks(c)'
    BY <1>0, <1>1, <1>3, <1>4, <1>6 DEF CallStates, Sane, Walks, Stream, Early, After,
       Answered, StreamOnly
  <1>sends. Sends(c)'
    BY <1>0, <1>3, <1>4, <1>7 DEF CallStates, Sane, Sends, After, Answered, Clean, Stands, Ended,
       Stream
  <1>claims. Claims(c)'
    BY <1>0, <1>3, <1>4 DEF CallStates, Sane, Claims, Holding, Owns, Stream, Clean, Stands
  <1>settles. Settles(c)'
    BY <1>0, <1>3, <1>4, <1>6 DEF CallStates, Sane, Settles, Owns, Stream, Done, At
  <1>delivers. Delivers(c)'
    BY <1>0, <1>3, <1>4, <1>6 DEF CallStates, Sane, Delivers, Stream, Done, At, Early, After,
       Answered
  <1> QED BY <1>frame, <1>walks, <1>sends, <1>claims, <1>settles, <1>delivers DEF Good, Sane

LEMMA EnteredKeeps ==
    ASSUME ChatInv, NEW c \in Calls, NEW k \in Keys, NEW kind \in Kinds, At(c, "idle"),
           Claimed(replay[k], kind) = "claimed",
           replay' = [replay EXCEPT ![k] =
               [Unclaimed EXCEPT !.state = "claimed", !.kind = kind, !.by = c]],
           Becomes(c, [[Fresh EXCEPT !.kind = kind, !.key = k] EXCEPT !.pc = "admit"]),
           UNCHANGED <<setup, occupancy, lease, residual, registry, wire, fate, disowned, faults>>
    PROVE  Good(c)
  <1>0. /\ Typed /\ NobodyMeansNone /\ Sane(c) /\ call[c] \in CallStates
        /\ wire[c] \in Responses /\ fate[c] \in [Attempts -> Fates]
        /\ occupancy[c] \in Occupancies /\ call[c].key \in Keys /\ call[c].acc \in Accounts
    BY TypedAt DEF ChatInv
  <1> DEFINE me == [Fresh EXCEPT !.kind = kind, !.key = k, !.pc = "admit"]
  <1>1. me \in CallStates
    BY FreshTyped DEF CallStates, Places, Kinds
  <1>2. call'[c] = me /\ call' \in [Calls -> CallStates] /\ \A d \in Calls \ {c} : call'[d] = call[d]
    BY <1>0, <1>1, Becoming
  <1>3. /\ call'[c].pc = "admit" /\ call'[c].kind = kind /\ call'[c].key = k /\ call'[c].at = 0
        /\ Spent(call'[c].left) /\ ~call'[c].leased /\ ~call'[c].tracked /\ ~call'[c].confirmed
        /\ ~call'[c].opened /\ call'[c].got = 0 /\ call'[c].open = "no"
    BY <1>2 DEF Fresh, Spent
  <1>4. /\ [Unclaimed EXCEPT !.state = "claimed", !.kind = kind, !.by = c] \in Entries /\ c # NoCall
    <2>1. 0 \in 0 .. MaxDeltas
      BY ChatAssumption
    <2> QED BY <2>1, ChatAssumption DEF Unclaimed, Entries, Events
  <1>5. /\ replay[k].state = "none" /\ replay[k].by = NoCall
    BY <1>0 DEF Claimed, NobodyMeansNone
  <1>6. /\ replay'[k].state = "claimed" /\ replay'[k].kind = kind /\ replay'[k].by = c
        /\ \A x \in Keys \ {k} : replay'[x] = replay[x]
    BY <1>0 DEF Typed, Unclaimed
  <1>7. replay' \in [Keys -> Entries]
    BY <1>0, <1>4 DEF Typed
  <1>8. NobodyMeansNone'
    BY <1>0, <1>4, <1>6 DEF NobodyMeansNone
  <1>9. UNCHANGED <<wire, fate, disowned, occupancy, lease, residual>>
    OBVIOUS
  <1> HIDE DEF me
  <1>frame. Typed' /\ NobodyMeansNone' /\ OthersKept(c)
    BY <1>0, <1>2, <1>5, <1>6, <1>7, <1>8 DEF Typed, OthersKept
  <1>a. /\ call[c].pc = "idle" /\ Clean(c) /\ wire[c].deltas = 0 /\ wire[c].by = {}
        /\ wire[c].order = "awaiting" /\ c \notin residual /\ occupancy[c] # "known"
        /\ \A x \in Keys : replay[x].by # c
    BY <1>0 DEF At, Sane, Walks, Claims, Settles
  <1>b. wire[c].deltas = wire[c].late /\ Bounded(wire[c]) /\ ~Timely(wire[c])
    BY <1>0, <1>a, AllLate DEF Sane, Delivers, Early
  <1>walks. Walks(c)'
    BY <1>3, <1>9, <1>a DEF Walks, Stream, Early, After, Answered, StreamOnly
  <1>sends. Sends(c)'
    BY <1>3, <1>9, <1>a DEF Sends, After, Answered, Clean, Stands, Ended, Stream
  <1>claims. Claims(c)'
    BY <1>3, <1>6, <1>9, <1>a DEF Claims, Holding, Owns, Stream, Clean, Stands
  <1>settles. Settles(c)'
    BY <1>3, <1>9, <1>a DEF Settles, Owns, Stream, Done, At
  <1>delivers. Delivers(c)'
    BY <1>3, <1>6, <1>9, <1>a, <1>b DEF Delivers, Stream, Done, At, Early, After, Answered,
       AtMostOne
  <1> QED BY <1>frame, <1>walks, <1>sends, <1>claims, <1>settles, <1>delivers DEF Good, Sane

LEMMA TurnedAwayKeeps ==
    ASSUME ChatInv, NEW c \in Calls, NEW k \in Keys, NEW kind \in Kinds, At(c, "idle"),
           Becomes(c, Over([Fresh EXCEPT !.kind = kind, !.key = k])),
           StreamReplay(c, replay[k]) \/ AnswersHTTP(c),
           UNCHANGED <<setup, replay, occupancy, lease, residual, registry, fate, disowned, faults>>
    PROVE  Good(c)
  <1>0. /\ Typed /\ NobodyMeansNone /\ Sane(c) /\ call[c] \in CallStates
        /\ wire[c] \in Responses /\ fate[c] \in [Attempts -> Fates]
        /\ occupancy[c] \in Occupancies /\ call[c].key \in Keys /\ call[c].acc \in Accounts
    BY TypedAt DEF ChatInv
  <1> DEFINE me == [Fresh EXCEPT !.kind = kind, !.key = k]
  <1>1. me \in CallStates
    BY FreshTyped DEF CallStates, Kinds
  <1>2. /\ me.kind = kind /\ me.key = k /\ me.at = 0 /\ ~me.opened
    BY DEF Fresh
  <1> HIDE DEF me
  <1>3. /\ call'[c].pc = "done" /\ call'[c].kind = kind /\ call'[c].key = k
        /\ call'[c].at = 0 /\ ~call'[c].opened
        /\ Spent(call'[c].left) /\ ~call'[c].leased /\ ~call'[c].tracked
        /\ ~call'[c].confirmed /\ call'[c].open = "no" /\ call'[c].got = 0
    BY <1>0, <1>1, <1>2, Overing DEF me
  <1>4. call' \in [Calls -> CallStates] /\ \A d \in Calls \ {c} : call'[d] = call[d]
    BY <1>0, <1>1, Overing DEF me
  <1>a. /\ call[c].pc = "idle" /\ Clean(c) /\ wire[c].deltas = 0 /\ wire[c].by = {}
        /\ wire[c].order = "awaiting" /\ c \notin residual /\ occupancy[c] # "known"
        /\ \A x \in Keys : replay[x].by # c
    BY <1>0 DEF At, Sane, Walks, Claims, Settles
  <1>b. Bounded(wire[c]) /\ ~Timely(wire[c])
    BY <1>0, <1>a, AllLate DEF Sane, Delivers, Early
  <1>5. wire' \in [Calls -> Responses] /\ \A d \in Calls \ {c} : wire'[d] = wire[d]
    <2>1. CASE StreamReplay(c, replay[k])
      <3>1. replay[k].content \in 0 .. MaxDeltas /\ replay[k].end \in Events
        BY <1>0 DEF Typed, Entries
      <3>2. 0 \in 0 .. MaxDeltas
        BY ChatAssumption
      <3> QED BY <1>0, <2>1, <3>1, <3>2 DEF StreamReplay, Typed, Responses
    <2> QED BY <1>0, <2>1, Answering
  <1>6. /\ wire'[c].by = {} /\ 0 <= wire'[c].deltas /\ Bounded(wire'[c])
        /\ Timely(wire'[c]) => wire'[c].order = "closed"
        /\ \/ wire'[c].order = "closed"
           \/ wire'[c].order = "awaiting" /\ wire'[c].deltas = 0
    <2>1. CASE StreamReplay(c, replay[k])
      <3>1. replay[k].content \in 0 .. MaxDeltas
        BY <1>0 DEF Typed, Entries
      <3>2. /\ wire'[c].by = {} /\ wire'[c].late = 0 /\ wire'[c].order = "closed"
            /\ wire'[c].deltas = replay[k].content
        BY <1>0, <2>1, <3>1 DEF StreamReplay, Typed, Responses
      <3> QED BY <3>1, <3>2, ChatAssumption DEF Bounded
    <2>2. CASE AnswersHTTP(c)
      BY <1>0, <1>a, <1>b, <2>2, Answering
    <2> QED BY <2>1, <2>2
  <1>9. UNCHANGED <<replay, fate, disowned, occupancy, lease, residual>>
    OBVIOUS
  <1>frame. Typed' /\ NobodyMeansNone' /\ OthersKept(c)
    BY <1>0, <1>4, <1>5 DEF Typed, OthersKept, NobodyMeansNone
  <1>walks. Walks(c)'
    BY <1>3, <1>6, <1>9, <1>a DEF Walks, Stream, Early, After, Answered, StreamOnly
  <1>sends. Sends(c)'
    BY <1>3, <1>9, <1>a DEF Sends, After, Answered, Clean, Stands, Ended, Stream
  <1>claims. Claims(c)'
    BY <1>0, <1>3, <1>9, <1>a DEF Claims, Holding, Owns, Stream, Clean, Stands
  <1>settles. Settles(c)'
    BY <1>0, <1>3, <1>9, <1>a DEF Settles, Owns, Stream, Done, At
  <1>delivers. Delivers(c)'
    BY <1>0, <1>3, <1>6, <1>9, <1>a DEF Delivers, Stream, Done, At, Early, After, Answered,
       AtMostOne
  <1> QED BY <1>frame, <1>walks, <1>sends, <1>claims, <1>settles, <1>delivers DEF Good, Sane

LEMMA AdvancingKeeps ==
    ASSUME ChatInv, NEW c \in Calls, NEW me, Deciding(c, me), me.left # {},
           me.term.code # "possibly", me.kind = "stream" \/ me.term.event # "completed",
           Becomes(c, Advanced(me)),
           UNCHANGED <<setup, replay, occupancy, lease, residual, registry, wire, fate, disowned, faults>>
    PROVE  Good(c)
  <1>0. /\ Typed /\ NobodyMeansNone /\ Sane(c) /\ call[c] \in CallStates
        /\ wire[c] \in Responses /\ fate[c] \in [Attempts -> Fates]
        /\ occupancy[c] \in Occupancies /\ call[c].key \in Keys /\ call[c].acc \in Accounts
    BY TypedAt DEF ChatInv
  <1> DEFINE a == CHOOSE x \in me.left : TRUE
             n == [me EXCEPT !.acc = a, !.left = @ \ {a}, !.pc = "attempt"]
  <1>1. a \in me.left /\ me.left \in SUBSET Accounts
    BY DEF Deciding, CallStates
  <1>2. n \in CallStates
    BY <1>1 DEF CallStates, Places, Deciding
  <1>3. call'[c] = n /\ call' \in [Calls -> CallStates] /\ \A d \in Calls \ {c} : call'[d] = call[d]
    BY <1>0, <1>2, Becoming DEF Advanced
  <1>4. /\ call'[c].pc = "attempt" /\ call'[c].kind = me.kind /\ call'[c].key = me.key
        /\ call'[c].left = me.left \ {a} /\ call'[c].leased = me.leased
        /\ call'[c].tracked = me.tracked /\ call'[c].hurt = me.hurt
        /\ call'[c].opened = me.opened /\ call'[c].confirmed = me.confirmed
        /\ call'[c].at = me.at /\ call'[c].sealed = me.sealed /\ call'[c].open = me.open
        /\ call'[c].got = me.got
    BY <1>3 DEF Deciding, CallStates
  <1> HIDE DEF n, a
  <1>5. Spent(me.left \ {a}) /\ me.at = 1 /\ ~me.leased
    BY <1>0, <1>1 DEF Deciding, AtMostOne, Spent, Sane, Walks
  <1>6. Clean(c)
    BY <1>0 DEF Deciding, CarriesUsage
  <1>7. /\ Owns(c) /\ c # NoCall /\ occupancy[c] # "known"
        /\ call[c].hurt \/ c \notin residual
        /\ call[c].tracked /\ occupancy[c] = "held" => c \in residual
    BY <1>0, ChatAssumption DEF Deciding, Sane, Claims, Holding, Settles
  <1>8. /\ AtMostOne(wire[c].by) /\ (wire[c].order = "awaiting" => wire[c].by = {} /\ wire[c].deltas = 0)
        /\ ~Timely(wire[c]) /\ Bounded(wire[c])
    BY <1>0, AllLate DEF Sane, Delivers, Deciding
  <1>9. \A k \in Keys : replay[k].by = c => k = call[c].key /\ replay[k].kind = call[c].kind
    BY <1>0 DEF Sane, Claims
  <1>b. UNCHANGED <<wire, fate, disowned, replay, occupancy, lease, residual>>
    OBVIOUS
  <1>k. call'[c].kind = call[c].kind /\ call'[c].key = call[c].key /\ ~call'[c].leased
    BY <1>4, <1>5 DEF Deciding
  <1>frame. Typed' /\ NobodyMeansNone' /\ OthersKept(c)
    BY <1>0, <1>3 DEF Typed, OthersKept, NobodyMeansNone
  <1>walks. Walks(c)'
    BY <1>4, <1>5, <1>8, <1>b, <1>k DEF Walks, Stream, Early, After, Answered, StreamOnly,
       Deciding
  <1>sends. Sends(c)'
    BY <1>4, <1>6, <1>8, <1>b, <1>k DEF Sends, After, Answered, Clean, Stands, Ended, Stream,
       Deciding
  <1>claims. Claims(c)'
    BY <1>4, <1>6, <1>7, <1>9, <1>b, <1>k DEF Claims, Holding, Owns, Stream, Clean, Stands
  <1>settles. Settles(c)'
    BY <1>4, <1>5, <1>7, <1>b, <1>k DEF Settles, Owns, Stream, Done, At, Deciding
  <1>delivers. Delivers(c)'
    BY <1>4, <1>5, <1>7, <1>8, <1>b, <1>k DEF Delivers, Stream, Done, At, Early, After,
       Answered, Deciding, Owns
  <1> QED BY <1>frame, <1>walks, <1>sends, <1>claims, <1>settles, <1>delivers DEF Good, Sane

LEMMA WalkOverKeeps ==
    ASSUME ChatInv, NEW c \in Calls, NEW me, NEW pc, Deciding(c, me),
           pc = IF me.kind = "stream" THEN "mark" ELSE "reconcile",
           Becomes(c, [me EXCEPT !.pc = pc]),
           UNCHANGED <<setup, replay, occupancy, lease, residual, registry, wire, fate, disowned, faults>>
    PROVE  Good(c)
  <1>0. /\ Typed /\ NobodyMeansNone /\ Sane(c) /\ call[c] \in CallStates
        /\ wire[c] \in Responses /\ fate[c] \in [Attempts -> Fates]
        /\ occupancy[c] \in Occupancies /\ call[c].key \in Keys /\ call[c].acc \in Accounts
    BY TypedAt DEF ChatInv
  <1>1. [me EXCEPT !.pc = pc] \in CallStates
    BY DEF CallStates, Places, Deciding
  <1>3. call'[c] = [me EXCEPT !.pc = pc] /\ call' \in [Calls -> CallStates]
        /\ \A d \in Calls \ {c} : call'[d] = call[d]
    BY <1>0, <1>1, Becoming
  <1>4. /\ call'[c].pc = pc /\ call'[c].kind = me.kind /\ call'[c].key = me.key
        /\ call'[c].acc = me.acc
        /\ call'[c].left = me.left /\ call'[c].leased = me.leased /\ call'[c].term = me.term
        /\ call'[c].tracked = me.tracked /\ call'[c].hurt = me.hurt
        /\ call'[c].opened = me.opened /\ call'[c].confirmed = me.confirmed
        /\ call'[c].at = me.at /\ call'[c].sealed = me.sealed /\ call'[c].open = me.open
        /\ call'[c].got = me.got
    BY <1>3 DEF Deciding, CallStates
  <1>7. /\ Owns(c) /\ c # NoCall /\ occupancy[c] # "known"
        /\ call[c].hurt \/ c \notin residual
        /\ call[c].tracked /\ occupancy[c] = "held" => c \in residual
        /\ call[c].leased => lease[call[c].acc] = c /\ Stream(c) /\ Spent(call[c].left)
    <2>1. call[c].leased => lease[call[c].acc] = c /\ Stream(c) /\ Spent(call[c].left)
      BY <1>0 DEF Deciding, Sane, Settles, Walks, Done, At
    <2>2. Owns(c) /\ occupancy[c] # "known"
      BY <1>0 DEF Deciding, Sane, Claims, Holding, Settles
    <2>3. /\ call[c].hurt \/ c \notin residual
          /\ call[c].tracked /\ occupancy[c] = "held" => c \in residual
      <3>1. call[c].pc \in {"attempt", "returned", "seal"}
        BY DEF Deciding
      <3> QED BY <1>0, <3>1 DEF Sane, Settles
    <2> QED BY <1>0, <2>1, <2>2, <2>3, ChatAssumption
  <1>8. /\ AtMostOne(wire[c].by) /\ (wire[c].order = "awaiting" => wire[c].by = {} /\ wire[c].deltas = 0)
        /\ ~Timely(wire[c]) /\ Bounded(wire[c])
    BY <1>0, AllLate DEF Sane, Delivers, Deciding
  <1>9. /\ \A k \in Keys : replay[k].by = c => k = call[c].key /\ replay[k].kind = call[c].kind
        /\ ~Clean(c) => replay[call[c].key].by = c
    BY <1>0 DEF Sane, Claims
  <1>b. UNCHANGED <<wire, fate, disowned, replay, occupancy, lease, residual>>
    OBVIOUS
  <1>k. call'[c].kind = call[c].kind /\ call'[c].key = call[c].key /\ call'[c].acc = call[c].acc
    BY <1>4 DEF Deciding
  <1>frame. Typed' /\ NobodyMeansNone' /\ OthersKept(c)
    BY <1>0, <1>3 DEF Typed, OthersKept, NobodyMeansNone
  <1>walks. Walks(c)'
    BY <1>4, <1>7, <1>8, <1>b, <1>k DEF Walks, Stream, Early, After, Answered, StreamOnly,
       Deciding
  <1>sends. Sends(c)'
    BY <1>4, <1>8, <1>b, <1>k DEF Sends, After, Answered, Clean, Stands, Ended, Stream, Deciding,
       CarriesUsage
  <1>claims. Claims(c)'
    BY <1>4, <1>7, <1>9, <1>b, <1>k DEF Claims, Holding, Owns, Stream, Clean, Stands
  <1>settles. Settles(c)'
    BY <1>4, <1>7, <1>b, <1>k DEF Settles, Owns, Stream, Done, At, Deciding
  <1>delivers. Delivers(c)'
    BY <1>4, <1>7, <1>8, <1>b, <1>k DEF Delivers, Stream, Done, At, Early, After, Answered,
       Deciding, Owns
  <1> QED BY <1>frame, <1>walks, <1>sends, <1>claims, <1>settles, <1>delivers DEF Good, Sane

LEMMA SealStreamKeeps ==
    ASSUME ChatInv, NEW c \in Calls, SealStream(c)
    PROVE  Good(c)
  <1>0. /\ Typed /\ NobodyMeansNone /\ Sane(c) /\ call[c] \in CallStates
        /\ wire[c] \in Responses /\ fate[c] \in [Attempts -> Fates]
        /\ occupancy[c] \in Occupancies /\ call[c].key \in Keys /\ call[c].acc \in Accounts
    BY TypedAt DEF ChatInv
  <1> DEFINE me == [call[c] EXCEPT !.sealed = TRUE]
  <1>1. /\ call[c].pc = "seal" /\ Stream(c) /\ ~call[c].opened /\ Owns(c)
    BY <1>0 DEF SealStream, At, Sane, Walks, StreamOnly, After, Claims, Holding
  <1>2. /\ \A i \in Attempts : i # call[c].at => ~Stands(c, i)
        /\ ~CarriesUsage(call[c].term)
        /\ call[c].term.code = "possibly" \/ ~Stands(c, call[c].at)
    BY <1>0, <1>1 DEF Sane, Sends, Answered, CarriesUsage, Disowning
  <1>3. ~call[c].confirmed /\ call[c].got <= wire[c].deltas
    BY <1>0, <1>1 DEF Sane, Walks, Sends, After, CallStates
  <1>4. /\ (call[c].at = 1 /\ AtMostOne(call[c].left)) \/ (call[c].at = 2 /\ Spent(call[c].left))
        /\ call[c].leased => call[c].at = 1
    BY <1>0, <1>1 DEF Sane, Walks, Answered
  <1>5. /\ call[c].open = "open" => wire[c].by \subseteq {call[c].at}
        /\ wire[c].deltas = wire[c].late
    BY <1>0, <1>1 DEF Sane, Delivers
  <1>6. call[c].term.code = "possibly" \/ Clean(c)
    BY <1>2 DEF Clean, Stands
  <1>7. Deciding(c, me)
    <2>1. me \in CallStates
      BY <1>0 DEF CallStates
    <2>2. /\ me.kind = "stream" /\ me.key = call[c].key /\ me.acc = call[c].acc
          /\ me.left = call[c].left /\ me.leased = call[c].leased /\ me.tracked = call[c].tracked
          /\ me.hurt = call[c].hurt /\ me.at = call[c].at
          /\ me.opened = call[c].opened /\ me.confirmed = call[c].confirmed /\ me.got = call[c].got
          /\ me.sealed /\ me.open = call[c].open /\ me.term = call[c].term /\ Stream(c)
      BY <1>0, <1>1 DEF CallStates, Stream
    <2> HIDE DEF me
    <2> QED BY <1>1, <1>2, <1>3, <1>4, <1>5, <1>6, <2>1, <2>2 DEF Deciding, Stream
  <1>8. me.kind = "stream"
    BY <1>7, <1>1 DEF Deciding, Stream
  <1>9. Becomes(c, RunStream(me))
    BY DEF SealStream
  <1>a. UNCHANGED <<setup, replay, occupancy, lease, residual, registry, wire, fate, disowned, faults>>
    BY DEF SealStream
  <1> HIDE DEF me
  <1>b. CASE me.left = {} \/ me.term.code = "possibly"
    BY <1>7, <1>8, <1>9, <1>a, <1>b, WalkOverKeeps DEF RunStream
  <1>c. CASE ~(me.left = {} \/ me.term.code = "possibly")
    BY <1>7, <1>8, <1>9, <1>a, <1>c, AdvancingKeeps DEF RunStream
  <1> QED BY <1>b, <1>c

LEMMA ClassifyOutcomeKeeps ==
    ASSUME ChatInv, NEW c \in Calls, ClassifyOutcome(c)
    PROVE  Good(c)
  <1>0. /\ Typed /\ NobodyMeansNone /\ Sane(c) /\ call[c] \in CallStates
        /\ wire[c] \in Responses /\ fate[c] \in [Attempts -> Fates]
        /\ occupancy[c] \in Occupancies /\ call[c].key \in Keys /\ call[c].acc \in Accounts
    BY TypedAt DEF ChatInv
  <1> DEFINE me == [call[c] EXCEPT !.term = Terminal(call[c])]
  <1>1. /\ call[c].pc = "returned" /\ ~Stream(c) /\ ~call[c].opened /\ Owns(c)
    BY <1>0 DEF ClassifyOutcome, At, Sane, Walks, StreamOnly, After, Claims, Holding
  <1>2. /\ \A i \in Attempts : i # call[c].at => ~Stands(c, i)
        /\ call[c].answer \in Disowning => ~Stands(c, call[c].at)
        /\ call[c].answer = "completed" => fate[c][call[c].at] = "ended"
        /\ call[c].answer # "canceled"
    BY <1>0, <1>1 DEF Sane, Sends, Answered, Ended
  <1>3. ~call[c].confirmed /\ call[c].got <= wire[c].deltas /\ call[c].open = "no" /\ call[c].got = 0
    BY <1>0, <1>1 DEF Sane, Walks, Sends, Delivers, After, CallStates
  <1>4. /\ (call[c].at = 1 /\ AtMostOne(call[c].left)) \/ (call[c].at = 2 /\ Spent(call[c].left))
        /\ call[c].leased => call[c].at = 1
    BY <1>0, <1>1 DEF Sane, Walks, Answered
  <1>5. wire[c].deltas = wire[c].late
    <2>1. 0 \in Nat /\ wire[c].deltas \in Nat
      BY <1>0, Counting
    <2>2. call[c].got = 0 /\ Tells(call[c].got, wire[c]) /\ wire[c].late \in Nat
      BY <1>0, <1>1, Counting DEF Sane, Delivers
    <2> QED BY <2>1, <2>2 DEF Tells
  <1>6. /\ Terminal(call[c]) \in Terms
        /\ CarriesUsage(Terminal(call[c])) => /\ Terminal(call[c]).event = "completed"
                                              /\ call[c].answer = "completed"
        /\ \/ CarriesUsage(Terminal(call[c])) \/ Terminal(call[c]).code = "possibly"
           \/ call[c].answer \in Disowning
    BY <1>0, <1>2, TerminalSays DEF CarriesUsage
  <1>7. Deciding(c, me)
    <2>1. me \in CallStates
      BY <1>0, <1>6 DEF CallStates
    <2>2. /\ me.kind = call[c].kind /\ me.key = call[c].key /\ me.acc = call[c].acc
          /\ me.left = call[c].left /\ me.leased = call[c].leased /\ me.tracked = call[c].tracked
          /\ me.hurt = call[c].hurt /\ me.at = call[c].at
          /\ me.opened = call[c].opened /\ me.confirmed = call[c].confirmed /\ me.got = call[c].got
          /\ me.open = call[c].open /\ me.term = Terminal(call[c])
      BY <1>0, <1>1 DEF CallStates
    <2>3. me.kind # "stream"
      BY <1>1, <2>2 DEF Stream
    <2>4. call[c].answer \in Disowning => Clean(c)
      BY <1>2 DEF Clean, Stands
    <2> HIDE DEF me
    <2> QED BY <1>1, <1>2, <1>3, <1>4, <1>5, <1>6, <2>1, <2>2, <2>3, <2>4 DEF Deciding
  <1>8. me.kind # "stream"
    BY <1>7, <1>1 DEF Deciding, Stream
  <1>9. Becomes(c, RunExecution(me))
    BY DEF ClassifyOutcome
  <1>a. UNCHANGED <<setup, replay, occupancy, lease, residual, registry, wire, fate, disowned, faults>>
    BY DEF ClassifyOutcome
  <1> HIDE DEF me
  <1>b. CASE me.left = {} \/ me.term.code = "possibly" \/ me.term.event = "completed"
    BY <1>7, <1>8, <1>9, <1>a, <1>b, WalkOverKeeps DEF RunExecution
  <1>c. CASE ~(me.left = {} \/ me.term.code = "possibly" \/ me.term.event = "completed")
    BY <1>7, <1>8, <1>9, <1>a, <1>c, AdvancingKeeps DEF RunExecution
  <1> QED BY <1>b, <1>c

LEMMA SentKeeps ==
    ASSUME ChatInv, NEW c \in Calls, NEW me \in CallStates, At(c, "attempt"),
           \/ me = [call[c] EXCEPT !.at = @ + 1] /\ ~Stream(c)
           \/ me = [call[c] EXCEPT !.at = @ + 1, !.open = "no", !.sealed = FALSE, !.got = 0],
           SendPayload(c, me),
           UNCHANGED <<setup, replay, occupancy, lease, residual, registry, wire, disowned, faults>>
    PROVE  Good(c)
  <1>0. /\ Typed /\ NobodyMeansNone /\ Sane(c) /\ call[c] \in CallStates
        /\ wire[c] \in Responses /\ fate[c] \in [Attempts -> Fates]
        /\ occupancy[c] \in Occupancies /\ call[c].key \in Keys /\ call[c].acc \in Accounts
    BY TypedAt DEF ChatInv
  <1> DEFINE n == [me EXCEPT !.pc = "adapter"]
  <1>1. /\ call[c].pc = "attempt" /\ Clean(c) /\ Owns(c) /\ ~call[c].opened
        /\ occupancy[c] # "known" /\ (call[c].hurt \/ c \notin residual)
        /\ call[c].tracked /\ occupancy[c] = "held" => c \in residual
    <2>1. call[c].pc = "attempt"
      BY DEF At
    <2>2. Clean(c) /\ Owns(c) /\ ~call[c].opened
      BY <1>0, <2>1 DEF Sane, Walks, Sends, Claims, Holding, After
    <2> QED BY <1>0, <2>1, <2>2 DEF Sane, Settles
  <1>2. /\ (call[c].at = 0 /\ AtMostOne(call[c].left)) \/ (call[c].at = 1 /\ Spent(call[c].left))
        /\ call[c].leased => call[c].at = 0 /\ Stream(c) /\ Spent(call[c].left)
        /\ call[c].leased => lease[call[c].acc] = c
        /\ call[c].got <= wire[c].deltas /\ ~call[c].confirmed
    BY <1>0, <1>1 DEF Sane, Walks, Sends, Settles, Done, At, After
  <1>3. /\ AtMostOne(wire[c].by) /\ (wire[c].order = "awaiting" => wire[c].by = {} /\ wire[c].deltas = 0)
        /\ wire[c].deltas = wire[c].late /\ ~Timely(wire[c]) /\ Bounded(wire[c]) /\ Tells(0, wire[c])
        /\ ~Stream(c) => call[c].open = "no" /\ call[c].got = 0
        /\ wire[c].deltas \in Nat
    BY <1>0, <1>1, Counting, AllLate DEF Sane, Delivers
  <1>4. \A k \in Keys : replay[k].by = c => k = call[c].key /\ replay[k].kind = call[c].kind
    BY <1>0 DEF Sane, Claims
  <1>5. n \in CallStates
    BY DEF CallStates, Places
  <1>6. call'[c] = n /\ call' \in [Calls -> CallStates] /\ \A d \in Calls \ {c} : call'[d] = call[d]
    BY <1>0, <1>5, Becoming DEF SendPayload
  <1>7. /\ call'[c].pc = "adapter" /\ call'[c].kind = call[c].kind /\ call'[c].key = call[c].key
        /\ call'[c].acc = call[c].acc
        /\ call'[c].left = call[c].left /\ call'[c].leased = call[c].leased
        /\ call'[c].tracked = call[c].tracked /\ call'[c].hurt = call[c].hurt
        /\ call'[c].opened = call[c].opened /\ call'[c].confirmed = call[c].confirmed
        /\ call'[c].at = call[c].at + 1 /\ call'[c].open = "no"
        /\ call'[c].got = 0 /\ 0 <= wire[c].deltas
        /\ Stream(c) => ~call'[c].sealed
    <2>1. CASE me = [call[c] EXCEPT !.at = @ + 1] /\ ~Stream(c)
      BY <1>0, <1>2, <1>3, <1>6, <2>1 DEF CallStates
    <2>2. CASE me = [call[c] EXCEPT !.at = @ + 1, !.open = "no", !.sealed = FALSE, !.got = 0]
      BY <1>0, <1>2, <1>3, <1>6, <2>2 DEF CallStates
    <2> QED BY <2>1, <2>2
  <1> HIDE DEF n
  <1>8. fate' = [fate EXCEPT ![c][call[c].at + 1] = "sent"]
    BY <1>0 DEF SendPayload, CallStates
  <1>9. /\ fate' \in [Calls -> [Attempts -> Fates]]
        /\ \A d \in Calls \ {c} : fate'[d] = fate[d]
        /\ \A i \in Attempts : i # call[c].at + 1 => fate'[c][i] = fate[c][i]
    BY <1>0, <1>8 DEF Typed, Fates
  <1>b. UNCHANGED <<wire, disowned, replay, occupancy, lease, residual>>
    OBVIOUS
  <1>c. \A i \in Attempts : i # call[c].at + 1 => ~Stands(c, i)'
    BY <1>1, <1>9, <1>b DEF Clean, Stands
  <1>frame. Typed' /\ NobodyMeansNone' /\ OthersKept(c)
    BY <1>0, <1>6, <1>9 DEF Typed, OthersKept, NobodyMeansNone
  <1>walks. Walks(c)'
    BY <1>1, <1>2, <1>3, <1>7, <1>b DEF Walks, Stream, Early, After, Answered, StreamOnly
  <1>sends. Sends(c)'
    BY <1>1, <1>2, <1>7, <1>b, <1>c DEF Sends, After, Answered
  <1>claims. Claims(c)'
    BY <1>1, <1>4, <1>7, <1>b DEF Claims, Holding, Owns, Stream, Clean, Stands
  <1>settles. Settles(c)'
    BY <1>1, <1>2, <1>7, <1>b DEF Settles, Owns, Stream, Done, At
  <1>delivers. Delivers(c)'
    BY <1>1, <1>3, <1>7, <1>b DEF Delivers, Stream, Done, At, Early, After, Answered, Owns
  <1> QED BY <1>frame, <1>walks, <1>sends, <1>claims, <1>settles, <1>delivers DEF Good, Sane

\* An attempt that was not sent ends a stream that has content of an earlier one.
LEMMA OwedKeeps ==
    ASSUME ChatInv, NEW c \in Calls, At(c, "attempt"), Stream(c),
           Becomes(c, [call[c] EXCEPT !.at = @ + 1, !.open = "no", !.sealed = FALSE, !.got = 0,
                                      !.term = Failed("possibly"), !.answer = "error",
                                      !.opened = TRUE, !.pc = "end"]),
           UNCHANGED <<setup, replay, occupancy, lease, residual, registry, wire, fate, disowned, faults>>
    PROVE  Good(c)
  <1>0. /\ Typed /\ NobodyMeansNone /\ Sane(c) /\ call[c] \in CallStates
        /\ wire[c] \in Responses /\ fate[c] \in [Attempts -> Fates]
        /\ occupancy[c] \in Occupancies /\ call[c].key \in Keys /\ call[c].acc \in Accounts
    BY TypedAt DEF ChatInv
  <1>i. Walks(c) /\ Sends(c) /\ Claims(c) /\ Settles(c) /\ Delivers(c)
    BY <1>0 DEF Sane
  <1> DEFINE n == [call[c] EXCEPT !.at = @ + 1, !.open = "no", !.sealed = FALSE, !.got = 0,
                                  !.term = Failed("possibly"), !.answer = "error",
                                  !.opened = TRUE, !.pc = "end"]
  <1>1. call[c].pc = "attempt"
    BY DEF At
  <1>2. /\ (call[c].at = 0 /\ AtMostOne(call[c].left)) \/ (call[c].at = 1 /\ Spent(call[c].left))
        /\ call[c].leased => call[c].at = 0 /\ Spent(call[c].left) /\ lease[call[c].acc] = c
        /\ Clean(c) /\ Owns(c) /\ ~call[c].opened /\ ~call[c].confirmed
    BY <1>1, <1>i DEF Walks, Sends, Claims, Holding, Settles, Done, At, After
  <1>3. /\ Failed("possibly") \in Terms /\ Failed("possibly").code = "possibly"
        /\ ~CarriesUsage(Failed("possibly"))
    <2>1. 0 \in 0 .. MaxDeltas
      BY ChatAssumption
    <2> QED BY <2>1 DEF Failed, NoTerm, Terms, Events, CarriesUsage
  <1>4. n \in CallStates
    <2>1. call[c].at + 1 \in 0 .. 2 /\ 0 \in 0 .. MaxDeltas
      BY <1>2, ChatAssumption
    <2> QED BY <1>0, <1>3, <2>1 DEF CallStates, Opens, Answers, Places
  <1>5. call'[c] = n /\ call' \in [Calls -> CallStates] /\ \A d \in Calls \ {c} : call'[d] = call[d]
    BY <1>0, <1>4, Becoming
  <1>6. /\ call'[c].pc = "end" /\ call'[c].kind = call[c].kind /\ call'[c].key = call[c].key
        /\ call'[c].acc = call[c].acc /\ call'[c].left = call[c].left
        /\ call'[c].leased = call[c].leased /\ call'[c].tracked = call[c].tracked
        /\ call'[c].hurt = call[c].hurt /\ call'[c].confirmed = call[c].confirmed
        /\ call'[c].at = call[c].at + 1 /\ call'[c].open = "no" /\ call'[c].got = 0
        /\ ~call'[c].sealed /\ call'[c].opened /\ call'[c].answer = "error"
        /\ call'[c].term = Failed("possibly")
    BY <1>0, <1>5 DEF CallStates
  <1> HIDE DEF n
  <1>7. wire[c].deltas \in Nat /\ wire[c].deltas = wire[c].late /\ Stream(c)
        /\ ~Timely(wire[c]) /\ Bounded(wire[c])
    BY <1>0, <1>1, <1>i, Counting, AllLate DEF Delivers
  <1>8. UNCHANGED <<setup, replay, occupancy, lease, residual, registry, wire, fate, disowned, faults>>
    OBVIOUS
  <1>9. "error" \notin Disowning
    BY DEF Disowning
  <1>a. /\ Failed("possibly").event = "failed"
    BY DEF Failed, NoTerm
  <1>frame. Typed' /\ NobodyMeansNone' /\ OthersKept(c)
    BY <1>0, <1>5, <1>8 DEF Typed, OthersKept, NobodyMeansNone
  <1>walks. Walks(c)'
    BY <1>1, <1>2, <1>6, <1>7, <1>8, <1>i DEF Walks, Stream, Early, After, Answered, StreamOnly
  <1>sends. Sends(c)'
    BY <1>1, <1>2, <1>3, <1>6, <1>8, <1>9, <1>a, <1>i DEF Sends, After, Answered, Clean, Stands, Ended,
       Stream
  <1>claims. Claims(c)'
    BY <1>1, <1>2, <1>6, <1>8, <1>i DEF Claims, Holding, Owns, Stream, Clean, Stands
  <1>settles. Settles(c)'
    BY <1>1, <1>2, <1>6, <1>8, <1>i DEF Settles, Owns, Stream, Done, At
  <1>delivers. Delivers(c)'
    BY <1>1, <1>2, <1>3, <1>6, <1>7, <1>8, <1>i DEF Delivers, Stream, Done, At, Early, After,
       Answered, Owns
  <1> QED BY <1>frame, <1>walks, <1>sends, <1>claims, <1>settles, <1>delivers DEF Good, Sane

LEMMA AttemptStreamOnAccountKeeps ==
    ASSUME ChatInv, NEW c \in Calls, AttemptStreamOnAccount(c)
    PROVE  Good(c)
  <1>0. /\ Typed /\ NobodyMeansNone /\ Sane(c) /\ call[c] \in CallStates
        /\ wire[c] \in Responses /\ fate[c] \in [Attempts -> Fates]
        /\ occupancy[c] \in Occupancies /\ call[c].key \in Keys /\ call[c].acc \in Accounts
    BY TypedAt DEF ChatInv
  <1> DEFINE me == [call[c] EXCEPT !.at = @ + 1, !.open = "no", !.sealed = FALSE, !.got = 0]
             F(t) == [me EXCEPT !.sealed = TRUE, !.term = t]
  <1>1. /\ call[c].pc = "attempt" /\ Clean(c) /\ ~call[c].opened
        /\ (call[c].at = 0 /\ AtMostOne(call[c].left)) \/ (call[c].at = 1 /\ Spent(call[c].left))
        /\ call[c].leased => call[c].at = 0
        /\ call[c].got <= wire[c].deltas /\ ~call[c].confirmed
        /\ wire[c].deltas = wire[c].late
        /\ ~Stream(c) => call[c].open = "no"
    <2>1. call[c].pc = "attempt"
      BY DEF AttemptStreamOnAccount, At
    <2>2. /\ wire[c].deltas = wire[c].late
          /\ ~Stream(c) => call[c].open = "no"
      BY <1>0, <2>1 DEF Sane, Delivers
    <2> QED BY <1>0, <2>1, <2>2 DEF Sane, Walks, Sends, After
  <1>2. me \in CallStates
    <2>1. 0 \in 0 .. MaxDeltas
      BY ChatAssumption
    <2>2. call[c].at \in {0, 1}
      BY <1>1
    <2>3. call[c].at + 1 \in 0 .. 2
      BY <2>2
    <2> QED BY <1>0, <2>1, <2>3 DEF CallStates, Opens
  <1>3. CASE SendPayload(c, me)
    BY <1>0, <1>2, <1>3, SentKeeps DEF AttemptStreamOnAccount
  <1>4. CASE \E t \in Unsent(c) : Becomes(c, UnsentStream(c, me, t)) /\ UNCHANGED fate
    <2>t. PICK t \in Unsent(c) : Becomes(c, UnsentStream(c, me, t)) /\ UNCHANGED fate
      BY <1>4
    <2>2. /\ t \in Terms /\ ~CarriesUsage(t)
      BY UnsentTyped
    <2>3. F(t) \in CallStates
      BY <1>2, <2>2 DEF CallStates
    <2>4. /\ F(t).kind = call[c].kind /\ F(t).key = call[c].key /\ F(t).acc = call[c].acc
          /\ F(t).left = call[c].left /\ F(t).leased = call[c].leased
          /\ F(t).tracked = call[c].tracked
          /\ F(t).hurt = call[c].hurt /\ F(t).at = call[c].at + 1
          /\ F(t).opened = call[c].opened /\ F(t).confirmed = call[c].confirmed
          /\ F(t).open = "no" /\ F(t).term = t /\ F(t).sealed /\ F(t).got = 0
      BY <1>0, <1>1 DEF CallStates, AttemptStreamOnAccount
    <2>5. Deciding(c, F(t))
      <3> HIDE DEF F, me
      <3>1. F(t).got <= wire[c].deltas /\ wire[c].deltas \in Nat
        BY <1>0, <1>1, <2>4, Counting
      <3>2. /\ (F(t).at = 1 /\ AtMostOne(F(t).left)) \/ (F(t).at = 2 /\ Spent(F(t).left))
            /\ F(t).leased => F(t).at = 1
        BY <1>1, <2>4
      <3> QED BY <1>1, <2>2, <2>3, <2>4, <3>1, <3>2 DEF Deciding, Clean, Stands, AttemptStreamOnAccount, Stream
    <2>6. UNCHANGED <<setup, replay, occupancy, lease, residual, registry, wire, fate, disowned, faults>>
      BY <2>t DEF AttemptStreamOnAccount
    <2>7. F(t).kind = "stream"
      BY <2>4 DEF AttemptStreamOnAccount, Stream
    <2>8. t.event # "completed"
      BY <2>2 DEF CarriesUsage
    <2>9. CASE t # NoTerm /\ wire[c].deltas > 0
      <3>1. UnsentStream(c, me, t)
              = [call[c] EXCEPT !.at = @ + 1, !.open = "no", !.sealed = FALSE, !.got = 0,
                                !.term = Failed("possibly"), !.answer = "error", !.opened = TRUE,
                                !.pc = "end"]
        BY <1>0, <2>9 DEF UnsentStream, CallStates
      <3> QED BY <2>t, <2>6, <3>1, OwedKeeps DEF AttemptStreamOnAccount
    <2>a. CASE ~(t # NoTerm /\ wire[c].deltas > 0)
      <3>1. Becomes(c, RunStream(F(t)))
        BY <2>t, <2>a DEF UnsentStream
      <3> HIDE DEF F, me
      <3>2. CASE F(t).left = {} \/ t.code = "possibly"
        BY <3>1, <2>4, <2>5, <2>6, <2>7, <3>2, WalkOverKeeps DEF RunStream
      <3>3. CASE ~(F(t).left = {} \/ t.code = "possibly")
        BY <3>1, <2>4, <2>5, <2>6, <2>7, <2>8, <3>3, AdvancingKeeps DEF RunStream
      <3> QED BY <3>2, <3>3
    <2> QED BY <2>9, <2>a
  <1>5. SendPayload(c, me) \/ \E t \in Unsent(c) : Becomes(c, UnsentStream(c, me, t)) /\ UNCHANGED fate
    BY DEF AttemptStreamOnAccount
  <1> QED BY <1>3, <1>4, <1>5

LEMMA AttemptOnAccountKeeps ==
    ASSUME ChatInv, NEW c \in Calls, AttemptOnAccount(c)
    PROVE  Good(c)
  <1>0. /\ Typed /\ NobodyMeansNone /\ Sane(c) /\ call[c] \in CallStates
        /\ wire[c] \in Responses /\ fate[c] \in [Attempts -> Fates]
        /\ occupancy[c] \in Occupancies /\ call[c].key \in Keys /\ call[c].acc \in Accounts
    BY TypedAt DEF ChatInv
  <1> DEFINE me == [call[c] EXCEPT !.at = @ + 1]
             F(t) == [me EXCEPT !.term = t]
  <1>1. /\ call[c].pc = "attempt" /\ Clean(c) /\ ~call[c].opened
        /\ (call[c].at = 0 /\ AtMostOne(call[c].left)) \/ (call[c].at = 1 /\ Spent(call[c].left))
        /\ call[c].leased => call[c].at = 0
        /\ call[c].got <= wire[c].deltas /\ ~call[c].confirmed
        /\ wire[c].deltas = wire[c].late
        /\ ~Stream(c) => call[c].open = "no" /\ call[c].got = 0
    <2>1. call[c].pc = "attempt"
      BY DEF AttemptOnAccount, At
    <2>2. /\ wire[c].deltas = wire[c].late
          /\ ~Stream(c) => call[c].open = "no" /\ call[c].got = 0
      BY <1>0, <2>1 DEF Sane, Delivers
    <2> QED BY <1>0, <2>1, <2>2 DEF Sane, Walks, Sends, After
  <1>2. me \in CallStates
    <2>1. 0 \in 0 .. MaxDeltas
      BY ChatAssumption
    <2>2. call[c].at \in {0, 1}
      BY <1>1
    <2>3. call[c].at + 1 \in 0 .. 2
      BY <2>2
    <2> QED BY <1>0, <2>1, <2>3 DEF CallStates, Opens
  <1>3. CASE SendPayload(c, me)
    BY <1>0, <1>2, <1>3, SentKeeps DEF AttemptOnAccount
  <1>4. CASE ~SendPayload(c, me)
    <2>1. PICK t \in Unsent(c) : Becomes(c, RunExecution(F(t))) /\ UNCHANGED fate
      BY <1>4 DEF AttemptOnAccount
    <2>2. /\ t \in Terms /\ ~CarriesUsage(t)
      BY UnsentTyped
    <2>3. F(t) \in CallStates
      BY <1>2, <2>2 DEF CallStates
    <2>4. /\ F(t).kind = call[c].kind /\ F(t).key = call[c].key /\ F(t).acc = call[c].acc
          /\ F(t).left = call[c].left /\ F(t).leased = call[c].leased
          /\ F(t).tracked = call[c].tracked
          /\ F(t).hurt = call[c].hurt /\ F(t).at = call[c].at + 1
          /\ F(t).opened = call[c].opened /\ F(t).confirmed = call[c].confirmed
          /\ F(t).open = "no" /\ F(t).term = t /\ F(t).got = call[c].got
      BY <1>0, <1>1 DEF CallStates, AttemptOnAccount
    <2>5. Deciding(c, F(t))
      <3> HIDE DEF F, me
      <3>1. F(t).got <= wire[c].deltas /\ wire[c].deltas \in Nat
        BY <1>0, <1>1, <2>4, Counting
      <3>2. /\ (F(t).at = 1 /\ AtMostOne(F(t).left)) \/ (F(t).at = 2 /\ Spent(F(t).left))
            /\ F(t).leased => F(t).at = 1
        BY <1>1, <2>4
      <3> QED BY <1>1, <2>2, <2>3, <2>4, <3>1, <3>2 DEF Deciding, Clean, Stands, AttemptOnAccount, Stream
    <2>6. UNCHANGED <<setup, replay, occupancy, lease, residual, registry, wire, fate, disowned, faults>>
      BY <2>1 DEF AttemptOnAccount
    <2>7. F(t).kind # "stream"
      BY <2>4 DEF AttemptOnAccount, Stream
    <2> HIDE DEF F, me
    <2>8. t.event # "completed"
      BY <2>2 DEF CarriesUsage
    <2>9. CASE F(t).left = {} \/ t.code = "possibly"
      BY <2>1, <2>4, <2>5, <2>6, <2>7, <2>9, WalkOverKeeps DEF RunExecution
    <2>a. CASE ~(F(t).left = {} \/ t.code = "possibly")
      BY <2>1, <2>4, <2>5, <2>6, <2>7, <2>8, <2>a, AdvancingKeeps DEF RunExecution
    <2> QED BY <2>9, <2>a
  <1> QED BY <1>3, <1>4

LEMMA AdapterReturnsKeeps ==
    ASSUME ChatInv, NEW c \in Calls, AdapterReturns(c)
    PROVE  Good(c)
  <1>0. /\ Typed /\ NobodyMeansNone /\ Sane(c) /\ call[c] \in CallStates
        /\ wire[c] \in Responses /\ fate[c] \in [Attempts -> Fates]
        /\ occupancy[c] \in Occupancies /\ call[c].key \in Keys /\ call[c].acc \in Accounts
    BY TypedAt DEF ChatInv
  <1>1. PICK r \in Reports(c) :
           /\ Becomes(c, [call[c] EXCEPT !.pc = "returned", !.answer = r.answer, !.abort = r.abort,
                                         !.stop = r.stop])
           /\ disowned' = IF r.answer \in Disowning
                          THEN [disowned EXCEPT ![c] = @ \cup {call[c].at}] ELSE disowned
    BY DEF AdapterReturns
  <1>2. /\ r.answer \in Answers \ {"none"} /\ r.abort \in BOOLEAN /\ r.stop \in BOOLEAN
        /\ r.answer = "completed" => fate[c][call[c].at] = "ended"
        /\ r.answer = "canceled" => Stream(c) /\ (r.stop => fate[c][call[c].at] = "ended")
    <2> DEFINE f == fate[c][call[c].at]
    <2>1. \/ \E a \in {"unknown", "error"} \cup Disowning : r = Report(a, FALSE, FALSE)
          \/ f = "ended" /\ r = Report("completed", FALSE, FALSE)
          \/ Stream(c) /\ r = Report("canceled", FALSE, FALSE)
          \/ Stream(c) /\ r = Report("canceled", TRUE, f = "ended")
      BY DEF Reports, FailureReports, Disowning
    <2>2. CASE Stream(c) /\ r = Report("canceled", TRUE, f = "ended")
      <3>1. (f = "ended") \in BOOLEAN
        OBVIOUS
      <3>2. r.answer = "canceled" /\ r.abort = TRUE /\ r.stop = (f = "ended")
        BY <2>2 DEF Report
      <3> QED BY <2>2, <3>1, <3>2 DEF Answers
    <2>3. CASE \E a \in {"unknown", "error"} \cup Disowning : r = Report(a, FALSE, FALSE)
      BY <2>3 DEF Answers, Report, Disowning
    <2>4. CASE f = "ended" /\ r = Report("completed", FALSE, FALSE)
      BY <2>4 DEF Answers, Report
    <2>6. CASE Stream(c) /\ r = Report("canceled", FALSE, FALSE)
      BY <2>6 DEF Answers, Report
    <2> QED BY <2>1, <2>2, <2>3, <2>4, <2>6
  <1>3. [call[c] EXCEPT !.pc = "returned", !.answer = r.answer, !.abort = r.abort, !.stop = r.stop]
            \in CallStates
    BY <1>0, <1>2 DEF CallStates, Places
  <1>4. call'[c] = [call[c] EXCEPT !.pc = "returned", !.answer = r.answer, !.abort = r.abort,
                                   !.stop = r.stop]
    BY <1>0, <1>1, <1>3, Becoming
  <1>5. /\ call'[c].pc = "returned" /\ call'[c].kind = call[c].kind /\ call'[c].key = call[c].key
        /\ call'[c].acc = call[c].acc
        /\ call'[c].left = call[c].left /\ call'[c].leased = call[c].leased
        /\ call'[c].tracked = call[c].tracked /\ call'[c].hurt = call[c].hurt
        /\ call'[c].sealed = call[c].sealed
        /\ call'[c].opened = call[c].opened /\ call'[c].confirmed = call[c].confirmed
        /\ call'[c].at = call[c].at /\ call'[c].open = call[c].open
        /\ call'[c].got = call[c].got /\ call'[c].answer = r.answer /\ call'[c].stop = r.stop
    BY <1>0, <1>4 DEF CallStates
  <1>6. /\ call[c].pc = "adapter" /\ call[c].at \in Attempts /\ ~call[c].opened /\ ~call[c].confirmed
        /\ Owns(c) /\ occupancy[c] # "known"
    <2>1. call[c].pc = "adapter"
      BY DEF AdapterReturns, At
    <2>2. ~call[c].opened /\ ~call[c].confirmed /\ Owns(c) /\ occupancy[c] # "known"
      BY <1>0, <2>1 DEF Sane, Walks, Sends, Claims, Holding, Settles, After
    <2> QED BY <1>0, <2>1, <2>2 DEF Sane, Walks, Attempts
  <1>7. /\ disowned' \in [Calls -> SUBSET Attempts]
        /\ \A d \in Calls \ {c} : disowned'[d] = disowned[d]
        /\ \A i \in Attempts : i \in disowned[c] => i \in disowned'[c]
        /\ r.answer \in Disowning => call[c].at \in disowned'[c]
    BY <1>0, <1>1, <1>6 DEF Typed
  <1>8. UNCHANGED <<setup, faults, wire, replay, occupancy, lease, residual, registry, fate>>
    BY DEF AdapterReturns
  <1>frame. Typed' /\ NobodyMeansNone' /\ OthersKept(c)
    BY <1>0, <1>1, <1>3, <1>7, <1>8, Becoming DEF Typed, OthersKept, NobodyMeansNone
  <1>9. Walks(c) /\ Sends(c) /\ Settles(c) /\ Delivers(c)
    BY <1>0 DEF Sane
  <1>a. \A k \in Keys : replay[k].by = c => k = call[c].key /\ replay[k].kind = call[c].kind
    BY <1>0 DEF Sane, Claims
  <1>walks. Walks(c)'
    BY <1>5, <1>6, <1>8, <1>9 DEF Walks, Stream, Early, After, Answered, StreamOnly
  <1>sends. Sends(c)'
    BY <1>2, <1>5, <1>6, <1>7, <1>8, <1>9 DEF Sends, After, Answered, Clean, Stands, Ended, Stream
  <1>claims. Claims(c)'
    BY <1>5, <1>6, <1>8, <1>a DEF Claims, Holding, Owns, Stream, Clean, Stands
  <1>settles. Settles(c)'
    BY <1>5, <1>6, <1>8, <1>9 DEF Settles, Owns, Stream, Done, At
  <1>delivers. Delivers(c)'
    BY <1>5, <1>6, <1>8, <1>9 DEF Delivers, Stream, Done, At, Early, After, Answered, Owns
  <1> QED BY <1>frame, <1>walks, <1>sends, <1>claims, <1>settles, <1>delivers DEF Good, Sane

LEMMA ClassifyStreamOutcomeKeeps ==
    ASSUME ChatInv, NEW c \in Calls, ClassifyStreamOutcome(c)
    PROVE  Good(c)
  <1>0. /\ Typed /\ NobodyMeansNone /\ Sane(c) /\ call[c] \in CallStates
        /\ wire[c] \in Responses /\ fate[c] \in [Attempts -> Fates]
        /\ occupancy[c] \in Occupancies /\ call[c].key \in Keys /\ call[c].acc \in Accounts
    BY TypedAt DEF ChatInv
  <1> DEFINE owes == OwesTerminal(c)
             content == IF owes /\ call[c].answer # "error" THEN call[c].got ELSE 0
  <1>1. /\ owes \in BOOLEAN /\ content \in 0 .. MaxDeltas
        /\ Becomes(c, [call[c] EXCEPT !.term = [Terminal(call[c]) EXCEPT !.content = content],
                                      !.opened = owes, !.pc = IF owes THEN "end" ELSE "seal"])
        /\ ~owes => call[c].answer \in {"error"} \cup Disowning /\ ~(wire[c].deltas > 0)
        /\ owes /\ call[c].answer # "error" => content = call[c].got
    <2>1. OwesTerminal(c) \in BOOLEAN
      <3>1. CASE call[c].answer \in {"completed", "failed", "canceled", "unknown"}
        BY <3>1 DEF OwesTerminal
      <3>2. CASE call[c].answer = "error"
        BY <3>2 DEF OwesTerminal
      <3>3. CASE call[c].answer \notin {"completed", "failed", "canceled", "unknown", "error"}
        BY <3>3 DEF OwesTerminal
      <3> QED BY <3>1, <3>2, <3>3
    <2>2. call[c].got \in 0 .. MaxDeltas /\ call[c].answer \in Answers \ {"none"} /\ 0 \in 0 .. MaxDeltas
      <3>1. call[c].got \in 0 .. MaxDeltas /\ call[c].answer \in Answers
        BY <1>0 DEF CallStates
      <3>2. call[c].answer # "none"
        BY <1>0 DEF Sane, Sends, ClassifyStreamOutcome, At
      <3> QED BY <3>1, <3>2, ChatAssumption
    <2>3. ~OwesTerminal(c) => /\ call[c].answer \in {"error"} \cup Disowning
                              /\ ~(wire[c].deltas > 0)
      BY <2>2 DEF OwesTerminal, Answers, Disowning
    <2>4. Becomes(c, [call[c] EXCEPT !.term = [Terminal(call[c]) EXCEPT !.content = content],
                                     !.opened = owes, !.pc = IF owes THEN "end" ELSE "seal"])
      BY DEF ClassifyStreamOutcome
    <2> QED BY <2>1, <2>2, <2>3, <2>4
  <1> HIDE DEF owes, content
  <1> DEFINE t == [Terminal(call[c]) EXCEPT !.content = content]
             n == [call[c] EXCEPT !.term = t, !.opened = owes, !.pc = IF owes THEN "end" ELSE "seal"]
  <1>2. /\ t \in Terms /\ t.content = content
        /\ t.event = "completed" => call[c].answer = "completed"
        /\ t.event = "canceled" => call[c].answer = "canceled" /\ t.stop = call[c].stop
        /\ \/ CarriesUsage(t) \/ t.code = "possibly" \/ call[c].answer \in Disowning
    <2>1. /\ t \in Terms /\ t.content = content /\ t.event = Terminal(call[c]).event
          /\ t.code = Terminal(call[c]).code /\ t.stop = Terminal(call[c]).stop
      BY <1>0, <1>1, TerminalSays DEF Terms
    <2> HIDE DEF t
    <2> QED BY <1>0, <2>1, TerminalSays DEF CarriesUsage
  <1>3. n \in CallStates
    BY <1>0, <1>1, <1>2 DEF CallStates, Places
  <1> HIDE DEF t
  <1>4. call'[c] = n /\ call' \in [Calls -> CallStates] /\ \A d \in Calls \ {c} : call'[d] = call[d]
    BY <1>0, <1>1, <1>3, Becoming DEF t
  <1>5. /\ call'[c].pc = (IF owes THEN "end" ELSE "seal")
        /\ call'[c].kind = call[c].kind /\ call'[c].key = call[c].key
        /\ call'[c].acc = call[c].acc /\ call'[c].answer = call[c].answer
        /\ call'[c].left = call[c].left /\ call'[c].leased = call[c].leased
        /\ call'[c].tracked = call[c].tracked /\ call'[c].hurt = call[c].hurt
        /\ call'[c].sealed = call[c].sealed
        /\ call'[c].opened = owes /\ call'[c].confirmed = call[c].confirmed
        /\ call'[c].at = call[c].at /\ call'[c].open = call[c].open
        /\ call'[c].got = call[c].got /\ call'[c].term = t /\ call'[c].stop = call[c].stop
    BY <1>0, <1>4 DEF CallStates
  <1> HIDE DEF n
  <1>6. /\ call[c].pc = "returned" /\ Stream(c) /\ ~call[c].opened /\ ~call[c].confirmed
        /\ Owns(c) /\ occupancy[c] # "known"
    <2>1. call[c].pc = "returned" /\ Stream(c)
      BY DEF ClassifyStreamOutcome, At
    <2> QED BY <1>0, <2>1 DEF Sane, Walks, Sends, Claims, Holding, Settles, After
  <1>7. Walks(c) /\ Sends(c) /\ Settles(c) /\ Delivers(c)
    BY <1>0 DEF Sane
  <1>8. \A k \in Keys : replay[k].by = c => k = call[c].key /\ replay[k].kind = call[c].kind
    BY <1>0 DEF Sane, Claims
  <1>9. UNCHANGED <<setup, faults, wire, replay, occupancy, lease, residual, registry, fate, disowned>>
    BY DEF ClassifyStreamOutcome
  <1>frame. Typed' /\ NobodyMeansNone' /\ OthersKept(c)
    BY <1>0, <1>4, <1>9 DEF Typed, OthersKept, NobodyMeansNone
  <1>a. ~owes => wire[c].deltas = wire[c].late
    <2>1. wire[c].deltas \in Nat /\ wire[c].late \in Nat
      BY <1>0, Counting
    <2> QED BY <1>1, <1>7, <2>1 DEF Delivers, Bounded
  <1>b. CarriesUsage(t) => t.content = call[c].got
    BY <1>1, <1>2 DEF CarriesUsage, Disowning
  <1>walks. Walks(c)'
    BY <1>5, <1>6, <1>7, <1>9 DEF Walks, Stream, Early, After, Answered, StreamOnly
  <1>sends. Sends(c)'
    BY <1>1, <1>2, <1>5, <1>6, <1>7, <1>9 DEF Sends, After, Answered, Clean, Stands, Ended, Stream
  <1>claims. Claims(c)'
    BY <1>5, <1>6, <1>8, <1>9 DEF Claims, Holding, Owns, Stream, Clean, Stands
  <1>settles. Settles(c)'
    BY <1>5, <1>6, <1>7, <1>9 DEF Settles, Owns, Stream, Done, At
  <1>delivers. Delivers(c)'
    BY <1>5, <1>6, <1>7, <1>9, <1>a, <1>b DEF Delivers, Stream, Done, At, Early, After,
       Answered, Owns
  <1> QED BY <1>frame, <1>walks, <1>sends, <1>claims, <1>settles, <1>delivers DEF Good, Sane

LEMMA ReleaseClaimKeeps ==
    ASSUME ChatInv, NEW c \in Calls, ReleaseClaim(c)
    PROVE  Good(c)
  <1>0. /\ Typed /\ NobodyMeansNone /\ Sane(c) /\ call[c] \in CallStates
        /\ wire[c] \in Responses /\ fate[c] \in [Attempts -> Fates]
        /\ occupancy[c] \in Occupancies /\ call[c].key \in Keys /\ call[c].acc \in Accounts
    BY TypedAt DEF ChatInv
  <1>i. Walks(c) /\ Sends(c) /\ Claims(c) /\ Settles(c) /\ Delivers(c)
    BY <1>0 DEF Sane
  <1>k. \A k \in Keys : replay[k].by = c => k = call[c].key /\ replay[k].kind = call[c].kind
    BY <1>i DEF Claims

  <1>1. /\ Becomes(c, [Hurt(c) EXCEPT !.pc = "reconcile"]) \/ (Go(c, "reconcile") /\ faults' = faults)
        /\ faults' \in 0 .. MaxFaults
    BY <1>0, Failing DEF ReleaseClaim, NoFault
  <1>n. call' \in [Calls -> CallStates] /\ \A d \in Calls \ {c} : call'[d] = call[d]
    BY <1>0, <1>1, GoingHurt DEF Places
  <1>3. /\ call'[c].pc = "reconcile" /\ call'[c].kind = call[c].kind /\ call'[c].key = call[c].key
        /\ call'[c].acc = call[c].acc /\ call'[c].left = call[c].left
        /\ call'[c].leased = call[c].leased /\ call'[c].term = call[c].term
        /\ call'[c].at = call[c].at /\ call'[c].opened = call[c].opened
        /\ call'[c].tracked = call[c].tracked /\ call'[c].confirmed = call[c].confirmed
        /\ call'[c].sealed = call[c].sealed /\ call'[c].open = call[c].open
        /\ call'[c].got = call[c].got
        /\ call'[c].hurt <=> call[c].hurt \/ faults' # faults
    BY <1>0, <1>1, GoingHurt DEF Places
  <1>2. call[c].pc = "release claim" /\ Owns(c) /\ ~call[c].opened /\ Stream(c)
        /\ (call[c].term.code # "possibly" => Clean(c)) /\ occupancy[c] # "known"
    <2>1. call[c].pc = "release claim"
      BY DEF ReleaseClaim, At
    <2> QED BY <1>i, <2>1 DEF Walks, Sends, Claims, Holding, Settles, After, StreamOnly
  <1>4. /\ replay' \in [Keys -> Entries] /\ NobodyMeansNone'
        /\ \A k \in Keys \ {call[c].key} : replay'[k] = replay[k]
        /\ \/ replay' = replay
           \/ call[c].term.code # "possibly" /\ replay'[call[c].key] = Unclaimed
    BY <1>0, <1>2, Abandoning DEF ReleaseClaim, Typed, NobodyMeansNone
  <1>r. /\ \A k \in Keys \ {call[c].key} : replay'[k] = replay[k]
        /\ \/ replay'[call[c].key] = replay[call[c].key]
           \/ call[c].term.code # "possibly" /\ replay'[call[c].key] = Unclaimed
    BY <1>4
  <1>5. call[c].term.code # "possibly" => \/ replay'[call[c].key] = Unclaimed
                                           \/ faults' # faults
    BY <1>0, <1>2, Abandoning, Faulting DEF ReleaseClaim
  <1>6. Unclaimed.by = NoCall /\ Unclaimed.state = "none" /\ c # NoCall
    BY ChatAssumption DEF Unclaimed
  <1>7. UNCHANGED <<setup, wire, fate, disowned, occupancy, lease, residual, registry>>
    BY DEF ReleaseClaim
  <1>frame. Typed' /\ NobodyMeansNone' /\ OthersKept(c)
    BY <1>0, <1>1, <1>2, <1>n, <1>4, <1>6, <1>7 DEF Typed, OthersKept, Owns
  <1>walks. Walks(c)'
    BY <1>2, <1>3, <1>7, <1>i DEF Walks, Stream, Early, After, Answered, StreamOnly
  <1>sends. Sends(c)'
    BY <1>2, <1>3, <1>7, <1>i DEF Sends, After, Answered, Clean, Stands, Ended, Stream
  <1>claims. Claims(c)'
    BY <1>0, <1>2, <1>3, <1>r, <1>6, <1>7, <1>k DEF Claims, Holding, Owns, Stream, Clean, Stands
  <1>settles. Settles(c)'
    BY <1>2, <1>3, <1>r, <1>5, <1>6, <1>7, <1>i DEF Settles, Owns, Stream, Done, At
  <1>delivers. Delivers(c)'
    BY <1>2, <1>3, <1>r, <1>6, <1>7, <1>i DEF Delivers, Stream, Done, At, Early, After,
       Answered, Owns
  <1> QED BY <1>frame, <1>walks, <1>sends, <1>claims, <1>settles, <1>delivers DEF Good, Sane

LEMMA ReconcileStreamKeeps ==
    ASSUME ChatInv, NEW c \in Calls, ReconcileStream(c)
    PROVE  Good(c)
  <1>0. /\ Typed /\ NobodyMeansNone /\ Sane(c) /\ call[c] \in CallStates
        /\ wire[c] \in Responses /\ fate[c] \in [Attempts -> Fates]
        /\ occupancy[c] \in Occupancies /\ call[c].key \in Keys /\ call[c].acc \in Accounts
    BY TypedAt DEF ChatInv
  <1>i. Walks(c) /\ Sends(c) /\ Claims(c) /\ Settles(c) /\ Delivers(c)
    BY <1>0 DEF Sane
  <1>k. \A k \in Keys : replay[k].by = c => k = call[c].key /\ replay[k].kind = call[c].kind
    BY <1>i DEF Claims

  <1>2. call[c].pc = "reconcile" /\ Stream(c)
    BY DEF ReconcileStream, At
  <1>4. PICK pc \in {"exit", "untrack", "record"} :
           /\ Becomes(c, [Hurt(c) EXCEPT !.pc = pc]) \/ (Go(c, pc) /\ faults' = faults)
           /\ faults' \in 0 .. MaxFaults
           /\ pc = "exit" <=> ~call[c].opened
           /\ pc = "untrack" => call[c].tracked /\ faults' = faults
           /\ faults' = faults => (call[c].tracked => pc # "record")
           /\ \/ occupancy' = occupancy /\ faults' # faults
              \/ /\ occupancy' = [occupancy EXCEPT ![c] = SettledUsage(call[c])] /\ faults' = faults
    <2>1. CASE NoFault
      <3>1. /\ occupancy' = [occupancy EXCEPT ![c] = SettledUsage(call[c])]
            /\ Go(c, AfterReconcile(call[c], TRUE)) /\ faults' = faults
        BY <1>0, <2>1, Faulting DEF ReconcileStream, NoFault
      <3> QED BY <1>0, <3>1, ChatAssumption DEF AfterReconcile, Typed
    <2>2. CASE ~NoFault
      <3>1. /\ occupancy' = occupancy /\ Fails(c)
            /\ Becomes(c, [Hurt(c) EXCEPT !.pc = AfterReconcile(call[c], FALSE)]) /\ faults' # faults
        BY <2>2 DEF ReconcileStream, NoFault
      <3> QED BY <1>0, <3>1, Failing DEF AfterReconcile
    <2> QED BY <2>1, <2>2
  <1>1. pc \in Places /\ (Becomes(c, [Hurt(c) EXCEPT !.pc = pc]) \/ (Go(c, pc) /\ faults' = faults))
    BY <1>4 DEF Places
  <1>n. call' \in [Calls -> CallStates] /\ \A d \in Calls \ {c} : call'[d] = call[d]
    BY <1>0, <1>1, GoingHurt DEF Places
  <1>3. /\ call'[c].pc = pc /\ call'[c].kind = call[c].kind /\ call'[c].key = call[c].key
        /\ call'[c].acc = call[c].acc /\ call'[c].left = call[c].left
        /\ call'[c].leased = call[c].leased /\ call'[c].term = call[c].term
        /\ call'[c].at = call[c].at /\ call'[c].opened = call[c].opened
        /\ call'[c].tracked = call[c].tracked /\ call'[c].confirmed = call[c].confirmed
        /\ call'[c].sealed = call[c].sealed /\ call'[c].open = call[c].open
        /\ call'[c].got = call[c].got
        /\ call'[c].hurt <=> call[c].hurt \/ faults' # faults
    BY <1>0, <1>1, GoingHurt DEF Places
  <1>5. /\ pc \in {"exit", "untrack", "record"} /\ (pc = "exit" <=> ~call[c].opened)
        /\ pc = "untrack" => call[c].tracked /\ faults' = faults
        /\ faults' = faults => (call[c].tracked => pc # "record")
    BY <1>4
  <1>o. /\ occupancy' \in [Calls -> Occupancies] /\ \A d \in Calls \ {c} : occupancy'[d] = occupancy[d]
    BY <1>0, <1>4 DEF Typed, Occupancies, SettledUsage
  <1>6. /\ \/ occupancy'[c] = occupancy[c] /\ faults' # faults
           \/ occupancy'[c] = SettledUsage(call[c]) /\ faults' = faults
    BY <1>0, <1>4 DEF Typed
  <1>7. UNCHANGED <<setup, wire, fate, disowned, replay, lease, residual, registry>>
    BY DEF ReconcileStream
  <1>8. /\ occupancy[c] # "known"
        /\ SettledUsage(call[c]) \in {"known", "unknown"}
        /\ SettledUsage(call[c]) = "known" /\ call[c].opened =>
              fate[c][call[c].at] \notin {"sent", "running"}
    BY <1>2, <1>i DEF Settles, Sends, SettledUsage, After, Ended
  <1>frame. Typed' /\ NobodyMeansNone' /\ OthersKept(c)
    BY <1>0, <1>4, <1>n, <1>o, <1>7 DEF Typed, OthersKept, NobodyMeansNone
  <1>walks. Walks(c)'
    BY <1>2, <1>3, <1>5, <1>7, <1>i DEF Walks, Stream, Early, After, Answered, StreamOnly
  <1>sends. Sends(c)'
    BY <1>2, <1>3, <1>5, <1>7, <1>i DEF Sends, After, Answered, Clean, Stands, Ended, Stream
  <1>claims. Claims(c)'
    BY <1>2, <1>3, <1>5, <1>7, <1>i DEF Claims, Holding, Owns, Stream, Clean, Stands
  <1>settles. Settles(c)'
    BY <1>2, <1>3, <1>5, <1>6, <1>7, <1>8, <1>i DEF Settles, Owns, Stream, Done, At
  <1>delivers. Delivers(c)'
    BY <1>2, <1>3, <1>5, <1>7, <1>i DEF Delivers, Stream, Done, At, Early, After, Answered,
       Owns
  <1> QED BY <1>frame, <1>walks, <1>sends, <1>claims, <1>settles, <1>delivers DEF Good, Sane

LEMMA UntrackKeeps ==
    ASSUME ChatInv, NEW c \in Calls, Untrack(c)
    PROVE  Good(c)
  <1>0. /\ Typed /\ NobodyMeansNone /\ Sane(c) /\ call[c] \in CallStates
        /\ wire[c] \in Responses /\ fate[c] \in [Attempts -> Fates]
        /\ occupancy[c] \in Occupancies /\ call[c].key \in Keys /\ call[c].acc \in Accounts
    BY TypedAt DEF ChatInv
  <1>i. Walks(c) /\ Sends(c) /\ Claims(c) /\ Settles(c) /\ Delivers(c)
    BY <1>0 DEF Sane
  <1>k. \A k \in Keys : replay[k].by = c => k = call[c].key /\ replay[k].kind = call[c].kind
    BY <1>i DEF Claims

  <1>1. /\ Becomes(c, [Hurt(c) EXCEPT !.pc = "record"]) \/ (Go(c, "record") /\ faults' = faults)
        /\ faults' \in 0 .. MaxFaults
    BY <1>0, Failing DEF Untrack, NoFault
  <1>n. call' \in [Calls -> CallStates] /\ \A d \in Calls \ {c} : call'[d] = call[d]
    BY <1>0, <1>1, GoingHurt DEF Places
  <1>3. /\ call'[c].pc = "record" /\ call'[c].kind = call[c].kind /\ call'[c].key = call[c].key
        /\ call'[c].acc = call[c].acc /\ call'[c].left = call[c].left
        /\ call'[c].leased = call[c].leased /\ call'[c].term = call[c].term
        /\ call'[c].at = call[c].at /\ call'[c].opened = call[c].opened
        /\ call'[c].tracked = call[c].tracked /\ call'[c].confirmed = call[c].confirmed
        /\ call'[c].sealed = call[c].sealed /\ call'[c].open = call[c].open
        /\ call'[c].got = call[c].got
        /\ call'[c].hurt <=> call[c].hurt \/ faults' # faults
    BY <1>0, <1>1, GoingHurt DEF Places
  <1>2. call[c].pc = "untrack" /\ call[c].opened /\ Stream(c) /\ occupancy[c] # "held"
    BY <1>i DEF Untrack, At, Walks, Settles, StreamOnly
  <1>4. /\ residual' \subseteq Calls /\ \A d \in Calls \ {c} : d \in residual' <=> d \in residual
    BY <1>0 DEF Untrack, Typed
  <1>5. \/ faults' # faults /\ residual' = residual
        \/ faults' = faults /\ c \notin residual'
    BY <1>0, Faulting DEF Untrack, NoFault
  <1>7. UNCHANGED <<setup, wire, fate, disowned, replay, occupancy, lease, registry>>
    BY DEF Untrack
  <1>frame. Typed' /\ NobodyMeansNone' /\ OthersKept(c)
    BY <1>0, <1>1, <1>n, <1>4, <1>7 DEF Typed, OthersKept, NobodyMeansNone
  <1>walks. Walks(c)'
    BY <1>2, <1>3, <1>7, <1>i DEF Walks, Stream, Early, After, Answered, StreamOnly
  <1>sends. Sends(c)'
    BY <1>2, <1>3, <1>7, <1>i DEF Sends, After, Answered, Clean, Stands, Ended, Stream
  <1>claims. Claims(c)'
    BY <1>2, <1>3, <1>7, <1>i DEF Claims, Holding, Owns, Stream, Clean, Stands
  <1>settles. Settles(c)'
    BY <1>2, <1>3, <1>5, <1>7, <1>i DEF Settles, Owns, Stream, Done, At
  <1>delivers. Delivers(c)'
    BY <1>2, <1>3, <1>7, <1>i DEF Delivers, Stream, Done, At, Early, After, Answered, Owns
  <1> QED BY <1>frame, <1>walks, <1>sends, <1>claims, <1>settles, <1>delivers DEF Good, Sane

LEMMA RecordStreamTerminalStateKeeps ==
    ASSUME ChatInv, NEW c \in Calls, RecordStreamTerminalState(c)
    PROVE  Good(c)
  <1>0. /\ Typed /\ NobodyMeansNone /\ Sane(c) /\ call[c] \in CallStates
        /\ wire[c] \in Responses /\ fate[c] \in [Attempts -> Fates]
        /\ occupancy[c] \in Occupancies /\ call[c].key \in Keys /\ call[c].acc \in Accounts
    BY TypedAt DEF ChatInv
  <1>i. Walks(c) /\ Sends(c) /\ Claims(c) /\ Settles(c) /\ Delivers(c)
    BY <1>0 DEF Sane
  <1>k. \A k \in Keys : replay[k].by = c => k = call[c].key /\ replay[k].kind = call[c].kind
    BY <1>i DEF Claims

  <1>1. /\ Becomes(c, [Hurt(c) EXCEPT !.pc = "exit"]) /\ faults' \in 0 .. MaxFaults
    BY <1>0, Failing DEF RecordStreamTerminalState, NoFault
  <1>n. call' \in [Calls -> CallStates] /\ \A d \in Calls \ {c} : call'[d] = call[d]
    BY <1>0, <1>1, GoingHurt DEF Places
  <1>3. /\ call'[c].pc = "exit" /\ call'[c].kind = call[c].kind /\ call'[c].key = call[c].key
        /\ call'[c].acc = call[c].acc /\ call'[c].left = call[c].left
        /\ call'[c].leased = call[c].leased /\ call'[c].term = call[c].term
        /\ call'[c].at = call[c].at /\ call'[c].opened = call[c].opened
        /\ call'[c].tracked = call[c].tracked /\ call'[c].confirmed = call[c].confirmed
        /\ call'[c].sealed = call[c].sealed /\ call'[c].open = call[c].open
        /\ call'[c].got = call[c].got
        /\ call'[c].hurt <=> call[c].hurt \/ faults' # faults
    BY <1>0, <1>1, GoingHurt DEF Places
  <1>2. call[c].pc = "record" /\ Stream(c) /\ call[c].opened /\ Owns(c)
    BY <1>i DEF RecordStreamTerminalState, At, Walks, Claims, Holding
  <1>5. CarriesUsage(call[c].term) \/ call[c].term.code = "possibly" \/ Clean(c)
    BY <1>2, <1>i DEF Sends, After
  <1>4. /\ replay' \in [Keys -> Entries] /\ NobodyMeansNone'
        /\ \A k \in Keys \ {call[c].key} : replay'[k] = replay[k]
    BY <1>0, <1>2, Concluding DEF RecordStreamTerminalState, Typed, NobodyMeansNone
  <1>r. /\ \A k \in Keys \ {call[c].key} : replay'[k] = replay[k]
        /\ \/ replay'[call[c].key] = replay[call[c].key]
           \/ Clean(c) /\ replay'[call[c].key] = Unclaimed
           \/ /\ replay'[call[c].key].state = "terminal" /\ replay'[call[c].key].by = c
              /\ replay'[call[c].key].kind = call[c].kind
              /\ replay'[call[c].key].content = call[c].term.content
              /\ replay'[call[c].key].end = call[c].term.event /\ CarriesUsage(call[c].term)
    BY <1>0, <1>2, <1>5, Concluding DEF RecordStreamTerminalState
  <1>6. Unclaimed.by = NoCall /\ Unclaimed.state = "none" /\ c # NoCall
    BY ChatAssumption DEF Unclaimed
  <1>7. \/ faults' # faults
        \/ call[c].term.code = "possibly" \/ replay'[call[c].key].state # "claimed"
    BY <1>0, <1>2, <1>6, Concluding, Faulting DEF RecordStreamTerminalState
  <1>8. UNCHANGED <<setup, wire, fate, disowned, occupancy, lease, residual, registry>>
    BY DEF RecordStreamTerminalState
  <1>frame. Typed' /\ NobodyMeansNone' /\ OthersKept(c)
    BY <1>0, <1>1, <1>2, <1>n, <1>4, <1>r, <1>6, <1>8 DEF Typed, OthersKept, Owns
  <1>walks. Walks(c)'
    BY <1>2, <1>3, <1>8, <1>i DEF Walks, Stream, Early, After, Answered, StreamOnly
  <1>sends. Sends(c)'
    BY <1>2, <1>3, <1>8, <1>i DEF Sends, After, Answered, Clean, Stands, Ended, Stream
  <1>claims. Claims(c)'
    BY <1>0, <1>2, <1>3, <1>r, <1>6, <1>8, <1>i DEF Claims, Holding, Owns, Stream, Clean, Stands
  <1>settles. Settles(c)'
    BY <1>2, <1>3, <1>7, <1>8, <1>i DEF Settles, Owns, Stream, Done, At
  <1>delivers. Delivers(c)'
    BY <1>2, <1>3, <1>r, <1>6, <1>8, <1>i DEF Delivers, Stream, Done, At, Early, After,
       Answered, Owns
  <1> QED BY <1>frame, <1>walks, <1>sends, <1>claims, <1>settles, <1>delivers DEF Good, Sane

LEMMA RecordKeeps ==
    ASSUME ChatInv, NEW c \in Calls, Record(c)
    PROVE  Good(c)
  <1>0. /\ Typed /\ NobodyMeansNone /\ Sane(c) /\ call[c] \in CallStates
        /\ wire[c] \in Responses /\ fate[c] \in [Attempts -> Fates]
        /\ occupancy[c] \in Occupancies /\ call[c].key \in Keys /\ call[c].acc \in Accounts
    BY TypedAt DEF ChatInv
  <1>i. Walks(c) /\ Sends(c) /\ Claims(c) /\ Settles(c) /\ Delivers(c)
    BY <1>0 DEF Sane
  <1>k. \A k \in Keys : replay[k].by = c => k = call[c].key /\ replay[k].kind = call[c].kind
    BY <1>i DEF Claims

  <1>1. /\ Becomes(c, Over(Hurt(c))) /\ faults' \in 0 .. MaxFaults
    BY <1>0, Failing DEF Record, NoFault
  <1>n. call' \in [Calls -> CallStates] /\ \A d \in Calls \ {c} : call'[d] = call[d]
    BY <1>0, <1>1, Ending
  <1>3. /\ call'[c].pc = "done" /\ call'[c].kind = call[c].kind /\ call'[c].key = call[c].key
        /\ call'[c].at = call[c].at /\ call'[c].opened = call[c].opened
        /\ call'[c].term.code = call[c].term.code
        /\ Spent(call'[c].left) /\ ~call'[c].leased /\ ~call'[c].tracked
        /\ ~call'[c].confirmed /\ call'[c].open = "no" /\ call'[c].got = 0
        /\ call'[c].hurt <=> call[c].hurt \/ faults' # faults
    BY <1>0, <1>1, Ending
  <1>2. call[c].pc = "record" /\ ~Stream(c) /\ ~call[c].opened /\ Owns(c)
    BY <1>i DEF Record, At, Walks, Claims, Holding
  <1>5. CarriesUsage(call[c].term) \/ call[c].term.code = "possibly" \/ Clean(c)
    BY <1>2, <1>i DEF Sends, After
  <1>4. /\ replay' \in [Keys -> Entries] /\ NobodyMeansNone'
        /\ \A k \in Keys \ {call[c].key} : replay'[k] = replay[k]
    BY <1>0, <1>2, Concluding DEF Record, Typed, NobodyMeansNone
  <1>r. /\ \A k \in Keys \ {call[c].key} : replay'[k] = replay[k]
        /\ \/ replay'[call[c].key] = replay[call[c].key]
           \/ Clean(c) /\ replay'[call[c].key] = Unclaimed
           \/ /\ replay'[call[c].key].state = "terminal" /\ replay'[call[c].key].by = c
              /\ replay'[call[c].key].kind = call[c].kind
              /\ replay'[call[c].key].content = call[c].term.content
              /\ replay'[call[c].key].end = call[c].term.event /\ CarriesUsage(call[c].term)
    BY <1>0, <1>2, <1>5, Concluding DEF Record
  <1>6. Unclaimed.by = NoCall /\ Unclaimed.state = "none" /\ c # NoCall
    BY ChatAssumption DEF Unclaimed
  <1>v. wire' \in [Calls -> Responses] /\ \A d \in Calls \ {c} : wire'[d] = wire[d]
    BY <1>0, Answering DEF Record, Typed
  <1>a. /\ wire'[c].order = wire[c].order /\ wire'[c].deltas = wire[c].deltas
        /\ wire'[c].by = wire[c].by /\ wire[c].deltas \in Nat
        /\ Timely(wire'[c]) <=> Timely(wire[c])
        /\ Bounded(wire'[c]) <=> Bounded(wire[c])
        /\ \A n : Tells(n, wire'[c]) <=> Tells(n, wire[c])
        /\ wire[c].order # "awaiting" => wire'[c].end = wire[c].end
    BY <1>0, Answering, Counting DEF Record
  <1>8. UNCHANGED <<setup, fate, disowned, occupancy, lease, residual, registry>>
    BY DEF Record
  <1>frame. Typed' /\ NobodyMeansNone' /\ OthersKept(c)
    BY <1>0, <1>1, <1>2, <1>n, <1>4, <1>r, <1>v, <1>6, <1>8 DEF Typed, OthersKept, Owns
  <1>walks. Walks(c)'
    BY <1>2, <1>3, <1>8, <1>a, <1>i DEF Walks, Stream, Early, After, Answered, StreamOnly
  <1>sends. Sends(c)'
    BY <1>2, <1>3, <1>8, <1>i DEF Sends, After, Answered, Clean, Stands, Ended, Stream
  <1>claims. Claims(c)'
    BY <1>0, <1>2, <1>3, <1>r, <1>6, <1>8, <1>i DEF Claims, Holding, Owns, Stream, Clean, Stands
  <1>settles. Settles(c)'
    BY <1>2, <1>3, <1>8, <1>i DEF Settles, Owns, Stream, Done, At
  <1>delivers. Delivers(c)'
    BY <1>2, <1>3, <1>a, <1>8, <1>i DEF Delivers, Stream, Done, At, Early, After, Answered,
       Owns
  <1> QED BY <1>frame, <1>walks, <1>sends, <1>claims, <1>settles, <1>delivers DEF Good, Sane

LEMMA ReconciledKeeps ==
    ASSUME ChatInv, NEW c \in Calls, At(c, "reconcile"), ~Stream(c), Go(c, "record"),
           occupancy' = [occupancy EXCEPT ![c] =
               IF CarriesUsage(call[c].term) THEN "known" ELSE "unknown"],
           UNCHANGED <<setup, replay, lease, residual, registry, wire, fate, disowned, faults>>
    PROVE  Good(c)
  <1>0. /\ Typed /\ NobodyMeansNone /\ Sane(c) /\ call[c] \in CallStates
        /\ wire[c] \in Responses /\ fate[c] \in [Attempts -> Fates]
        /\ occupancy[c] \in Occupancies /\ call[c].key \in Keys /\ call[c].acc \in Accounts
    BY TypedAt DEF ChatInv
  <1>i. Walks(c) /\ Sends(c) /\ Claims(c) /\ Settles(c) /\ Delivers(c)
    BY <1>0 DEF Sane
  <1>k. \A k \in Keys : replay[k].by = c => k = call[c].key /\ replay[k].kind = call[c].kind
    BY <1>i DEF Claims

  <1>1. Becomes(c, [Hurt(c) EXCEPT !.pc = "record"]) \/ (Go(c, "record") /\ faults' = faults)
    OBVIOUS
  <1>n. call' \in [Calls -> CallStates] /\ \A d \in Calls \ {c} : call'[d] = call[d]
    BY <1>0, <1>1, GoingHurt DEF Places
  <1>3. /\ call'[c].pc = "record" /\ call'[c].kind = call[c].kind /\ call'[c].key = call[c].key
        /\ call'[c].acc = call[c].acc /\ call'[c].left = call[c].left
        /\ call'[c].leased = call[c].leased /\ call'[c].term = call[c].term
        /\ call'[c].at = call[c].at /\ call'[c].opened = call[c].opened
        /\ call'[c].tracked = call[c].tracked /\ call'[c].confirmed = call[c].confirmed
        /\ call'[c].sealed = call[c].sealed /\ call'[c].open = call[c].open
        /\ call'[c].got = call[c].got
        /\ call'[c].hurt <=> call[c].hurt \/ faults' # faults
    BY <1>0, <1>1, GoingHurt DEF Places
  <1>2. call[c].pc = "reconcile" /\ ~Stream(c) /\ ~call[c].opened /\ Owns(c)
    BY <1>i DEF At, Walks, Claims, Holding
  <1>4. /\ occupancy' \in [Calls -> Occupancies] /\ \A d \in Calls \ {c} : occupancy'[d] = occupancy[d]
    BY <1>0 DEF Typed, Occupancies
  <1>5. occupancy'[c] \in {"known", "unknown"}
    BY <1>0 DEF Typed
  <1>7. UNCHANGED <<setup, wire, fate, disowned, replay, lease, residual, registry>>
    OBVIOUS
  <1>8. call[c].hurt \/ c \notin residual
    BY <1>2, <1>i DEF Settles
  <1>frame. Typed' /\ NobodyMeansNone' /\ OthersKept(c)
    BY <1>0, <1>n, <1>4, <1>7 DEF Typed, OthersKept, NobodyMeansNone
  <1>walks. Walks(c)'
    BY <1>2, <1>3, <1>7, <1>i DEF Walks, Stream, Early, After, Answered, StreamOnly
  <1>sends. Sends(c)'
    BY <1>2, <1>3, <1>7, <1>i DEF Sends, After, Answered, Clean, Stands, Ended, Stream
  <1>claims. Claims(c)'
    BY <1>0, <1>2, <1>3, <1>7, <1>i DEF Claims, Holding, Owns, Stream, Clean, Stands
  <1>settles. Settles(c)'
    BY <1>2, <1>3, <1>5, <1>7, <1>8, <1>i DEF Settles, Owns, Stream, Done, At
  <1>delivers. Delivers(c)'
    BY <1>2, <1>3, <1>7, <1>i DEF Delivers, Stream, Done, At, Early, After, Answered, Owns
  <1> QED BY <1>frame, <1>walks, <1>sends, <1>claims, <1>settles, <1>delivers DEF Good, Sane

LEMMA UnreconciledKeeps ==
    ASSUME ChatInv, NEW c \in Calls, At(c, "reconcile"), ~Stream(c), Becomes(c, Over(Hurt(c))),
           FailsOnRequest(c), AnswersHTTP(c),
           UNCHANGED <<setup, replay, occupancy, lease, residual, registry, fate, disowned>>
    PROVE  Good(c)
  <1>0. /\ Typed /\ NobodyMeansNone /\ Sane(c) /\ call[c] \in CallStates
        /\ wire[c] \in Responses /\ fate[c] \in [Attempts -> Fates]
        /\ occupancy[c] \in Occupancies /\ call[c].key \in Keys /\ call[c].acc \in Accounts
    BY TypedAt DEF ChatInv
  <1>i. Walks(c) /\ Sends(c) /\ Claims(c) /\ Settles(c) /\ Delivers(c)
    BY <1>0 DEF Sane
  <1>k. \A k \in Keys : replay[k].by = c => k = call[c].key /\ replay[k].kind = call[c].kind
    BY <1>i DEF Claims

  <1>1. Becomes(c, Over(Hurt(c)))
    OBVIOUS
  <1>n. call' \in [Calls -> CallStates] /\ \A d \in Calls \ {c} : call'[d] = call[d]
    BY <1>0, <1>1, Ending
  <1>3. /\ call'[c].pc = "done" /\ call'[c].kind = call[c].kind /\ call'[c].key = call[c].key
        /\ call'[c].at = call[c].at /\ call'[c].opened = call[c].opened
        /\ call'[c].term.code = call[c].term.code
        /\ Spent(call'[c].left) /\ ~call'[c].leased /\ ~call'[c].tracked
        /\ ~call'[c].confirmed /\ call'[c].open = "no" /\ call'[c].got = 0
        /\ call'[c].hurt <=> call[c].hurt \/ faults' # faults
    BY <1>0, <1>1, Ending
  <1>2. call[c].pc = "reconcile" /\ ~Stream(c) /\ ~call[c].opened /\ Owns(c)
    BY <1>i DEF At, Walks, Claims, Holding
  <1>v. wire' \in [Calls -> Responses] /\ \A d \in Calls \ {c} : wire'[d] = wire[d]
    BY <1>0, Answering DEF At, Typed
  <1>a. /\ wire'[c].order = wire[c].order /\ wire'[c].deltas = wire[c].deltas
        /\ wire'[c].by = wire[c].by /\ wire[c].deltas \in Nat
        /\ Timely(wire'[c]) <=> Timely(wire[c])
        /\ Bounded(wire'[c]) <=> Bounded(wire[c])
        /\ \A n : Tells(n, wire'[c]) <=> Tells(n, wire[c])
        /\ wire[c].order # "awaiting" => wire'[c].end = wire[c].end
    BY <1>0, Answering, Counting DEF At
  <1>5. faults' \in 0 .. MaxFaults
    BY <1>0, Failing
  <1>7. UNCHANGED <<setup, fate, disowned, replay, occupancy, lease, residual, registry>>
    OBVIOUS
  <1>frame. Typed' /\ NobodyMeansNone' /\ OthersKept(c)
    BY <1>0, <1>n, <1>v, <1>5, <1>7 DEF Typed, OthersKept, NobodyMeansNone
  <1>walks. Walks(c)'
    BY <1>2, <1>3, <1>7, <1>a, <1>i DEF Walks, Stream, Early, After, Answered, StreamOnly
  <1>sends. Sends(c)'
    BY <1>2, <1>3, <1>7, <1>i DEF Sends, After, Answered, Clean, Stands, Ended, Stream
  <1>claims. Claims(c)'
    BY <1>0, <1>2, <1>3, <1>7, <1>i DEF Claims, Holding, Owns, Stream, Clean, Stands
  <1>settles. Settles(c)'
    BY <1>2, <1>3, <1>7, <1>i DEF Settles, Owns, Stream, Done, At
  <1>delivers. Delivers(c)'
    BY <1>2, <1>3, <1>7, <1>a, <1>i DEF Delivers, Stream, Done, At, Early, After, Answered,
       Owns
  <1> QED BY <1>frame, <1>walks, <1>sends, <1>claims, <1>settles, <1>delivers DEF Good, Sane

LEMMA ExitKeeps ==
    ASSUME ChatInv, NEW c \in Calls, Exit(c)
    PROVE  Good(c)
  <1>0. /\ Typed /\ NobodyMeansNone /\ Sane(c) /\ call[c] \in CallStates
        /\ wire[c] \in Responses /\ fate[c] \in [Attempts -> Fates]
        /\ occupancy[c] \in Occupancies /\ call[c].key \in Keys /\ call[c].acc \in Accounts
    BY TypedAt DEF ChatInv
  <1>i. Walks(c) /\ Sends(c) /\ Claims(c) /\ Settles(c) /\ Delivers(c)
    BY <1>0 DEF Sane
  <1>k. \A k \in Keys : replay[k].by = c => k = call[c].key /\ replay[k].kind = call[c].kind
    BY <1>i DEF Claims

  <1>1. /\ Becomes(c, Over(Hurt(c))) /\ faults' \in 0 .. MaxFaults
    BY <1>0, Failing DEF Exit, NoFault
  <1>n. call' \in [Calls -> CallStates] /\ \A d \in Calls \ {c} : call'[d] = call[d]
    BY <1>0, <1>1, Ending
  <1>3. /\ call'[c].pc = "done" /\ call'[c].kind = call[c].kind /\ call'[c].key = call[c].key
        /\ call'[c].at = call[c].at /\ call'[c].opened = call[c].opened
        /\ call'[c].term.code = call[c].term.code
        /\ Spent(call'[c].left) /\ ~call'[c].leased /\ ~call'[c].tracked
        /\ ~call'[c].confirmed /\ call'[c].open = "no" /\ call'[c].got = 0
        /\ call'[c].hurt <=> call[c].hurt \/ faults' # faults
    BY <1>0, <1>1, Ending
  <1>2. call[c].pc = "exit" /\ Stream(c) /\ call[c].at # 0
    BY <1>i DEF Exit, At, Walks, StreamOnly, After
  <1>4. /\ lease' \in [Accounts -> Calls \cup {NoCall}] /\ registry' \in [Calls -> Registered]
        /\ \A a \in Accounts : lease'[a] = lease[a] \/ (lease[a] = c /\ lease'[a] = NoCall)
    BY <1>0, Leaving DEF Exit, Typed
  <1>5. faults' = faults => \A a \in Accounts : lease'[a] # c
    BY <1>0, Leaving, Faulting DEF Exit
  <1>v. wire' \in [Calls -> Responses] /\ \A d \in Calls \ {c} : wire'[d] = wire[d]
    BY <1>0, Answering DEF Exit, Typed
  <1>a. /\ wire'[c].order = wire[c].order /\ wire'[c].deltas = wire[c].deltas
        /\ wire'[c].by = wire[c].by /\ wire[c].deltas \in Nat
        /\ Timely(wire'[c]) <=> Timely(wire[c])
        /\ Bounded(wire'[c]) <=> Bounded(wire[c])
        /\ \A n : Tells(n, wire'[c]) <=> Tells(n, wire[c])
        /\ call[c].opened => wire'[c].end = wire[c].end
    BY <1>0, Answering, Counting DEF Exit
  <1>8. UNCHANGED <<setup, fate, disowned, occupancy, replay, residual>>
    BY DEF Exit
  <1>frame. Typed' /\ NobodyMeansNone' /\ OthersKept(c)
    BY <1>0, <1>1, <1>n, <1>4, <1>v, <1>8 DEF Typed, OthersKept, NobodyMeansNone
  <1>walks. Walks(c)'
    BY <1>2, <1>3, <1>8, <1>a, <1>i DEF Walks, Stream, Early, After, Answered, StreamOnly
  <1>sends. Sends(c)'
    BY <1>2, <1>3, <1>8, <1>i DEF Sends, After, Answered, Clean, Stands, Ended, Stream
  <1>claims. Claims(c)'
    BY <1>2, <1>3, <1>8, <1>i DEF Claims, Holding, Owns, Stream, Clean, Stands
  <1>settles. Settles(c)'
    BY <1>2, <1>3, <1>5, <1>8, <1>i DEF Settles, Owns, Stream, Done, At
  <1>delivers. Delivers(c)'
    BY <1>2, <1>3, <1>a, <1>8, <1>i DEF Delivers, Stream, Done, At, Early, After, Answered
  <1> QED BY <1>frame, <1>walks, <1>sends, <1>claims, <1>settles, <1>delivers DEF Good, Sane

LEMMA PanicKeeps ==
    ASSUME ChatInv, NEW c \in Calls, Panic(c)
    PROVE  Good(c)
  <1>0. /\ Typed /\ NobodyMeansNone /\ Sane(c) /\ call[c] \in CallStates
        /\ wire[c] \in Responses /\ fate[c] \in [Attempts -> Fates]
        /\ occupancy[c] \in Occupancies /\ call[c].key \in Keys /\ call[c].acc \in Accounts
    BY TypedAt DEF ChatInv
  <1>i. Walks(c) /\ Sends(c) /\ Claims(c) /\ Settles(c) /\ Delivers(c)
    BY <1>0 DEF Sane
  <1>k. \A k \in Keys : replay[k].by = c => k = call[c].key /\ replay[k].kind = call[c].kind
    BY <1>i DEF Claims

  <1>1. /\ Becomes(c, Over(Hurt(c))) /\ faults' \in 0 .. MaxFaults /\ faults' # faults
    BY <1>0, Faulting DEF Panic
  <1>n. call' \in [Calls -> CallStates] /\ \A d \in Calls \ {c} : call'[d] = call[d]
    BY <1>0, <1>1, Ending
  <1>3. /\ call'[c].pc = "done" /\ call'[c].kind = call[c].kind /\ call'[c].key = call[c].key
        /\ call'[c].at = call[c].at /\ call'[c].opened = call[c].opened
        /\ call'[c].term.code = call[c].term.code
        /\ Spent(call'[c].left) /\ ~call'[c].leased /\ ~call'[c].tracked
        /\ ~call'[c].confirmed /\ call'[c].open = "no" /\ call'[c].got = 0
        /\ call'[c].hurt <=> call[c].hurt \/ faults' # faults
    BY <1>0, <1>1, Ending
  <1>2. call[c].pc \in {"adapter", "returned"} /\ Stream(c) /\ ~call[c].opened
    <2>1. call[c].pc \in {"adapter", "returned"} /\ Stream(c)
      BY DEF Panic
    <2> QED BY <2>1, <1>i DEF Walks, After
  <1>4. /\ lease' \in [Accounts -> Calls \cup {NoCall}] /\ registry' \in [Calls -> Registered]
        /\ \A a \in Accounts : lease'[a] = lease[a] \/ (lease[a] = c /\ lease'[a] = NoCall)
    BY <1>0, Leaving DEF Panic, Typed
  <1>5. call'[c].hurt
    BY <1>1, <1>3
  <1>8. UNCHANGED <<setup, wire, fate, disowned, occupancy, replay, residual>>
    BY DEF Panic
  <1>6. occupancy[c] # "known" /\ Owns(c)
    BY <1>2, <1>i DEF Settles, Claims, Holding
  <1>a. wire[c].deltas \in Nat
    BY <1>0, Counting
  <1>frame. Typed' /\ NobodyMeansNone' /\ OthersKept(c)
    BY <1>0, <1>1, <1>n, <1>4, <1>8 DEF Typed, OthersKept, NobodyMeansNone
  <1>walks. Walks(c)'
    BY <1>2, <1>3, <1>8, <1>a DEF Walks, Stream, Early, After, Answered, StreamOnly
  <1>sends. Sends(c)'
    BY <1>2, <1>3, <1>8, <1>i DEF Sends, After, Answered, Clean, Stands, Ended, Stream
  <1>claims. Claims(c)'
    BY <1>2, <1>3, <1>8, <1>i DEF Claims, Holding, Owns, Stream, Clean, Stands
  <1>settles. Settles(c)'
    BY <1>3, <1>5, <1>6, <1>8 DEF Settles, Stream, Done, At
  <1>delivers. Delivers(c)'
    BY <1>2, <1>3, <1>5, <1>6, <1>8, <1>i DEF Delivers, Stream, Done, At, Early, After,
       Answered, Owns
  <1> QED BY <1>frame, <1>walks, <1>sends, <1>claims, <1>settles, <1>delivers DEF Good, Sane

LEMMA CancelKeeps ==
    ASSUME ChatInv, NEW c \in Calls, Cancel(c)
    PROVE  Good(c)
  <1>0. /\ Typed /\ NobodyMeansNone /\ Sane(c) /\ call[c] \in CallStates
        /\ wire[c] \in Responses /\ fate[c] \in [Attempts -> Fates]
        /\ occupancy[c] \in Occupancies /\ call[c].key \in Keys /\ call[c].acc \in Accounts
    BY TypedAt DEF ChatInv
  <1>1. registry' \in [Calls -> Registered]
    BY <1>0 DEF Cancel, Typed, Registered
  <1>2. UNCHANGED <<call, replay, occupancy, lease, residual, setup, wire, fate, disowned, faults>>
    BY DEF Cancel
  <1>frame. Typed' /\ NobodyMeansNone' /\ OthersKept(c)
    BY <1>0, <1>1, <1>2 DEF Typed, OthersKept, NobodyMeansNone
  <1>walks. Walks(c)'
    BY <1>0, <1>2 DEF Sane, Walks, Stream, Early, After, Answered, StreamOnly
  <1>sends. Sends(c)'
    BY <1>0, <1>2 DEF Sane, Sends, After, Answered, Clean, Stands, Ended, Stream
  <1>claims. Claims(c)'
    BY <1>0, <1>2 DEF Sane, Claims, Holding, Owns, Stream, Clean, Stands
  <1>settles. Settles(c)'
    BY <1>0, <1>2 DEF Sane, Settles, Owns, Stream, Done, At
  <1>delivers. Delivers(c)'
    BY <1>0, <1>2 DEF Sane, Delivers, Stream, Done, At
  <1> QED BY <1>frame, <1>walks, <1>sends, <1>claims, <1>settles, <1>delivers DEF Good, Sane

LEMMA ProviderAcceptsKeeps ==
    ASSUME ChatInv, NEW c \in Calls, NEW i \in Attempts, ProviderAccepts(c, i)
    PROVE  Good(c)
  <1>0. /\ Typed /\ NobodyMeansNone /\ Sane(c) /\ call[c] \in CallStates
        /\ wire[c] \in Responses /\ fate[c] \in [Attempts -> Fates]
        /\ occupancy[c] \in Occupancies /\ call[c].key \in Keys /\ call[c].acc \in Accounts
    BY TypedAt DEF ChatInv
  <1>1. /\ fate' \in [Calls -> [Attempts -> Fates]]
        /\ \A d \in Calls \ {c} : fate'[d] = fate[d]
        /\ fate[c][i] = "sent" /\ fate'[c][i] = "running"
        /\ \A j \in Attempts : j # i => fate'[c][j] = fate[c][j]
    BY <1>0 DEF ProviderAccepts, Typed, Fates
  <1>2. UNCHANGED <<call, replay, occupancy, lease, residual, registry, setup, wire, disowned, faults>>
    BY DEF ProviderAccepts
  <1>i. Walks(c) /\ Sends(c) /\ Claims(c) /\ Settles(c) /\ Delivers(c)
    BY <1>0 DEF Sane
  <1>3. \A j \in Attempts : Stands(c, j)' <=> Stands(c, j)
    BY <1>1, <1>2 DEF Stands
  <1>z. call[c].at # 0 => call[c].at \in Attempts
    BY <1>0 DEF CallStates, Attempts
  <1>4. call[c].at # 0 =>
           \/ fate'[c][call[c].at] = fate[c][call[c].at]
           \/ call[c].at = i /\ fate[c][call[c].at] = "sent" /\ fate'[c][call[c].at] = "running"
    BY <1>1, <1>z
  <1>5. /\ call[c].pc \in {"returned"} \cup Answered \cup After => call[c].at # 0
        /\ call[c].opened => call[c].at # 0
        /\ call[c].confirmed => call[c].at # 0
    <2>1. call[c].pc \in {"returned"} \cup Answered \cup After => call[c].at # 0
      <3>1. CASE call[c].pc \in {"returned"} \cup Answered
        <4>1. call[c].at = 1 \/ call[c].at = 2
          BY <1>i, <3>1 DEF Walks
        <4> QED BY <4>1
      <3>2. CASE call[c].pc \in After
        BY <1>i, <3>2 DEF Walks
      <3> QED BY <3>1, <3>2
    <2>2. call[c].opened => call[c].at # 0
      BY <1>i DEF Walks
    <2>3. call[c].confirmed => call[c].pc \in After
      BY <1>i DEF Sends
    <2> QED BY <2>1, <2>2, <2>3
  <1>frame. Typed' /\ NobodyMeansNone' /\ OthersKept(c)
    BY <1>0, <1>1, <1>2 DEF Typed, OthersKept, NobodyMeansNone
  <1>walks. Walks(c)'
    BY <1>2, <1>i DEF Walks, Stream, Early, After, Answered, StreamOnly
  <1>sends. Sends(c)'
    BY <1>2, <1>3, <1>4, <1>5, <1>z, <1>i DEF Sends, Clean, Ended, Stream
  <1>claims. Claims(c)'
    BY <1>2, <1>3, <1>i DEF Claims, Holding, Owns, Stream, Clean
  <1>settles. Settles(c)'
    BY <1>2, <1>4, <1>5, <1>i DEF Settles, Owns, Stream, Done, At
  <1>delivers. Delivers(c)'
    BY <1>2, <1>i DEF Delivers, Stream, Done, At
  <1> QED BY <1>frame, <1>walks, <1>sends, <1>claims, <1>settles, <1>delivers DEF Good, Sane

LEMMA ProviderEndsKeeps ==
    ASSUME ChatInv, NEW c \in Calls, NEW i \in Attempts, ProviderEnds(c, i)
    PROVE  Good(c)
  <1>0. /\ Typed /\ NobodyMeansNone /\ Sane(c) /\ call[c] \in CallStates
        /\ wire[c] \in Responses /\ fate[c] \in [Attempts -> Fates]
        /\ occupancy[c] \in Occupancies /\ call[c].key \in Keys /\ call[c].acc \in Accounts
    BY TypedAt DEF ChatInv
  <1>1. /\ fate' \in [Calls -> [Attempts -> Fates]]
        /\ \A d \in Calls \ {c} : fate'[d] = fate[d]
        /\ fate[c][i] = "running" /\ fate'[c][i] = "ended"
        /\ \A j \in Attempts : j # i => fate'[c][j] = fate[c][j]
    BY <1>0 DEF ProviderEnds, Typed, Fates
  <1>2. UNCHANGED <<call, replay, occupancy, lease, residual, registry, setup, wire, disowned, faults>>
    BY DEF ProviderEnds
  <1>i. Walks(c) /\ Sends(c) /\ Claims(c) /\ Settles(c) /\ Delivers(c)
    BY <1>0 DEF Sane
  <1>3. \A j \in Attempts : Stands(c, j)' <=> Stands(c, j)
    BY <1>1, <1>2 DEF Stands
  <1>z. call[c].at # 0 => call[c].at \in Attempts
    BY <1>0 DEF CallStates, Attempts
  <1>4. call[c].at # 0 =>
           \/ fate'[c][call[c].at] = fate[c][call[c].at]
           \/ call[c].at = i /\ fate[c][call[c].at] = "running" /\ fate'[c][call[c].at] = "ended"
    BY <1>1, <1>z
  <1>5. /\ call[c].pc \in {"returned"} \cup Answered \cup After => call[c].at # 0
        /\ call[c].opened => call[c].at # 0
        /\ call[c].confirmed => call[c].at # 0
    <2>1. call[c].pc \in {"returned"} \cup Answered \cup After => call[c].at # 0
      <3>1. CASE call[c].pc \in {"returned"} \cup Answered
        <4>1. call[c].at = 1 \/ call[c].at = 2
          BY <1>i, <3>1 DEF Walks
        <4> QED BY <4>1
      <3>2. CASE call[c].pc \in After
        BY <1>i, <3>2 DEF Walks
      <3> QED BY <3>1, <3>2
    <2>2. call[c].opened => call[c].at # 0
      BY <1>i DEF Walks
    <2>3. call[c].confirmed => call[c].pc \in After
      BY <1>i DEF Sends
    <2> QED BY <2>1, <2>2, <2>3
  <1>frame. Typed' /\ NobodyMeansNone' /\ OthersKept(c)
    BY <1>0, <1>1, <1>2 DEF Typed, OthersKept, NobodyMeansNone
  <1>walks. Walks(c)'
    BY <1>2, <1>i DEF Walks, Stream, Early, After, Answered, StreamOnly
  <1>sends. Sends(c)'
    BY <1>2, <1>3, <1>4, <1>5, <1>z, <1>i DEF Sends, Clean, Ended, Stream
  <1>claims. Claims(c)'
    BY <1>2, <1>3, <1>i DEF Claims, Holding, Owns, Stream, Clean
  <1>settles. Settles(c)'
    BY <1>2, <1>4, <1>5, <1>i DEF Settles, Owns, Stream, Done, At
  <1>delivers. Delivers(c)'
    BY <1>2, <1>i DEF Delivers, Stream, Done, At
  <1> QED BY <1>frame, <1>walks, <1>sends, <1>claims, <1>settles, <1>delivers DEF Good, Sane

LEMMA ProviderRefusesKeeps ==
    ASSUME ChatInv, NEW c \in Calls, NEW i \in Attempts, ProviderRefuses(c, i)
    PROVE  Good(c)
  <1>0. /\ Typed /\ NobodyMeansNone /\ Sane(c) /\ call[c] \in CallStates
        /\ wire[c] \in Responses /\ fate[c] \in [Attempts -> Fates]
        /\ occupancy[c] \in Occupancies /\ call[c].key \in Keys /\ call[c].acc \in Accounts
    BY TypedAt DEF ChatInv
  <1>1. /\ fate' \in [Calls -> [Attempts -> Fates]]
        /\ \A d \in Calls \ {c} : fate'[d] = fate[d]
        /\ fate[c][i] = "sent" /\ fate'[c][i] = "refused"
        /\ \A j \in Attempts : j # i => fate'[c][j] = fate[c][j]
    BY <1>0 DEF ProviderRefuses, Typed, Fates
  <1>2. UNCHANGED <<call, replay, occupancy, lease, residual, registry, setup, wire, disowned, faults>>
    BY DEF ProviderRefuses
  <1>i. Walks(c) /\ Sends(c) /\ Claims(c) /\ Settles(c) /\ Delivers(c)
    BY <1>0 DEF Sane
  <1>3. \A j \in Attempts : Stands(c, j)' => Stands(c, j)
    BY <1>1, <1>2 DEF Stands
  <1>z. call[c].at # 0 => call[c].at \in Attempts
    BY <1>0 DEF CallStates, Attempts
  <1>4. call[c].at # 0 =>
           \/ fate'[c][call[c].at] = fate[c][call[c].at]
           \/ call[c].at = i /\ fate[c][call[c].at] = "sent" /\ fate'[c][call[c].at] = "refused"
    BY <1>1, <1>z
  <1>5. /\ call[c].pc \in {"returned"} \cup Answered \cup After => call[c].at # 0
        /\ call[c].opened => call[c].at # 0
        /\ call[c].confirmed => call[c].at # 0
    <2>1. call[c].pc \in {"returned"} \cup Answered \cup After => call[c].at # 0
      <3>1. CASE call[c].pc \in {"returned"} \cup Answered
        <4>1. call[c].at = 1 \/ call[c].at = 2
          BY <1>i, <3>1 DEF Walks
        <4> QED BY <4>1
      <3>2. CASE call[c].pc \in After
        BY <1>i, <3>2 DEF Walks
      <3> QED BY <3>1, <3>2
    <2>2. call[c].opened => call[c].at # 0
      BY <1>i DEF Walks
    <2>3. call[c].confirmed => call[c].pc \in After
      BY <1>i DEF Sends
    <2> QED BY <2>1, <2>2, <2>3
  <1>frame. Typed' /\ NobodyMeansNone' /\ OthersKept(c)
    BY <1>0, <1>1, <1>2 DEF Typed, OthersKept, NobodyMeansNone
  <1>walks. Walks(c)'
    BY <1>2, <1>i DEF Walks, Stream, Early, After, Answered, StreamOnly
  <1>sends. Sends(c)'
    BY <1>2, <1>3, <1>4, <1>5, <1>z, <1>i DEF Sends, Clean, Ended, Stream
  <1>claims. Claims(c)'
    BY <1>2, <1>3, <1>i DEF Claims, Holding, Owns, Stream, Clean
  <1>settles. Settles(c)'
    BY <1>2, <1>4, <1>5, <1>i DEF Settles, Owns, Stream, Done, At
  <1>delivers. Delivers(c)'
    BY <1>2, <1>i DEF Delivers, Stream, Done, At
  <1> QED BY <1>frame, <1>walks, <1>sends, <1>claims, <1>settles, <1>delivers DEF Good, Sane

LEMMA EndedKeeps ==
    ASSUME ChatInv, NEW c \in Calls, NEW o \in EnsureOpen(c), At(c, "end"), o.open = "open",
           wire' = [wire EXCEPT ![c] = TransportTerminal(o.wire, call[c].term.event)],
           Becomes(c, [call[c] EXCEPT !.open = "open", !.sealed = TRUE, !.pc = "mark"]),
           UNCHANGED <<setup, replay, occupancy, lease, residual, registry, fate, disowned, faults>>
    PROVE  Good(c)
  <1>0. /\ Typed /\ NobodyMeansNone /\ Sane(c) /\ call[c] \in CallStates
        /\ wire[c] \in Responses /\ fate[c] \in [Attempts -> Fates]
        /\ occupancy[c] \in Occupancies /\ call[c].key \in Keys /\ call[c].acc \in Accounts
    BY TypedAt DEF ChatInv
  <1>i. Walks(c) /\ Sends(c) /\ Claims(c) /\ Settles(c) /\ Delivers(c)
    BY <1>0 DEF Sane
  <1>k. \A k \in Keys : replay[k].by = c => k = call[c].key /\ replay[k].kind = call[c].kind
    BY <1>i DEF Claims

  <1>1. call[c].pc = "end"
    BY DEF At
  <1>2. /\ Stream(c) /\ call[c].opened /\ Owns(c) /\ occupancy[c] # "known"
        /\ call[c].at # 0 /\ ~call[c].confirmed /\ (call[c].hurt \/ c \notin residual)
    BY <1>1, <1>i DEF Walks, Sends, Claims, Holding, Settles, StreamOnly, Answered, After
  <1> DEFINE t == call[c].term
             n == [call[c] EXCEPT !.open = "open", !.sealed = TRUE, !.pc = "mark"]
             w == TransportTerminal(o.wire, t.event)
  <1>3. n \in CallStates /\ t.event \in Events
    BY <1>0 DEF CallStates, Places, Opens, Terms
  <1>4. call' \in [Calls -> CallStates] /\ \A d \in Calls \ {c} : call'[d] = call[d]
    BY <1>0, <1>3, Becoming
  <1>5. /\ call'[c].pc = "mark" /\ call'[c].kind = call[c].kind /\ call'[c].key = call[c].key
        /\ call'[c].acc = call[c].acc /\ call'[c].left = call[c].left
        /\ call'[c].leased = call[c].leased /\ call'[c].term = t
        /\ call'[c].at = call[c].at /\ call'[c].opened = call[c].opened
        /\ call'[c].tracked = call[c].tracked /\ call'[c].confirmed = call[c].confirmed
        /\ call'[c].sealed /\ call'[c].open = "open"
        /\ call'[c].got = call[c].got
        /\ call'[c].hurt = call[c].hurt
    <2>1. call'[c] = n
      BY <1>0, <1>3, Becoming
    <2> QED BY <1>0, <2>1 DEF CallStates
  <1>6. /\ o.wire \in Responses /\ o.wire.deltas = wire[c].deltas /\ o.wire.by = wire[c].by
        /\ o.wire.end = wire[c].end /\ o.wire.late = wire[c].late /\ ~call[c].sealed
        /\ call[c].open = "open" => o.wire.order = wire[c].order
        /\ call[c].open # "open" => wire[c].order = "awaiting" /\ o.wire.order = "open"
    BY <1>0, Opening DEF CallStates, Opens
  <1>7. o.wire.order = "open"
    BY <1>1, <1>6, <1>i DEF Delivers
  <1>8. /\ w \in Responses /\ w.order = "closed" /\ w.end = t.event
        /\ w.deltas = wire[c].deltas /\ w.by = wire[c].by /\ w.late = wire[c].late
    BY <1>3, <1>6, <1>7 DEF TransportTerminal, OrderAdmits, Events, Responses
  <1>9. /\ wire'[c].order = "closed" /\ wire'[c].end = t.event
        /\ wire'[c].deltas = wire[c].deltas /\ wire'[c].by = wire[c].by
        /\ wire'[c].late = wire[c].late
    <2> HIDE DEF w
    <2>1. wire' = [wire EXCEPT ![c] = w]
      BY DEF w
    <2>2. wire'[c] = w
      BY <1>0, <2>1 DEF Typed
    <2> QED BY <1>8, <2>2
  <1>v. wire' \in [Calls -> Responses] /\ \A d \in Calls \ {c} : wire'[d] = wire[d]
    BY <1>0, <1>8 DEF Typed
  <1> HIDE DEF n, w
  <1>a. UNCHANGED <<setup, replay, occupancy, lease, residual, registry, fate, disowned, faults>>
    OBVIOUS
  <1>b. /\ wire[c].by \subseteq {call[c].at} /\ AtMostOne(wire[c].by)
    <2>1. CASE call[c].open = "open"
      BY <2>1, <1>i DEF Delivers
    <2>2. CASE call[c].open # "open"
      BY <2>2, <1>6, <1>i DEF Delivers
    <2> QED BY <2>1, <2>2
  <1>c. /\ CarriesUsage(t) => Tells(t.content, wire'[c])
        /\ Bounded(wire'[c])
    BY <1>1, <1>9, <1>i, SameTally DEF Delivers
  <1>d. /\ CarriesUsage(t) \/ t.code = "possibly" \/ Clean(c)
        /\ CarriesUsage(t) /\ UpstreamStopped(t) => Ended(c)
    <2>1. call[c].answer \in Disowning => Clean(c)
      BY <1>1, <1>i DEF Sends, Clean, Stands, Answered
    <2>2. CarriesUsage(t) \/ t.code = "possibly" \/ Clean(c)
      BY <1>1, <1>i, <2>1 DEF Sends, Answered
    <2>3. t.event = "completed" => Ended(c)
      BY <1>1, <1>i DEF Sends, Answered
    <2>4. t.event = "canceled" /\ t.stop => Ended(c)
      BY <1>1, <1>i DEF Sends, Answered
    <2> QED BY <2>2, <2>3, <2>4 DEF CarriesUsage, UpstreamStopped
  <1>frame. Typed' /\ NobodyMeansNone' /\ OthersKept(c)
    BY <1>0, <1>4, <1>v, <1>a DEF Typed, OthersKept, NobodyMeansNone
  <1>walks. Walks(c)'
    BY <1>1, <1>2, <1>5, <1>9, <1>a, <1>i DEF Walks, Stream, Early, After, Answered,
       StreamOnly
  <1>sends. Sends(c)'
    BY <1>2, <1>5, <1>a, <1>d, <1>i DEF Sends, After, Answered, Clean, Stands, Ended, Stream
  <1>claims. Claims(c)'
    BY <1>2, <1>5, <1>a, <1>k DEF Claims, Holding, Owns, Stream, Clean, Stands
  <1>settles. Settles(c)'
    BY <1>1, <1>2, <1>5, <1>a, <1>i DEF Settles, Owns, Stream, Done, At
  <1>delivers. Delivers(c)'
    BY <1>2, <1>5, <1>9, <1>a, <1>b, <1>c DEF Delivers, Stream, Done, At, Early, After,
       Answered, Owns
  <1> QED BY <1>frame, <1>walks, <1>sends, <1>claims, <1>settles, <1>delivers DEF Good, Sane

LEMMA BrokenKeeps ==
    ASSUME ChatInv, NEW c \in Calls, NEW o \in EnsureOpen(c), At(c, "end"), o.open = "broken",
           wire' = [wire EXCEPT ![c] = o.wire],
           Becomes(c, IF call[c].answer = "error" THEN [call[c] EXCEPT !.open = "broken", !.pc = "mark"]
                      ELSE [call[c] EXCEPT !.open = "broken", !.pc = "mark",
                                           !.term.code = "possibly", !.opened = FALSE]),
           UNCHANGED <<setup, replay, occupancy, lease, residual, registry, fate, disowned, faults>>
    PROVE  Good(c)
  <1>0. /\ Typed /\ NobodyMeansNone /\ Sane(c) /\ call[c] \in CallStates
        /\ wire[c] \in Responses /\ fate[c] \in [Attempts -> Fates]
        /\ occupancy[c] \in Occupancies /\ call[c].key \in Keys /\ call[c].acc \in Accounts
    BY TypedAt DEF ChatInv
  <1>i. Walks(c) /\ Sends(c) /\ Claims(c) /\ Settles(c) /\ Delivers(c)
    BY <1>0 DEF Sane
  <1>k. \A k \in Keys : replay[k].by = c => k = call[c].key /\ replay[k].kind = call[c].kind
    BY <1>i DEF Claims

  <1>1. call[c].pc = "end"
    BY DEF At
  <1>2. /\ Stream(c) /\ call[c].opened /\ Owns(c) /\ occupancy[c] # "known"
        /\ call[c].at # 0 /\ ~call[c].confirmed /\ (call[c].hurt \/ c \notin residual)
    BY <1>1, <1>i DEF Walks, Sends, Claims, Holding, Settles, StreamOnly, Answered, After
  <1>3. call[c].answer \in Answers
    BY <1>0 DEF CallStates
  <1>4. PICK code \in {call[c].term.code, "possibly"}, opened \in BOOLEAN :
           /\ Becomes(c, [call[c] EXCEPT !.open = "broken", !.pc = "mark",
                                         !.term = [call[c].term EXCEPT !.code = code],
                                         !.opened = opened])
           /\ opened => call[c].answer = "error" /\ code = call[c].term.code
           /\ ~opened => call[c].answer # "error" /\ code = "possibly"
    <2>1. CASE call[c].answer = "error"
      <3>1. [call[c] EXCEPT !.open = "broken", !.pc = "mark"]
              = [call[c] EXCEPT !.open = "broken", !.pc = "mark",
                                !.term = [call[c].term EXCEPT !.code = call[c].term.code],
                                !.opened = TRUE]
        BY <1>0, <1>2 DEF CallStates, Terms
      <3> QED BY <2>1, <3>1
    <2>2. CASE call[c].answer # "error"
      <3>1. [call[c] EXCEPT !.open = "broken", !.pc = "mark", !.term.code = "possibly",
                            !.opened = FALSE]
              = [call[c] EXCEPT !.open = "broken", !.pc = "mark",
                                !.term = [call[c].term EXCEPT !.code = "possibly"],
                                !.opened = FALSE]
        BY <1>0 DEF CallStates, Terms
      <3> QED BY <2>2, <3>1
    <2> QED BY <2>1, <2>2
  <1> DEFINE t == [call[c].term EXCEPT !.code = code]
             n == [call[c] EXCEPT !.open = "broken", !.pc = "mark", !.term = t, !.opened = opened]
  <1>5. /\ t \in Terms /\ t.code = code /\ t.event = call[c].term.event /\ t.stop = call[c].term.stop
    BY <1>0, <1>4 DEF CallStates, Terms
  <1>6. n \in CallStates
    BY <1>0, <1>5 DEF CallStates, Places, Opens
  <1>7. call' \in [Calls -> CallStates] /\ \A d \in Calls \ {c} : call'[d] = call[d]
    BY <1>0, <1>4, <1>6, Becoming
  <1> HIDE DEF t
  <1>8. /\ call'[c].pc = "mark" /\ call'[c].kind = call[c].kind /\ call'[c].key = call[c].key
        /\ call'[c].acc = call[c].acc /\ call'[c].left = call[c].left
        /\ call'[c].leased = call[c].leased /\ call'[c].term = t
        /\ call'[c].at = call[c].at /\ call'[c].opened = opened
        /\ call'[c].tracked = call[c].tracked /\ call'[c].confirmed = call[c].confirmed
        /\ call'[c].open = "broken"
        /\ call'[c].got = call[c].got
        /\ call'[c].hurt = call[c].hurt
    <2>1. call'[c] = n
      BY <1>0, <1>4, <1>6, Becoming DEF t
    <2> QED BY <1>0, <2>1 DEF CallStates
  <1> HIDE DEF n
  <1>9. /\ o.wire \in Responses /\ o.wire.deltas = wire[c].deltas /\ o.wire.by = wire[c].by
        /\ o.wire.late = wire[c].late
        /\ call[c].open # "open"
        /\ o.wire = wire[c] \/ (o.wire.order = "open" /\ wire[c].order = "awaiting")
    BY <1>0, Opening DEF CallStates, Opens
  <1>v. wire' \in [Calls -> Responses] /\ \A d \in Calls \ {c} : wire'[d] = wire[d]
    BY <1>0, <1>9 DEF Typed
  <1>w. wire'[c] = o.wire
    BY <1>0 DEF Typed
  <1>a. UNCHANGED <<setup, replay, occupancy, lease, residual, registry, fate, disowned, faults>>
    OBVIOUS
  <1>b. /\ AtMostOne(wire[c].by) /\ (wire[c].deltas = wire[c].late)
        /\ Bounded(wire[c]) /\ ~Timely(wire[c])
        /\ wire[c].order = "awaiting" => wire[c].by = {} /\ wire[c].deltas = 0
    <2>1. wire[c].deltas \in Nat /\ wire[c].late \in Nat
      BY <1>0, Counting
    <2>2. Bounded(wire[c]) /\ ~Timely(wire[c])
      BY <1>1, <1>2, <1>9, <1>i DEF Delivers
    <2>3. wire[c].deltas = wire[c].late
      BY <2>1, <2>2 DEF Bounded, Timely
    <2> QED BY <1>i, <2>2, <2>3 DEF Delivers
  <1>d. /\ CarriesUsage(t) \/ t.code = "possibly" \/ Clean(c)
        /\ opened => ~CarriesUsage(t)
        /\ ~opened => t.code = "possibly"
        /\ CarriesUsage(t) /\ UpstreamStopped(t) => Ended(c)
    <2>1. t.event = "completed" => call[c].answer = "completed" /\ Ended(c)
      BY <1>1, <1>5, <1>i DEF Sends, Answered
    <2>2. t.event = "canceled" => call[c].answer = "canceled" /\ (t.stop => Ended(c))
      BY <1>1, <1>5, <1>i DEF Sends, Answered
    <2>3. opened => call[c].term.code = "possibly" \/ CarriesUsage(call[c].term)
      BY <1>1, <1>4, <1>i DEF Sends, Answered, Disowning
    <2>4. CarriesUsage(t) <=> CarriesUsage(call[c].term)
      BY <1>5 DEF CarriesUsage
    <2>5. opened => call[c].answer = "error" /\ t.code = call[c].term.code
      BY <1>4, <1>5
    <2>6. ~opened => t.code = "possibly"
      BY <1>4, <1>5
    <2>7. opened => ~CarriesUsage(t)
      BY <2>1, <2>2, <2>5 DEF CarriesUsage
    <2>8. CarriesUsage(t) /\ UpstreamStopped(t) => Ended(c)
      BY <2>1, <2>2 DEF CarriesUsage, UpstreamStopped
    <2> QED BY <2>3, <2>4, <2>5, <2>6, <2>7, <2>8
  <1>frame. Typed' /\ NobodyMeansNone' /\ OthersKept(c)
    BY <1>0, <1>7, <1>v, <1>a DEF Typed, OthersKept, NobodyMeansNone
  <1>e. wire'[c].deltas = wire[c].deltas /\ wire'[c].late = wire[c].late
    BY <1>9, <1>w
  <1>f. Bounded(wire'[c]) /\ ~Timely(wire'[c])
    BY <1>b, <1>e, SameTally
  <1>walks. Walks(c)'
    BY <1>1, <1>2, <1>8, <1>e, <1>a, <1>i DEF Walks, Stream, Early, After, Answered,
       StreamOnly
  <1>sends. Sends(c)'
    BY <1>2, <1>8, <1>a, <1>d, <1>i DEF Sends, After, Answered, Clean, Stands, Ended, Stream
  <1>claims. Claims(c)'
    BY <1>2, <1>8, <1>a, <1>k DEF Claims, Holding, Owns, Stream, Clean, Stands
  <1>settles. Settles(c)'
    BY <1>1, <1>2, <1>8, <1>a, <1>i DEF Settles, Owns, Stream, Done, At
  <1>delivers. Delivers(c)'
    BY <1>2, <1>8, <1>9, <1>w, <1>a, <1>b, <1>d, <1>e, <1>f DEF Delivers, Stream, Done, At, Early,
       After, Answered, Owns
  <1> QED BY <1>frame, <1>walks, <1>sends, <1>claims, <1>settles, <1>delivers DEF Good, Sane

LEMMA OpenedKeeps ==
    ASSUME ChatInv, NEW c \in Calls, NEW o \in EnsureOpen(c), NEW n \in {0, 1},
           Stream(c), call[c].at # 0,
           call[c].pc # "done", o.open = "open" \/ call[c].open = "no",
           n = 1 => o.open = "open" /\ o.wire.order = "open" /\ wire[c].deltas < setup.deltas,
           wire' = [wire EXCEPT ![c] = [o.wire EXCEPT !.deltas = @ + n, !.late = @ + Late(c, n),
                        !.by = IF n > 0 THEN @ \cup {call[c].at} ELSE @]],
           Becomes(c, [call[c] EXCEPT !.open = o.open, !.got = @ + n]),
           UNCHANGED <<setup, replay, occupancy, lease, residual, registry, fate, disowned, faults>>
    PROVE  Good(c)
  <1>0. /\ Typed /\ NobodyMeansNone /\ Sane(c) /\ call[c] \in CallStates
        /\ wire[c] \in Responses /\ fate[c] \in [Attempts -> Fates]
        /\ occupancy[c] \in Occupancies /\ call[c].key \in Keys /\ call[c].acc \in Accounts
    BY TypedAt DEF ChatInv
  <1>i. Walks(c) /\ Sends(c) /\ Claims(c) /\ Settles(c) /\ Delivers(c)
    BY <1>0 DEF Sane
  <1>k. \A k \in Keys : replay[k].by = c => k = call[c].key /\ replay[k].kind = call[c].kind
    BY <1>i DEF Claims

  <1>1. /\ o.wire \in Responses /\ o.wire.deltas = wire[c].deltas /\ o.wire.by = wire[c].by
        /\ o.wire.end = wire[c].end /\ o.wire.late = wire[c].late /\ ~call[c].sealed /\ o.open \in Opens /\ o.open # "no"
        /\ call[c].open # "no" => o.open = call[c].open /\ o.wire = wire[c]
        /\ call[c].open = "no" /\ wire[c].order = "awaiting" => o.wire.order = "open"
        /\ call[c].open = "no" /\ wire[c].order # "awaiting" => o.open = "broken" /\ o.wire = wire[c]
    BY <1>0, Opening
  <1>2. /\ Stream(c) /\ call[c].at \in Attempts
        /\ call[c].pc \in {"adapter", "returned", "end", "seal"}
    <2>1. ~call[c].sealed /\ call[c].open # "broken" /\ call[c].at # 0
      BY <1>1
    <2>2. call[c].pc \notin Early \cup {"attempt"} \cup After
      BY <2>1, <1>i DEF Walks, Delivers
    <2>3. call[c].pc \in Places /\ call[c].at \in 0 .. 2
      BY <1>0 DEF CallStates
    <2>4. call[c].at \in Attempts
      BY <2>1, <2>3 DEF Attempts
    <2> QED BY <2>2, <2>3, <2>4 DEF Places, Early, After
  <1>3. /\ wire[c].deltas \in Nat /\ call[c].got \in Nat /\ call[c].got <= wire[c].deltas
        /\ wire[c].deltas + n \in 0 .. MaxDeltas
    <2>1. setup.deltas \in 0 .. MaxDeltas
      BY <1>0, ChatAssumption DEF Typed
    <2>2. wire[c].deltas \in Nat /\ call[c].got \in Nat /\ call[c].got <= wire[c].deltas
      BY <1>0, <1>i, Counting DEF Walks
    <2>3. wire[c].deltas \in 0 .. MaxDeltas /\ setup.deltas \in Nat /\ MaxDeltas \in Nat
      BY <1>0, <2>1, ChatAssumption DEF Responses
    <2>4. CASE n = 0
      BY <2>2, <2>3, <2>4
    <2>5. CASE n = 1
      <3>1. wire[c].deltas < setup.deltas /\ setup.deltas <= MaxDeltas
        BY <2>1, <2>5
      <3>2. wire[c].deltas + n <= MaxDeltas
        BY <2>2, <2>3, <2>5, <3>1
      <3> QED BY <2>2, <2>3, <2>5, <3>2
    <2> QED BY <2>4, <2>5
  <1>n. wire[c].late \in Nat /\ wire[c].late <= wire[c].deltas
    BY <1>0, <1>i, Counting DEF Delivers, Bounded
  <1>l. PICK l \in {0, n} : /\ l = Late(c, n)
                            /\ call[c].pc \in {"end", "seal"} => l = n
                            /\ call[c].pc \in {"adapter", "returned"} => l = 0
    BY DEF Late, At
  <1>m. wire[c].late + l \in 0 .. MaxDeltas /\ wire[c].late + l <= wire[c].deltas + n
    <2>1. MaxDeltas \in Nat
      BY ChatAssumption
    <2>2. l \in {0, 1} /\ l <= n
      BY <1>l
    <2> QED BY <1>3, <1>n, <2>1, <2>2
  <1>4. call[c].got + n \in 0 .. MaxDeltas /\ call[c].got + n <= wire[c].deltas + n
    <2>1. CASE n = 0
      BY <1>3, <2>1, ChatAssumption
    <2>2. CASE n = 1
      BY <1>3, <2>2, ChatAssumption
    <2> QED BY <2>1, <2>2
  <1> DEFINE w == [o.wire EXCEPT !.deltas = @ + n, !.late = @ + l,
                                 !.by = IF n > 0 THEN @ \cup {call[c].at} ELSE @]
             m == [call[c] EXCEPT !.open = o.open, !.got = @ + n]
  <1>5. /\ w \in Responses /\ w.order = o.wire.order /\ w.deltas = wire[c].deltas + n
        /\ w.end = wire[c].end /\ w.late = wire[c].late + l
        /\ n = 0 => w.by = wire[c].by
        /\ n = 1 => w.by = wire[c].by \cup {call[c].at}
    <2>1. o.wire.by \cup {call[c].at} \in SUBSET Attempts
      BY <1>1, <1>2 DEF Responses
    <2>2. wire[c].deltas + n \in 0 .. MaxDeltas
      BY <1>3
    <2> DEFINE more == wire[c].deltas + n
               later == wire[c].late + l
               who == IF n > 0 THEN o.wire.by \cup {call[c].at} ELSE o.wire.by
    <2>3. /\ who \in SUBSET Attempts /\ more \in 0 .. MaxDeltas /\ later \in 0 .. MaxDeltas
          /\ n = 0 => who = wire[c].by
          /\ n = 1 => who = wire[c].by \cup {call[c].at}
      BY <1>1, <1>m, <2>1, <2>2 DEF Responses
    <2>4. w = [o.wire EXCEPT !.deltas = more, !.late = later, !.by = who]
      BY <1>1
    <2> HIDE DEF more, later, who, w
    <2>5. w \in Responses /\ w.order = o.wire.order /\ w.deltas = more /\ w.late = later
          /\ w.end = wire[c].end /\ w.by = who
      BY <1>1, <2>3, <2>4 DEF Responses
    <2> QED BY <2>3, <2>5 DEF more, later
  <1>6. m \in CallStates
    BY <1>0, <1>1, <1>4 DEF CallStates
  <1>7. call' \in [Calls -> CallStates] /\ \A d \in Calls \ {c} : call'[d] = call[d]
    BY <1>0, <1>6, Becoming
  <1>8. /\ call'[c].pc = call[c].pc /\ call'[c].kind = call[c].kind /\ call'[c].key = call[c].key
        /\ call'[c].acc = call[c].acc /\ call'[c].left = call[c].left
        /\ call'[c].leased = call[c].leased /\ call'[c].term = call[c].term
        /\ call'[c].at = call[c].at /\ call'[c].opened = call[c].opened
        /\ call'[c].answer = call[c].answer /\ call'[c].stop = call[c].stop
        /\ call'[c].tracked = call[c].tracked /\ call'[c].confirmed = call[c].confirmed
        /\ call'[c].open = o.open /\ call'[c].sealed = call[c].sealed
        /\ call'[c].got = call[c].got + n
        /\ call'[c].hurt = call[c].hurt
    <2>1. call'[c] = m
      BY <1>0, <1>6, Becoming
    <2> QED BY <1>0, <2>1 DEF CallStates
  <1> HIDE DEF w, m
  <1>v. wire' \in [Calls -> Responses] /\ \A d \in Calls \ {c} : wire'[d] = wire[d]
    BY <1>0, <1>5, <1>l DEF Typed, w
  <1>9. wire'[c] = w
    BY <1>0, <1>l DEF Typed, w
  <1>a. UNCHANGED <<setup, replay, occupancy, lease, residual, registry, fate, disowned, faults>>
    OBVIOUS
  <1>b. /\ o.open = "open" => wire[c].by \subseteq {call[c].at} /\ w.order = "open"
        /\ w.order = "awaiting" => n = 0 /\ wire[c].order = "awaiting"
    <2>1. CASE call[c].open = "no"
      BY <2>1, <1>1, <1>5, <1>i DEF Delivers
    <2>2. CASE call[c].open # "no"
      BY <2>2, <1>1, <1>5, <1>i DEF Delivers
    <2> QED BY <2>1, <2>2
  <1>c. w.by = wire[c].by \/ (n = 1 /\ o.open = "open" /\ w.by = {call[c].at})
    BY <1>5, <1>b
  <1>d. /\ AtMostOne(w.by) /\ (o.open = "open" => w.by \subseteq {call[c].at})
        /\ w.order = "awaiting" => w.by = {} /\ w.deltas = 0
    <2>1. AtMostOne(w.by) /\ (o.open = "open" => w.by \subseteq {call[c].at})
      BY <1>c, <1>b, <1>i DEF AtMostOne, Delivers
    <2>2. ASSUME w.order = "awaiting"
          PROVE  w.by = {} /\ w.deltas = 0
      <3>1. n = 0 /\ wire[c].by = {} /\ wire[c].deltas = 0
        BY <1>b, <1>i, <2>2 DEF Delivers
      <3> QED BY <1>5, <3>1
    <2> QED BY <2>1, <2>2
  <1>e. /\ wire'[c].deltas = wire[c].deltas + n /\ wire'[c].late = wire[c].late + l
        /\ call'[c].got <= wire'[c].deltas /\ Bounded(wire'[c])
    BY <1>4, <1>5, <1>8, <1>9, <1>m DEF Bounded
  <1>frame. Typed' /\ NobodyMeansNone' /\ OthersKept(c)
    BY <1>0, <1>7, <1>v, <1>a DEF Typed, OthersKept, NobodyMeansNone
  <1>f. /\ wire[c].order = "awaiting" => wire[c].by = {} /\ wire[c].deltas = 0
        /\ LET r == replay[call[c].key]
           IN  r.by = c /\ r.state = "terminal" => call[c].pc \in {"exit", "done"} /\ call[c].opened
    BY <1>2, <1>i DEF Delivers
  <1>h. /\ call[c].pc = "seal" => wire'[c].deltas = wire'[c].late
        /\ call[c].pc \in {"adapter", "returned"} => Tells(call'[c].got, wire'[c])
        /\ call[c].pc \in {"adapter", "returned", "end"} =>
              (Timely(wire'[c]) => o.open = "open")
        /\ call[c].pc = "end" /\ CarriesUsage(call[c].term) =>
              Tells(call[c].term.content, wire'[c])
    <2>1. call[c].term.content \in Nat
      BY <1>0, ChatAssumption DEF CallStates, Terms
    <2>2. CASE n = 0
      <3>1. wire'[c].deltas = wire[c].deltas /\ wire'[c].late = wire[c].late /\ call'[c].got = call[c].got
        BY <1>3, <1>8, <1>e, <1>l, <1>n, <2>2
      <3> QED BY <1>1, <1>i, <3>1, SameTally DEF Delivers
    <2>3. CASE n = 1
      <3>1. o.open = "open" /\ wire'[c].deltas = wire[c].deltas + 1 /\ call'[c].got = call[c].got + 1
        BY <1>8, <1>e, <2>3
      <3>2. CASE call[c].pc \in {"adapter", "returned"}
        <4>1. wire'[c].late = wire[c].late
          BY <1>n, <1>e, <1>l, <3>2
        <4>2. Tells(call[c].got, wire[c])
          BY <1>i, <3>2 DEF Delivers
        <4> QED BY <1>3, <1>n, <3>1, <3>2, <4>1, <4>2 DEF Tells
      <3>3. CASE call[c].pc \in {"end", "seal"}
        <4>1. wire'[c].late = wire[c].late + 1
          BY <1>e, <1>l, <2>3, <3>3
        <4>2. /\ call[c].pc = "seal" => wire[c].deltas = wire[c].late
              /\ call[c].pc = "end" /\ CarriesUsage(call[c].term) =>
                    Tells(call[c].term.content, wire[c])
          BY <1>i DEF Delivers
        <4> QED BY <1>3, <1>n, <2>1, <3>1, <3>3, <4>1, <4>2 DEF Tells
      <3> QED BY <1>2, <3>2, <3>3
    <2> QED BY <2>2, <2>3
  <1>walks. Walks(c)'
    BY <1>2, <1>8, <1>e, <1>a, <1>i DEF Walks, Stream, Early, After, Answered, StreamOnly
  <1>sends. Sends(c)'
    BY <1>8, <1>a, <1>i DEF Sends, After, Answered, Clean, Stands, Ended, Stream
  <1>claims. Claims(c)'
    BY <1>8, <1>a, <1>i DEF Claims, Holding, Owns, Stream, Clean, Stands
  <1>settles. Settles(c)'
    BY <1>8, <1>a, <1>i DEF Settles, Owns, Stream, Done, At
  <1>delivers. Delivers(c)'
    BY <1>1, <1>2, <1>8, <1>9, <1>a, <1>b, <1>d, <1>e, <1>f, <1>h DEF Delivers, Stream, Done, At,
       Early, After, Answered
  <1> QED BY <1>frame, <1>walks, <1>sends, <1>claims, <1>settles, <1>delivers DEF Good, Sane

==============================================================================
