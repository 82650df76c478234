------------------------- MODULE RenderOutputProofs -------------------------
(***************************************************************************)
(* Machine-checked proofs about RenderOutput, for any set of entries,      *)
(* workers and concurrent retries, any cap and any number of uploads and   *)
(* faults: the storage accounting is exact, what the row calls available   *)
(* is stored, staged bytes go only when they are stored or out of          *)
(* retention, a job completes when every entry is settled, no worker takes *)
(* back what is available, and the cap holds where no hold is shared.      *)
(***************************************************************************)
EXTENDS RenderOutput, FiniteSetTheorems, TLAPS

-----------------------------------------------------------------------------
(* What the control-flow helpers do to the handler that takes the step. *)

HandlersTyped == h \in [Handlers -> HandlerStates]
Whys == {"cap", "put", "commit", "none"}

OthersStay(x) == \A y \in Handlers \ {x} : h'[y] = h[y]

\* The handler keeps its fence and its snapshot.
Kept(x) == /\ h'[x].fence = h[x].fence /\ h'[x].e = h[x].e
           /\ h'[x].todo = h[x].todo /\ h'[x].placed = h[x].placed

Stepped(x) == HandlersTyped' /\ OthersStay(x)

LEMMA GotoSays ==
    ASSUME HandlersTyped, NEW x \in Handlers, NEW pc \in PCs, Goto(x, pc)
    PROVE  Stepped(x) /\ Kept(x) /\ h'[x].pc = pc
  BY DEF HandlersTyped, HandlerStates, Goto, Stepped, OthersStay, Kept

LEMMA HandleSays ==
    ASSUME HandlersTyped, NEW x \in Handlers, NEW pc \in PCs, NEW why \in Whys,
           Handle(x, pc, why)
    PROVE  Stepped(x) /\ Kept(x) /\ h'[x].pc = pc
  <1> DEFINE n == [h[x] EXCEPT !.pc = pc, !.why = why]
  <1>1. h[x] \in HandlerStates /\ h' = [h EXCEPT ![x] = n]
    BY Zenon DEF HandlersTyped, Handle
  <1>2. /\ n \in HandlerStates /\ n.pc = pc /\ n.fence = h[x].fence /\ n.e = h[x].e
        /\ n.todo = h[x].todo /\ n.placed = h[x].placed
    BY <1>1 DEF HandlerStates, Whys
  <1> HIDE DEF n
  <1> QED BY <1>1, <1>2 DEF HandlersTyped, Stepped, OthersStay, Kept

LEMMA SettleSays ==
    ASSUME HandlersTyped, NEW x \in Handlers, NEW to \in Ended, Settle(x, to)
    PROVE  Stepped(x) /\ Kept(x) /\ h'[x].pc = "terminal" /\ h'[x].to = to
  <1> DEFINE n == [h[x] EXCEPT !.pc = "terminal", !.to = to]
  <1>1. h[x] \in HandlerStates /\ h' = [h EXCEPT ![x] = n]
    BY Zenon DEF HandlersTyped, Settle
  <1>2. /\ n \in HandlerStates /\ n.pc = "terminal" /\ n.fence = h[x].fence /\ n.e = h[x].e
        /\ n.todo = h[x].todo /\ n.placed = h[x].placed /\ n.to = to
    BY <1>1 DEF HandlerStates, PCs
  <1> HIDE DEF n
  <1> QED BY <1>1, <1>2 DEF HandlersTyped, Stepped, OthersStay, Kept

LEMMA IdleIsTyped == ASSUME Entries # {} PROVE Idle \in HandlerStates
  <1>1. SomeEntry \in Entries
    BY DEF SomeEntry
  <1> QED BY <1>1 DEF Idle, HandlerStates, PCs, Ended

LEMMA ReturnSays ==
    ASSUME HandlersTyped, Entries # {}, NEW x \in Handlers, Return(x)
    PROVE  Stepped(x) /\ h'[x] = Idle
  BY IdleIsTyped DEF HandlersTyped, Return, Stepped, OthersStay

\* A worker that starts with a fence, and a client that starts on an entry.
LEMMA BeginSays ==
    ASSUME HandlersTyped, Entries # {}, NEW x \in Handlers, NEW fence \in Nat,
           h' = [h EXCEPT ![x] = [Idle EXCEPT !.pc = "load", !.fence = fence]]
    PROVE  /\ Stepped(x) /\ h'[x].pc = "load" /\ h'[x].fence = fence
           /\ h'[x].todo = {} /\ h'[x].placed = {}
  <1> DEFINE n == [Idle EXCEPT !.pc = "load", !.fence = fence]
  <1>1. Idle \in HandlerStates
    BY IdleIsTyped
  <1>2. n \in HandlerStates
    BY <1>1 DEF HandlerStates, PCs
  <1>3. n.pc = "load" /\ n.fence = fence /\ n.todo = {} /\ n.placed = {}
    BY DEF Idle
  <1>4. h' = [h EXCEPT ![x] = n]
    OBVIOUS
  <1> HIDE DEF n
  <1> QED BY <1>2, <1>3, <1>4 DEF HandlersTyped, Stepped, OthersStay

LEMMA RetrySays ==
    ASSUME HandlersTyped, Entries # {}, NEW x \in Handlers, NEW e \in Entries,
           NEW pc \in {"rerecord", "use"}, h' = [h EXCEPT ![x] = [Idle EXCEPT !.e = e, !.pc = pc]]
    PROVE  /\ Stepped(x) /\ h'[x].pc = pc /\ h'[x].fence = 0 /\ h'[x].e = e
           /\ h'[x].todo = {} /\ h'[x].placed = {}
  <1> DEFINE n == [Idle EXCEPT !.e = e, !.pc = pc]
  <1>1. Idle \in HandlerStates
    BY IdleIsTyped
  <1>2. n \in HandlerStates
    BY <1>1 DEF HandlerStates, PCs
  <1>3. n.pc = pc /\ n.fence = 0 /\ n.e = e /\ n.todo = {} /\ n.placed = {}
    BY DEF Idle
  <1>4. h' = [h EXCEPT ![x] = n]
    OBVIOUS
  <1> HIDE DEF n
  <1> QED BY <1>2, <1>3, <1>4 DEF HandlersTyped, Stepped, OthersStay

\* A worker goes on to an entry, or ends the loop.
Visited(x, todo, placed) ==
    \/ /\ todo = {} /\ Kept(x) /\ h'[x].pc = "terminal" /\ h'[x].to = "completed"
    \/ /\ h'[x].fence = h[x].fence /\ h'[x].placed = placed
       /\ h'[x].e \in todo /\ h'[x].todo = todo \ {h'[x].e}
       /\ \/ h'[x].pc = "mark" /\ h'[x].e \in placed
          \/ h'[x].pc = "use" /\ h'[x].e \notin placed

LEMMA VisitSays ==
    ASSUME HandlersTyped, NEW x \in Handlers, NEW todo \in SUBSET Entries,
           NEW placed \in SUBSET Entries, Visit(x, todo, placed)
    PROVE  Stepped(x) /\ Visited(x, todo, placed)
  <1>1. CASE todo = {}
    BY <1>1, SettleSays DEF Visit, Visited, Ended
  <1>2. CASE todo # {}
    <2>1. PICK e \in todo :
             h' = [h EXCEPT ![x] = [@ EXCEPT !.e = e, !.todo = todo \ {e}, !.placed = placed,
                                             !.pc = IF e \in placed THEN "mark" ELSE "use",
                                             !.why = "none"]]
      BY <1>2, Zenon DEF Visit
    <2> DEFINE pc == IF e \in placed THEN "mark" ELSE "use"
               rest == todo \ {e}
               n == [h[x] EXCEPT !.e = e, !.todo = rest, !.placed = placed, !.pc = pc,
                                 !.why = "none"]
    <2>2. h[x] \in HandlerStates /\ h' = [h EXCEPT ![x] = n]
      BY <2>1, Zenon DEF HandlersTyped
    <2>3. /\ \/ pc = "mark" /\ e \in placed
             \/ pc = "use" /\ e \notin placed
          /\ rest \in SUBSET Entries
      OBVIOUS
    <2>4. /\ n \in HandlerStates /\ n.pc = pc /\ n.fence = h[x].fence /\ n.e = e
          /\ n.todo = rest /\ n.placed = placed
      <3> HIDE DEF pc, rest
      <3> QED BY <2>2, <2>3 DEF HandlerStates, PCs
    <2> HIDE DEF n, pc
    <2> QED BY <2>2, <2>3, <2>4 DEF HandlersTyped, Stepped, OthersStay, Visited
  <1> QED BY <1>1, <1>2

\* After an entry a client is done and a worker goes on.
LEMMA ContinueSays ==
    ASSUME HandlersTyped, Entries # {}, NEW x \in Handlers, Continue(x)
    PROVE  /\ Stepped(x)
           /\ \/ x \in Clients /\ h'[x] = Idle
              \/ x \notin Clients /\ Visited(x, h[x].todo, h[x].placed)
  <1>1. h[x].todo \in SUBSET Entries /\ h[x].placed \in SUBSET Entries
    BY DEF HandlersTyped, HandlerStates
  <1> QED BY <1>1, ReturnSays, VisitSays DEF Continue

LEMMA GiveUpSays ==
    ASSUME HandlersTyped, Entries # {}, NEW x \in Handlers, GiveUp(x)
    PROVE  /\ Stepped(x)
           /\ \/ h'[x] = Idle
              \/ x \in Clients /\ Kept(x) /\ h'[x].pc = "forceFailed"
              \/ x \notin Clients /\ Kept(x) /\ h'[x].pc = "terminal" /\ h'[x].to = "failed"
  BY ReturnSays, GotoSays, SettleSays DEF GiveUp, PCs, Ended

-----------------------------------------------------------------------------
(* What the store calls do to the row and to the accounting. *)

LEMMA RowCalls ==
    ASSUME job \in Jobs, NEW e \in Entries
    PROVE  /\ job' = Place(job, e) =>
                 /\ job' \in Jobs /\ job'.lifecycle = job.lifecycle
                 /\ job'.fence = job.fence /\ job'.held = job.held
                 /\ job'.delivery = [job.delivery EXCEPT ![e] = "available"]
                 /\ job'.asset = [job.asset EXCEPT ![e] = TRUE]
           /\ \A d \in Deliveries : job' = ForceDelivery(job, e, d) =>
                 /\ job' \in Jobs /\ job'.lifecycle = job.lifecycle
                 /\ job'.fence = job.fence /\ job'.held = job.held
                 /\ job'.delivery = [job.delivery EXCEPT ![e] = d]
                 /\ job'.asset = job.asset
  <1>1. ASSUME NEW d \in Deliveries
        PROVE  LET r == ForceDelivery(job, e, d)
               IN  /\ r \in Jobs /\ r.lifecycle = job.lifecycle
                   /\ r.fence = job.fence /\ r.held = job.held
                   /\ r.delivery = [job.delivery EXCEPT ![e] = d] /\ r.asset = job.asset
    <2> DEFINE f == [job.delivery EXCEPT ![e] = d]
    <2>1. f \in [Entries -> Deliveries]
      BY DEF Jobs
    <2>2. ForceDelivery(job, e, d) = [job EXCEPT !.delivery = f]
      BY DEF ForceDelivery
    <2> HIDE DEF f
    <2>3. LET r == ForceDelivery(job, e, d)
          IN  /\ r \in Jobs /\ r.lifecycle = job.lifecycle
              /\ r.fence = job.fence /\ r.held = job.held
              /\ r.delivery = f /\ r.asset = job.asset
      BY <2>1, <2>2 DEF Jobs
    <2> QED BY <2>3 DEF f
  <1>2. ASSUME job' = Place(job, e)
        PROVE  /\ job' \in Jobs /\ job'.lifecycle = job.lifecycle
               /\ job'.fence = job.fence /\ job'.held = job.held
               /\ job'.delivery = [job.delivery EXCEPT ![e] = "available"]
               /\ job'.asset = [job.asset EXCEPT ![e] = TRUE]
    <2> DEFINE r == ForceDelivery(job, e, "available")
               f == [r.asset EXCEPT ![e] = TRUE]
    <2>1. job' = [r EXCEPT !.asset = f]
      BY <1>2 DEF Place, ForceDelivery
    <2>2. /\ r \in Jobs /\ r.lifecycle = job.lifecycle
          /\ r.fence = job.fence /\ r.held = job.held
          /\ r.delivery = [job.delivery EXCEPT ![e] = "available"] /\ r.asset = job.asset
      BY <1>1 DEF Deliveries
    <2> HIDE DEF r
    <2>3. f \in [Entries -> BOOLEAN] /\ f = [job.asset EXCEPT ![e] = TRUE]
      BY <2>2 DEF Jobs
    <2> HIDE DEF f
    <2>4. /\ job' \in Jobs /\ job'.lifecycle = r.lifecycle
          /\ job'.fence = r.fence /\ job'.held = r.held
          /\ job'.delivery = r.delivery /\ job'.asset = f
      BY <2>1, <2>2, <2>3 DEF Jobs
    <2> QED BY <2>2, <2>3, <2>4
  <1> QED BY <1>1, <1>2, Zenon

\* The store's calls for a placement hold never lose an Asset or its bytes.
LEMMA StoreCalls ==
    ASSUME store \in Stores, NEW e \in Entries
    PROVE  /\ Reserve(store, e) \in Stores /\ Reserve(store, e).assets = store.assets
           /\ Reserve(store, e).content = store.content
           /\ ConsumeHold(store, e) \in Stores /\ ConsumeHold(store, e).assets = store.assets
           /\ ConsumeHold(store, e).content = store.content
           /\ Commit(store, e) \in Stores /\ Commit(store, e).assets = store.assets \cup {e}
           /\ Commit(store, e).content = store.content
  <1> DEFINE more == store.reserved + 1
             less == IF store.reserved = 0 THEN 0 ELSE store.reserved - 1
             with == store.holds \cup {e}
             without == store.holds \ {e}
             s == ConsumeHold(store, e)
             paid == s.committed + 1
             listed == s.assets \cup {e}
  <1>1. more \in Nat /\ less \in Nat /\ with \in SUBSET Entries /\ without \in SUBSET Entries
    BY DEF Stores
  <1>2. /\ Reserve(store, e) = IF e \in store.holds THEN store
                               ELSE [store EXCEPT !.reserved = more, !.holds = with]
        /\ s = IF e \notin store.holds THEN store
               ELSE [store EXCEPT !.reserved = less, !.holds = without]
        /\ Commit(store, e) = IF e \in store.assets THEN s
                              ELSE [s EXCEPT !.committed = paid, !.assets = listed]
    BY DEF Reserve, ConsumeHold, Commit
  <1> HIDE DEF more, less, with, without, s
  <1>3. /\ Reserve(store, e) \in Stores /\ Reserve(store, e).assets = store.assets
        /\ Reserve(store, e).content = store.content
    BY <1>1, <1>2 DEF Stores
  <1>4. s \in Stores /\ s.assets = store.assets /\ s.content = store.content
    BY <1>1, <1>2 DEF Stores
  <1>5. paid \in Nat /\ listed \in SUBSET Entries /\ listed = store.assets \cup {e}
    BY <1>4 DEF Stores
  <1> HIDE DEF paid, listed
  <1>6. /\ Commit(store, e) \in Stores /\ Commit(store, e).assets = store.assets \cup {e}
        /\ Commit(store, e).content = store.content
    BY <1>2, <1>4, <1>5 DEF Stores
  <1> QED BY <1>3, <1>4, <1>6 DEF s

-----------------------------------------------------------------------------
(* Every variable stays in its type. *)

Counted == faults \in 0..MaxFaults
LEMMA FaultCounts == ASSUME Counted, Fault \/ NoFault PROVE Counted'
  BY OutputAssumption DEF Counted, Fault, NoFault

Typed == TypeOK /\ Entries # {}

LEMMA TypedParts ==
    ASSUME Typed
    PROVE  /\ HandlersTyped /\ Counted /\ job \in Jobs /\ store \in Stores
           /\ \A x \in Handlers : /\ h[x].e \in Entries /\ h[x].fence \in Nat /\ h[x].to \in Ended
                                  /\ h[x].todo \in SUBSET Entries
                                  /\ h[x].placed \in SUBSET Entries
  BY DEF Typed, TypeOK, HandlersTyped, Counted, HandlerStates

\* What each step writes to the row, by the handlers that may write it.
RowStep(x) ==
    \/ job' = job
    \/ \E d \in {"expired", "capped"} : Owns(x) /\ job' = ForceDelivery(job, h[x].e, d)
    \/ At(x, "forceFailed") /\ job' = ForceDelivery(job, h[x].e, "failed")
    \/ At(x, "rerecord") /\ job' = Place(job, h[x].e)
    \/ At(x, "record") /\ Owns(x) /\ job' = Place(job, h[x].e)
    \/ \E purge \in BOOLEAN : job' = [job EXCEPT !.purge = purge]

StoreStep(x) ==
    \/ store' = store
    \/ store' \in {Reserve(store, h[x].e), ConsumeHold(store, h[x].e)}
    \/ At(x, "put") /\ store' = [store EXCEPT !.content = @ \cup {h[x].e}]
    \/ At(x, "commit") /\ store' = Commit(store, h[x].e)

\* The steps of a placement, from the staged bytes to the settled entry.
Placing(x) ==
    \/ Use(x) \/ Expire(x) \/ CheckVisible(x) \/ ReserveHold(x) \/ PutContent(x)
    \/ CommitAsset(x) \/ Recheck(x) \/ ReleaseHold(x) \/ Record(x) \/ Rerecord(x)
    \/ MarkPurge(x) \/ DeleteStaged(x) \/ ClearPurge(x) \/ ForceCap(x) \/ ForceFailed(x)

LEMMA PlacingSays ==
    ASSUME Typed, NEW x \in Handlers, Placing(x)
    PROVE  /\ Stepped(x) /\ Counted' /\ RowStep(x) /\ StoreStep(x)
           /\ stale' = stale /\ uploads' = uploads /\ staged' \subseteq staged
  <1>0. HandlersTyped /\ Entries # {} /\ Counted
    BY TypedParts DEF Typed
  <1> USE DEF JobOnly, StoreOnly, Nothing
  <1>1. Counted' /\ stale' = stale /\ uploads' = uploads /\ staged' \subseteq staged
    BY <1>0, FaultCounts
    DEF Placing, Use, Expire, CheckVisible, ReserveHold, PutContent, CommitAsset, Recheck,
        ReleaseHold, Record, Rerecord, MarkPurge, DeleteStaged, ClearPurge, ForceCap, ForceFailed
  <1>2. RowStep(x)
    BY DEF Placing, Use, Expire, CheckVisible, ReserveHold, PutContent, CommitAsset, Recheck,
        ReleaseHold, Record, Rerecord, MarkPurge, DeleteStaged, ClearPurge, ForceCap, ForceFailed,
        RowStep
  <1>3. StoreStep(x)
    BY DEF Placing, Use, Expire, CheckVisible, ReserveHold, PutContent, CommitAsset, Recheck,
        ReleaseHold, Record, Rerecord, MarkPurge, DeleteStaged, ClearPurge, ForceCap, ForceFailed,
        StoreStep
  <1>4. Stepped(x)
    <2>1. CASE Use(x) \/ Expire(x) \/ CheckVisible(x) \/ Rerecord(x) \/ ForceFailed(x)
      BY <1>0, <2>1, GotoSays, SettleSays, ReturnSays
      DEF Use, Expire, CheckVisible, Rerecord, ForceFailed, PCs, Ended
    <2>2. CASE ReserveHold(x) \/ PutContent(x) \/ CommitAsset(x)
      BY <1>0, <2>2, GotoSays, HandleSays DEF ReserveHold, PutContent, CommitAsset, PCs, Whys
    <2>3. CASE Recheck(x) \/ ReleaseHold(x) \/ Record(x)
      <3>1. h[x].why \in Whys
        BY <1>0 DEF HandlersTyped, HandlerStates, Whys
      <3>2. \/ \E pc \in {"record", "forceCap", "release", "recheck", "mark"} : Goto(x, pc)
            \/ GiveUp(x)
        <4>1. CASE Recheck(x)
          BY <3>1, <4>1 DEF Recheck, Whys
        <4>2. CASE ReleaseHold(x) \/ Record(x)
          BY <4>2 DEF ReleaseHold, Record
        <4> QED BY <2>3, <4>1, <4>2
      <3> QED BY <1>0, <3>2, GotoSays, GiveUpSays DEF PCs
    <2>4. CASE MarkPurge(x) \/ DeleteStaged(x) \/ ClearPurge(x) \/ ForceCap(x)
      BY <1>0, <2>4, GotoSays, ContinueSays, ReturnSays
      DEF MarkPurge, DeleteStaged, ClearPurge, ForceCap, PCs
    <2> QED BY <2>1, <2>2, <2>3, <2>4 DEF Placing
  <1> QED BY <1>1, <1>2, <1>3, <1>4

\* Claims, loads, retries and the end of a run: no Asset is touched.
Turning(x) ==
    \/ Claim(x) \/ Load(x) \/ RetryOutput(x) \/ PersistTerminal(x) \/ Cleanup(x) \/ Sweep(x)
    \/ Crash(x)

LEMMA PlacedIsTyped == ASSUME NEW row PROVE Placed(row) \in SUBSET Entries
  BY DEF Placed

LEMMA TurningSays ==
    ASSUME Typed, NEW x \in Handlers, Turning(x)
    PROVE  /\ Stepped(x) /\ Counted' /\ job' \in Jobs /\ job'.asset = job.asset
           /\ job'.delivery = job.delivery
           /\ store' = store /\ stale' = stale /\ uploads' = uploads /\ staged' \subseteq staged
  <1>0. HandlersTyped /\ Entries # {} /\ Counted /\ job \in Jobs /\ job.fence + 1 \in Nat
        /\ h[x].todo \in SUBSET Entries /\ h[x].to \in Ended
    BY TypedParts DEF Typed, Jobs
  <1> USE DEF JobOnly, Nothing
  <1>1. /\ Counted' /\ store' = store /\ stale' = stale /\ uploads' = uploads
        /\ staged' \subseteq staged
    BY <1>0, FaultCounts
    DEF Turning, Claim, Load, RetryOutput, PersistTerminal, Cleanup, Sweep, Crash
  <1>2. job' \in Jobs /\ job'.asset = job.asset /\ job'.delivery = job.delivery
    <2>1. CASE job' = job
      BY <1>0, <2>1
    <2>2. CASE Claim(x)
      <3> DEFINE f == job.fence + 1
      <3>1. job' = [job EXCEPT !.fence = f, !.held = TRUE] /\ f \in Nat
        BY <1>0, <2>2 DEF Claim
      <3> HIDE DEF f
      <3> QED BY <1>0, <3>1 DEF Jobs
    <2>3. CASE PersistTerminal(x)
      BY <1>0, <2>3 DEF PersistTerminal, Jobs, Ended
    <2>4. CASE Sweep(x)
      BY <1>0, <2>4 DEF Sweep, Jobs
    <2> QED BY <2>1, <2>2, <2>3, <2>4 DEF Turning, Load, RetryOutput, Cleanup, Crash
  <1>3. Stepped(x)
    <2>1. CASE Claim(x)
      BY <1>0, <2>1, BeginSays DEF Claim
    <2>2. CASE Load(x)
      BY <1>0, <2>2, VisitSays, SettleSays, GotoSays, PlacedIsTyped DEF Load, PCs, Ended
    <2>3. CASE RetryOutput(x)
      BY <1>0, <2>3, RetrySays DEF RetryOutput
    <2>4. CASE PersistTerminal(x) \/ Crash(x)
      BY <1>0, <2>4, GotoSays, ReturnSays DEF PersistTerminal, Crash, PCs
    <2>5. CASE Cleanup(x)
      <3>1. CASE job.purge
        <4> DEFINE n == [h[x] EXCEPT !.pc = "sweep", !.todo = Placed(job)]
        <4>1. h[x] \in HandlerStates /\ h' = [h EXCEPT ![x] = n]
          BY <1>0, <2>5, <3>1, Zenon DEF Cleanup, HandlersTyped
        <4>2. n \in HandlerStates
          BY <4>1, PlacedIsTyped DEF HandlerStates, PCs
        <4> HIDE DEF n
        <4> QED BY <1>0, <4>1, <4>2 DEF HandlersTyped, Stepped, OthersStay
      <3> QED BY <1>0, <2>5, <3>1, ReturnSays DEF Cleanup
    <2>6. CASE Sweep(x)
      <3>1. ASSUME NEW e \in h[x].todo, h' = [h EXCEPT ![x].todo = @ \ {e}]
            PROVE  Stepped(x)
        <4> DEFINE rest == h[x].todo \ {e}
                   n == [h[x] EXCEPT !.todo = rest]
        <4>1. h[x] \in HandlerStates /\ h' = [h EXCEPT ![x] = n] /\ rest \in SUBSET Entries
          BY <1>0, <3>1 DEF HandlersTyped
        <4> HIDE DEF rest
        <4>2. n \in HandlerStates
          BY <4>1 DEF HandlerStates
        <4> HIDE DEF n
        <4> QED BY <1>0, <4>1, <4>2 DEF HandlersTyped, Stepped, OthersStay
      <3> QED BY <1>0, <2>6, <3>1, ReturnSays DEF Sweep
    <2> QED BY <2>1, <2>2, <2>3, <2>4, <2>5, <2>6 DEF Turning
  <1> QED BY <1>1, <1>2, <1>3

\* Uploads, cancels and time.
World == Cancel \/ (\E e \in Entries : RetentionEnds(e)) \/ UploadReserve \/ UploadEnds

LEMMA StepSplits ==
    ASSUME [Next]_vars
    PROVE  \/ \E x \in Handlers : Placing(x) \/ Turning(x)
           \/ World \/ UNCHANGED vars
  BY DEF Next, Step, Placing, Turning, World

LEMMA PlacingKeepsRowAndStore ==
    ASSUME Typed, NEW x \in Handlers, Placing(x)
    PROVE  /\ job' \in Jobs /\ store' \in Stores
           /\ job'.lifecycle = job.lifecycle /\ job'.fence = job.fence /\ job'.held = job.held
           /\ \A e \in Entries : job.asset[e] => job'.asset[e]
           /\ store.assets \subseteq store'.assets /\ store.content \subseteq store'.content
  <1>0. job \in Jobs /\ store \in Stores /\ h[x].e \in Entries
    BY TypedParts
  <1>1. RowStep(x) /\ StoreStep(x)
    BY PlacingSays
  <1>2. /\ job' \in Jobs
        /\ job'.lifecycle = job.lifecycle /\ job'.fence = job.fence /\ job'.held = job.held
        /\ \A e \in Entries : job.asset[e] => job'.asset[e]
    <2>1. CASE \E d \in Deliveries : job' = ForceDelivery(job, h[x].e, d)
      BY <1>0, <2>1, RowCalls
    <2>2. CASE job' = Place(job, h[x].e)
      <3>1. /\ job' \in Jobs /\ job'.lifecycle = job.lifecycle
            /\ job'.fence = job.fence /\ job'.held = job.held
            /\ job'.asset = [job.asset EXCEPT ![h[x].e] = TRUE]
        BY <1>0, <2>2, RowCalls
      <3> QED BY <1>0, <3>1 DEF Jobs
    <2>3. CASE \E purge \in BOOLEAN : job' = [job EXCEPT !.purge = purge]
      BY <1>0, <2>3 DEF Jobs
    <2> QED BY <1>0, <1>1, <2>1, <2>2, <2>3 DEF RowStep, Deliveries
  <1>3. /\ store' \in Stores
        /\ store.assets \subseteq store'.assets /\ store.content \subseteq store'.content
    <2>1. CASE store' = [store EXCEPT !.content = @ \cup {h[x].e}]
      <3> DEFINE c == store.content \cup {h[x].e}
      <3>1. store' = [store EXCEPT !.content = c] /\ c \in SUBSET Entries
            /\ store.content \subseteq c
        BY <1>0, <2>1 DEF Stores
      <3> HIDE DEF c
      <3> QED BY <1>0, <3>1 DEF Stores
    <2> QED BY <1>0, <1>1, <2>1, StoreCalls DEF StoreStep
  <1> QED BY <1>2, <1>3

LEMMA WorldSays ==
    ASSUME Typed, uploads.open <= store.reserved, World
    PROVE  /\ h' = h /\ faults' = faults /\ job' \in Jobs /\ store' \in Stores
           /\ uploads' \in [open : Nat, done : Nat]
           /\ stale' \subseteq Entries /\ staged' = staged /\ stale \subseteq stale'
           /\ job'.asset = job.asset /\ job'.delivery = job.delivery
           /\ job'.fence = job.fence /\ job'.held = job.held
           /\ store'.assets = store.assets /\ store'.content = store.content
           /\ store'.holds = store.holds
           /\ (job' = job \/ (job.lifecycle = "running" /\ job'.lifecycle = "cancel_requested"))
  <1>0. job \in Jobs /\ store \in Stores /\ uploads \in [open : Nat, done : Nat]
        /\ stale \subseteq Entries
    BY TypedParts DEF Typed, TypeOK
  <1>1. CASE Cancel
    BY <1>0, <1>1 DEF Cancel, Jobs
  <1>2. CASE \E e \in Entries : RetentionEnds(e)
    BY <1>0, <1>2 DEF RetentionEnds
  <1>3. CASE UploadReserve
    <2> DEFINE r == store.reserved + 1
               o == uploads.open + 1
    <2>1. /\ r \in Nat /\ o \in Nat
          /\ store' = [store EXCEPT !.reserved = r] /\ uploads' = [uploads EXCEPT !.open = o]
      BY <1>0, <1>3 DEF UploadReserve, Stores
    <2> HIDE DEF r, o
    <2> QED BY <1>0, <1>3, <2>1 DEF UploadReserve, Stores
  <1>4. CASE UploadEnds
    <2>1. PICK n \in {0, 1} :
             /\ store' = [store EXCEPT !.reserved = @ - 1, !.committed = @ + n]
             /\ uploads' = [open |-> uploads.open - 1, done |-> uploads.done + n]
      BY <1>4 DEF UploadEnds
    <2> DEFINE r == store.reserved - 1
               c == store.committed + n
               o == uploads.open - 1
               d == uploads.done + n
    <2>2. r \in Nat /\ c \in Nat /\ o \in Nat /\ d \in Nat
      BY <1>0, <1>4 DEF UploadEnds, Stores
    <2>3. store' = [store EXCEPT !.reserved = r, !.committed = c]
          /\ uploads' = [open |-> o, done |-> d]
      BY <2>1
    <2> HIDE DEF r, c, o, d
    <2> QED BY <1>0, <1>4, <2>2, <2>3 DEF UploadEnds, Stores
  <1> QED BY <1>1, <1>2, <1>3, <1>4 DEF World

-----------------------------------------------------------------------------
(* The accounting.  Without it the type invariant is not inductive: an upload *)
(* that ends takes back a unit that must be there.                            *)

UsageInv == /\ Typed /\ UsageIsExact
            /\ IsFiniteSet(store.holds) /\ IsFiniteSet(store.assets)

\* Adding to and removing from a finite set, counted.
LEMMA Counting ==
    ASSUME NEW S, IsFiniteSet(S), NEW e
    PROVE  /\ Cardinality(S) \in Nat
           /\ IsFiniteSet(S \cup {e}) /\ IsFiniteSet(S \ {e})
           /\ e \notin S => Cardinality(S \cup {e}) = Cardinality(S) + 1
           /\ e \in S => Cardinality(S \ {e}) = Cardinality(S) - 1 /\ Cardinality(S) > 0
  <1>1. /\ Cardinality(S) \in Nat /\ IsFiniteSet(S \cup {e}) /\ IsFiniteSet(S \ {e})
        /\ Cardinality(S \cup {e}) = IF e \in S THEN Cardinality(S) ELSE Cardinality(S) + 1
        /\ Cardinality(S \ {e}) = IF e \in S THEN Cardinality(S) - 1 ELSE Cardinality(S)
    BY FS_AddElement, FS_RemoveElement, FS_CardinalityType
  <1>2. e \in S => Cardinality(S) > 0
    <2>1. e \in S => Cardinality(S \ {e}) \in Nat
      BY <1>1, FS_CardinalityType
    <2> QED BY <1>1, <2>1
  <1> QED BY <1>1, <1>2

\* A hold that is open counts one unit, an Asset another, each once.
LEMMA CallsCountOnce ==
    ASSUME store \in Stores, IsFiniteSet(store.holds), IsFiniteSet(store.assets),
           NEW open \in Nat, NEW done \in Nat, NEW e \in Entries,
           store.committed = Cardinality(store.assets) + done,
           store.reserved = Cardinality(store.holds) + open,
           store' \in {Reserve(store, e), ConsumeHold(store, e), Commit(store, e)}
    PROVE  /\ IsFiniteSet(store'.holds) /\ IsFiniteSet(store'.assets)
           /\ store'.committed = Cardinality(store'.assets) + done
           /\ store'.reserved = Cardinality(store'.holds) + open
  <1> DEFINE more == store.reserved + 1
             less == IF store.reserved = 0 THEN 0 ELSE store.reserved - 1
             with == store.holds \cup {e}
             without == store.holds \ {e}
             s == ConsumeHold(store, e)
             paid == s.committed + 1
             listed == s.assets \cup {e}
  <1>1. /\ Reserve(store, e) = IF e \in store.holds THEN store
                               ELSE [store EXCEPT !.reserved = more, !.holds = with]
        /\ s = IF e \notin store.holds THEN store
               ELSE [store EXCEPT !.reserved = less, !.holds = without]
        /\ Commit(store, e) = IF e \in store.assets THEN s
                              ELSE [s EXCEPT !.committed = paid, !.assets = listed]
    BY DEF Reserve, ConsumeHold, Commit
  <1>2. /\ IsFiniteSet(with) /\ IsFiniteSet(without)
        /\ e \notin store.holds => more = Cardinality(with) + open
        /\ e \in store.holds => less = Cardinality(without) + open
    <2>1. /\ Cardinality(store.holds) \in Nat /\ IsFiniteSet(with) /\ IsFiniteSet(without)
          /\ e \notin store.holds => Cardinality(with) = Cardinality(store.holds) + 1
          /\ e \in store.holds => /\ Cardinality(without) = Cardinality(store.holds) - 1
                                  /\ Cardinality(store.holds) > 0
      BY Counting
    <2> HIDE DEF with, without
    <2> QED BY <2>1
  <1>3. CASE store' = Reserve(store, e)
    <2> HIDE DEF more, with, s
    <2> QED BY <1>1, <1>2, <1>3 DEF Stores
  <1> HIDE DEF more, less, with, without, s
  <1>4. /\ s.holds = IF e \in store.holds THEN without ELSE store.holds
        /\ s.reserved = IF e \in store.holds THEN less ELSE store.reserved
        /\ s.assets = store.assets /\ s.committed = store.committed
        /\ s \in Stores
    <2>1. s \in Stores
      BY StoreCalls DEF s
    <2> QED BY <1>1, <2>1 DEF Stores
  <1>5. /\ e \notin store.assets => paid = Cardinality(listed) + done
        /\ IsFiniteSet(listed)
    <2>1. listed = store.assets \cup {e} /\ paid = store.committed + 1
      BY <1>4
    <2>2. /\ Cardinality(store.assets) \in Nat /\ IsFiniteSet(listed)
          /\ e \notin store.assets => Cardinality(listed) = Cardinality(store.assets) + 1
      BY <2>1, Counting
    <2> HIDE DEF paid, listed
    <2> QED BY <2>1, <2>2
  <1> HIDE DEF paid, listed
  <1>6. CASE store' = s
    BY <1>2, <1>4, <1>6
  <1>7. CASE store' = Commit(store, e)
    <2>1. CASE e \in store.assets
      BY <1>1, <1>6, <1>7, <2>1
    <2>2. CASE e \notin store.assets
      <3>1. /\ store'.holds = s.holds /\ store'.reserved = s.reserved
            /\ store'.assets = listed /\ store'.committed = paid
        BY <1>1, <1>4, <1>7, <2>2 DEF Stores
      <3> QED BY <1>2, <1>4, <1>5, <2>2, <3>1
    <2> QED BY <2>1, <2>2
  <1> QED BY <1>3, <1>6, <1>7 DEF s

LEMMA UsageBounds ==
    ASSUME UsageInv
    PROVE  uploads.open \in Nat /\ uploads.done \in Nat /\ uploads.open <= store.reserved
  <1>1. Cardinality(store.holds) \in Nat
    BY FS_CardinalityType DEF UsageInv
  <1> QED BY <1>1 DEF UsageInv, UsageIsExact, Typed, TypeOK, Stores

LEMMA StepKeepsUsage ==
    ASSUME UsageInv, [Next]_vars
    PROVE  UsageInv'
  <1>0. /\ Typed /\ store \in Stores /\ uploads.open \in Nat /\ uploads.done \in Nat
        /\ uploads.open <= store.reserved /\ staged \subseteq Entries /\ stale \subseteq Entries
        /\ uploads \in [open : Nat, done : Nat]
    BY UsageBounds, TypedParts DEF UsageInv, Typed, TypeOK
  <1>1. ASSUME NEW x \in Handlers, Placing(x) PROVE UsageInv'
    <2>1. Typed'
      BY <1>0, <1>1, PlacingSays, PlacingKeepsRowAndStore
      DEF Typed, TypeOK, Stepped, HandlersTyped, Counted
    <2>2. uploads' = uploads /\ StoreStep(x) /\ h[x].e \in Entries
      BY <1>0, <1>1, PlacingSays, TypedParts
    <2>3. CASE store' \in {Reserve(store, h[x].e), ConsumeHold(store, h[x].e),
                           Commit(store, h[x].e)}
      <3>1. /\ IsFiniteSet(store'.holds) /\ IsFiniteSet(store'.assets)
            /\ store'.committed = Cardinality(store'.assets) + uploads.done
            /\ store'.reserved = Cardinality(store'.holds) + uploads.open
        BY <1>0, <2>2, <2>3, CallsCountOnce DEF UsageInv, UsageIsExact
      <3> QED BY <2>1, <2>2, <3>1 DEF UsageInv, UsageIsExact
    <2>4. CASE \/ store' = store
               \/ store' = [store EXCEPT !.content = @ \cup {h[x].e}]
      <3>1. /\ store'.holds = store.holds /\ store'.assets = store.assets
            /\ store'.committed = store.committed /\ store'.reserved = store.reserved
        <4> DEFINE c == store.content \cup {h[x].e}
        <4>1. store' = store \/ store' = [store EXCEPT !.content = c]
          BY <2>4
        <4> HIDE DEF c
        <4> QED BY <1>0, <4>1 DEF Stores
      <3> QED BY <2>1, <2>2, <3>1 DEF UsageInv, UsageIsExact
    <2> QED BY <2>2, <2>3, <2>4 DEF StoreStep
  <1>2. ASSUME NEW x \in Handlers, Turning(x) PROVE UsageInv'
    BY <1>0, <1>2, TurningSays
    DEF UsageInv, UsageIsExact, Typed, TypeOK, Stepped, HandlersTyped, Counted
  <1>3. CASE World
    <2>1. Typed' /\ store'.holds = store.holds /\ store'.assets = store.assets
      BY <1>0, <1>3, WorldSays DEF Typed, TypeOK
    <2>2. \/ store' = store /\ uploads' = uploads
          \/ store'.reserved = store.reserved + 1 /\ uploads'.open = uploads.open + 1
             /\ store'.committed = store.committed /\ uploads'.done = uploads.done
          \/ \E n \in {0, 1} :
                /\ store'.reserved = store.reserved - 1 /\ uploads'.open = uploads.open - 1
                /\ store'.committed = store.committed + n /\ uploads'.done = uploads.done + n
      <3>1. CASE Cancel \/ \E e \in Entries : RetentionEnds(e)
        BY <3>1 DEF Cancel, RetentionEnds
      <3>2. CASE UploadReserve
        BY <1>0, <3>2 DEF UploadReserve, Stores
      <3>3. CASE UploadEnds
        <4>1. PICK n \in {0, 1} :
                 /\ store' = [store EXCEPT !.reserved = @ - 1, !.committed = @ + n]
                 /\ uploads' = [open |-> uploads.open - 1, done |-> uploads.done + n]
          BY <3>3 DEF UploadEnds
        <4> DEFINE r == store.reserved - 1
                   c == store.committed + n
        <4>2. store' = [store EXCEPT !.reserved = r, !.committed = c]
          BY <4>1
        <4> HIDE DEF r, c
        <4>3. store'.reserved = r /\ store'.committed = c
          BY <1>0, <4>2 DEF Stores
        <4> QED BY <4>1, <4>3 DEF r, c
      <3> QED BY <1>3, <3>1, <3>2, <3>3 DEF World
    <2>3. Cardinality(store.holds) \in Nat /\ Cardinality(store.assets) \in Nat
      BY FS_CardinalityType DEF UsageInv
    <2> QED BY <1>0, <2>1, <2>2, <2>3 DEF UsageInv, UsageIsExact
  <1>4. CASE UNCHANGED vars
    BY <1>4 DEF vars, UsageInv, UsageIsExact, Typed, TypeOK
  <1> QED BY <1>1, <1>2, <1>3, <1>4, StepSplits

LEMMA InitKeepsUsage == ASSUME Init PROVE UsageInv
  <1>1. PICK x \in Workers, e \in Entries :
           h = [y \in Handlers |-> IF y # x THEN Idle
                  ELSE [Idle EXCEPT !.pc = "use", !.fence = 1, !.e = e, !.todo = Entries \ {e}]]
    BY DEF Init
  <1> DEFINE rest == Entries \ {e}
             n == [Idle EXCEPT !.pc = "use", !.fence = 1, !.e = e, !.todo = rest]
  <1>2. Idle \in HandlerStates /\ rest \in SUBSET Entries
    BY IdleIsTyped
  <1> HIDE DEF rest
  <1>3. n \in HandlerStates
    BY <1>2 DEF HandlerStates, PCs
  <1>4. h = [y \in Handlers |-> IF y # x THEN Idle ELSE n]
    BY <1>1 DEF rest
  <1> HIDE DEF n
  <1>5. h \in [Handlers -> HandlerStates]
    BY <1>2, <1>3, <1>4
  <1>6. job \in Jobs
    BY DEF Init, Jobs, Deliveries
  <1>7. store \in Stores /\ uploads \in [open : Nat, done : Nat] /\ faults \in 0..MaxFaults
    BY OutputAssumption DEF Init, Stores
  <1>8. UsageIsExact /\ IsFiniteSet(store.holds) /\ IsFiniteSet(store.assets)
    BY FS_EmptySet DEF Init, UsageIsExact
  <1> QED BY <1>5, <1>6, <1>7, <1>8 DEF UsageInv, Typed, TypeOK, Init

\* The inductive invariant behind the next two theorems: the types, and accounting
\* exact over finite sets, kept by every store call of worker, client and upload.
THEOREM UsageInvariant == Spec => []UsageInv
  BY InitKeepsUsage, StepKeepsUsage, PTL DEF Spec

\* Every variable of RenderOutput stays in its type; reserved usage, from which
\* uploads and releases take units back, never goes below zero.
THEOREM OutputTypeCorrect == Spec => []TypeOK
  <1>1. UsageInv => TypeOK
    BY DEF UsageInv, Typed
  <1> QED BY <1>1, UsageInvariant, PTL

\* Committed usage is what Assets and finished uploads account for, reserved usage
\* what open holds and uploads do, however many retries share or repeat a placement
\* (the hold's key in consumeHold, and Commit's stable Asset id).
THEOREM UsageExact == Spec => []UsageIsExact
  <1>1. UsageInv => UsageIsExact
    BY DEF UsageInv
  <1> QED BY <1>1, UsageInvariant, PTL

-----------------------------------------------------------------------------
(* Where a placement step takes its handler, and what it has seen by then. *)

Loop == {"use", "expire", "visible", "reserve", "put", "release", "recheck", "commit",
         "record", "mark", "delete", "clear", "forceCap"}
Debt == {"mark", "delete", "clear"}

SameRow == job'.delivery = job.delivery /\ job'.asset = job.asset

\* Within an entry, by what the handler has learned of it.
Advanced(x) ==
    /\ Kept(x) /\ h[x].pc \in Loop
    /\ \/ /\ h'[x].pc \in {"expire", "visible", "reserve", "put", "release", "recheck", "forceCap"}
          /\ SameRow
       \/ h'[x].pc = "forceFailed" /\ x \in Clients /\ SameRow
       \/ h'[x].pc = "terminal" /\ h'[x].to = "failed"
       \/ h'[x].pc = "commit" /\ h[x].e \in store'.content /\ SameRow
       \/ h'[x].pc = "record" /\ h[x].e \in store'.assets /\ SameRow
       \/ h'[x].pc = "mark" /\ h[x].pc = "record" /\ job' = Place(job, h[x].e)
       \/ h'[x].pc \in {"delete", "clear"} /\ h[x].pc \in {"mark", "delete"} /\ SameRow

\* To the next entry: this one is placed, or waits for capacity.
Passed(x) ==
    /\ x \notin Clients /\ h[x].pc \in Debt \cup {"forceCap"}
    /\ Visited(x, h[x].todo, h[x].placed)
    /\ \/ h[x].pc \in Debt /\ SameRow
       \/ h[x].pc = "forceCap" /\ job' = ForceDelivery(job, h[x].e, "capped")

LEMMA PlacingMoves ==
    ASSUME Typed, NEW x \in Handlers, Placing(x)
    PROVE  /\ h[x].pc \in Loop \cup {"rerecord", "forceFailed"}
           /\ h'[x] = Idle \/ Advanced(x) \/ Passed(x)
  <1>0. HandlersTyped /\ Entries # {} /\ store \in Stores /\ job \in Jobs /\ h[x].e \in Entries
    BY TypedParts DEF Typed
  <1>1. job' = job => SameRow
    BY DEF SameRow
  <1>2. \A b \in BOOLEAN : job' = [job EXCEPT !.purge = b] => SameRow
    BY <1>0 DEF SameRow, Jobs
  <1> USE DEF JobOnly, StoreOnly, Nothing
  <1>3. CASE Use(x)
    <2>1. /\ job' = job /\ h[x].pc = "use"
          /\ \/ x \in Clients /\ Goto(x, "forceFailed")
             \/ Settle(x, "failed")
             \/ \E pc \in {"expire", "visible"} : Goto(x, pc)
      BY <1>3 DEF Use, At
    <2> QED BY <1>0, <1>1, <2>1, GotoSays, SettleSays DEF Advanced, Loop, PCs, Ended
  <1>4. CASE Expire(x) \/ Rerecord(x) \/ ForceFailed(x)
    <2>1. /\ h[x].pc \in {"expire", "rerecord", "forceFailed"}
          /\ Return(x) \/ (Settle(x, "failed") /\ h[x].pc = "expire")
      BY <1>4 DEF Expire, Rerecord, ForceFailed, At
    <2> QED BY <1>0, <2>1, ReturnSays, SettleSays DEF Advanced, Loop, Ended
  <1>5. CASE CheckVisible(x) \/ Recheck(x)
    <2>1. /\ job' = job /\ store' = store /\ h[x].pc \in {"visible", "recheck"}
          /\ \/ Goto(x, "record") /\ h[x].e \in store.assets
             \/ \E pc \in {"reserve", "forceCap", "release"} : Goto(x, pc)
             \/ GiveUp(x)
      <3>1. CASE CheckVisible(x)
        BY <3>1 DEF CheckVisible, Visible, At
      <3>2. CASE Recheck(x)
        BY <3>2 DEF Recheck, Visible, At
      <3> QED BY <1>5, <3>1, <3>2
    <2> QED BY <1>0, <1>1, <2>1, GotoSays, GiveUpSays DEF Advanced, Loop, PCs
  <1>6. CASE ReserveHold(x) \/ ReleaseHold(x)
    <2>1. /\ job' = job /\ h[x].pc \in {"reserve", "release"}
          /\ \/ \E pc \in {"put", "recheck"} : Goto(x, pc)
             \/ Handle(x, "recheck", "cap")
             \/ GiveUp(x)
      BY <1>6 DEF ReserveHold, ReleaseHold, At
    <2> QED BY <1>0, <1>1, <2>1, GotoSays, HandleSays, GiveUpSays DEF Advanced, Loop, PCs, Whys
  <1>7. CASE PutContent(x)
    <2>1. /\ job' = job /\ h[x].pc = "put"
          /\ \/ Goto(x, "commit") /\ store' = [store EXCEPT !.content = @ \cup {h[x].e}]
             \/ Handle(x, "release", "put")
      BY <1>7 DEF PutContent, At
    <2> DEFINE c == store.content \cup {h[x].e}
    <2>2. store' = [store EXCEPT !.content = c] => store'.content = c
      <3> HIDE DEF c
      <3> QED BY <1>0 DEF Stores
    <2> QED BY <1>0, <1>1, <2>1, <2>2, GotoSays, HandleSays DEF Advanced, Loop, PCs, Whys
  <1>8. CASE CommitAsset(x)
    <2>1. /\ job' = job /\ h[x].pc = "commit"
          /\ \/ Goto(x, "record") /\ store' = Commit(store, h[x].e)
             \/ Handle(x, "recheck", "commit")
      BY <1>8 DEF CommitAsset, At
    <2> QED BY <1>0, <1>1, <2>1, StoreCalls, GotoSays, HandleSays DEF Advanced, Loop, PCs, Whys
  <1>9. CASE Record(x)
    <2>1. /\ h[x].pc = "record"
          /\ \/ job' = Place(job, h[x].e) /\ Goto(x, "mark")
             \/ job' = job /\ GiveUp(x)
      BY <1>9 DEF Record, At
    <2> QED BY <1>0, <1>1, <2>1, GotoSays, GiveUpSays DEF Advanced, Loop, PCs
  <1>10. CASE MarkPurge(x) \/ DeleteStaged(x) \/ ClearPurge(x)
    <2>1. /\ h[x].pc \in Debt /\ SameRow
          /\ \/ /\ \E pc \in {"delete", "clear"} : Goto(x, pc)
                /\ h[x].pc \in {"mark", "delete"}
             \/ Continue(x)
      BY <1>1, <1>2, <1>10 DEF MarkPurge, DeleteStaged, ClearPurge, At, Debt
    <2> QED BY <1>0, <2>1, GotoSays, ContinueSays DEF Advanced, Passed, Loop, Debt, PCs
  <1>11. CASE ForceCap(x)
    <2>1. /\ h[x].pc = "forceCap"
          /\ \/ job' = ForceDelivery(job, h[x].e, "capped") /\ Continue(x)
             \/ Return(x)
      BY <1>11 DEF ForceCap, At
    <2> QED BY <1>0, <2>1, ReturnSays, ContinueSays DEF Passed, Loop
  <1> QED BY <1>3, <1>4, <1>5, <1>6, <1>7, <1>8, <1>9, <1>10, <1>11 DEF Placing

-----------------------------------------------------------------------------
(* What the row calls available is stored. *)

RowIsStored ==
    /\ store.assets \subseteq store.content
    /\ \A e \in Entries : /\ job.asset[e] => e \in store.assets
                          /\ job.delivery[e] = "available" => job.asset[e]

\* What a handler has seen of the entries it deals with.
SeesPlaced(x) ==
    /\ h[x].pc = "commit" => h[x].e \in store.content
    /\ h[x].pc = "record" => h[x].e \in store.assets
    /\ h[x].pc \in Debt \cup {"rerecord"} => job.asset[h[x].e]
    /\ \A e \in h[x].placed : job.asset[e]
    /\ h[x].pc = "sweep" => \A e \in h[x].todo : job.asset[e]

PlacedInv == UsageInv /\ RowIsStored /\ \A x \in Handlers : SeesPlaced(x)

\* Nothing an entry has is taken from it.
NothingLost == /\ \A e \in Entries : job.asset[e] => job'.asset[e]
               /\ store.assets \subseteq store'.assets /\ store.content \subseteq store'.content

LEMMA OthersSee ==
    ASSUME Typed, NothingLost, NEW y \in Handlers, SeesPlaced(y), h'[y] = h[y]
    PROVE  SeesPlaced(y)'
  BY TypedParts DEF SeesPlaced, NothingLost

LEMMA PlacingSees ==
    ASSUME PlacedInv, NEW x \in Handlers, Placing(x)
    PROVE  RowIsStored' /\ SeesPlaced(x)' /\ NothingLost
  <1>0. /\ Typed /\ h[x].e \in Entries /\ job \in Jobs /\ store \in Stores
        /\ SeesPlaced(x) /\ RowIsStored
        /\ h[x].todo \in SUBSET Entries /\ h[x].placed \in SUBSET Entries
    BY TypedParts DEF PlacedInv, UsageInv
  <1>1. NothingLost /\ job' \in Jobs
    BY <1>0, PlacingKeepsRowAndStore DEF NothingLost
  <1>2. RowStep(x) /\ StoreStep(x)
    BY <1>0, PlacingSays
  <1>3. store'.assets \subseteq store'.content
    <2>1. CASE At(x, "commit") /\ store' = Commit(store, h[x].e)
      BY <1>0, <2>1, StoreCalls DEF At, SeesPlaced, RowIsStored
    <2>2. CASE store' = [store EXCEPT !.content = @ \cup {h[x].e}]
      <3> DEFINE c == store.content \cup {h[x].e}
      <3>1. store' = [store EXCEPT !.content = c] /\ store.content \subseteq c
        BY <2>2
      <3> HIDE DEF c
      <3>2. store'.content = c /\ store'.assets = store.assets
        BY <1>0, <3>1 DEF Stores
      <3> QED BY <1>0, <3>1, <3>2 DEF RowIsStored
    <2> QED BY <1>0, <1>2, <2>1, <2>2, StoreCalls DEF StoreStep, RowIsStored
  <1>4. \A e \in Entries : /\ job'.asset[e] => e \in store'.assets
                           /\ job'.delivery[e] = "available" => job'.asset[e]
    <2>1. CASE SameRow
      BY <1>0, <1>1, <2>1 DEF SameRow, RowIsStored, NothingLost
    <2>2. CASE \E d \in {"expired", "capped", "failed"} : job' = ForceDelivery(job, h[x].e, d)
      <3>1. PICK d \in {"expired", "capped", "failed"} : job' = ForceDelivery(job, h[x].e, d)
        BY <2>2
      <3>2. job'.delivery = [job.delivery EXCEPT ![h[x].e] = d] /\ job'.asset = job.asset
        BY <1>0, <3>1, RowCalls DEF Deliveries
      <3> QED BY <1>0, <1>1, <3>2 DEF RowIsStored, NothingLost, Jobs
    <2>3. CASE /\ job' = Place(job, h[x].e)
               /\ h[x].pc = "record" \/ h[x].pc = "rerecord"
      <3>1. /\ job'.delivery = [job.delivery EXCEPT ![h[x].e] = "available"]
            /\ job'.asset = [job.asset EXCEPT ![h[x].e] = TRUE]
        BY <1>0, <2>3, RowCalls
      <3>2. h[x].e \in store.assets
        BY <1>0, <2>3 DEF SeesPlaced, RowIsStored
      <3> QED BY <1>0, <1>1, <3>1, <3>2 DEF RowIsStored, NothingLost, Jobs
    <2>4. (\E b \in BOOLEAN : job' = [job EXCEPT !.purge = b]) \/ job' = job => SameRow
      BY <1>0 DEF SameRow, Jobs
    <2> QED BY <1>2, <2>1, <2>2, <2>3, <2>4 DEF RowStep, At
  <1>5. SeesPlaced(x)'
    <2>1. CASE h'[x] = Idle
      BY <2>1 DEF Idle, SeesPlaced, Debt
    <2>2. CASE Advanced(x)
      <3>1. h'[x].pc = "mark" => job'.asset[h[x].e]
        BY <1>0, <2>2, RowCalls DEF Advanced, Jobs
      <3> QED BY <1>0, <1>1, <2>2, <3>1 DEF Advanced, Kept, SeesPlaced, NothingLost, Debt, Loop
    <2>3. CASE Passed(x)
      BY <1>0, <1>1, <2>3 DEF Passed, Visited, Kept, SeesPlaced, NothingLost, Debt
    <2> QED BY <1>0, <2>1, <2>2, <2>3, PlacingMoves
  <1> QED BY <1>1, <1>3, <1>4, <1>5 DEF RowIsStored

LEMMA TurningSees ==
    ASSUME PlacedInv, NEW x \in Handlers, Turning(x)
    PROVE  RowIsStored' /\ SeesPlaced(x)' /\ NothingLost
  <1>0. /\ Typed /\ HandlersTyped /\ Entries # {} /\ SeesPlaced(x) /\ RowIsStored
        /\ job.fence + 1 \in Nat
    BY TypedParts DEF PlacedInv, UsageInv, Typed, Jobs
  <1>1. job'.asset = job.asset /\ job'.delivery = job.delivery /\ store' = store
    BY <1>0, TurningSays
  <1>2. RowIsStored' /\ NothingLost
    BY <1>0, <1>1 DEF RowIsStored, NothingLost
  <1>3. h'[x] = Idle => SeesPlaced(x)'
    BY DEF Idle, SeesPlaced, Debt
  <1>4. SeesPlaced(x)'
    <2>1. CASE Claim(x)
      <3>1. h'[x].pc = "load" /\ h'[x].placed = {}
        BY <1>0, <2>1, BeginSays DEF Claim
      <3> QED BY <3>1 DEF SeesPlaced, Debt
    <2>2. CASE Load(x)
      <3>1. \/ Visited(x, Entries, Placed(job))
            \/ Kept(x) /\ h'[x].pc \in {"terminal", "cleanup"}
        BY <1>0, <2>2, VisitSays, SettleSays, GotoSays, PlacedIsTyped DEF Load, PCs, Ended
      <3> QED BY <1>0, <1>1, <3>1 DEF Visited, Kept, Placed, SeesPlaced, Debt
    <2>3. CASE RetryOutput(x)
      <3>1. PICK e \in Entries :
               h' = [h EXCEPT ![x] = [Idle EXCEPT !.e = e,
                                         !.pc = IF job.asset[e] THEN "rerecord" ELSE "use"]]
        BY <2>3 DEF RetryOutput
      <3>2. /\ h'[x].e = e /\ h'[x].placed = {}
            /\ h'[x].pc = "use" \/ (h'[x].pc = "rerecord" /\ job.asset[e])
        BY <1>0, <3>1, RetrySays
      <3> QED BY <1>1, <3>2 DEF SeesPlaced, Debt
    <2>4. CASE PersistTerminal(x) \/ Crash(x)
      <3>1. h'[x] = Idle \/ (Kept(x) /\ h'[x].pc = "cleanup")
        BY <1>0, <2>4, GotoSays, ReturnSays DEF PersistTerminal, Crash, PCs
      <3> QED BY <1>0, <1>1, <1>3, <3>1 DEF Kept, SeesPlaced, Debt
    <2>5. CASE Cleanup(x) \/ Sweep(x)
      <3>1. CASE Return(x)
        BY <1>0, <1>3, <3>1, ReturnSays
      <3>2. CASE ~Return(x)
        <4>1. /\ h'[x].pc = "sweep" /\ h'[x].placed = h[x].placed
              /\ \/ h'[x].todo = Placed(job)
                 \/ h[x].pc = "sweep" /\ h'[x].todo \subseteq h[x].todo
          <5>1. CASE Cleanup(x)
            BY <1>0, <3>2, <5>1 DEF Cleanup, HandlersTyped, HandlerStates
          <5>2. CASE Sweep(x)
            BY <1>0, <3>2, <5>2 DEF Sweep, At, HandlersTyped, HandlerStates
          <5> QED BY <2>5, <5>1, <5>2
        <4> QED BY <1>0, <1>1, <4>1 DEF SeesPlaced, Placed, Debt
      <3> QED BY <3>1, <3>2
    <2> QED BY <2>1, <2>2, <2>3, <2>4, <2>5 DEF Turning
  <1> QED BY <1>2, <1>4

LEMMA StepKeepsPlaced ==
    ASSUME PlacedInv, [Next]_vars
    PROVE  PlacedInv'
  <1>0. UsageInv' /\ Typed /\ RowIsStored /\ uploads.open <= store.reserved
        /\ \A y \in Handlers : SeesPlaced(y)
    BY StepKeepsUsage, UsageBounds DEF PlacedInv, UsageInv
  <1>1. ASSUME NEW x \in Handlers, Placing(x) \/ Turning(x) PROVE PlacedInv'
    <2>1. RowIsStored' /\ SeesPlaced(x)' /\ NothingLost /\ OthersStay(x)
      BY <1>0, <1>1, PlacingSees, TurningSees, PlacingSays, TurningSays DEF Stepped
    <2> QED BY <1>0, <2>1, OthersSee DEF PlacedInv, OthersStay
  <1>2. CASE World \/ UNCHANGED vars
    <2>1. /\ h' = h /\ job'.asset = job.asset /\ job'.delivery = job.delivery
          /\ store'.assets = store.assets /\ store'.content = store.content
      BY <1>0, <1>2, WorldSays DEF vars
    <2>2. NothingLost /\ RowIsStored'
      BY <1>0, <2>1 DEF NothingLost, RowIsStored
    <2> QED BY <1>0, <2>1, <2>2, OthersSee DEF PlacedInv
  <1> QED BY <1>1, <1>2, StepSplits

LEMMA InitIsPlaced == ASSUME Init PROVE PlacedInv
  <1>1. RowIsStored
    BY DEF Init, RowIsStored
  <1>2. ASSUME NEW y \in Handlers PROVE SeesPlaced(y)
    <2>1. PICK x \in Workers, e \in Entries :
             h = [z \in Handlers |-> IF z # x THEN Idle
                    ELSE [Idle EXCEPT !.pc = "use", !.fence = 1, !.e = e, !.todo = Entries \ {e}]]
      BY DEF Init
    <2>2. h[y].pc \in {"idle", "use"} /\ h[y].placed = {}
      BY <2>1 DEF Idle
    <2> QED BY <2>2 DEF SeesPlaced, Debt
  <1> QED BY <1>1, <1>2, InitKeepsUsage DEF PlacedInv

\* The inductive invariant behind the next two theorems: an entry the row or a
\* handler past its commit calls placed has its Asset, with its bytes, whatever the
\* other handlers, faults and crashes of placeOutputBytes do.
THEOREM PlacedInvariant == Spec => []PlacedInv
  BY InitIsPlaced, StepKeepsPlaced, PTL DEF Spec

\* What the row calls available has a committed Asset with its bytes, by whichever
\* handler, path of placeOutputBytes or retry it was recorded.
THEOREM AvailableStored == Spec => []AvailableIsStored
  <1>1. PlacedInv => AvailableIsStored
    BY DEF PlacedInv, RowIsStored, AvailableIsStored
  <1> QED BY <1>1, PlacedInvariant, PTL

\* Staged bytes are dropped only by a retention that ran out or after the row named
\* the Asset (staging.Use, afterPlacementSettled and the purge sweep).
THEOREM StagedKept == Spec => StagedUntilPlaced
  <1>1. PlacedInv /\ [Next]_vars =>
            [\A e \in staged \ staged' : e \in stale \/ (job.asset[e] /\ e \in store.content)]_vars
    <2> SUFFICES ASSUME PlacedInv, Next, NEW e \in staged \ staged'
                 PROVE  e \in stale \/ (job.asset[e] /\ e \in store.content)
      BY DEF vars
    <2>0. Typed /\ RowIsStored /\ staged \subseteq Entries
      BY DEF PlacedInv, UsageInv, Typed, TypeOK
    <2>1. ASSUME NEW x \in Handlers, Placing(x) \/ Turning(x)
          PROVE  e \in stale \/ job.asset[e]
      <3>1. SeesPlaced(x)
        BY DEF PlacedInv
      <3>2. \/ Use(x) \/ DeleteStaged(x) \/ Sweep(x)
            \/ staged' = staged
        BY <2>1 DEF Placing, Turning, Expire, CheckVisible, ReserveHold, PutContent, CommitAsset,
                    Recheck, ReleaseHold, Record, Rerecord, MarkPurge, ClearPurge, ForceCap,
                    ForceFailed, Claim, Load, RetryOutput, PersistTerminal, Cleanup, Crash,
                    JobOnly, StoreOnly, Nothing
      <3> QED BY <3>1, <3>2 DEF Use, DeleteStaged, Sweep, At, SeesPlaced, Debt
    <2>2. CASE World
      BY <2>2 DEF World, Cancel, RetentionEnds, UploadReserve, UploadEnds
    <2>3. CASE UNCHANGED vars
      BY <2>3 DEF vars
    <2>4. e \in stale \/ job.asset[e]
      BY <2>1, <2>2, <2>3, StepSplits
    <2> QED BY <2>0, <2>4 DEF RowIsStored
  <1> QED BY <1>1, PlacedInvariant, PTL DEF Spec, StagedUntilPlaced

-----------------------------------------------------------------------------
(* What the holder of the fence leaves behind in its loop. *)

EntrySettled(e) == job.delivery[e] \in {"available", "capped"}

\* Entries a worker is done with, or found available when it loaded the row.
Behind(x) == {e \in Entries : \/ e \notin h[x].todo \cup {h[x].e}
                              \/ e \in h[x].placed
                              \/ e = h[x].e /\ h[x].pc \in Debt}

HolderSettles(x) ==
    h[x].fence = job.fence /\ job.lifecycle \notin Ended =>
        /\ h[x].pc \in Loop => \A e \in Behind(x) : EntrySettled(e)
        /\ h[x].pc = "terminal" /\ h[x].to = "completed" => \A e \in Entries : EntrySettled(e)

\* Fences are granted once; clients come after the job's end.
Ranked ==
    /\ job.fence # 0
    /\ \A x \in Workers : h[x].fence <= job.fence
    /\ \A x, y \in Workers : h[x].fence = job.fence /\ h[y].fence = job.fence => x = y
    /\ \A x \in Workers : h[x].pc \notin {"forceFailed", "rerecord"}
    /\ \A x \in Clients : h[x].pc # "idle" => job.lifecycle \in Ended

SettledInv == UsageInv /\ Ranked /\ \A x \in Workers : HolderSettles(x)

\* A claim grants the next fence.
LEMMA ClaimSays ==
    ASSUME Typed, NEW x \in Handlers, Claim(x)
    PROVE  /\ job'.fence = job.fence + 1 /\ job'.lifecycle = job.lifecycle
           /\ h'[x].pc = "load" /\ h'[x].fence = job.fence + 1
  <1>0. job \in Jobs /\ HandlersTyped /\ Entries # {}
    BY TypedParts DEF Typed
  <1>1. job' = [job EXCEPT !.fence = @ + 1, !.held = TRUE] /\ job.fence + 1 \in Nat
    BY <1>0 DEF Claim, Jobs
  <1>2. job'.fence = job.fence + 1 /\ job'.lifecycle = job.lifecycle
    BY <1>0, <1>1 DEF Jobs
  <1>3. h'[x].pc = "load" /\ h'[x].fence = job.fence + 1
    <2>1. h' = [h EXCEPT ![x] = [Idle EXCEPT !.pc = "load", !.fence = job.fence + 1]]
      BY DEF Claim
    <2> QED BY <1>0, <1>1, <2>1, BeginSays, Zenon
  <1> QED BY <1>2, <1>3

\* Of the steps outside a placement only a claim and the end of the job change more
\* of the row than its purge debt.
LEMMA TurningKeepsRow ==
    ASSUME Typed, NEW x \in Handlers, Turning(x), ~Claim(x)
    PROVE  /\ job'.fence = job.fence
           /\ \/ job'.lifecycle = job.lifecycle
              \/ PersistTerminal(x) /\ job'.lifecycle = h[x].to /\ h[x].to \in Ended
  <1>0. job \in Jobs
    BY TypedParts
  <1>1. CASE PersistTerminal(x)
    <2>1. h[x].to \in Ended
      BY TypedParts
    <2>2. job' = job \/ job' = [job EXCEPT !.lifecycle = h[x].to, !.held = FALSE]
      BY <1>1 DEF PersistTerminal
    <2>3. job' # job => job'.lifecycle = h[x].to /\ job'.fence = job.fence
      BY <1>0, <2>2 DEF Jobs
    <2> QED BY <1>1, <2>1, <2>3
  <1>2. CASE Load(x)
    BY <1>2 DEF Load, Nothing
  <1>3. CASE RetryOutput(x)
    BY <1>3 DEF RetryOutput, Nothing
  <1>4. CASE Cleanup(x)
    BY <1>4 DEF Cleanup, Nothing
  <1>5. CASE Crash(x)
    BY <1>5 DEF Crash, Nothing
  <1>6. CASE Sweep(x)
    BY <1>0, <1>6 DEF Sweep, Jobs
  <1> QED BY <1>1, <1>2, <1>3, <1>4, <1>5, <1>6 DEF Turning

LEMMA HandlersSplit ==
    ASSUME NEW x \in Handlers
    PROVE  (x \in Workers /\ x \notin Clients) \/ (x \in Clients /\ x \notin Workers)
  BY OutputAssumption DEF Handlers

\* Before the job ends only the holder of its fence changes a delivery.
LEMMA HolderWrites ==
    ASSUME Typed, Ranked, NEW x \in Handlers, Placing(x), job.lifecycle \notin Ended
    PROVE  x \in Workers /\ (SameRow \/ h[x].fence = job.fence)
  <1>0. job \in Jobs /\ RowStep(x) /\ h[x].pc # "idle"
    BY TypedParts, PlacingSays, PlacingMoves DEF Loop
  <1>1. x \in Workers
    BY <1>0, HandlersSplit DEF Ranked
  <1>2. h[x].pc \notin {"forceFailed", "rerecord"}
    BY <1>1 DEF Ranked
  <1>3. CASE Owns(x)
    BY <1>1, <1>3 DEF Owns, MayPlace
  <1>4. CASE ~Owns(x)
    BY <1>0, <1>1, <1>2, <1>4 DEF RowStep, At, SameRow, Jobs
  <1> QED BY <1>3, <1>4

\* What the holder writes leaves the entries behind it settled.
LEMMA PlacingSettles ==
    ASSUME SettledInv, NEW x \in Workers, Placing(x)
    PROVE  HolderSettles(x)'
  <1>0. /\ Typed /\ Ranked /\ job \in Jobs /\ job' \in Jobs /\ x \in Handlers /\ x \notin Clients
        /\ h[x].e \in Entries /\ h[x].todo \in SUBSET Entries /\ h[x].placed \in SUBSET Entries
        /\ job'.lifecycle = job.lifecycle /\ job'.fence = job.fence
    BY HandlersSplit, TypedParts, PlacingKeepsRowAndStore
    DEF SettledInv, UsageInv, Handlers
  <1> SUFFICES ASSUME h'[x].fence = job.fence, job.lifecycle \notin Ended
               PROVE  /\ h'[x].pc \in Loop => \A e \in Behind(x)' : EntrySettled(e)'
                      /\ h'[x].pc = "terminal" /\ h'[x].to = "completed" =>
                             \A e \in Entries : EntrySettled(e)'
    BY <1>0 DEF HolderSettles
  <1>1. HolderSettles(x)
    BY DEF SettledInv
  <1>2. CASE h'[x] = Idle
    BY <1>2 DEF Idle, Loop
  <1>3. CASE Advanced(x)
    <2>1. /\ h'[x].fence = h[x].fence /\ h[x].pc \in Loop /\ h'[x].e = h[x].e
          /\ h'[x].todo = h[x].todo /\ h'[x].placed = h[x].placed
      BY <1>3 DEF Advanced, Kept
    <2>2. \A e \in Behind(x) : EntrySettled(e)
      BY <1>1, <2>1 DEF HolderSettles
    <2>3. CASE SameRow /\ h'[x].pc # "mark"
      <3>1. h'[x].pc \in Debt => h[x].pc \in Debt
        BY <1>3, <2>3 DEF Advanced, Debt
      <3> QED BY <1>3, <2>1, <2>2, <2>3, <3>1 DEF Advanced, Behind, EntrySettled, SameRow, Loop
    <2>4. CASE h'[x].pc = "terminal" /\ h'[x].to = "failed"
      BY <2>4 DEF Loop
    <2>5. CASE h'[x].pc = "mark" /\ h[x].pc = "record" /\ job' = Place(job, h[x].e)
      <3>1. job'.delivery = [job.delivery EXCEPT ![h[x].e] = "available"]
        BY <1>0, <2>5, RowCalls
      <3>2. /\ EntrySettled(h[x].e)'
            /\ \A e \in Entries : EntrySettled(e) => EntrySettled(e)'
        BY <1>0, <2>1, <3>1 DEF EntrySettled, Jobs
      <3> QED BY <2>1, <2>2, <2>5, <3>2 DEF Behind, Debt
    <2> QED BY <1>0, <1>3, <2>3, <2>4, <2>5 DEF Advanced
  <1>4. CASE Passed(x)
    <2>1. h'[x].fence = h[x].fence /\ h[x].pc \in Loop
      BY <1>4 DEF Passed, Visited, Kept, Loop, Debt
    <2>2. \A e \in Behind(x) : EntrySettled(e)
      BY <1>1, <2>1 DEF HolderSettles
    <2>3. /\ job'.delivery[h[x].e] \in {"available", "capped"}
          /\ \A e \in Entries : EntrySettled(e) => EntrySettled(e)'
      <3>1. CASE h[x].pc \in Debt /\ SameRow
        <4>1. h[x].e \in Behind(x)
          BY <1>0, <3>1 DEF Behind
        <4> QED BY <2>2, <3>1, <4>1 DEF EntrySettled, SameRow
      <3>2. CASE h[x].pc = "forceCap" /\ job' = ForceDelivery(job, h[x].e, "capped")
        <4>1. job'.delivery = [job.delivery EXCEPT ![h[x].e] = "capped"]
          BY <1>0, <3>2, RowCalls DEF Deliveries
        <4>2. job.delivery \in [Entries -> Deliveries]
          BY <1>0 DEF Jobs
        <4> QED BY <1>0, <4>1, <4>2 DEF EntrySettled
      <3> QED BY <1>4, <3>1, <3>2, Zenon DEF Passed
    <2>4. \A e \in Entries : e \notin h[x].todo \/ e \in h[x].placed => EntrySettled(e)'
      <3>1. \A e \in Entries : e = h[x].e => EntrySettled(e)'
        BY <2>3 DEF EntrySettled
      <3> QED BY <2>2, <2>3, <3>1 DEF Behind
    <2> HIDE DEF EntrySettled
    <2>5. CASE h'[x].pc = "terminal" /\ h[x].todo = {}
      BY <2>4, <2>5 DEF Loop
    <2>6. CASE /\ h'[x].placed = h[x].placed /\ h'[x].todo = h[x].todo \ {h'[x].e}
               /\ h'[x].pc \in Loop /\ (h'[x].pc \in Debt => h'[x].e \in h[x].placed)
      BY <2>4, <2>6 DEF Behind, Loop
    <2> QED BY <1>4, <2>5, <2>6 DEF Passed, Visited, Debt, Loop
  <1> QED BY <1>0, <1>2, <1>3, <1>4, PlacingMoves

LEMMA TurningSettles ==
    ASSUME SettledInv, NEW x \in Workers, Turning(x)
    PROVE  HolderSettles(x)'
  <1>0. /\ Typed /\ HandlersTyped /\ Entries # {} /\ job \in Jobs /\ x \in Handlers
        /\ x \notin Clients /\ Ranked /\ HolderSettles(x) /\ job.fence \in Nat
    BY HandlersSplit, TypedParts DEF SettledInv, UsageInv, Typed, Handlers, Jobs
  <1>1. job'.delivery = job.delivery
    BY <1>0, TurningSays
  <1>2. h'[x].pc \in {"idle", "load", "cleanup", "sweep"} => HolderSettles(x)'
    BY DEF HolderSettles, Loop
  <1>3. h'[x] = Idle => h'[x].pc = "idle"
    BY DEF Idle
  <1>4. CASE Claim(x)
    BY <1>0, <1>2, <1>4, ClaimSays
  <1>5. CASE Load(x)
    <2>0. job' = job
      BY <1>5 DEF Load, Nothing
    <2>1. CASE job.lifecycle = "running"
      <3>1. Visit(x, Entries, Placed(job))
        BY <1>5, <2>1 DEF Load
      <3>2. Visited(x, Entries, Placed(job))
        BY <1>0, <3>1, VisitSays, PlacedIsTyped
      <3>3. /\ h'[x].todo = Entries \ {h'[x].e} /\ h'[x].placed = Placed(job)
            /\ h'[x].pc # "terminal" /\ (h'[x].pc \in Debt => h'[x].e \in Placed(job))
        BY <1>0, <3>2 DEF Visited, Debt
      <3>4. \A e \in Behind(x)' : e \in Placed(job)
        BY <3>3 DEF Behind
      <3>5. \A e \in Placed(job) : EntrySettled(e)'
        BY <1>1 DEF Placed, EntrySettled
      <3> QED BY <3>3, <3>4, <3>5 DEF HolderSettles
    <2>2. CASE job.lifecycle = "cancel_requested"
      <3>1. Settle(x, "failed")
        BY <1>5, <2>2 DEF Load
      <3>2. h'[x].pc = "terminal" /\ h'[x].to = "failed"
        BY <1>0, <3>1, SettleSays DEF Ended
      <3> QED BY <3>2 DEF HolderSettles, Loop
    <2>3. CASE job.lifecycle \notin {"running", "cancel_requested"}
      BY <1>0, <2>0, <2>3 DEF HolderSettles, Jobs, Ended
    <2> QED BY <2>1, <2>2, <2>3
  <1>6. CASE RetryOutput(x)
    BY <1>0, <1>6 DEF RetryOutput
  <1>7. CASE PersistTerminal(x) \/ Crash(x)
    <2>1. h'[x].pc = "idle" \/ h'[x].pc = "cleanup"
      BY <1>0, <1>3, <1>7, GotoSays, ReturnSays DEF PersistTerminal, Crash, PCs
    <2> QED BY <1>2, <2>1
  <1>8. CASE Cleanup(x)
    <2>1. h'[x].pc = "idle" \/ h'[x].pc = "sweep"
      BY <1>0, <1>3, <1>8, ReturnSays DEF Cleanup, HandlersTyped, HandlerStates
    <2> QED BY <1>2, <2>1
  <1>9. CASE Sweep(x)
    <2>1. h'[x].pc = "idle" \/ h'[x].pc = "sweep"
      BY <1>0, <1>3, <1>9, ReturnSays DEF Sweep, At, HandlersTyped, HandlerStates
    <2> QED BY <1>2, <2>1
  <1> QED BY <1>4, <1>5, <1>6, <1>7, <1>8, <1>9 DEF Turning

\* A worker that is not concerned by a step stays settled: nobody else writes while it
\* holds the fence, and a claim takes the fence away.
LEMMA OthersSettle ==
    ASSUME SettledInv, NEW x \in Handlers, Placing(x) \/ Turning(x), NEW y \in Workers \ {x}
    PROVE  HolderSettles(y)'
  <1>0. Typed /\ Ranked /\ HolderSettles(y) /\ job \in Jobs /\ job.fence \in Nat /\ y \in Handlers
        /\ h[y].fence \in Nat
    BY TypedParts DEF SettledInv, UsageInv, Handlers, Jobs
  <1>1. h'[y] = h[y]
    BY <1>0, PlacingSays, TurningSays DEF Stepped, OthersStay
  <1> SUFFICES ASSUME h[y].fence = job'.fence, job'.lifecycle \notin Ended
               PROVE  HolderSettles(y)'
    BY <1>1 DEF HolderSettles
  <1>2. CASE Placing(x)
    <2>1. job'.lifecycle = job.lifecycle /\ job'.fence = job.fence
      BY <1>0, <1>2, PlacingKeepsRowAndStore
    <2>2. SameRow
      BY <1>0, <1>2, <2>1, HolderWrites DEF Ranked
    <2> QED BY <1>0, <1>1, <2>1, <2>2 DEF HolderSettles, SameRow, EntrySettled, Behind
  <1>3. CASE Turning(x)
    <2>1. job'.delivery = job.delivery
      BY <1>0, <1>3, TurningSays
    <2>2. job'.fence = job.fence /\ job.lifecycle \notin Ended
      <3>1. CASE Claim(x)
        <4>1. job'.fence = job.fence + 1 /\ h[y].fence <= job.fence
          BY <1>0, <3>1, ClaimSays DEF Ranked
        <4> QED BY <1>0, <4>1
      <3>2. CASE ~Claim(x)
        BY <1>0, <1>3, <3>2, TurningKeepsRow
      <3> QED BY <3>1, <3>2
    <2> QED BY <1>0, <1>1, <2>1, <2>2 DEF HolderSettles, EntrySettled, Behind
  <1> QED BY <1>2, <1>3

\* Outside a placement a handler keeps its fence or is done, but for a claim.
LEMMA TurningGoes ==
    ASSUME Typed, NEW x \in Handlers, Turning(x), ~Claim(x)
    PROVE  \/ x \in Clients /\ job.lifecycle \in Ended
           \/ h'[x].fence = 0 /\ h'[x].pc = "idle"
           \/ /\ h[x].pc # "idle" /\ h'[x].fence = h[x].fence
              /\ h'[x].pc \notin {"forceFailed", "rerecord"}
  <1>0. HandlersTyped /\ Entries # {} /\ job \in Jobs
    BY TypedParts DEF Typed
  <1>1. h'[x] = Idle => h'[x].fence = 0 /\ h'[x].pc = "idle"
    BY DEF Idle
  <1>2. CASE Load(x)
    <2>1. Visited(x, Entries, Placed(job)) \/ (Kept(x) /\ h'[x].pc \in {"terminal", "cleanup"})
      BY <1>0, <1>2, VisitSays, SettleSays, GotoSays, PlacedIsTyped DEF Load, PCs, Ended
    <2> QED BY <1>2, <2>1 DEF Load, At, Visited, Kept
  <1>3. CASE RetryOutput(x)
    BY <1>3 DEF RetryOutput
  <1>4. CASE PersistTerminal(x) \/ Crash(x)
    <2>1. h'[x] = Idle \/ (h[x].pc = "terminal" /\ Kept(x) /\ h'[x].pc = "cleanup")
      BY <1>0, <1>4, GotoSays, ReturnSays DEF PersistTerminal, Crash, PCs, At
    <2> QED BY <1>1, <2>1 DEF Kept
  <1>5. CASE Cleanup(x)
    <2>1. h'[x] = Idle \/ (h'[x].fence = h[x].fence /\ h'[x].pc = "sweep")
      BY <1>0, <1>5, ReturnSays DEF Cleanup, HandlersTyped, HandlerStates
    <2> QED BY <1>1, <1>5, <2>1 DEF Cleanup, At
  <1>6. CASE Sweep(x)
    <2>1. h'[x] = Idle \/ (h'[x].fence = h[x].fence /\ h'[x].pc = "sweep")
      BY <1>0, <1>6, ReturnSays DEF Sweep, At, HandlersTyped, HandlerStates
    <2> QED BY <1>1, <1>6, <2>1 DEF Sweep, At
  <1> QED BY <1>2, <1>3, <1>4, <1>5, <1>6 DEF Turning

LEMMA StepRanks ==
    ASSUME SettledInv, NEW x \in Handlers, Placing(x) \/ Turning(x)
    PROVE  Ranked'
  <1>0. /\ Typed /\ HandlersTyped /\ Entries # {} /\ Ranked /\ job \in Jobs /\ job.fence \in Nat
        /\ \A y \in Handlers : h[y].fence \in Nat
    BY TypedParts DEF SettledInv, UsageInv, Typed, Jobs
  <1>1. Stepped(x)
    BY <1>0, PlacingSays, TurningSays
  <1>2. CASE Placing(x)
    <2>1. job'.lifecycle = job.lifecycle /\ job'.fence = job.fence
      BY <1>0, <1>2, PlacingKeepsRowAndStore
    <2>2. /\ h[x].pc # "idle"
          /\ h'[x].fence = h[x].fence \/ (h'[x].fence = 0 /\ h'[x].pc = "idle")
          /\ h'[x].pc = "forceFailed" => x \in Clients
          /\ h'[x].pc # "rerecord"
      BY <1>0, <1>2, PlacingMoves DEF Idle, Advanced, Passed, Visited, Kept, Loop
    <2> QED BY <1>0, <1>1, <2>1, <2>2, HandlersSplit DEF Ranked, Stepped, OthersStay, Handlers
  <1>3. CASE Claim(x)
    <2>1. /\ job'.fence = job.fence + 1 /\ job'.lifecycle = job.lifecycle /\ x \in Workers
      BY <1>0, <1>3, ClaimSays DEF Claim
    <2>2. h'[x].pc = "load" /\ h'[x].fence = job.fence + 1
      BY <1>0, <1>3, ClaimSays
    <2>3. \A y \in Workers \ {x} : h'[y] = h[y] /\ h[y].fence <= job.fence /\ h[y].fence \in Nat
      BY <1>0, <1>1 DEF Ranked, Stepped, OthersStay, Handlers
    <2>4. /\ job'.fence # 0 /\ h'[x].fence = job'.fence
          /\ \A y \in Workers \ {x} : h'[y].fence < job'.fence
      BY <1>0, <2>1, <2>2, <2>3
    <2>5. \A y \in Workers : h'[y].fence <= job'.fence
      BY <1>0, <2>1, <2>3, <2>4
    <2>6. \A y, z \in Workers : h'[y].fence = job'.fence /\ h'[z].fence = job'.fence => y = z
      <3>1. \A y \in Workers : h'[y].fence = job'.fence => y = x
        BY <1>0, <2>1, <2>3
      <3> QED BY <3>1
    <2>7. \A y \in Clients : y # x
      BY <2>1, OutputAssumption
    <2> QED BY <1>0, <1>1, <2>1, <2>2, <2>3, <2>4, <2>5, <2>6, <2>7
        DEF Ranked, Stepped, OthersStay, Handlers
  <1>4. CASE Turning(x) /\ ~Claim(x)
    <2>1. job'.fence = job.fence /\ (job.lifecycle \in Ended => job'.lifecycle \in Ended)
      BY <1>0, <1>4, TurningKeepsRow
    <2>2. \/ x \in Clients /\ job.lifecycle \in Ended
          \/ h'[x].fence = 0 /\ h'[x].pc = "idle"
          \/ /\ h[x].pc # "idle" /\ h'[x].fence = h[x].fence
             /\ h'[x].pc \notin {"forceFailed", "rerecord"}
      BY <1>0, <1>4, TurningGoes, Zenon
    <2> QED BY <1>0, <1>1, <2>1, <2>2, HandlersSplit DEF Ranked, Stepped, OthersStay, Handlers
  <1> QED BY <1>2, <1>3, <1>4

LEMMA StepKeepsSettled ==
    ASSUME SettledInv, [Next]_vars
    PROVE  SettledInv'
  <1>0. UsageInv' /\ Typed /\ uploads.open <= store.reserved
    BY StepKeepsUsage, UsageBounds DEF SettledInv, UsageInv
  <1>1. ASSUME NEW x \in Handlers, Placing(x) \/ Turning(x) PROVE SettledInv'
    <2>1. x \in Workers => HolderSettles(x)'
      BY <1>1, PlacingSettles, TurningSettles
    <2>2. \A y \in Workers \ {x} : HolderSettles(y)'
      BY <1>1, OthersSettle
    <2>3. Ranked'
      BY <1>1, StepRanks
    <2> QED BY <1>0, <2>1, <2>2, <2>3 DEF SettledInv
  <1>2. CASE World \/ UNCHANGED vars
    <2>1. /\ h' = h /\ job'.delivery = job.delivery /\ job'.fence = job.fence
          /\ job' = job \/ (job.lifecycle = "running" /\ job'.lifecycle = "cancel_requested")
      BY <1>0, <1>2, WorldSays DEF vars
    <2>2. job'.lifecycle \in Ended <=> job.lifecycle \in Ended
      BY <2>1 DEF Ended
    <2>3. Ranked'
      BY <2>1, <2>2 DEF SettledInv, Ranked
    <2>4. ASSUME NEW y \in Workers PROVE HolderSettles(y)'
      BY <2>1, <2>2 DEF SettledInv, HolderSettles, EntrySettled, Behind
    <2> QED BY <1>0, <2>3, <2>4 DEF SettledInv
  <1> QED BY <1>1, <1>2, StepSplits

LEMMA InitIsSettled == ASSUME Init PROVE SettledInv
  <1>1. PICK x \in Workers, e \in Entries :
           h = [y \in Handlers |-> IF y # x THEN Idle
                  ELSE [Idle EXCEPT !.pc = "use", !.fence = 1, !.e = e, !.todo = Entries \ {e}]]
    BY Zenon DEF Init
  <1>2. job.fence = 1
    BY DEF Init
  <1>3. /\ h[x].pc = "use" /\ h[x].fence = 1 /\ h[x].e = e /\ h[x].todo = Entries \ {e}
        /\ h[x].placed = {}
    BY <1>1 DEF Idle, Handlers
  <1>4. \A y \in Handlers \ {x} : h[y].pc = "idle" /\ h[y].fence = 0
    BY <1>1 DEF Idle
  <1>5. Ranked
    BY <1>2, <1>3, <1>4, HandlersSplit DEF Ranked, Handlers
  <1>6. HolderSettles(x)
    BY <1>3 DEF HolderSettles, Behind, Debt
  <1>7. ASSUME NEW y \in Workers \ {x} PROVE HolderSettles(y)
    BY <1>2, <1>4 DEF HolderSettles, Handlers
  <1> QED BY <1>5, <1>6, <1>7, InitKeepsUsage DEF SettledInv

\* The inductive invariant behind the next theorem: while a worker holds the fence of a
\* job that has not ended, every entry its loop has left behind is placed or waits for
\* capacity, and nobody else changes that.
THEOREM SettledInvariant == Spec => []SettledInv
  BY InitIsSettled, StepKeepsSettled, PTL DEF Spec

\* A job completes (persistTerminal at the end of the placement loop) only when each of
\* its entries is available or waits for storage, for any number of workers that take
\* the job over from each other.
THEOREM CompletedIsSettled == Spec => CompletesWhenSettled
  <1>1. SettledInv /\ [Next]_vars =>
            [job.lifecycle = "running" /\ job'.lifecycle = "completed" =>
                \A e \in Entries : job.delivery[e] \in {"available", "capped"}]_vars
    <2> SUFFICES ASSUME SettledInv, Next, job.lifecycle = "running",
                        job'.lifecycle = "completed"
                 PROVE  \A e \in Entries : job.delivery[e] \in {"available", "capped"}
      BY DEF vars
    <2>0. Typed /\ Ranked /\ job \in Jobs /\ uploads.open <= store.reserved
      BY TypedParts, UsageBounds DEF SettledInv, UsageInv
    <2>1. ASSUME NEW x \in Handlers, PersistTerminal(x)
          PROVE  \A e \in Entries : EntrySettled(e)
      <3>1. Owns(x) /\ h[x].to = "completed" /\ h[x].pc = "terminal"
        BY <2>0, <2>1 DEF PersistTerminal, At, Jobs
      <3>2. h[x].fence = job.fence /\ x \in Workers
        BY <2>0, <3>1, HandlersSplit DEF Owns, MayPlace, Ended, Ranked
      <3> QED BY <3>1, <3>2 DEF SettledInv, HolderSettles, Ended
    <2>2. ASSUME NEW x \in Handlers, Placing(x)
          PROVE  FALSE
      BY <2>0, <2>2, PlacingKeepsRowAndStore
    <2>3. ASSUME NEW x \in Handlers, Turning(x), ~PersistTerminal(x)
          PROVE  FALSE
      <3>1. ~Claim(x)
        BY <2>0, <2>3, ClaimSays
      <3> QED BY <2>0, <2>3, <3>1, TurningKeepsRow
    <2>4. ~World /\ ~UNCHANGED vars
      BY <2>0, WorldSays DEF vars
    <2> QED BY <2>1, <2>2, <2>3, <2>4, StepSplits DEF EntrySettled
  <1> QED BY <1>1, SettledInvariant, PTL DEF Spec, CompletesWhenSettled

-----------------------------------------------------------------------------
(* What the holder of the fence still has ahead of it in its loop. *)

HolderAhead(x) ==
    h[x].fence = job.fence /\ job.lifecycle \notin Ended /\ h[x].pc \in Loop =>
        /\ h[x].e \notin h[x].todo
        /\ \A e \in h[x].todo \ h[x].placed : job.delivery[e] # "available"
        /\ h[x].pc \notin Debt => job.delivery[h[x].e] # "available"

Fenced(x) == h[x].pc # "idle" => h[x].fence # 0

\* The lease ends with the job.
LeaseEnds == job.lifecycle \in Ended => ~job.held

StaysInv ==
    /\ SettledInv /\ PlacedInv /\ LeaseEnds
    /\ \A x \in Workers : HolderAhead(x) /\ Fenced(x)

\* Of the three writes that may replace a delivery a worker's is fenced.
LEMMA TakingBack ==
    ASSUME Typed, Ranked, NEW x \in Handlers, Placing(x), NEW e \in Entries,
           job.delivery[e] = "available", job'.delivery[e] # "available"
    PROVE  /\ h[x].e = e /\ h[x].pc \in {"expire", "forceCap", "forceFailed"}
           /\ x \in Workers => Owns(x)
  <1>0. job \in Jobs /\ h[x].e \in Entries
    BY TypedParts
  <1>1. CASE Expire(x) \/ ForceCap(x) \/ ForceFailed(x)
    <2>1. /\ h[x].pc \in {"expire", "forceCap", "forceFailed"}
          /\ h[x].pc # "forceFailed" => job' = job \/ Owns(x)
          /\ \/ job' = job
             \/ \E d \in Deliveries : job' = ForceDelivery(job, h[x].e, d)
      BY <1>1 DEF Expire, ForceCap, ForceFailed, At, Deliveries
    <2>2. h[x].e = e
      <3>1. job' # job
        OBVIOUS
      <3>2. PICK d \in Deliveries : job' = ForceDelivery(job, h[x].e, d)
        BY <2>1, <3>1
      <3>3. job'.delivery = [job.delivery EXCEPT ![h[x].e] = d]
        BY <1>0, <3>2, RowCalls
      <3> QED BY <1>0, <3>3 DEF Jobs
    <2> QED BY <2>1, <2>2 DEF Ranked
  <1>2. CASE Record(x) \/ Rerecord(x)
    <2>1. job' = job \/ job' = Place(job, h[x].e)
      BY <1>2 DEF Record, Rerecord
    <2>2. job' = Place(job, h[x].e) => job'.delivery = [job.delivery EXCEPT ![h[x].e] = "available"]
      BY <1>0, RowCalls
    <2> QED BY <1>0, <2>1, <2>2 DEF Jobs
  <1>3. CASE ~(Expire(x) \/ ForceCap(x) \/ ForceFailed(x) \/ Record(x) \/ Rerecord(x))
    <2>1. \/ job' = job
          \/ \E purge \in BOOLEAN : job' = [job EXCEPT !.purge = purge]
      BY <1>3 DEF Placing, Use, CheckVisible, ReserveHold, PutContent, CommitAsset, Recheck,
                  ReleaseHold, MarkPurge, DeleteStaged, ClearPurge, JobOnly, StoreOnly, Nothing
    <2> QED BY <1>0, <2>1 DEF Jobs
  <1> QED BY <1>1, <1>2, <1>3

\* While the job runs only the holder writes, and it has no placed entry before it.
LEMMA HolderTakesNothingBack ==
    ASSUME StaysInv, NEW x \in Workers, Placing(x), NEW e \in Entries,
           job.delivery[e] = "available"
    PROVE  job'.delivery[e] = "available"
  <1>0. Typed /\ Ranked /\ LeaseEnds /\ HolderAhead(x) /\ x \in Handlers /\ job.fence # 0
    BY DEF StaysInv, SettledInv, UsageInv, Handlers, Ranked
  <1> SUFFICES ASSUME job'.delivery[e] # "available" PROVE FALSE
    OBVIOUS
  <1>1. h[x].e = e /\ h[x].pc \in {"expire", "forceCap", "forceFailed"} /\ Owns(x)
    BY <1>0, TakingBack
  <1>2. h[x].pc \in Loop /\ h[x].pc \notin Debt
    BY <1>0, <1>1 DEF Ranked, Loop, Debt
  <1>3. job.lifecycle \notin Ended => h[x].fence = job.fence
    BY <1>1 DEF Owns, MayPlace
  <1>4. job.lifecycle \in Ended => h[x].fence = 0
    BY <1>0, <1>1 DEF Owns, MayPlace, LeaseEnds
  <1>5. h[x].fence # 0
    BY <1>0, <1>1 DEF StaysInv, Fenced
  <1> QED BY <1>0, <1>1, <1>2, <1>3, <1>4, <1>5 DEF HolderAhead

\* Past the record of its Asset an entry is not written again.
LEMMA DebtMoves ==
    ASSUME Typed, NEW x \in Handlers, x \notin Clients, Placing(x), h[x].pc \in Debt
    PROVE  h'[x].pc \in Debt \cup {"use", "terminal"}
  <1>0. HandlersTyped /\ Entries # {} /\ h[x].todo \in SUBSET Entries /\ h[x].placed \in SUBSET Entries
    BY TypedParts DEF Typed
  <1>1. MarkPurge(x) \/ DeleteStaged(x) \/ ClearPurge(x)
    BY DEF Debt, Placing, Use, Expire, CheckVisible, ReserveHold, PutContent, CommitAsset,
           Recheck, ReleaseHold, Record, Rerecord, ForceCap, ForceFailed, At
  <1>2. Continue(x) \/ (\E pc \in {"delete", "clear"} : Goto(x, pc))
    BY <1>1 DEF MarkPurge, DeleteStaged, ClearPurge
  <1>3. Continue(x) => Visited(x, h[x].todo, h[x].placed)
    BY <1>0, VisitSays DEF Continue
  <1> QED BY <1>0, <1>2, <1>3, GotoSays DEF Visited, Debt, PCs

LEMMA PlacingAhead ==
    ASSUME StaysInv, NEW x \in Workers, Placing(x)
    PROVE  HolderAhead(x)' /\ Fenced(x)'
  <1>0. /\ Typed /\ Ranked /\ job \in Jobs /\ x \in Handlers /\ x \notin Clients
        /\ h[x].e \in Entries /\ h[x].todo \in SUBSET Entries /\ h[x].placed \in SUBSET Entries
        /\ job'.lifecycle = job.lifecycle /\ job'.fence = job.fence
        /\ HolderAhead(x) /\ Fenced(x)
    BY HandlersSplit, TypedParts, PlacingKeepsRowAndStore
    DEF StaysInv, SettledInv, UsageInv, Handlers
  <1>1. Fenced(x)'
    <2>1. h[x].pc # "idle" /\ (h'[x] = Idle \/ h'[x].fence = h[x].fence)
      BY <1>0, PlacingMoves DEF Loop, Advanced, Passed, Visited, Kept
    <2> QED BY <1>0, <2>1 DEF Fenced, Idle
  <1> SUFFICES ASSUME h'[x].fence = job.fence, job.lifecycle \notin Ended, h'[x].pc \in Loop
               PROVE  /\ h'[x].e \notin h'[x].todo
                      /\ \A e \in h'[x].todo \ h'[x].placed : job'.delivery[e] # "available"
                      /\ h'[x].pc \notin Debt => job'.delivery[h'[x].e] # "available"
    BY <1>0, <1>1 DEF HolderAhead
  <1>2. h'[x] # Idle
    BY DEF Idle, Loop
  <1>3. CASE Advanced(x)
    <2>1. /\ h'[x].fence = h[x].fence /\ h[x].pc \in Loop /\ h'[x].e = h[x].e
          /\ h'[x].todo = h[x].todo /\ h'[x].placed = h[x].placed
      BY <1>3 DEF Advanced, Kept
    <2>2. /\ h[x].e \notin h[x].todo
          /\ \A e \in h[x].todo \ h[x].placed : job.delivery[e] # "available"
          /\ h[x].pc \notin Debt => job.delivery[h[x].e] # "available"
      BY <1>0, <2>1 DEF HolderAhead
    <2>3. CASE SameRow /\ h'[x].pc # "mark"
      <3>1. h[x].pc \in Debt => h'[x].pc \in Debt
        BY <1>0, <1>3, <2>3, DebtMoves DEF Advanced, Debt, Loop
      <3> QED BY <2>1, <2>2, <2>3, <3>1 DEF SameRow
    <2>4. CASE h'[x].pc = "mark" /\ job' = Place(job, h[x].e)
      <3>1. job'.delivery = [job.delivery EXCEPT ![h[x].e] = "available"]
        BY <1>0, <2>4, RowCalls
      <3>2. \A e \in Entries : e # h[x].e => job'.delivery[e] = job.delivery[e]
        BY <1>0, <3>1 DEF Jobs
      <3> QED BY <1>0, <2>1, <2>2, <2>4, <3>2 DEF Debt
    <2> QED BY <1>3, <2>3, <2>4 DEF Advanced, Loop
  <1>4. CASE Passed(x)
    <2>1. /\ h'[x].fence = h[x].fence /\ h'[x].placed = h[x].placed
          /\ h'[x].e \in h[x].todo /\ h'[x].todo = h[x].todo \ {h'[x].e}
          /\ h'[x].pc \notin Debt => h'[x].e \notin h[x].placed
      BY <1>4 DEF Passed, Visited, Loop, Debt
    <2>2. /\ h[x].e \notin h[x].todo
          /\ \A e \in h[x].todo \ h[x].placed : job.delivery[e] # "available"
      BY <1>0, <1>4, <2>1 DEF HolderAhead, Passed, Loop, Debt
    <2>3. \A e \in h[x].todo : job'.delivery[e] = job.delivery[e]
      <3>1. CASE SameRow
        BY <3>1 DEF SameRow
      <3>2. CASE job' = ForceDelivery(job, h[x].e, "capped")
        <4>1. job'.delivery = [job.delivery EXCEPT ![h[x].e] = "capped"]
          BY <1>0, <3>2, RowCalls DEF Deliveries
        <4> QED BY <1>0, <2>2, <4>1 DEF Jobs
      <3> QED BY <1>4, <3>1, <3>2 DEF Passed
    <2> QED BY <2>1, <2>2, <2>3
  <1> QED BY <1>0, <1>2, <1>3, <1>4, PlacingMoves

LEMMA TurningAhead ==
    ASSUME StaysInv, NEW x \in Workers, Turning(x)
    PROVE  HolderAhead(x)' /\ Fenced(x)'
  <1>0. /\ Typed /\ HandlersTyped /\ Entries # {} /\ job \in Jobs /\ x \in Handlers
        /\ x \notin Clients /\ Fenced(x) /\ job.fence \in Nat
        /\ \A e \in Entries : job.delivery[e] = "available" => job.asset[e]
    BY HandlersSplit, TypedParts
    DEF StaysInv, SettledInv, PlacedInv, RowIsStored, UsageInv, Typed, Handlers, Jobs
  <1>1. Fenced(x)'
    <2>1. CASE Claim(x)
      <3>1. h'[x].fence = job.fence + 1
        BY <1>0, <2>1, ClaimSays
      <3> QED BY <1>0, <3>1 DEF Fenced
    <2>2. CASE ~Claim(x)
      BY <1>0, <2>2, TurningGoes DEF Fenced
    <2> QED BY <2>1, <2>2
  <1>2. CASE Load(x)
    <2>0. job' = job
      BY <1>2 DEF Load, Nothing
    <2>1. CASE job.lifecycle = "running"
      <3>1. Visit(x, Entries, Placed(job))
        BY <1>2, <2>1 DEF Load
      <3>2. Visited(x, Entries, Placed(job))
        BY <1>0, <3>1, VisitSays, PlacedIsTyped
      <3>3. /\ h'[x].todo = Entries \ {h'[x].e} /\ h'[x].placed = Placed(job)
            /\ h'[x].e \in Entries /\ (h'[x].pc \notin Debt => h'[x].e \notin Placed(job))
        BY <1>0, <3>2 DEF Visited, Debt
      <3>4. \A e \in Entries : e \notin Placed(job) => job'.delivery[e] # "available"
        BY <1>0, <2>0 DEF Placed
      <3> QED BY <1>1, <3>3, <3>4 DEF HolderAhead
    <2>2. CASE job.lifecycle # "running"
      <3>1. h'[x].pc \in {"terminal", "cleanup"}
        BY <1>0, <1>2, <2>2, SettleSays, GotoSays DEF Load, PCs, Ended
      <3> QED BY <1>1, <3>1 DEF HolderAhead, Loop
    <2> QED BY <2>1, <2>2
  <1>3. CASE ~Load(x)
    <2>1. h'[x] = Idle => h'[x].pc = "idle"
      BY DEF Idle
    <2>2. h'[x].pc \in {"idle", "load", "cleanup", "sweep"}
      <3>1. CASE Claim(x)
        BY <1>0, <3>1, ClaimSays
      <3>2. CASE RetryOutput(x)
        BY <1>0, <3>2 DEF RetryOutput
      <3>3. CASE PersistTerminal(x) \/ Crash(x)
        BY <1>0, <2>1, <3>3, GotoSays, ReturnSays DEF PersistTerminal, Crash, PCs
      <3>4. CASE Cleanup(x)
        BY <1>0, <2>1, <3>4, ReturnSays DEF Cleanup, HandlersTyped, HandlerStates
      <3>5. CASE Sweep(x)
        BY <1>0, <2>1, <3>5, ReturnSays DEF Sweep, At, HandlersTyped, HandlerStates
      <3> QED BY <1>3, <3>1, <3>2, <3>3, <3>4, <3>5 DEF Turning
    <2> QED BY <1>1, <2>2 DEF HolderAhead, Loop
  <1> QED BY <1>2, <1>3

\* Nobody else places what the holder has before it.
LEMMA OthersAhead ==
    ASSUME StaysInv, NEW x \in Handlers, Placing(x) \/ Turning(x), NEW y \in Workers \ {x}
    PROVE  HolderAhead(y)' /\ Fenced(y)'
  <1>0. Typed /\ Ranked /\ HolderAhead(y) /\ Fenced(y) /\ job \in Jobs /\ job.fence \in Nat
        /\ y \in Handlers /\ h[y].fence \in Nat
    BY TypedParts DEF StaysInv, SettledInv, UsageInv, Handlers, Jobs
  <1>1. h'[y] = h[y]
    BY <1>0, PlacingSays, TurningSays DEF Stepped, OthersStay
  <1>2. Fenced(y)'
    BY <1>0, <1>1 DEF Fenced
  <1> SUFFICES ASSUME h[y].fence = job'.fence, job'.lifecycle \notin Ended
               PROVE  HolderAhead(y)'
    BY <1>1, <1>2 DEF HolderAhead
  <1>3. CASE Placing(x)
    <2>1. job'.lifecycle = job.lifecycle /\ job'.fence = job.fence
      BY <1>0, <1>3, PlacingKeepsRowAndStore
    <2>2. SameRow
      BY <1>0, <1>3, <2>1, HolderWrites DEF Ranked
    <2> QED BY <1>0, <1>1, <2>1, <2>2 DEF HolderAhead, SameRow
  <1>4. CASE Turning(x)
    <2>1. job'.delivery = job.delivery
      BY <1>0, <1>4, TurningSays
    <2>2. job'.fence = job.fence /\ job.lifecycle \notin Ended
      <3>1. CASE Claim(x)
        <4>1. job'.fence = job.fence + 1 /\ h[y].fence <= job.fence
          BY <1>0, <3>1, ClaimSays DEF Ranked
        <4> QED BY <1>0, <4>1
      <3>2. CASE ~Claim(x)
        BY <1>0, <1>4, <3>2, TurningKeepsRow
      <3> QED BY <3>1, <3>2
    <2> QED BY <1>0, <1>1, <2>1, <2>2 DEF HolderAhead
  <1> QED BY <1>3, <1>4

LEMMA LeaseStepEnds ==
    ASSUME Typed, LeaseEnds, NEW x \in Handlers, Placing(x) \/ Turning(x)
    PROVE  LeaseEnds'
  <1>0. job \in Jobs
    BY TypedParts
  <1>1. CASE Placing(x)
    BY <1>1, PlacingKeepsRowAndStore DEF LeaseEnds
  <1>2. CASE Claim(x)
    BY <1>2, ClaimSays DEF Claim, LeaseEnds
  <1>3. CASE PersistTerminal(x)
    <2>1. job' = job \/ job' = [job EXCEPT !.lifecycle = h[x].to, !.held = FALSE]
      BY <1>3 DEF PersistTerminal
    <2> QED BY <1>0, <2>1 DEF LeaseEnds, Jobs
  <1>4. CASE Sweep(x)
    <2>1. job'.lifecycle = job.lifecycle /\ job'.held = job.held
      BY <1>0, <1>4 DEF Sweep, Jobs
    <2> QED BY <2>1 DEF LeaseEnds
  <1>5. CASE Load(x) \/ RetryOutput(x) \/ Cleanup(x) \/ Crash(x)
    <2>1. job'.lifecycle = job.lifecycle /\ job'.held = job.held
      BY <1>5 DEF Load, RetryOutput, Cleanup, Crash, Nothing
    <2> QED BY <1>0, <2>1 DEF LeaseEnds
  <1> QED BY <1>1, <1>2, <1>3, <1>4, <1>5 DEF Turning

LEMMA StepStays ==
    ASSUME StaysInv, [Next]_vars
    PROVE  StaysInv'
  <1>0. /\ SettledInv' /\ PlacedInv' /\ Typed /\ LeaseEnds /\ uploads.open <= store.reserved
    BY StepKeepsSettled, StepKeepsPlaced, UsageBounds DEF StaysInv, SettledInv, UsageInv
  <1>1. ASSUME NEW x \in Handlers, Placing(x) \/ Turning(x) PROVE StaysInv'
    <2>1. x \in Workers => HolderAhead(x)' /\ Fenced(x)'
      BY <1>1, PlacingAhead, TurningAhead
    <2>2. \A y \in Workers \ {x} : HolderAhead(y)' /\ Fenced(y)'
      BY <1>1, OthersAhead
    <2>3. LeaseEnds'
      BY <1>0, <1>1, LeaseStepEnds
    <2> QED BY <1>0, <2>1, <2>2, <2>3 DEF StaysInv
  <1>2. CASE World \/ UNCHANGED vars
    <2>1. /\ h' = h /\ job'.delivery = job.delivery /\ job'.fence = job.fence
          /\ job'.held = job.held
          /\ job' = job \/ (job.lifecycle = "running" /\ job'.lifecycle = "cancel_requested")
      BY <1>0, <1>2, WorldSays DEF vars
    <2>2. job'.lifecycle \in Ended <=> job.lifecycle \in Ended
      BY <2>1 DEF Ended
    <2>3. LeaseEnds'
      BY <1>0, <2>1, <2>2 DEF LeaseEnds
    <2>4. ASSUME NEW y \in Workers PROVE HolderAhead(y)' /\ Fenced(y)'
      BY <2>1, <2>2 DEF StaysInv, HolderAhead, Fenced
    <2> QED BY <1>0, <2>3, <2>4 DEF StaysInv
  <1> QED BY <1>1, <1>2, StepSplits

LEMMA InitStays == ASSUME Init PROVE StaysInv
  <1>1. PICK x \in Workers, e \in Entries :
           h = [y \in Handlers |-> IF y # x THEN Idle
                  ELSE [Idle EXCEPT !.pc = "use", !.fence = 1, !.e = e, !.todo = Entries \ {e}]]
    BY Zenon DEF Init
  <1>2. /\ h[x].pc = "use" /\ h[x].fence = 1 /\ h[x].e = e /\ h[x].todo = Entries \ {e}
    BY <1>1 DEF Idle, Handlers
  <1>3. \A y \in Handlers \ {x} : h[y].pc = "idle"
    BY <1>1 DEF Idle
  <1>4. \A d \in Entries : job.delivery[d] # "available"
    BY DEF Init
  <1>5. LeaseEnds
    BY DEF Init, LeaseEnds, Ended
  <1>6. ASSUME NEW y \in Workers PROVE HolderAhead(y) /\ Fenced(y)
    BY <1>2, <1>3, <1>4 DEF HolderAhead, Fenced, Loop, Handlers
  <1> QED BY <1>5, <1>6, InitIsSettled, InitIsPlaced DEF StaysInv

\* The inductive invariant behind the next theorem: while a worker holds the fence of a job
\* that has not ended, no entry it may still force a state on has become available.
THEOREM StaysInvariant == Spec => []StaysInv
  BY InitStays, StepStays, PTL DEF Spec

\* No worker takes back a delivery that a client can see as available (PlaceOutput with a
\* forced state), for any number of workers, clients, takeovers and failing calls.
THEOREM DeliveriesStay == Spec => AvailableStays
  <1>1. StaysInv /\ [Next]_vars =>
            [\A e \in Entries :
                job.delivery[e] = "available" /\ job'.delivery[e] # "available" =>
                   \E x \in Clients : h[x].e = e /\ h[x].pc \in {"expire", "forceCap", "forceFailed"}]_vars
    <2> SUFFICES ASSUME StaysInv, Next, NEW e \in Entries,
                        job.delivery[e] = "available", job'.delivery[e] # "available"
                 PROVE  \E x \in Clients : h[x].e = e /\ h[x].pc \in {"expire", "forceCap", "forceFailed"}
      BY DEF vars
    <2>0. Typed /\ Ranked /\ uploads.open <= store.reserved
      BY UsageBounds DEF StaysInv, SettledInv, UsageInv
    <2>1. PICK x \in Handlers : Placing(x)
      BY <2>0, StepSplits, TurningSays, WorldSays DEF vars
    <2>2. x \in Clients
      BY <2>1, HolderTakesNothingBack DEF Handlers
    <2> QED BY <2>0, <2>1, <2>2, TakingBack
  <1> QED BY <1>1, StaysInvariant, PTL DEF Spec, AvailableStays

-----------------------------------------------------------------------------
(* The cap.  Two handlers that move one entry share its hold: one releases *)
(* it while the other commits.  Where that does not happen the cap holds.  *)

\* Between the check that the entry has no Asset and the end of its hold.
Moving == {"reserve", "put", "commit", "release"}

\* No two handlers move the same entry at once.
MovedApart ==
    \A x, y \in Handlers :
        x # y /\ h[x].pc \in Moving /\ h[y].pc \in Moving => h[x].e # h[y].e

\* What a handler that moves an entry knows of its hold.
HoldsIt(x) ==
    /\ h[x].pc = "reserve" => h[x].e \notin store.assets
    /\ h[x].pc \in {"put", "commit"} => h[x].e \in store.holds

CapInv == UsageInv /\ CapNeverOverrun /\ NoStrandedHold /\ \A x \in Handlers : HoldsIt(x)

\* The steps that take an entry along its hold.
Moves(x) == CheckVisible(x) \/ ReserveHold(x) \/ PutContent(x) \/ CommitAsset(x) \/ ReleaseHold(x)

\* What the calls of the Asset store do to the accounts of an entry.
LEMMA CallsAccount ==
    ASSUME UsageInv, NEW e \in Entries
    PROVE  /\ Reserve(store, e).committed = store.committed
           /\ Reserve(store, e).holds = store.holds \cup {e}
           /\ Reserve(store, e).reserved =
                 IF e \in store.holds THEN store.reserved ELSE store.reserved + 1
           /\ ConsumeHold(store, e).committed = store.committed
           /\ ConsumeHold(store, e).holds = store.holds \ {e}
           /\ ConsumeHold(store, e).reserved =
                 IF e \in store.holds THEN store.reserved - 1 ELSE store.reserved
           /\ Commit(store, e).holds = store.holds \ {e}
           /\ Commit(store, e).reserved =
                 IF e \in store.holds THEN store.reserved - 1 ELSE store.reserved
           /\ Commit(store, e).committed =
                 IF e \in store.assets THEN store.committed ELSE store.committed + 1
  <1> DEFINE more == store.reserved + 1
             less == IF store.reserved = 0 THEN 0 ELSE store.reserved - 1
             with == store.holds \cup {e}
             without == store.holds \ {e}
             s == ConsumeHold(store, e)
             paid == s.committed + 1
             listed == s.assets \cup {e}
  <1>1. store \in Stores /\ uploads.open \in Nat
    BY TypedParts, UsageBounds DEF UsageInv
  <1>2. e \in store.holds => less = store.reserved - 1
    <2>1. e \in store.holds => Cardinality(store.holds) > 0 /\ Cardinality(store.holds) \in Nat
      BY Counting DEF UsageInv
    <2> QED BY <1>1, <2>1 DEF UsageInv, UsageIsExact, Stores
  <1>3. /\ Reserve(store, e) = IF e \in store.holds THEN store
                               ELSE [store EXCEPT !.reserved = more, !.holds = with]
        /\ s = IF e \notin store.holds THEN store
               ELSE [store EXCEPT !.reserved = less, !.holds = without]
        /\ Commit(store, e) = IF e \in store.assets THEN s
                              ELSE [s EXCEPT !.committed = paid, !.assets = listed]
    BY DEF Reserve, ConsumeHold, Commit
  <1>4. /\ Reserve(store, e).committed = store.committed
        /\ Reserve(store, e).holds = with
        /\ Reserve(store, e).reserved = IF e \in store.holds THEN store.reserved ELSE more
    <2>1. e \in store.holds => with = store.holds
      OBVIOUS
    <2> HIDE DEF more, with, s
    <2> QED BY <1>1, <1>3, <2>1 DEF Stores
  <1>5. /\ s.committed = store.committed /\ s.holds = without /\ s.assets = store.assets
        /\ s.reserved = IF e \in store.holds THEN less ELSE store.reserved
        /\ s \in Stores
    <2>1. e \notin store.holds => without = store.holds
      OBVIOUS
    <2>2. s \in Stores
      BY <1>1, StoreCalls
    <2> HIDE DEF less, without, s
    <2> QED BY <1>1, <1>3, <2>1, <2>2 DEF Stores
  <1>6. /\ Commit(store, e).holds = s.holds /\ Commit(store, e).reserved = s.reserved
        /\ Commit(store, e).committed = IF e \in store.assets THEN s.committed ELSE paid
    <2> HIDE DEF s, paid, listed
    <2> QED BY <1>3, <1>5 DEF Stores
  <1> HIDE DEF s, less, more
  <1> QED BY <1>2, <1>4, <1>5, <1>6 DEF s, more

\* A handler that touches the accounts keeps them within the cap, if it is alone with its entry.
LEMMA MovesHold ==
    ASSUME CapInv, MovedApart, NEW x \in Handlers, Moves(x)
    PROVE  /\ CapNeverOverrun' /\ NoStrandedHold'
           /\ \A y \in Handlers : HoldsIt(y)'
  <1> DEFINE e == h[x].e
             Rest == \A y \in Handlers \ {x} : h[y].pc \in Moving => h[y].e # e
  <1>0. /\ Typed /\ HandlersTyped /\ Entries # {} /\ store \in Stores /\ e \in Entries /\ UsageInv
        /\ store.committed \in Nat /\ store.reserved \in Nat /\ Cap \in Nat
        /\ store.committed + store.reserved <= Cap
    BY TypedParts, OutputAssumption DEF CapInv, UsageInv, Typed, Stores, CapNeverOverrun
  <1>1. Stepped(x)
    BY <1>0, PlacingSays DEF Placing, Moves
  <1>2. \A y \in Handlers \ {x} : h'[y] = h[y]
    BY <1>1 DEF Stepped, OthersStay
  <1>3. h[x].pc \in Moving => Rest
    BY DEF MovedApart
  <1>4. \A y \in Handlers : HoldsIt(y)
    BY DEF CapInv
  <1>5. store.holds \cap store.assets = {}
    BY DEF CapInv, NoStrandedHold
  <1> HIDE DEF Rest
  <1>6. CASE store'.assets = store.assets /\ store'.holds = store.holds
             /\ store'.committed = store.committed /\ store'.reserved = store.reserved
             /\ HoldsIt(x)'
    <2>1. \A y \in Handlers \ {x} : HoldsIt(y)'
      BY <1>2, <1>4, <1>6 DEF HoldsIt
    <2> QED BY <1>0, <1>5, <1>6, <2>1 DEF CapNeverOverrun, NoStrandedHold
  <1>7. CASE CheckVisible(x)
    <2>1. store' = store /\ Goto(x, IF e \in store.assets THEN "record" ELSE "reserve")
      BY <1>7 DEF CheckVisible, Visible, Nothing
    <2>2. h'[x].e = e /\ h'[x].pc = IF e \in store.assets THEN "record" ELSE "reserve"
      BY <1>0, <2>1, GotoSays DEF Kept, PCs
    <2> QED BY <1>6, <2>1, <2>2 DEF HoldsIt
  <1>8. CASE ReserveHold(x)
    <2>1. CASE store' = store /\ Handle(x, "recheck", "cap")
      <3>1. h'[x].pc = "recheck"
        BY <1>0, <2>1, HandleSays DEF PCs, Whys
      <3> QED BY <1>6, <2>1, <3>1 DEF HoldsIt
    <2>2. CASE /\ e \in store.holds \/ Fits(store)
               /\ store' = Reserve(store, e) /\ Goto(x, "put")
      <3>1. h'[x].e = e /\ h'[x].pc = "put" /\ h[x].pc = "reserve" /\ e \notin store.assets
        BY <1>0, <1>4, <1>8, <2>2, GotoSays DEF Kept, PCs, ReserveHold, At, HoldsIt
      <3>2. /\ store'.holds = store.holds \cup {e} /\ store'.committed = store.committed
            /\ store'.reserved = IF e \in store.holds THEN store.reserved ELSE store.reserved + 1
            /\ store'.assets = store.assets
        BY <1>0, <2>2, CallsAccount, StoreCalls
      <3>3. CapNeverOverrun'
        BY <1>0, <2>2, <3>2 DEF CapNeverOverrun, Fits
      <3>4. NoStrandedHold'
        BY <1>5, <3>1, <3>2 DEF NoStrandedHold
      <3>5. \A y \in Handlers : HoldsIt(y)'
        BY <1>2, <1>4, <3>1, <3>2 DEF HoldsIt
      <3> QED BY <3>3, <3>4, <3>5
    <2> QED BY <1>8, <2>1, <2>2 DEF ReserveHold
  <1>9. CASE PutContent(x)
    <2> DEFINE c == store.content \cup {e}
    <2>1. /\ h[x].pc = "put"
          /\ \/ store' = [store EXCEPT !.content = c] /\ Goto(x, "commit")
             \/ store' = store /\ Handle(x, "release", "put")
      BY <1>9 DEF PutContent, At
    <2> HIDE DEF c
    <2>2. /\ store'.assets = store.assets /\ store'.holds = store.holds
          /\ store'.committed = store.committed /\ store'.reserved = store.reserved
      BY <1>0, <2>1 DEF Stores
    <2>3. h'[x].pc = "release" \/ (h'[x].pc = "commit" /\ h'[x].e = e)
      BY <1>0, <2>1, GotoSays, HandleSays DEF Kept, PCs, Whys
    <2> QED BY <1>4, <1>6, <2>1, <2>2, <2>3 DEF HoldsIt
  <1>10. CASE CommitAsset(x)
    <2>1. /\ h[x].pc = "commit" /\ store' \in {store, Commit(store, e)}
          /\ Goto(x, "record") \/ Handle(x, "recheck", "commit")
      BY <1>10 DEF CommitAsset, At
    <2>2. h'[x].pc \in {"record", "recheck"}
      BY <1>0, <2>1, GotoSays, HandleSays DEF PCs, Whys
    <2>3. CASE store' = store
      BY <1>6, <2>2, <2>3 DEF HoldsIt
    <2>4. CASE store' = Commit(store, e)
      <3>1. e \in store.holds /\ e \notin store.assets /\ Rest
        BY <1>3, <1>4, <1>5, <2>1 DEF HoldsIt, Moving
      <3>2. /\ store'.holds = store.holds \ {e} /\ store'.committed = store.committed + 1
            /\ store'.reserved = store.reserved - 1 /\ store'.assets = store.assets \cup {e}
        BY <1>0, <2>4, <3>1, CallsAccount, StoreCalls
      <3>3. CapNeverOverrun'
        BY <1>0, <3>2 DEF CapNeverOverrun
      <3>4. NoStrandedHold'
        BY <1>5, <3>2 DEF NoStrandedHold
      <3>5. \A y \in Handlers : HoldsIt(y)'
        BY <1>2, <1>4, <2>2, <3>1, <3>2 DEF HoldsIt, Rest, Moving
      <3> QED BY <3>3, <3>4, <3>5
    <2> QED BY <2>1, <2>3, <2>4
  <1>11. CASE ReleaseHold(x)
    <2>1. /\ h[x].pc = "release" /\ store' = ConsumeHold(store, e)
          /\ Goto(x, "recheck") \/ GiveUp(x)
      BY <1>11 DEF ReleaseHold, At
    <2>2. h'[x].pc \in {"recheck", "idle", "forceFailed", "terminal"}
      BY <1>0, <2>1, GotoSays, GiveUpSays DEF PCs, Idle
    <2>3. Rest
      BY <1>3, <2>1 DEF Moving
    <2>4. /\ store'.holds = store.holds \ {e} /\ store'.committed = store.committed
          /\ store'.reserved = IF e \in store.holds THEN store.reserved - 1 ELSE store.reserved
          /\ store'.assets = store.assets
      BY <1>0, <2>1, CallsAccount, StoreCalls
    <2>5. CapNeverOverrun'
      BY <1>0, <2>4 DEF CapNeverOverrun
    <2>6. NoStrandedHold'
      BY <1>5, <2>4 DEF NoStrandedHold
    <2>7. \A y \in Handlers : HoldsIt(y)'
      BY <1>2, <1>4, <2>2, <2>3, <2>4 DEF HoldsIt, Rest, Moving
    <2> QED BY <2>5, <2>6, <2>7
  <1> QED BY <1>7, <1>8, <1>9, <1>10, <1>11 DEF Moves

LEMMA OthersHold ==
    ASSUME CapInv, NEW x \in Handlers, store' = store, \A y \in Handlers \ {x} : h'[y] = h[y],
           h'[x].pc \notin {"reserve", "put", "commit"}
    PROVE  CapNeverOverrun' /\ NoStrandedHold' /\ \A y \in Handlers : HoldsIt(y)'
  BY DEF CapInv, CapNeverOverrun, NoStrandedHold, HoldsIt

\* Every other step of a placement leaves the store alone, and leads nowhere a hold is relied on.
LEMMA OtherPlacing ==
    ASSUME Typed, NEW x \in Handlers, Placing(x), ~Moves(x)
    PROVE  store' = store /\ h'[x].pc \notin {"reserve", "put", "commit"}
  <1>0. HandlersTyped /\ Entries # {}
    BY TypedParts DEF Typed
  <1>1. h'[x] = Idle => h'[x].pc = "idle"
    BY DEF Idle
  <1> USE DEF JobOnly, Nothing
  <1>2. CASE Use(x)
    <2>1. \/ \E pc \in {"forceFailed", "expire", "visible"} : Goto(x, pc)
          \/ Settle(x, "failed")
      BY <1>2 DEF Use
    <2> QED BY <1>0, <1>2, <2>1, GotoSays, SettleSays DEF Use, PCs, Ended
  <1>3. CASE Expire(x) \/ Rerecord(x) \/ ForceFailed(x)
    <2>1. Return(x) \/ Settle(x, "failed")
      BY <1>3 DEF Expire, Rerecord, ForceFailed
    <2> QED BY <1>0, <1>1, <1>3, <2>1, ReturnSays, SettleSays
        DEF Expire, Rerecord, ForceFailed, Ended
  <1>4. CASE Recheck(x) \/ Record(x)
    <2>1. \E pc \in {"record", "forceCap", "release", "mark"} : Goto(x, pc) \/ GiveUp(x)
      BY <1>4 DEF Recheck, Record
    <2> QED BY <1>0, <1>1, <1>4, <2>1, GotoSays, GiveUpSays DEF Recheck, Record, PCs
  <1>5. CASE MarkPurge(x) \/ DeleteStaged(x) \/ ClearPurge(x) \/ ForceCap(x)
    <2>1. \E pc \in {"delete", "clear"} : Goto(x, pc) \/ Continue(x) \/ Return(x)
      BY <1>5 DEF MarkPurge, DeleteStaged, ClearPurge, ForceCap
    <2>2. Continue(x) => h'[x].pc \in {"idle", "terminal", "mark", "use"}
      BY <1>0, <1>1, ContinueSays DEF Visited
    <2> QED BY <1>0, <1>1, <1>5, <2>1, <2>2, GotoSays, ReturnSays
        DEF MarkPurge, DeleteStaged, ClearPurge, ForceCap, PCs
  <1> QED BY <1>2, <1>3, <1>4, <1>5 DEF Placing, Moves

LEMMA OtherTurning ==
    ASSUME Typed, NEW x \in Handlers, Turning(x)
    PROVE  h'[x].pc \notin {"reserve", "put", "commit"}
  <1>0. HandlersTyped /\ Entries # {} /\ job \in Jobs /\ job.fence + 1 \in Nat
    BY TypedParts DEF Typed, Jobs
  <1>1. h'[x] = Idle => h'[x].pc = "idle"
    BY DEF Idle
  <1>2. CASE Claim(x)
    BY <1>0, <1>2, ClaimSays
  <1>3. CASE Load(x)
    <2>1. Visited(x, Entries, Placed(job)) \/ h'[x].pc \in {"terminal", "cleanup"}
      BY <1>0, <1>3, VisitSays, SettleSays, GotoSays, PlacedIsTyped DEF Load, PCs, Ended
    <2> QED BY <2>1 DEF Visited
  <1>4. CASE RetryOutput(x)
    <2>1. PICK e \in Entries :
             h' = [h EXCEPT ![x] = [Idle EXCEPT !.e = e,
                                       !.pc = IF job.asset[e] THEN "rerecord" ELSE "use"]]
      BY <1>4 DEF RetryOutput
    <2>2. \E pc \in {"rerecord", "use"} : h' = [h EXCEPT ![x] = [Idle EXCEPT !.e = e, !.pc = pc]]
      BY <2>1
    <2> QED BY <1>0, <2>2, RetrySays
  <1>5. CASE PersistTerminal(x) \/ Crash(x)
    BY <1>0, <1>1, <1>5, GotoSays, ReturnSays DEF PersistTerminal, Crash, PCs
  <1>6. CASE Cleanup(x)
    <2>1. h'[x] = Idle \/ h'[x].pc = "sweep"
      BY <1>0, <1>6, ReturnSays DEF Cleanup, HandlersTyped, HandlerStates
    <2> QED BY <1>1, <2>1
  <1>7. CASE Sweep(x)
    <2>1. h'[x] = Idle \/ h'[x].pc = "sweep"
      BY <1>0, <1>7, ReturnSays DEF Sweep, At, HandlersTyped, HandlerStates
    <2> QED BY <1>1, <2>1
  <1> QED BY <1>2, <1>3, <1>4, <1>5, <1>6, <1>7 DEF Turning

LEMMA WorldHolds ==
    ASSUME CapInv, World
    PROVE  CapNeverOverrun' /\ NoStrandedHold' /\ \A y \in Handlers : HoldsIt(y)'
  <1>0. /\ Typed /\ store \in Stores /\ uploads.open <= store.reserved /\ uploads.open \in Nat
        /\ store.committed \in Nat /\ store.reserved \in Nat /\ Cap \in Nat
    BY TypedParts, UsageBounds, OutputAssumption DEF CapInv, UsageInv, Stores
  <1>1. h' = h /\ store'.assets = store.assets /\ store'.holds = store.holds
    BY <1>0, WorldSays
  <1>2. CapNeverOverrun'
    <2>1. CASE Cancel \/ \E e \in Entries : RetentionEnds(e)
      BY <2>1 DEF Cancel, RetentionEnds, CapInv, CapNeverOverrun
    <2>2. CASE UploadReserve
      <3>1. store'.reserved = store.reserved + 1 /\ store'.committed = store.committed
        BY <1>0, <2>2 DEF UploadReserve, Stores
      <3> QED BY <1>0, <2>2, <3>1 DEF UploadReserve, Fits, CapNeverOverrun
    <2>3. CASE UploadEnds
      <3>1. PICK n \in {0, 1} :
               store' = [store EXCEPT !.reserved = @ - 1, !.committed = @ + n]
        BY <2>3 DEF UploadEnds
      <3> DEFINE r == store.reserved - 1
                 c == store.committed + n
      <3>2. store' = [store EXCEPT !.reserved = r, !.committed = c]
        BY <3>1
      <3> HIDE DEF r, c
      <3>3. store'.reserved = r /\ store'.committed = c
        BY <1>0, <3>2 DEF Stores
      <3> QED BY <1>0, <3>3 DEF r, c, CapInv, CapNeverOverrun
    <2> QED BY <2>1, <2>2, <2>3 DEF World
  <1> QED BY <1>1, <1>2 DEF CapInv, NoStrandedHold, HoldsIt

LEMMA StepKeepsCap ==
    ASSUME CapInv, MovedApart, [Next]_vars
    PROVE  CapInv'
  <1>0. UsageInv' /\ Typed
    BY StepKeepsUsage DEF CapInv, UsageInv
  <1>1. ASSUME NEW x \in Handlers, Placing(x) \/ Turning(x) PROVE CapInv'
    <2>1. \A y \in Handlers \ {x} : h'[y] = h[y]
      BY <1>0, <1>1, PlacingSays, TurningSays DEF Stepped, OthersStay
    <2>2. CASE Moves(x)
      BY <1>0, <2>2, MovesHold DEF CapInv
    <2>3. CASE ~Moves(x)
      <3>1. store' = store /\ h'[x].pc \notin {"reserve", "put", "commit"}
        BY <1>0, <1>1, <2>3, OtherPlacing, OtherTurning, TurningSays
      <3> QED BY <1>0, <2>1, <3>1, OthersHold DEF CapInv
    <2> QED BY <2>2, <2>3
  <1>2. CASE World
    BY <1>0, <1>2, WorldHolds DEF CapInv
  <1>3. CASE UNCHANGED vars
    BY <1>0, <1>3 DEF vars, CapInv, CapNeverOverrun, NoStrandedHold, HoldsIt
  <1> QED BY <1>1, <1>2, <1>3, StepSplits

LEMMA InitIsCapped == ASSUME Init PROVE CapInv
  <1>1. store.committed = 0 /\ store.reserved = 0 /\ store.holds = {} /\ store.assets = {}
    BY DEF Init
  <1>2. CapNeverOverrun /\ NoStrandedHold
    BY <1>1, OutputAssumption DEF CapNeverOverrun, NoStrandedHold
  <1>3. PICK x \in Workers, e \in Entries :
           h = [y \in Handlers |-> IF y # x THEN Idle
                  ELSE [Idle EXCEPT !.pc = "use", !.fence = 1, !.e = e, !.todo = Entries \ {e}]]
    BY Zenon DEF Init
  <1>4. \A y \in Handlers : h[y].pc \in {"idle", "use"}
    BY <1>3 DEF Idle
  <1> QED BY <1>2, <1>4, InitKeepsUsage DEF CapInv, HoldsIt

\* The inductive invariant behind the next theorems.
THEOREM CapInvariant == Spec /\ []MovedApart => []CapInv
  BY InitIsCapped, StepKeepsCap, PTL DEF Spec

\* Committed and reserved usage together never pass the cap, for any number of workers,
\* retries, uploads, crashes and failing calls, as long as no two handlers move the same
\* entry at once: a hold shared by two placements (consumeHold) is the one way past it.
THEOREM CapKept == Spec /\ []MovedApart => []CapNeverOverrun
  <1>1. CapInv => CapNeverOverrun
    BY DEF CapInv
  <1> QED BY <1>1, CapInvariant, PTL

\* Under the same condition an open hold belongs to an output that has no Asset yet, so
\* the next attempt settles it, whatever crashed in between.
THEOREM HoldsSettle == Spec /\ []MovedApart => []NoStrandedHold
  <1>1. CapInv => NoStrandedHold
    BY DEF CapInv
  <1> QED BY <1>1, CapInvariant, PTL

-----------------------------------------------------------------------------
(* One worker and one client at a time move entries apart: the client comes *)
(* when the job has ended, and the worker that ended it places no more.     *)

WorkerIsOut == job.lifecycle \in Ended => \A x \in Workers : h[x].pc \notin Loop \cup {"load"}

OneWorkerInv == SettledInv /\ WorkerIsOut

LEMMA StepKeepsOut ==
    ASSUME NEW w, Workers = {w}, OneWorkerInv, [Next]_vars
    PROVE  OneWorkerInv'
  <1>0. /\ SettledInv' /\ Typed /\ Ranked /\ uploads.open <= store.reserved /\ job \in Jobs
        /\ HandlersTyped /\ Entries # {}
    BY StepKeepsSettled, UsageBounds, TypedParts
    DEF OneWorkerInv, SettledInv, UsageInv, Typed
  <1>1. ASSUME NEW x \in Handlers, Placing(x) PROVE WorkerIsOut'
    <2>1. job'.lifecycle = job.lifecycle
      BY <1>0, <1>1, PlacingKeepsRowAndStore
    <2>2. x \in Workers => job.lifecycle \notin Ended
      <3>1. h[x].pc \in Loop \cup {"rerecord", "forceFailed"}
        BY <1>0, <1>1, PlacingMoves
      <3> QED BY <1>0, <3>1 DEF OneWorkerInv, WorkerIsOut, Ranked
    <2>3. x \notin Workers => \A y \in Workers : h'[y] = h[y]
      BY <1>0, <1>1, PlacingSays DEF Stepped, OthersStay, Handlers
    <2> QED BY <2>1, <2>2, <2>3 DEF OneWorkerInv, WorkerIsOut
  <1>2. ASSUME NEW x \in Handlers, Turning(x) PROVE WorkerIsOut'
    <2>1. \A y \in Handlers \ {x} : h'[y] = h[y]
      BY <1>0, <1>2, TurningSays DEF Stepped, OthersStay
    <2>2. CASE Claim(x)
      BY <1>0, <2>2, ClaimSays DEF Claim, WorkerIsOut
    <2>3. CASE ~Claim(x) /\ x \in Clients
      <3>1. x \notin Workers /\ (h[x].pc # "idle" => job.lifecycle \in Ended)
        BY <1>0, <2>3, HandlersSplit DEF Ranked
      <3>2. h[x].pc = "idle" => job'.lifecycle = job.lifecycle
        BY <1>0, <1>2, <2>3, TurningKeepsRow DEF PersistTerminal, At
      <3>3. job'.lifecycle \in Ended => job.lifecycle \in Ended
        BY <3>1, <3>2
      <3> QED BY <2>1, <3>1, <3>3 DEF OneWorkerInv, WorkerIsOut, Handlers
    <2>4. CASE ~Claim(x) /\ x \in Workers
      <3>2. CASE PersistTerminal(x)
        <4>1. h'[x].pc = "idle" \/ h'[x].pc = "cleanup"
          BY <1>0, <3>2, GotoSays, ReturnSays DEF PersistTerminal, PCs, Idle
        <4> QED BY <2>4, <4>1 DEF WorkerIsOut, Loop
      <3>3. CASE Load(x)
        <4>1. job' = job /\ job.lifecycle \notin Ended
          BY <2>4, <3>3 DEF Load, Nothing, At, OneWorkerInv, WorkerIsOut
        <4> QED BY <4>1 DEF WorkerIsOut
      <3>4. CASE Crash(x) \/ Cleanup(x) \/ Sweep(x)
        <4>1. h'[x].pc = "idle" \/ h'[x].pc = "sweep"
          <5>1. CASE Crash(x)
            BY <1>0, <5>1, ReturnSays DEF Crash, Idle
          <5>2. CASE Cleanup(x)
            <6>1. h'[x] = Idle \/ h'[x].pc = "sweep"
              BY <1>0, <5>2, ReturnSays DEF Cleanup, HandlersTyped, HandlerStates
            <6> QED BY <6>1 DEF Idle
          <5>3. CASE Sweep(x)
            <6>1. h'[x] = Idle \/ h'[x].pc = "sweep"
              BY <1>0, <5>3, ReturnSays DEF Sweep, At, HandlersTyped, HandlerStates
            <6> QED BY <6>1 DEF Idle
          <5> QED BY <3>4, <5>1, <5>2, <5>3
        <4> QED BY <2>4, <4>1 DEF WorkerIsOut, Loop
      <3>5. CASE RetryOutput(x)
        BY <2>4, <3>5, HandlersSplit DEF RetryOutput
      <3> QED BY <1>2, <2>4, <3>2, <3>3, <3>4, <3>5 DEF Turning
    <2> QED BY <2>2, <2>3, <2>4, HandlersSplit
  <1>3. CASE World \/ UNCHANGED vars
    <2>1. /\ h' = h
          /\ job' = job \/ (job.lifecycle = "running" /\ job'.lifecycle = "cancel_requested")
      BY <1>0, <1>3, WorldSays DEF vars
    <2>2. WorkerIsOut'
      BY <2>1 DEF OneWorkerInv, WorkerIsOut, Ended
    <2> QED BY <1>0, <2>2 DEF OneWorkerInv
  <1> QED BY <1>0, <1>1, <1>2, <1>3, StepSplits DEF OneWorkerInv

\* With one worker and one retry at a time the cap holds unconditionally.
THEOREM CapKeptByOne ==
    ASSUME NEW w, Workers = {w}, NEW c, Clients = {c}
    PROVE  Spec => [](CapNeverOverrun /\ NoStrandedHold)
  <1>1. Init => OneWorkerInv
    <2> SUFFICES ASSUME Init PROVE WorkerIsOut
      BY InitIsSettled DEF OneWorkerInv
    <2> QED BY DEF Init, WorkerIsOut, Ended
  <1>2. OneWorkerInv /\ [Next]_vars => OneWorkerInv'
    BY StepKeepsOut
  <1>3. OneWorkerInv => MovedApart
    <2> SUFFICES ASSUME OneWorkerInv, NEW x \in Handlers, NEW y \in Handlers, x # y,
                        h[x].pc \in Moving, h[y].pc \in Moving
                 PROVE  FALSE
      BY DEF MovedApart
    <2>1. \A u \in Workers, v \in Clients : ~(h[u].pc \in Moving /\ h[v].pc \in Moving)
      BY DEF OneWorkerInv, SettledInv, Ranked, WorkerIsOut, Moving, Loop
    <2> QED BY <2>1 DEF Handlers
  <1> QED BY <1>1, <1>2, <1>3, CapKept, HoldsSettle, PTL DEF Spec
=============================================================================
