-------------------------- MODULE RenderCreateProofs --------------------------
(***************************************************************************)
(* What RenderCreate promises for every set of calls, processes and        *)
(* bodies, and for any number of failing operations and crashes: types,    *)
(* that memory never runs ahead of the replay ledger, that an              *)
(* acknowledged job is durable, and that one key makes the Provider        *)
(* generate once.                                                          *)
(*                                                                         *)
(* Whatever a process remembers, a store operation first reads the ledger  *)
(* to its end; so every decision is one about Now, the record the whole    *)
(* ledger says.  The first lemmas turn an operation into what it does to   *)
(* Now, and the rest of the proof never looks at the ledger again.         *)
(***************************************************************************)
EXTENDS RenderCreate, FiniteSetsExt, FiniteSetTheorems, NaturalSets

-----------------------------------------------------------------------------
(* What the replay record is, as a fold over the entries of the ledger: the *)
(* facts about FoldLeft(Seed, ...), as a walk along the sequence.           *)

\* f[i] is the record after the first i entries.
Walk(f, base, entries) ==
    f = [i \in 0 .. Len(entries) |-> IF i = 0 THEN base ELSE Seed(f[i - 1], entries[i])]

\* What FoldLeft applies to the entries at the positions in s.
Fold(g, base, entries, n) ==
    g = [s \in SUBSET (1 .. n) |->
           IF s = {} THEN base ELSE Seed(g[s \ {Max(s)}], entries[Max(s)])]

\* The first n steps of a walk, wherever it begins.
Steps(f, entries, n) == \A i \in 1 .. n : f[i] = Seed(f[i - 1], entries[i])

LEMMA MaxOfPositions ==
    ASSUME NEW n \in Nat, NEW s \in SUBSET (1 .. n + 1), n + 1 \in s
    PROVE  Max(s) = n + 1
  <1>1. \A y \in s : y \in Nat /\ n + 1 >= y
    OBVIOUS
  <1>2. \A x \in s : (\A y \in s : x >= y) => x = n + 1
    BY <1>1
  <1>3. \E x \in s : \A y \in s : x >= y
    BY <1>1
  <1> QED BY <1>2, <1>3, Zenon DEF Max

LEMMA FoldExists ==
    ASSUME NEW base, NEW entries
    PROVE  \A n \in Nat : \E g : Fold(g, base, entries, n)
  <1> DEFINE S == {n \in Nat : \E g : Fold(g, base, entries, n)}
  <1>1. 0 \in S
    <2> DEFINE g == [s \in SUBSET (1 .. 0) |-> base]
    <2>1. \A s \in SUBSET (1 .. 0) : s = {}
      OBVIOUS
    <2>2. g = [s \in SUBSET (1 .. 0) |->
                 IF s = {} THEN base ELSE Seed(g[s \ {Max(s)}], entries[Max(s)])]
      BY <2>1
    <2> HIDE DEF g
    <2>3. Fold(g, base, entries, 0)
      BY <2>2 DEF Fold
    <2> QED BY <2>3
  <1>2. ASSUME NEW n \in Nat, n \in S PROVE n + 1 \in S
    <2>1. PICK g : Fold(g, base, entries, n)
      BY <1>2
    <2> DEFINE k == [s \in SUBSET (1 .. n + 1) |->
                       IF n + 1 \in s THEN Seed(g[s \ {n + 1}], entries[n + 1]) ELSE g[s]]
    <2>2. ASSUME NEW s \in SUBSET (1 .. n + 1)
          PROVE  k[s] = IF s = {} THEN base ELSE Seed(k[s \ {Max(s)}], entries[Max(s)])
      <3>1. CASE n + 1 \in s
        <4>1. Max(s) = n + 1 /\ s # {} /\ s \ {n + 1} \in SUBSET (1 .. n + 1) /\ n + 1 \notin s \ {n + 1}
          BY <3>1, MaxOfPositions
        <4>2. k[s] = Seed(g[s \ {n + 1}], entries[n + 1]) /\ k[s \ {n + 1}] = g[s \ {n + 1}]
          BY <3>1, <4>1
        <4> QED BY <4>1, <4>2
      <3>2. CASE n + 1 \notin s
        <4>1. s \in SUBSET (1 .. n) /\ k[s] = g[s]
          BY <3>2
        <4>2. k[s \ {Max(s)}] = g[s \ {Max(s)}]
          BY <3>2
        <4> QED BY <2>1, <4>1, <4>2 DEF Fold
      <3> QED BY <3>1, <3>2
    <2>3. k = [s \in SUBSET (1 .. n + 1) |->
                 IF s = {} THEN base ELSE Seed(k[s \ {Max(s)}], entries[Max(s)])]
      BY <2>2
    <2> HIDE DEF k
    <2>4. Fold(k, base, entries, n + 1)
      BY <2>3 DEF Fold
    <2> QED BY <2>4
  <1> HIDE DEF S
  <1>3. Nat \subseteq S
    BY <1>1, <1>2, NatSetInduction
  <1> QED BY <1>3 DEF S

LEMMA FoldWalks ==
    ASSUME NEW T, NEW entries \in Seq(T), NEW base
    PROVE  \E f : Walk(f, base, entries) /\ FoldLeft(Seed, base, entries) = f[Len(entries)]
  <1> DEFINE n == Len(entries)
             g == CHOOSE g : Fold(g, base, entries, n)
             f == [i \in 0 .. n |-> g[1 .. i]]
  <1>0. n \in Nat /\ DOMAIN entries = 1 .. n
    OBVIOUS
  <1>1. Fold(g, base, entries, n)
    BY <1>0, FoldExists
  <1>2. FoldLeft(Seed, base, entries) = g[1 .. n]
    BY <1>0, Zenon DEF FoldLeft, MapThenFoldSet, Fold
  <1> HIDE DEF g, n
  <1>3. ASSUME NEW i \in 0 .. n
        PROVE  f[i] = IF i = 0 THEN base ELSE Seed(f[i - 1], entries[i])
    <2>1. 1 .. i \in SUBSET (1 .. n)
      BY <1>0
    <2>2. CASE i = 0
      BY <1>0, <1>1, <2>1, <2>2 DEF Fold
    <2>3. CASE i # 0
      <3>1. i - 1 \in 0 .. n /\ i - 1 \in Nat /\ (i - 1) + 1 = i /\ i \in 1 .. i
        BY <1>0, <2>3
      <3>2. Max(1 .. i) = i
        BY <3>1, MaxOfPositions
      <3>3. (1 .. i) \ {i} = 1 .. i - 1 /\ 1 .. i # {}
        BY <3>1
      <3>4. g[1 .. i] = Seed(g[1 .. i - 1], entries[i])
        BY <1>1, <2>1, <3>2, <3>3 DEF Fold
      <3> QED BY <2>3, <3>1, <3>4
    <2> QED BY <2>2, <2>3
  <1>4. f = [i \in 0 .. n |-> IF i = 0 THEN base ELSE Seed(f[i - 1], entries[i])]
    BY <1>3
  <1>5. f[n] = g[1 .. n]
    BY <1>0
  <1> HIDE DEF f
  <1> QED BY <1>2, <1>4, <1>5 DEF Walk, n
LEMMA WalkSteps ==
    ASSUME NEW f, NEW base, NEW T, NEW entries \in Seq(T), Walk(f, base, entries)
    PROVE  f[0] = base /\ Steps(f, entries, Len(entries))
  <1>1. \A i \in 0 .. Len(entries) :
           f[i] = IF i = 0 THEN base ELSE Seed(f[i - 1], entries[i])
    BY Zenon DEF Walk
  <1>2. 0 \in 0 .. Len(entries) /\ \A i \in 1 .. Len(entries) : i \in 0 .. Len(entries) /\ i # 0
    OBVIOUS
  <1> QED BY <1>1, <1>2, Zenon DEF Steps

LEMMA WalksAgree ==
    ASSUME NEW f, NEW g, NEW n \in Nat, NEW e, f[0] = g[0], Steps(f, e, n), Steps(g, e, n)
    PROVE  \A i \in 0 .. n : f[i] = g[i]
  <1> DEFINE S == {i \in Nat : i \in 0 .. n => f[i] = g[i]}
  <1>1. 0 \in S
    OBVIOUS
  <1>2. ASSUME NEW i \in Nat, i \in S PROVE i + 1 \in S
    <2> SUFFICES ASSUME i + 1 \in 0 .. n PROVE f[i + 1] = g[i + 1]
      OBVIOUS
    <2>1. i + 1 \in 1 .. n /\ (i + 1) - 1 = i /\ f[i] = g[i]
      BY <1>2
    <2> QED BY <2>1 DEF Steps
  <1> HIDE DEF S
  <1>3. Nat \subseteq S
    BY <1>1, <1>2, NatSetInduction
  <1> QED BY <1>3 DEF S

\* The record of an empty ledger, and of a ledger with one more entry.
LEMMA FoldOfNothing == ASSUME NEW base PROVE FoldLeft(Seed, base, <<>>) = base
  <1>1. PICK f : Walk(f, base, <<>>) /\ FoldLeft(Seed, base, <<>>) = f[Len(<<>>)]
    <2>1. <<>> \in Seq({base})
      OBVIOUS
    <2> QED BY <2>1, FoldWalks
  <1> QED BY <1>1 DEF Walk

LEMMA FoldOfAppend ==
    ASSUME NEW T, NEW entries \in Seq(T), NEW entry \in T, NEW base
    PROVE  FoldLeft(Seed, base, entries \o <<entry>>) =
              Seed(FoldLeft(Seed, base, entries), entry)
  <1> DEFINE n == Len(entries)
             longer == entries \o <<entry>>
  <1>0. /\ n \in Nat /\ longer \in Seq(T) /\ Len(longer) = n + 1 /\ longer[n + 1] = entry
        /\ \A i \in 1 .. n : longer[i] = entries[i]
    OBVIOUS
  <1> HIDE DEF longer, n
  <1>1. PICK f : Walk(f, base, entries) /\ FoldLeft(Seed, base, entries) = f[n]
    BY FoldWalks DEF n
  <1>2. PICK g : Walk(g, base, longer) /\ FoldLeft(Seed, base, longer) = g[n + 1]
    <2>1. \E g : Walk(g, base, longer) /\ FoldLeft(Seed, base, longer) = g[Len(longer)]
      BY <1>0, FoldWalks
    <2> QED BY <1>0, <2>1
  <1>3. f[0] = g[0] /\ Steps(f, longer, n) /\ Steps(g, longer, n)
    <2>1. f[0] = base /\ Steps(f, entries, n) /\ g[0] = base /\ Steps(g, longer, n + 1)
      BY <1>0, <1>1, <1>2, WalkSteps DEF n
    <2> QED BY <1>0, <2>1 DEF Steps
  <1>4. f[n] = g[n]
    <2>1. \A i \in 0 .. n : f[i] = g[i]
      BY <1>0, <1>3, WalksAgree, Zenon
    <2> QED BY <1>0, <2>1
  <1>5. g[n + 1] = Seed(g[n], longer[n + 1])
    BY <1>0, <1>2 DEF Walk
  <1> QED BY <1>0, <1>1, <1>2, <1>4, <1>5 DEF longer

\* To read on from a position is to have read everything.
LEMMA FoldOfRest ==
    ASSUME NEW T, NEW entries \in Seq(T), NEW base, NEW k \in 0 .. Len(entries)
    PROVE  FoldLeft(Seed, FoldLeft(Seed, base, SubSeq(entries, 1, k)),
                    SubSeq(entries, k + 1, Len(entries)))
              = FoldLeft(Seed, base, entries)
  <1> DEFINE n == Len(entries)
             head == SubSeq(entries, 1, k)
             rest == SubSeq(entries, k + 1, n)
             read == FoldLeft(Seed, base, head)
  <1>0. /\ n \in Nat /\ k \in Nat /\ k \in 0 .. n /\ n - k \in Nat
        /\ head \in Seq(T) /\ Len(head) = k /\ \A i \in 1 .. k : head[i] = entries[i]
        /\ rest \in Seq(T) /\ Len(rest) = n - k /\ \A i \in 1 .. n - k : rest[i] = entries[k + i]
    OBVIOUS
  <1> HIDE DEF head, rest, n
  <1>1. PICK f : Walk(f, base, entries) /\ FoldLeft(Seed, base, entries) = f[n]
    BY FoldWalks DEF n
  <1>2. PICK g : Walk(g, base, head) /\ read = g[k]
    <2>1. \E g : Walk(g, base, head) /\ FoldLeft(Seed, base, head) = g[Len(head)]
      BY <1>0, FoldWalks
    <2> QED BY <1>0, <2>1
  <1> HIDE DEF read
  <1>3. PICK r : Walk(r, read, rest) /\ FoldLeft(Seed, read, rest) = r[n - k]
    <2>1. \E r : Walk(r, read, rest) /\ FoldLeft(Seed, read, rest) = r[Len(rest)]
      BY <1>0, FoldWalks
    <2> QED BY <1>0, <2>1
  <1>4. f[k] = read
    <2>1. f[0] = g[0] /\ Steps(f, head, k) /\ Steps(g, head, k)
      <3>1. f[0] = base /\ Steps(f, entries, n)
        BY <1>1, WalkSteps DEF n
      <3>2. g[0] = base /\ Steps(g, head, k)
        BY <1>0, <1>2, WalkSteps
      <3>3. Steps(f, head, k)
        <4>1. \A i \in 1 .. k : i \in 1 .. n /\ head[i] = entries[i]
          BY <1>0
        <4> QED BY <3>1, <4>1, Zenon DEF Steps
      <3> QED BY <3>1, <3>2, <3>3
    <2>2. k \in Nat
      BY <1>0
    <2>3. \A i \in 0 .. k : f[i] = g[i]
      BY <2>1, <2>2, WalksAgree, Zenon
    <2>4. f[k] = g[k]
      BY <2>2, <2>3
    <2> QED BY <1>2, <2>4
  <1>5. f[n] = r[n - k]
    <2> DEFINE moved == [i \in 0 .. n - k |-> f[k + i]]
    <2>1. moved[0] = r[0]
      BY <1>0, <1>3, <1>4 DEF Walk
    <2>2. ASSUME NEW i \in 1 .. n - k
          PROVE  moved[i] = Seed(moved[i - 1], rest[i]) /\ r[i] = Seed(r[i - 1], rest[i])
      <3>1. k + i \in 1 .. n /\ k + (i - 1) = (k + i) - 1 /\ i \in 0 .. n - k /\ i - 1 \in 0 .. n - k
        BY <1>0
      <3>2. f[k + i] = Seed(f[(k + i) - 1], entries[k + i])
        BY <1>0, <1>1, <3>1, WalkSteps DEF n, Steps
      <3>3. r[i] = Seed(r[i - 1], rest[i])
        BY <1>0, <1>3, WalkSteps DEF Steps
      <3> QED BY <1>0, <3>1, <3>2, <3>3
    <2>3. moved[n - k] = f[n] /\ n - k \in 0 .. n - k
      BY <1>0
    <2> HIDE DEF moved
    <2>4. Steps(moved, rest, n - k) /\ Steps(r, rest, n - k)
      BY <2>2 DEF Steps
    <2>5. \A i \in 0 .. n - k : moved[i] = r[i]
      BY <1>0, <2>1, <2>4, WalksAgree, Zenon
    <2> QED BY <2>3, <2>5
  <1> QED BY <1>1, <1>3, <1>5 DEF read, head, rest, n

-----------------------------------------------------------------------------
(* The inductive invariant. *)

\* The record every process finds that reads the ledger to its end.
Now == Replayed(ledger)

\* Types of everything but the ledgers, and the bounds of this behaviour.
Phases == {"down", "reconcile", "recover", "ready", "rearm", "running", "notready"}
Pcs == {"idle", "admit", "select", "gates", "create", "complete", "load",
        "enqueue", "mark", "refresh", "told", "failed", "rolledback"} \cup RollsBack
Outcome == {"ok", "refused", "lost", "kept", "torn"}

ProcType == [phase : Phases, todo : SUBSET [job : Calls, published : BOOLEAN],
             claim : Calls \cup {NoCall}, sound : BOOLEAN, queue : SUBSET Calls]
CallType == [pc : Pcs, proc : Procs, job : Calls]
RowType == [state : {"none", "queued", "done"}, published : BOOLEAN]

SetupOK ==
    /\ setup \in Setups /\ setup.procs \subseteq Procs /\ setup.calls \subseteq Calls
    /\ setup.body \in [Calls -> Bodies]
    /\ setup.faults \in 0 .. MaxFaults /\ setup.crashes \in 0 .. MaxCrashes

\* The ledgers and what the processes remember of the replay ledger.
LedgerOK ==
    /\ ledger \in Seq(Records) /\ torn \subseteq {"replay", "jobs"}
    /\ view \in [Procs -> [record : Records, at : Nat]]
    /\ \A p \in Procs : view[p].at <= Len(ledger)
    /\ faults \in 0 .. setup.faults
    /\ Now \in Records
    /\ ViewIsDurable

WorkOK ==
    /\ rows \in [Calls -> RowType]
    /\ prompts \subseteq Calls /\ occupancy \subseteq Calls /\ rendered \subseteq Calls

Typed ==
    /\ SetupOK /\ LedgerOK /\ WorkOK
    /\ proc \in [Procs -> ProcType] /\ call \in [Calls -> CallType]
    /\ crashes \in 0 .. setup.crashes

Early == {"idle", "admit", "select", "gates", "create"}   \* its row is not written yet
Working == {"admit", "select", "gates", "create", "complete"} \cup RollsBack   \* its claim is open
Naming == {"load", "enqueue", "mark", "refresh", "told"}   \* it has seen the job of the key

Exists(j) == rows[j].state # "none"

\* The record of the key names a job only if the job is durable and was made for that body.
RecordOK ==
    /\ Now.state # "abandoned"
    /\ Now.state = "terminal" => Exists(Now.job) /\ Now.body = setup.body[Now.job]

\* What a call has done so far.
CallOK(c) ==
    /\ call[c].pc \in Naming =>
          Now.state = "terminal" /\ Now.job = call[c].job /\ Now.body = setup.body[c]
    /\ call[c].pc \in Early => ~Exists(c)
    /\ call[c].pc = "complete" => Exists(c)
    /\ call[c].pc \in Working => call[c].job = c
    /\ call[c].pc \in {"select", "gates", "create"} => c \in occupancy
    /\ call[c].pc = "create" => c \in prompts
    /\ rows[c].state = "queued" /\ ~RolledBack(c) => c \in prompts /\ c \in occupancy

\* A process repairs, arms and carries out jobs that have a row.
ProcOK(p) ==
    /\ \A t \in proc[p].todo : Exists(t.job)
    /\ proc[p].claim # NoCall => Exists(proc[p].claim)
    /\ \A j \in proc[p].queue : Exists(j)

RenderedOK == \A j \in rendered : Exists(j)

\* If a row reported as failed is not durable, the key has one call at a time that may write a
\* row, while the record is its claim, and no second row.
OwnerOK(c) ==
    call[c].pc \in Working =>
        /\ Now.body = setup.body[c]
        /\ Now.state = "claimed" \/ (call[c].pc = "complete" /\ Now.state = "terminal" /\ Now.job = c)
        /\ \A d \in Calls : call[d].pc \in Working => d = c
        /\ \A j \in Calls : Exists(j) => j = c /\ call[c].pc = "complete"

RowsOK ==
    /\ \A i, j \in Calls : Exists(i) /\ Exists(j) => i = j
    /\ \A j \in Calls : Exists(j) => Now.state # "none"

Durable == RecordOK /\ (\A c \in Calls : CallOK(c)) /\ (\A p \in Procs : ProcOK(p)) /\ RenderedOK

Single == "jobs" \notin setup.kept => RowsOK /\ \A c \in Calls : OwnerOK(c)

CreateInv == Typed /\ Durable /\ Single

-----------------------------------------------------------------------------
(* An operation of a store *)

LEMMA NoRecordOK == NoRecord \in Records /\ NoRecord.state = "none"
  <1>1. Bodies # {} /\ NoCall \notin Calls
    BY CreateAssumption
  <1>2. (CHOOSE b \in Bodies : TRUE) \in Bodies
    BY <1>1
  <1> QED BY <1>2 DEF NoRecord, Records

LEMMA UnreadOK == Unread \in [record : Records, at : Nat] /\ Unread.at = 0
  BY NoRecordOK DEF Unread

\* A process that reads the ledger to its end finds what the whole ledger says.
LEMMA ReloadedIsNow ==
    ASSUME LedgerOK, NEW p \in Procs
    PROVE  Reloaded(p) = Now
  <1>0. /\ ledger \in Seq(Records) /\ view[p].at \in Nat /\ view[p].at <= Len(ledger)
        /\ Len(ledger) \in Nat
        /\ view[p].at > 0 => view[p].record = Replayed(SubSeq(ledger, 1, view[p].at))
    BY DEF LedgerOK, ViewIsDurable
  <1>1. CASE view[p].at = 0
    BY <1>1 DEF Reloaded, Now
  <1>2. CASE view[p].at # 0
    <2>1. view[p].at \in 0 .. Len(ledger) /\ view[p].at > 0
      BY <1>0, <1>2
    <2>2. FoldLeft(Seed, FoldLeft(Seed, NoRecord, SubSeq(ledger, 1, view[p].at)),
                   SubSeq(ledger, view[p].at + 1, Len(ledger)))
             = FoldLeft(Seed, NoRecord, ledger)
      BY <1>0, <2>1, FoldOfRest
    <2>3. view[p].record = FoldLeft(Seed, NoRecord, SubSeq(ledger, 1, view[p].at))
      BY <1>0, <2>1 DEF Replayed
    <2> QED BY <1>2, <2>2, <2>3 DEF Reloaded, Now, Replayed
  <1> QED BY <1>1, <1>2

LEMMA SeedOK ==
    ASSUME NEW record \in Records, NEW entry \in Records
    PROVE  Seed(record, entry) \in Records
  BY NoRecordOK DEF Seed

\* What the record is after an operation that owes at most one entry.
After(entries) == IF entries = <<>> THEN Now ELSE Seed(Now, entries[1])

OneEntry(entries) == entries = <<>> \/ \E e \in Records : entries = <<e>>

LEMMA AppendOK ==
    ASSUME LedgerOK, NEW entries, OneEntry(entries), ledger' = ledger \o entries
    PROVE  /\ ledger' \in Seq(Records) /\ Len(ledger') = Len(ledger) + Len(entries)
           /\ Len(ledger) <= Len(ledger')
           /\ Now' = After(entries) /\ Now' \in Records
           /\ \A k \in 0 .. Len(ledger) : SubSeq(ledger', 1, k) = SubSeq(ledger, 1, k)
           /\ FoldLeft(Seed, Now, entries) = Now'
           /\ SubSeq(ledger', 1, Len(ledger')) = ledger'
  <1>0. ledger \in Seq(Records) /\ Len(ledger) \in Nat /\ Now \in Records
    BY DEF LedgerOK
  <1>1. CASE entries = <<>>
    <2>1. ledger' = ledger
      BY <1>0, <1>1
    <2>2. FoldLeft(Seed, Now, entries) = Now
      BY <1>1, FoldOfNothing
    <2>3. Now' = Now
      BY <2>1 DEF Now
    <2> QED BY <1>0, <1>1, <2>1, <2>2, <2>3 DEF After
  <1>2. CASE \E e \in Records : entries = <<e>>
    <2>1. PICK e \in Records : entries = <<e>>
      BY <1>2
    <2>2. /\ ledger' \in Seq(Records) /\ Len(ledger') = Len(ledger) + 1 /\ Len(entries) = 1
          /\ entries # <<>> /\ entries[1] = e
          /\ \A k \in 0 .. Len(ledger) : SubSeq(ledger', 1, k) = SubSeq(ledger, 1, k)
          /\ SubSeq(ledger', 1, Len(ledger')) = ledger'
      BY <1>0, <2>1
    <2>3. FoldLeft(Seed, NoRecord, ledger \o <<e>>) = Seed(FoldLeft(Seed, NoRecord, ledger), e)
      BY <1>0, FoldOfAppend
    <2>4. Now' = Seed(Now, e)
      BY <2>1, <2>3 DEF Now, Replayed
    <2>5. FoldLeft(Seed, Now, entries) = Seed(Now, e)
      <3>1. <<>> \in Seq(Records) /\ <<>> \o <<e>> = <<e>>
        OBVIOUS
      <3>2. FoldLeft(Seed, Now, <<>> \o <<e>>) = Seed(FoldLeft(Seed, Now, <<>>), e)
        BY <3>1, FoldOfAppend
      <3> QED BY <3>1, <3>2, FoldOfNothing, <2>1
    <2>6. Now' \in Records
      BY <1>0, <2>4, SeedOK
    <2> QED BY <1>0, <2>2, <2>4, <2>5, <2>6 DEF After
  <1> QED BY <1>1, <1>2 DEF OneEntry

\* An operation that fails counts as a fault, and half a record stays in the file.
LEMMA SufferOK ==
    ASSUME SetupOK, NEW store \in {"replay", "jobs"}, NEW writes,
           NEW outcome \in Outcomes(store, writes), Suffer(store, outcome),
           faults \in 0 .. setup.faults, torn \subseteq {"replay", "jobs"}
    PROVE  /\ faults' \in 0 .. setup.faults /\ torn' \subseteq {"replay", "jobs"}
           /\ outcome \in Outcome
           /\ outcome = "kept" => store \in setup.kept
  <1>1. setup.faults \in Nat
    BY DEF SetupOK
  <1>2. outcome \in Outcome /\ (outcome = "kept" => store \in setup.kept)
        /\ (outcome # "ok" /\ store \notin torn => faults # setup.faults)
    BY DEF Outcomes, Outcome
  <1> QED BY <1>1, <1>2 DEF Suffer

\* One operation on the replay store, which owes at most one entry.
LEMMA ReplayOK ==
    ASSUME SetupOK, LedgerOK, UNCHANGED setup, NEW p \in Procs, NEW entries, OneEntry(entries),
           NEW outcome \in Outcomes("replay", entries # <<>>), Replay(p, entries, outcome)
    PROVE  /\ LedgerOK'
           /\ Now' = IF outcome \in {"ok", "kept"} THEN After(entries) ELSE Now
           /\ outcome \in Outcome
  <1>0. /\ ledger \in Seq(Records) /\ torn \subseteq {"replay", "jobs"} /\ Len(ledger) \in Nat
        /\ view \in [Procs -> [record : Records, at : Nat]]
        /\ \A q \in Procs : view[q].at <= Len(ledger)
        /\ \A q \in Procs : view[q].at > 0 =>
              view[q].record = Replayed(SubSeq(ledger, 1, view[q].at))
        /\ faults \in 0 .. setup.faults /\ Now \in Records
    BY DEF LedgerOK, ViewIsDurable
  <1>1. Suffer("replay", outcome)
    BY DEF Replay
  <1>2. faults' \in 0 .. setup'.faults /\ torn' \subseteq {"replay", "jobs"} /\ outcome \in Outcome
    BY <1>0, <1>1, SufferOK
  <1>3. Len(entries) \in Nat
    BY DEF OneEntry
  <1>4. /\ ledger' \in Seq(Records) /\ Len(ledger) <= Len(ledger') /\ Len(ledger') \in Nat
        /\ Now' \in Records
        /\ Now' = IF outcome \in {"ok", "kept"} THEN After(entries) ELSE Now
        /\ \A k \in 0 .. Len(ledger) : SubSeq(ledger', 1, k) = SubSeq(ledger, 1, k)
    <2>1. CASE outcome \in {"ok", "kept"}
      <3>1. ledger' = ledger \o entries
        BY <2>1 DEF Replay
      <3>2. /\ ledger' \in Seq(Records) /\ Len(ledger') = Len(ledger) + Len(entries)
            /\ Len(ledger) <= Len(ledger')
            /\ Now' = After(entries) /\ Now' \in Records
            /\ \A k \in 0 .. Len(ledger) : SubSeq(ledger', 1, k) = SubSeq(ledger, 1, k)
        BY <3>1, AppendOK, Zenon
      <3>3. Len(ledger') \in Nat
        BY <3>2, <1>0, <1>3
      <3>4. Now' = IF outcome \in {"ok", "kept"} THEN After(entries) ELSE Now
        BY <2>1, <3>2
      <3> QED BY <3>2, <3>3, <3>4, Zenon
    <2>2. CASE outcome \notin {"ok", "kept"}
      <3>1. ledger' = ledger
        BY <2>2 DEF Replay
      <3>2. Now' = Now
        BY <3>1 DEF Now
      <3> QED BY <1>0, <2>2, <3>1, <3>2
    <2> QED BY <2>1, <2>2
  <1>5. ASSUME NEW q \in Procs
        PROVE  /\ view'[q] \in [record : Records, at : Nat] /\ view'[q].at <= Len(ledger')
               /\ view'[q].at > 0 => view'[q].record = Replayed(SubSeq(ledger', 1, view'[q].at))
    <2>1. CASE view'[q] = view[q]
      <3>1. view[q].at \in 0 .. Len(ledger) /\ view[q] \in [record : Records, at : Nat]
        BY <1>0
      <3>2. SubSeq(ledger', 1, view[q].at) = SubSeq(ledger, 1, view[q].at)
        BY <1>4, <3>1, Zenon
      <3>3. view[q].at <= Len(ledger')
        BY <1>0, <1>4, <3>1
      <3>4. view[q].at > 0 => view[q].record = Replayed(SubSeq(ledger', 1, view[q].at))
        BY <1>0, <3>2, Zenon
      <3> QED BY <2>1, <3>1, <3>3, <3>4, Zenon
    <2>2. CASE q = p /\ outcome = "ok"
      <3>1. ledger' = ledger \o entries
        BY <2>2 DEF Replay
      <3>2. /\ Len(ledger') = Len(ledger) + Len(entries) /\ FoldLeft(Seed, Now, entries) = Now'
            /\ SubSeq(ledger', 1, Len(ledger')) = ledger'
        BY <3>1, AppendOK
      <3>3. view'[p] = [record |-> FoldLeft(Seed, Reloaded(p), entries),
                        at |-> Len(ledger) + Len(entries)]
        BY <1>0, <2>2 DEF Replay
      <3>4. view'[p] = [record |-> Now', at |-> Len(ledger')]
        BY <3>2, <3>3, ReloadedIsNow
      <3>5. Now' = Replayed(ledger')
        BY DEF Now
      <3>6. view'[q].record = Now' /\ view'[q].at = Len(ledger')
            /\ view'[q] \in [record : Records, at : Nat]
        BY <1>4, <2>2, <3>4
      <3>7. view'[q].at <= Len(ledger')
        BY <1>4, <3>6
      <3>8. view'[q].record = Replayed(SubSeq(ledger', 1, view'[q].at))
        BY <3>2, <3>5, <3>6, Zenon
      <3> QED BY <3>6, <3>7, <3>8, Zenon
    <2>3. CASE q = p /\ outcome \notin {"ok", "refused"}
      <3>1. view'[p] = Unread
        BY <1>0, <2>3 DEF Replay, AfterFailure
      <3> QED BY <1>4, <2>3, <3>1, UnreadOK
    <2>4. q # p \/ outcome = "refused" => view'[q] = view[q]
      BY <1>0 DEF Replay
    <2> QED BY <2>1, <2>2, <2>3, <2>4
  <1>6. view' \in [Procs -> [record : Records, at : Nat]]
    <2>1. view' = [view EXCEPT ![p] = view'[p]]
      BY <1>0 DEF Replay
    <2> QED BY <1>0, <1>5, <2>1
  <1>7. ViewIsDurable'
    BY <1>5 DEF ViewIsDurable
  <1> QED BY <1>2, <1>4, <1>5, <1>6, <1>7 DEF LedgerOK

Claimed(body) == [state |-> "claimed", body |-> body, job |-> NoCall]
Terminal(body, j) == [state |-> "terminal", body |-> body, job |-> j]

\* A claim: it writes only where nothing stood.
LEMMA ClaimOK ==
    ASSUME SetupOK, LedgerOK, UNCHANGED setup, NEW p \in Procs, NEW body \in Bodies,
           NEW outcome \in Outcomes("replay", ClaimEntries(Reloaded(p), body) # <<>>),
           Replay(p, ClaimEntries(Reloaded(p), body), outcome)
    PROVE  /\ LedgerOK' /\ Now' \in Records /\ Reloaded(p) = Now
           /\ Now' = Now \/ (Now.state = "none" /\ Now' = Claimed(body))
           /\ outcome = "ok" /\ Decision(Now, body) = "claimed" =>
                 Now.state = "none" /\ Now' = Claimed(body)
           /\ Decision(Now, body) # "claimed" => Now' = Now
  <1> DEFINE entries == ClaimEntries(Reloaded(p), body)
  <1>1. OneEntry(entries)
    <2>1. NoCall \notin Calls
      BY CreateAssumption
    <2>2. [state |-> "claimed", body |-> body, job |-> NoCall] \in Records
      BY <2>1 DEF Records
    <2> QED BY <2>2 DEF OneEntry, ClaimEntries, Entry
  <1>2. Reloaded(p) = Now /\ Now \in Records
    BY ReloadedIsNow DEF LedgerOK
  <1> HIDE DEF entries
  <1>3. /\ LedgerOK'
        /\ Now' = IF outcome \in {"ok", "kept"} THEN After(entries) ELSE Now
    BY <1>1, ReplayOK, Zenon DEF entries
  <1>4. Now' \in Records
    BY <1>3 DEF LedgerOK
  <1>5. Decision(Now, body) # "claimed" => After(entries) = Now
    BY <1>2 DEF entries, ClaimEntries, After
  <1>6. Decision(Now, body) = "claimed" =>
           Now.state = "none" /\ After(entries) = Claimed(body)
    BY <1>2 DEF entries, ClaimEntries, After, Entry, Seed, Decision, Claimed
  <1> QED BY <1>2, <1>3, <1>4, <1>5, <1>6

\* A completion: it names a job only where this body is claimed, or names it again.
LEMMA CompleteOK ==
    ASSUME SetupOK, LedgerOK, UNCHANGED setup, NEW p \in Procs, NEW body \in Bodies, NEW j \in Calls,
           NEW outcome \in Outcomes("replay", CompleteEntries(Reloaded(p), body, j) # <<>>),
           Replay(p, CompleteEntries(Reloaded(p), body, j), outcome)
    PROVE  /\ LedgerOK' /\ Now' \in Records /\ Reloaded(p) = Now
           /\ Now' = Now \/ (Completes(Now, body, j) /\ Now' = Terminal(body, j))
           /\ outcome = "ok" /\ CompleteEntries(Now, body, j) # <<>> =>
                 Completes(Now, body, j) /\ Now' = Terminal(body, j)
  <1> DEFINE entries == CompleteEntries(Reloaded(p), body, j)
  <1>1. OneEntry(entries)
    <2>1. NoCall \notin Calls
      BY CreateAssumption
    <2>2. [state |-> "terminal", body |-> body, job |-> j] \in Records
      BY <2>1 DEF Records
    <2> QED BY <2>2 DEF OneEntry, CompleteEntries, Entry
  <1>2. Reloaded(p) = Now /\ Now \in Records
    BY ReloadedIsNow DEF LedgerOK
  <1> HIDE DEF entries
  <1>3. /\ LedgerOK'
        /\ Now' = IF outcome \in {"ok", "kept"} THEN After(entries) ELSE Now
    BY <1>1, ReplayOK, Zenon DEF entries
  <1>4. Now' \in Records
    BY <1>3 DEF LedgerOK
  <1>5. ~Completes(Now, body, j) => After(entries) = Now /\ CompleteEntries(Now, body, j) = <<>>
    BY <1>2 DEF entries, CompleteEntries, After
  <1>6. Completes(Now, body, j) => After(entries) = Terminal(body, j)
    BY <1>2 DEF entries, CompleteEntries, After, Entry, Seed, Terminal
  <1> QED BY <1>2, <1>3, <1>4, <1>5, <1>6

\* A tombstone: it takes back only a claim of this body that nobody completed.
LEMMA AbandonOK ==
    ASSUME SetupOK, LedgerOK, UNCHANGED setup, NEW p \in Procs, NEW body \in Bodies,
           NEW outcome \in Outcomes("replay", AbandonEntries(Reloaded(p), body) # <<>>),
           Replay(p, AbandonEntries(Reloaded(p), body), outcome)
    PROVE  /\ LedgerOK' /\ Now' \in Records
           /\ Now' = Now \/ (Pending(Now, body) /\ Now' = NoRecord)
  <1> DEFINE entries == AbandonEntries(Reloaded(p), body)
  <1>1. OneEntry(entries)
    <2>1. NoCall \notin Calls
      BY CreateAssumption
    <2>2. [state |-> "abandoned", body |-> body, job |-> NoCall] \in Records
      BY <2>1 DEF Records
    <2> QED BY <2>2 DEF OneEntry, AbandonEntries, Entry
  <1>2. Reloaded(p) = Now /\ Now \in Records
    BY ReloadedIsNow DEF LedgerOK
  <1> HIDE DEF entries
  <1>3. /\ LedgerOK'
        /\ Now' = IF outcome \in {"ok", "kept"} THEN After(entries) ELSE Now
    BY <1>1, ReplayOK, Zenon DEF entries
  <1>4. Now' \in Records
    BY <1>3 DEF LedgerOK
  <1>5. ~Pending(Now, body) => After(entries) = Now
    BY <1>2 DEF entries, AbandonEntries, After
  <1>6. Pending(Now, body) => After(entries) = NoRecord
    BY <1>2 DEF entries, AbandonEntries, After, Entry, Seed, Pending
  <1> QED BY <1>3, <1>4, <1>5, <1>6

\* What leaves the replay ledger and the memory of it alone leaves the record alone.
LEMMA LedgerKept ==
    ASSUME SetupOK, LedgerOK, UNCHANGED <<setup, ledger>>,
           view' = view \/ \E p \in Procs : view' = [view EXCEPT ![p] = Unread],
           faults' \in 0 .. setup.faults, torn' \subseteq {"replay", "jobs"}
    PROVE  LedgerOK' /\ Now' = Now
  <1>0. /\ ledger \in Seq(Records) /\ view \in [Procs -> [record : Records, at : Nat]]
        /\ \A q \in Procs : view[q].at <= Len(ledger) /\ Len(ledger) \in Nat
        /\ \A q \in Procs : view[q].at > 0 =>
              view[q].record = Replayed(SubSeq(ledger, 1, view[q].at))
        /\ Now \in Records
    BY DEF LedgerOK, ViewIsDurable
  <1>1. Now' = Now
    BY DEF Now
  <1>2. /\ view' \in [Procs -> [record : Records, at : Nat]]
        /\ \A q \in Procs : view'[q] = view[q] \/ view'[q].at = 0
    BY <1>0, UnreadOK
  <1>3. ASSUME NEW q \in Procs
        PROVE  /\ view'[q].at <= Len(ledger')
               /\ view'[q].at > 0 => view'[q].record = Replayed(SubSeq(ledger', 1, view'[q].at))
    <2>1. CASE view'[q] = view[q]
      BY <1>0, <2>1, Zenon
    <2>2. CASE view'[q].at = 0
      BY <1>0, <2>2
    <2> QED BY <1>2, <2>1, <2>2
  <1>4. ViewIsDurable'
    BY <1>3 DEF ViewIsDurable
  <1>5. \A q \in Procs : view'[q].at <= Len(ledger')
    BY <1>3, Zenon
  <1>6. ledger' \in Seq(Records) /\ Now' \in Records /\ faults' \in 0 .. setup'.faults
    BY <1>0, <1>1
  <1> QED BY <1>1, <1>2, <1>4, <1>5, <1>6, Zenon DEF LedgerOK

\* One operation on the job ledger.
LEMMA JobsOK ==
    ASSUME SetupOK, LedgerOK, UNCHANGED <<setup, ledger, view>>, NEW writes,
           NEW outcome \in Outcomes("jobs", writes), Suffer("jobs", outcome)
    PROVE  /\ LedgerOK' /\ Now' = Now
           /\ outcome \in Outcome /\ (outcome = "kept" => "jobs" \in setup.kept)
  <1>1. faults \in 0 .. setup.faults /\ torn \subseteq {"replay", "jobs"}
    BY DEF LedgerOK
  <1>2. /\ faults' \in 0 .. setup.faults /\ torn' \subseteq {"replay", "jobs"}
        /\ outcome \in Outcome /\ (outcome = "kept" => "jobs" \in setup.kept)
    BY <1>1, SufferOK
  <1> QED BY <1>2, LedgerKept

LEMMA FaultOK ==
    ASSUME SetupOK, LedgerOK, UNCHANGED setup, Fault \/ UNCHANGED stores
    PROVE  LedgerOK' /\ Now' = Now
  <1>1. faults \in 0 .. setup.faults /\ torn \subseteq {"replay", "jobs"} /\ setup.faults \in Nat
    BY DEF LedgerOK, SetupOK
  <1>2. faults' \in 0 .. setup.faults /\ torn' \subseteq {"replay", "jobs"}
        /\ ledger' = ledger /\ view' = view
    <2>1. CASE Fault
      BY <1>1, <2>1 DEF Fault
    <2>2. CASE UNCHANGED stores
      BY <1>1, <2>2 DEF stores
    <2> QED BY <2>1, <2>2
  <1> QED BY <1>2, LedgerKept

-----------------------------------------------------------------------------
(* What a step leaves to the calls and processes it is not about *)

LEMMA SomeProc == (CHOOSE p \in Procs : TRUE) \in Procs
  BY CreateAssumption

LEMMA GoOK ==
    ASSUME call \in [Calls -> CallType], NEW c \in Calls, NEW pc \in Pcs, Go(c, pc) \/ Answer(c, pc)
    PROVE  /\ call' \in [Calls -> CallType]
           /\ call'[c].pc = pc /\ call'[c].job = call[c].job
           /\ \A d \in Calls : d # c => call'[d] = call[d]
  <1>1. (CHOOSE p \in Procs : TRUE) \in Procs
    BY SomeProc
  <1>2. CASE Go(c, pc)
    BY <1>2 DEF Go, CallType
  <1>3. CASE Answer(c, pc)
    <2> DEFINE q == CHOOSE p \in Procs : TRUE
    <2>1. call' = [call EXCEPT ![c].pc = pc, ![c].proc = q]
      BY <1>3 DEF Answer
    <2>2. q \in Procs
      BY <1>1
    <2> HIDE DEF q
    <2>3. call[c] \in CallType /\ DOMAIN call = Calls
      OBVIOUS
    <2>4. call'[c] = [call[c] EXCEPT !.pc = pc, !.proc = q]
      BY <2>1, <2>3
    <2>5. call'[c] \in CallType /\ call'[c].pc = pc /\ call'[c].job = call[c].job
      BY <2>2, <2>3, <2>4 DEF CallType
    <2>6. DOMAIN call' = Calls /\ \A d \in Calls : d # c => call'[d] = call[d]
      BY <2>1, <2>3
    <2>7. call' = [d \in Calls |-> call'[d]]
      BY <2>1, <2>3
    <2>8. \A d \in Calls : call'[d] \in CallType
      BY <2>5, <2>6
    <2> QED BY <2>5, <2>6, <2>7, <2>8
  <1> QED BY <1>2, <1>3

LEMMA BecomesOK ==
    ASSUME proc \in [Procs -> ProcType], NEW p \in Procs, NEW next \in ProcType, Becomes(p, next)
    PROVE  /\ proc' \in [Procs -> ProcType] /\ proc'[p] = next
           /\ \A q \in Procs : q # p => proc'[q] = proc[q]
  BY DEF Becomes

\* A call no step of which this is.
LEMMA OtherCall ==
    ASSUME NEW c \in Calls, CallOK(c), UNCHANGED setup, call'[c] = call[c],
           Now.state = "terminal" => Now' = Now,
           rows'[c].state = rows[c].state,
           c \in prompts => c \in prompts', c \in occupancy => c \in occupancy'
    PROVE  CallOK(c)'
  BY DEF CallOK, RolledBack, Exists

LEMMA RecordKept ==
    ASSUME RecordOK, Now \in Records, Now' = Now, UNCHANGED setup,
           \A j \in Calls : rows[j].state # "none" => rows'[j].state # "none"
    PROVE  RecordOK'
  <1>1. Now.state = "terminal" => Now.job \in Calls
    BY CreateAssumption DEF Records
  <1> QED BY <1>1 DEF RecordOK, Exists

LEMMA ProcsKept ==
    ASSUME proc \in [Procs -> ProcType], \A p \in Procs : ProcOK(p), UNCHANGED proc,
           \A j \in Calls : rows[j].state # "none" => rows'[j].state # "none"
    PROVE  \A p \in Procs : ProcOK(p)'
  <1> SUFFICES ASSUME NEW p \in Procs PROVE ProcOK(p)'
    OBVIOUS
  <1>1. proc[p] \in ProcType /\ ProcOK(p)
    OBVIOUS
  <1> QED BY <1>1 DEF ProcOK, ProcType, Exists

LEMMA RenderedKept ==
    ASSUME RenderedOK, rendered \subseteq Calls, UNCHANGED rendered,
           \A j \in Calls : rows[j].state # "none" => rows'[j].state # "none"
    PROVE  RenderedOK'
  BY DEF RenderedOK, Exists

\* Rows and record stay; a call that works afterwards worked before and completes as before.
LEMMA SingleKept ==
    ASSUME Single, UNCHANGED setup, Now' = Now,
           \A j \in Calls : rows'[j].state = "none" <=> rows[j].state = "none",
           \A d \in Calls : call'[d].pc \in Working =>
               call[d].pc \in Working /\ (call'[d].pc = "complete" <=> call[d].pc = "complete")
    PROVE  Single'
  <1> SUFFICES ASSUME "jobs" \notin setup.kept PROVE RowsOK' /\ \A d \in Calls : OwnerOK(d)'
    BY DEF Single
  <1>1. RowsOK /\ \A d \in Calls : OwnerOK(d)
    BY DEF Single
  <1>2. RowsOK'
    BY <1>1 DEF RowsOK, Exists
  <1>3. ASSUME NEW d \in Calls PROVE OwnerOK(d)'
    <2>1. \A e \in Calls : call'[e].pc \in Working => call[e].pc \in Working
      OBVIOUS
    <2> QED BY <1>1, <2>1 DEF OwnerOK, Exists
  <1> QED BY <1>2, <1>3

\* A step of c that changes neither the record nor a row nor a process.
LEMMA CallStep ==
    ASSUME CreateInv, NEW c \in Calls, UNCHANGED <<setup, rows, proc, rendered, crashes>>,
           LedgerOK', Now' = Now, prompts' \subseteq Calls, occupancy' \subseteq Calls,
           call' \in [Calls -> CallType],
           \A d \in Calls : d # c => /\ call'[d] = call[d]
                                     /\ (d \in prompts => d \in prompts')
                                     /\ (d \in occupancy => d \in occupancy'),
           CallOK(c)',
           call'[c].pc \in Working =>
               call[c].pc \in Working /\ (call'[c].pc = "complete" <=> call[c].pc = "complete")
    PROVE  CreateInv'
  <1>0. Typed /\ RecordOK /\ (\A d \in Calls : CallOK(d)) /\ (\A p \in Procs : ProcOK(p))
        /\ RenderedOK /\ Single /\ Now \in Records
    BY DEF CreateInv, Durable, Typed, LedgerOK
  <1>1. Typed'
    BY <1>0 DEF Typed, SetupOK, WorkOK
  <1>2. RecordOK'
    BY <1>0, RecordKept
  <1>3. ASSUME NEW d \in Calls PROVE CallOK(d)'
    <2>1. CASE d # c
      <3>1. CallOK(d) /\ call'[d] = call[d] /\ rows'[d].state = rows[d].state
            /\ (d \in prompts => d \in prompts') /\ (d \in occupancy => d \in occupancy')
        BY <1>0, <2>1
      <3> QED BY <3>1, OtherCall
    <2> QED BY <2>1
  <1>4. \A p \in Procs : ProcOK(p)'
    BY <1>0, ProcsKept DEF Typed
  <1>5. RenderedOK'
    BY <1>0, RenderedKept DEF Typed, WorkOK
  <1>6. Single'
    BY <1>0, SingleKept
  <1> QED BY <1>1, <1>2, <1>3, <1>4, <1>5, <1>6 DEF CreateInv, Durable

LEMMA AdmitKeeps ==
    ASSUME CreateInv, NEW c \in Calls, Admit(c)
    PROVE  CreateInv'
  <1>0. Typed /\ CallOK(c) /\ call \in [Calls -> CallType] /\ call[c].pc = "admit"
        /\ prompts \subseteq Calls /\ occupancy \subseteq Calls
    BY DEF CreateInv, Durable, Typed, WorkOK, Admit, At
  <1>1. LedgerOK' /\ Now' = Now
    BY <1>0, FaultOK DEF Admit, Typed
  <1>2. /\ call' \in [Calls -> CallType] /\ call'[c].job = call[c].job
        /\ \A d \in Calls : d # c => call'[d] = call[d]
        /\ \/ call'[c].pc = "select" /\ occupancy' = occupancy \cup {c}
           \/ call'[c].pc = "abandon" /\ occupancy' = occupancy
    BY <1>0, GoOK DEF Admit, Pcs, RollsBack
  <1>3. CallOK(c)'
    BY <1>0, <1>1, <1>2 DEF CallOK, Admit, Exists, RolledBack, RollsBack, Naming, Early, Working
  <1> QED BY <1>0, <1>1, <1>2, <1>3, CallStep DEF Admit, Working, RollsBack

LEMMA SelectKeeps ==
    ASSUME CreateInv, NEW c \in Calls, SelectAccount(c)
    PROVE  CreateInv'
  <1>0. Typed /\ CallOK(c) /\ call \in [Calls -> CallType] /\ call[c].pc = "select"
        /\ prompts \subseteq Calls /\ occupancy \subseteq Calls
    BY DEF CreateInv, Durable, Typed, WorkOK, SelectAccount, At
  <1>1. LedgerOK' /\ Now' = Now
    BY <1>0, FaultOK DEF SelectAccount, Typed
  <1>2. /\ call' \in [Calls -> CallType] /\ call'[c].job = call[c].job
        /\ \A d \in Calls : d # c => call'[d] = call[d]
        /\ call'[c].pc \in {"gates", "release"}
    BY <1>0, GoOK DEF SelectAccount, Pcs, RollsBack
  <1>3. UNCHANGED <<setup, rows, prompts, occupancy, proc, rendered, crashes>>
    BY DEF SelectAccount, work
  <1>4. CallOK(c)'
    BY <1>0, <1>1, <1>2, <1>3 DEF CallOK, Exists, RolledBack, RollsBack, Naming, Early, Working
  <1> QED BY <1>0, <1>1, <1>2, <1>3, <1>4, CallStep DEF Working, RollsBack

LEMMA GatesKeeps ==
    ASSUME CreateInv, NEW c \in Calls, Gates(c)
    PROVE  CreateInv'
  <1>0. Typed /\ CallOK(c) /\ call \in [Calls -> CallType] /\ call[c].pc = "gates"
        /\ prompts \subseteq Calls /\ occupancy \subseteq Calls
    BY DEF CreateInv, Durable, Typed, WorkOK, Gates, At
  <1>1. LedgerOK' /\ Now' = Now
    BY <1>0, FaultOK DEF Gates, Typed
  <1>2. /\ call' \in [Calls -> CallType] /\ call'[c].job = call[c].job
        /\ \A d \in Calls : d # c => call'[d] = call[d]
        /\ \/ call'[c].pc = "create" /\ prompts' = prompts \cup {c}
           \/ call'[c].pc = "release" /\ prompts' = prompts
    BY <1>0, GoOK DEF Gates, Pcs, RollsBack
  <1>3. CallOK(c)'
    BY <1>0, <1>1, <1>2 DEF CallOK, Gates, Exists, RolledBack, RollsBack, Naming, Early, Working
  <1> QED BY <1>0, <1>1, <1>2, <1>3, CallStep DEF Gates, Working, RollsBack

LEMMA DeletePromptKeeps ==
    ASSUME CreateInv, NEW c \in Calls, DeletePrompt(c)
    PROVE  CreateInv'
  <1>0. Typed /\ CallOK(c) /\ call \in [Calls -> CallType] /\ call[c].pc = "delete"
        /\ prompts \subseteq Calls /\ occupancy \subseteq Calls
    BY DEF CreateInv, Durable, Typed, WorkOK, DeletePrompt, At
  <1>1. LedgerOK' /\ Now' = Now
    BY <1>0, FaultOK DEF DeletePrompt, Typed
  <1>2. /\ call' \in [Calls -> CallType] /\ call'[c].job = call[c].job
        /\ \A d \in Calls : d # c => call'[d] = call[d]
        /\ call'[c].pc = "release" /\ (prompts' = prompts \ {c} \/ prompts' = prompts)
    BY <1>0, GoOK DEF DeletePrompt, Pcs, RollsBack
  <1>3. CallOK(c)'
    BY <1>0, <1>1, <1>2 DEF CallOK, DeletePrompt, Exists, RolledBack, RollsBack, Naming, Early, Working
  <1> QED BY <1>0, <1>1, <1>2, <1>3, CallStep DEF DeletePrompt, Working, RollsBack

LEMMA ReleaseKeeps ==
    ASSUME CreateInv, NEW c \in Calls, Release(c)
    PROVE  CreateInv'
  <1>0. Typed /\ CallOK(c) /\ call \in [Calls -> CallType] /\ call[c].pc = "release"
        /\ prompts \subseteq Calls /\ occupancy \subseteq Calls
    BY DEF CreateInv, Durable, Typed, WorkOK, Release, At
  <1>1. LedgerOK' /\ Now' = Now
    BY <1>0, FaultOK DEF Release, Typed
  <1>2. /\ call' \in [Calls -> CallType] /\ call'[c].job = call[c].job
        /\ \A d \in Calls : d # c => call'[d] = call[d]
        /\ call'[c].pc = "abandon" /\ (occupancy' = occupancy \ {c} \/ occupancy' = occupancy)
    BY <1>0, GoOK DEF Release, Pcs, RollsBack
  <1>3. CallOK(c)'
    BY <1>0, <1>1, <1>2 DEF CallOK, Release, Exists, RolledBack, RollsBack, Naming, Early, Working
  <1> QED BY <1>0, <1>1, <1>2, <1>3, CallStep DEF Release, Working, RollsBack

LEMMA LoadKeeps ==
    ASSUME CreateInv, NEW c \in Calls, Load(c)
    PROVE  CreateInv'
  <1>0. Typed /\ CallOK(c) /\ call \in [Calls -> CallType] /\ call[c].pc = "load"
        /\ prompts \subseteq Calls /\ occupancy \subseteq Calls
        /\ UNCHANGED <<setup, ledger, view, rows, prompts, occupancy, rendered, proc, crashes>>
    BY DEF CreateInv, Durable, Typed, WorkOK, Load, At, work
  <1>1. LedgerOK' /\ Now' = Now
    BY <1>0, JobsOK DEF Load, Typed
  <1>2. /\ call' \in [Calls -> CallType] /\ call'[c].job = call[c].job
        /\ \A d \in Calls : d # c => call'[d] = call[d]
        /\ call'[c].pc \in {"failed", "told", "enqueue"}
    BY <1>0, GoOK DEF Load, Pcs
  <1>3. CallOK(c)'
    BY <1>0, <1>1, <1>2 DEF CallOK, Exists, RolledBack, RollsBack, Naming, Early, Working
  <1> QED BY <1>0, <1>1, <1>2, <1>3, CallStep DEF Working, RollsBack

LEMMA EnqueueKeeps ==
    ASSUME CreateInv, NEW c \in Calls, Enqueue(c)
    PROVE  CreateInv'
  <1>0. /\ Typed /\ RecordOK /\ (\A d \in Calls : CallOK(d)) /\ (\A p \in Procs : ProcOK(p))
        /\ RenderedOK /\ Single /\ Now \in Records /\ call[c].pc = "enqueue" /\ CallOK(c)
        /\ call[c] \in CallType /\ proc \in [Procs -> ProcType]
        /\ UNCHANGED <<setup, rows, prompts, occupancy, rendered, crashes>>
    BY DEF CreateInv, Durable, Typed, LedgerOK, Enqueue, work, At
  <1>1. LedgerOK' /\ Now' = Now
    BY <1>0, FaultOK DEF Enqueue, Typed
  <1>2. /\ call' \in [Calls -> CallType] /\ call'[c].job = call[c].job
        /\ \A d \in Calls : d # c => call'[d] = call[d]
        /\ call'[c].pc \in {"mark", "failed"}
    BY <1>0, GoOK DEF Enqueue, Pcs, Typed
  <1>3. Exists(call[c].job) /\ call[c].proc \in Procs /\ call[c].job \in Calls
    BY <1>0 DEF CallOK, RecordOK, Naming, CallType
  <1>4. proc' \in [Procs -> ProcType] /\ \A p \in Procs : ProcOK(p)'
    <2>1. CASE UNCHANGED proc
      BY <1>0, <2>1, ProcsKept DEF Typed
    <2>2. CASE ~ UNCHANGED proc
      <3> DEFINE q == call[c].proc
                 next == [proc[q] EXCEPT !.queue = @ \cup {call[c].job}]
      <3>1. proc' = [proc EXCEPT ![q] = next]
        BY <2>2 DEF Enqueue
      <3>2. proc[q] \in ProcType
        BY <1>0, <1>3
      <3>3. next \in ProcType /\ next.todo = proc[q].todo /\ next.claim = proc[q].claim
            /\ next.queue = proc[q].queue \cup {call[c].job}
        BY <1>3, <3>2 DEF ProcType
      <3>4. q \in Procs
        BY <1>3
      <3> HIDE DEF next, q
      <3>5. /\ proc' \in [Procs -> ProcType] /\ proc'[q] = next
            /\ \A p \in Procs : p # q => proc'[p] = proc[p]
        BY <1>0, <3>1, <3>3, <3>4
      <3>6. ASSUME NEW p \in Procs PROVE ProcOK(p)'
        <4>1. ProcOK(p) /\ ProcOK(q)
          BY <1>0, <3>4
        <4> QED BY <1>0, <1>3, <3>3, <3>5, <4>1 DEF ProcOK, Exists
      <3> QED BY <3>5, <3>6
    <2> QED BY <2>1, <2>2
  <1>5. CallOK(c)'
    BY <1>0, <1>1, <1>2 DEF CallOK, Exists, RolledBack, RollsBack, Naming, Early, Working
  <1>6. ASSUME NEW d \in Calls PROVE CallOK(d)'
    <2>1. CASE d # c
      <3>1. CallOK(d) /\ call'[d] = call[d]
        BY <1>0, <1>2, <2>1
      <3> QED BY <1>0, <1>1, <3>1, OtherCall
    <2> QED BY <1>5, <2>1
  <1>7. RecordOK'
    BY <1>0, <1>1, RecordKept
  <1>8. RenderedOK'
    BY <1>0, RenderedKept DEF Typed, WorkOK
  <1>9. Single'
    <2>1. \A d \in Calls : call'[d].pc \in Working =>
             call[d].pc \in Working /\ (call'[d].pc = "complete" <=> call[d].pc = "complete")
      BY <1>2 DEF Working, RollsBack
    <2> QED BY <1>0, <1>1, <2>1, SingleKept
  <1>10. Typed'
    BY <1>0, <1>1, <1>2, <1>4 DEF Typed, SetupOK, WorkOK
  <1> QED BY <1>4, <1>6, <1>7, <1>8, <1>9, <1>10 DEF CreateInv, Durable

\* A row that is marked as published keeps its state.
LEMMA MarkOK ==
    ASSUME WorkOK, NEW j \in Calls, NEW outcome, MarkQueuePublished(j, outcome)
    PROVE  /\ rows' \in [Calls -> RowType]
           /\ \A i \in Calls : rows'[i].state = rows[i].state
           /\ Suffer("jobs", outcome) /\ UNCHANGED <<ledger, view>>
  <1>1. rows \in [Calls -> RowType] /\ rows[j] \in RowType
    BY DEF WorkOK
  <1> DEFINE row == [rows[j] EXCEPT !.published = TRUE]
  <1>2. row \in RowType /\ row.state = rows[j].state
    BY <1>1 DEF RowType
  <1>3. /\ rows' = rows \/ rows' = [rows EXCEPT ![j] = row]
        /\ Suffer("jobs", outcome) /\ UNCHANGED <<ledger, view>>
    BY DEF MarkQueuePublished, WriteRow
  <1> HIDE DEF row
  <1> QED BY <1>1, <1>2, <1>3

LEMMA PublishKeeps ==
    ASSUME CreateInv, NEW c \in Calls, Publish(c)
    PROVE  CreateInv'
  <1>0. /\ Typed /\ SetupOK /\ LedgerOK /\ WorkOK /\ RecordOK /\ (\A d \in Calls : CallOK(d))
        /\ (\A p \in Procs : ProcOK(p))
        /\ RenderedOK /\ Single /\ Now \in Records /\ call[c].pc = "mark" /\ CallOK(c)
        /\ call[c].job \in Calls
        /\ UNCHANGED <<setup, prompts, occupancy, proc, rendered, crashes>>
    BY DEF CreateInv, Durable, Typed, LedgerOK, Publish, work, At, CallType
  <1>1. PICK outcome \in Outcomes("jobs", TRUE) :
           /\ MarkQueuePublished(call[c].job, outcome)
           /\ IF outcome = "ok" THEN Go(c, "refresh") ELSE Answer(c, "failed")
    BY DEF Publish
  <1>2. /\ rows' \in [Calls -> RowType]
        /\ \A i \in Calls : rows'[i].state = rows[i].state
        /\ Suffer("jobs", outcome) /\ UNCHANGED <<ledger, view>>
    BY <1>0, <1>1, MarkOK
  <1>3. LedgerOK' /\ Now' = Now
    BY <1>0, <1>2, JobsOK
  <1>4. /\ call' \in [Calls -> CallType] /\ call'[c].job = call[c].job
        /\ \A d \in Calls : d # c => call'[d] = call[d]
        /\ call'[c].pc \in {"refresh", "failed"}
    BY <1>0, <1>1, GoOK DEF Pcs, Typed
  <1>5. CallOK(c)'
    BY <1>0, <1>2, <1>3, <1>4 DEF CallOK, Exists, RolledBack, RollsBack, Naming, Early, Working
  <1>6. ASSUME NEW d \in Calls PROVE CallOK(d)'
    <2>1. CASE d # c
      <3>1. CallOK(d) /\ call'[d] = call[d]
        BY <1>0, <1>4, <2>1
      <3> QED BY <1>0, <1>2, <1>3, <3>1, OtherCall
    <2> QED BY <1>5, <2>1
  <1>7. RecordOK' /\ RenderedOK' /\ \A p \in Procs : ProcOK(p)'
    BY <1>0, <1>2, <1>3, RecordKept, RenderedKept, ProcsKept DEF Typed, WorkOK
  <1>8. Single'
    <2>1. \A d \in Calls : call'[d].pc \in Working =>
             call[d].pc \in Working /\ (call'[d].pc = "complete" <=> call[d].pc = "complete")
      BY <1>4 DEF Working, RollsBack
    <2>2. \A j \in Calls : rows'[j].state = "none" <=> rows[j].state = "none"
      BY <1>2
    <2> QED BY <1>0, <1>3, <2>1, <2>2, SingleKept
  <1>9. Typed'
    BY <1>0, <1>2, <1>3, <1>4 DEF Typed, SetupOK, WorkOK
  <1> QED BY <1>6, <1>7, <1>8, <1>9 DEF CreateInv, Durable

LEMMA CreateRowKeeps ==
    ASSUME CreateInv, NEW c \in Calls, CreateRow(c)
    PROVE  CreateInv'
  <1>0. /\ Typed /\ SetupOK /\ LedgerOK /\ WorkOK /\ RecordOK /\ (\A d \in Calls : CallOK(d))
        /\ (\A p \in Procs : ProcOK(p)) /\ rows \in [Calls -> RowType]
        /\ RenderedOK /\ Single /\ Now \in Records /\ call[c].pc = "create" /\ CallOK(c)
        /\ UNCHANGED <<setup, prompts, occupancy, proc, rendered, crashes>>
    BY DEF CreateInv, Durable, Typed, LedgerOK, WorkOK, CreateRow, At
  <1>1. PICK outcome \in Outcomes("jobs", TRUE) :
           /\ WriteRow(c, NewRow, outcome)
           /\ Go(c, IF outcome = "ok" THEN "complete" ELSE "delete")
    BY DEF CreateRow
  <1>2. Suffer("jobs", outcome) /\ UNCHANGED <<ledger, view>>
    BY <1>1 DEF WriteRow
  <1>3. LedgerOK' /\ Now' = Now /\ (outcome = "kept" => "jobs" \in setup.kept)
    BY <1>0, <1>2, JobsOK
  <1>4. ~Exists(c) /\ call[c].job = c
    BY <1>0 DEF CallOK, Early, Working
  <1>5. /\ rows' \in [Calls -> RowType]
        /\ \A i \in Calls : i # c => rows'[i] = rows[i]
        /\ rows'[c].state = IF outcome \in {"ok", "kept"} THEN "queued" ELSE "none"
        /\ \A i \in Calls : rows[i].state # "none" => rows'[i].state # "none"
    BY <1>0, <1>1, <1>4 DEF WriteRow, NewRow, RowType, Exists
  <1>6. /\ call' \in [Calls -> CallType] /\ call'[c].job = call[c].job
        /\ \A d \in Calls : d # c => call'[d] = call[d]
        /\ call'[c].pc = IF outcome = "ok" THEN "complete" ELSE "delete"
    BY <1>0, <1>1, GoOK DEF Pcs, RollsBack, Typed
  <1>7. CallOK(c)'
    BY <1>0, <1>3, <1>4, <1>5, <1>6
       DEF CallOK, Exists, RolledBack, RollsBack, Naming, Early, Working
  <1>8. ASSUME NEW d \in Calls PROVE CallOK(d)'
    <2>1. CASE d # c
      <3>1. CallOK(d) /\ call'[d] = call[d] /\ rows'[d].state = rows[d].state
        BY <1>0, <1>5, <1>6, <2>1
      <3> QED BY <1>0, <1>3, <3>1, OtherCall
    <2> QED BY <1>7, <2>1
  <1>9. RecordOK' /\ RenderedOK' /\ \A p \in Procs : ProcOK(p)'
    BY <1>0, <1>3, <1>5, RecordKept, RenderedKept, ProcsKept DEF Typed, WorkOK
  <1>10. Single'
    <2> SUFFICES ASSUME "jobs" \notin setup.kept PROVE RowsOK' /\ \A d \in Calls : OwnerOK(d)'
      BY <1>0 DEF Single
    <2>1. RowsOK /\ \A d \in Calls : OwnerOK(d)
      BY <1>0 DEF Single
    <2>2. /\ Now.body = setup.body[c] /\ Now.state = "claimed"
          /\ \A d \in Calls : call[d].pc \in Working => d = c
          /\ \A j \in Calls : rows[j].state = "none"
      BY <1>0, <2>1 DEF OwnerOK, Working, Exists
    <2>3. \A j \in Calls : rows'[j].state # "none" => j = c /\ call'[c].pc = "complete"
      BY <1>3, <1>5, <1>6, <2>2
    <2>4. \A d \in Calls : call'[d].pc \in Working => d = c
      BY <1>6, <2>2
    <2>5. RowsOK'
      BY <1>3, <2>2, <2>3 DEF RowsOK, Exists
    <2>6. ASSUME NEW d \in Calls PROVE OwnerOK(d)'
      BY <1>0, <1>3, <2>2, <2>3, <2>4 DEF OwnerOK, Exists
    <2> QED BY <2>5, <2>6
  <1>11. Typed'
    BY <1>0, <1>3, <1>5, <1>6 DEF Typed, SetupOK, WorkOK
  <1> QED BY <1>8, <1>9, <1>10, <1>11 DEF CreateInv, Durable

\* The call that claims the key finds it free, or learns the job it names.
LEMMA ClaimKeeps ==
    ASSUME CreateInv, NEW c \in Calls, Claim(c)
    PROVE  CreateInv'
  <1>0. /\ Typed /\ SetupOK /\ LedgerOK /\ WorkOK /\ RecordOK /\ (\A d \in Calls : CallOK(d))
        /\ (\A p \in Procs : ProcOK(p)) /\ setup.body[c] \in Bodies
        /\ RenderedOK /\ Single /\ Now \in Records /\ call[c].pc = "idle" /\ CallOK(c)
        /\ UNCHANGED <<setup, rows, prompts, occupancy, proc, rendered, crashes>>
        /\ call \in [Calls -> CallType] /\ rows \in [Calls -> RowType]
    BY DEF CreateInv, Durable, Typed, LedgerOK, WorkOK, SetupOK, Claim, At, work
  <1> DEFINE body == setup.body[c]
  <1> DEFINE Claims(p, outcome) ==
               /\ Replay(p, ClaimEntries(Reloaded(p), body), outcome)
               /\ IF outcome # "ok" \/ Decision(Reloaded(p), body) \in {"progress", "conflict"}
                  THEN Answer(c, "failed")
                  ELSE call' = [call EXCEPT ![c] =
                           IF Decision(Reloaded(p), body) = "claimed"
                           THEN [pc |-> "admit", proc |-> p, job |-> c]
                           ELSE [pc |-> "load", proc |-> p, job |-> Reloaded(p).job]]
  <1>a. PICK p \in Serving : \E outcome \in Outcomes("replay", ClaimEntries(Reloaded(p), body) # <<>>) :
                               Claims(p, outcome)
    BY DEF Claim
  <1>1. PICK outcome \in Outcomes("replay", ClaimEntries(Reloaded(p), body) # <<>>) :
            Claims(p, outcome)
    BY <1>a
  <1>2. p \in Procs
    BY <1>0 DEF Serving, SetupOK
  <1>3. /\ LedgerOK' /\ Now' \in Records /\ Reloaded(p) = Now
        /\ Now' = Now \/ (Now.state = "none" /\ Now' = Claimed(body))
        /\ outcome = "ok" /\ Decision(Now, body) = "claimed" =>
              Now.state = "none" /\ Now' = Claimed(body)
        /\ Decision(Now, body) # "claimed" => Now' = Now
    BY <1>0, <1>1, <1>2, ClaimOK, Zenon
  <1>4. /\ call' \in [Calls -> CallType]
        /\ \A d \in Calls : d # c => call'[d] = call[d]
        /\ \/ call'[c].pc = "failed"
           \/ call'[c].pc = "admit" /\ call'[c].job = c /\ Now.state = "none" /\ Now' = Claimed(body)
           \/ /\ call'[c].pc = "load" /\ call'[c].job = Now.job
              /\ Now.state = "terminal" /\ Now.body = body /\ Now' = Now
    <2>1. CASE outcome # "ok" \/ Decision(Now, body) \in {"progress", "conflict"}
      <3>1. Answer(c, "failed")
        BY <1>1, <1>3, <2>1
      <3> QED BY <1>0, <3>1, GoOK DEF Pcs
    <2>2. CASE outcome = "ok" /\ Decision(Now, body) = "claimed"
      <3>1. call' = [call EXCEPT ![c] = [pc |-> "admit", proc |-> p, job |-> c]]
        BY <1>1, <1>3, <2>2
      <3> QED BY <1>0, <1>2, <1>3, <2>2, <3>1 DEF CallType, Pcs
    <2>3. CASE outcome = "ok" /\ Decision(Now, body) \notin {"progress", "conflict", "claimed"}
      <3>1. call' = [call EXCEPT ![c] = [pc |-> "load", proc |-> p, job |-> Now.job]]
        BY <1>1, <1>3, <2>3
      <3>2. Now.state = "terminal" /\ Now.body = body
        BY <2>3 DEF Decision
      <3>3. Now.job \in Calls
        BY <1>0, <3>2 DEF Records
      <3> QED BY <1>0, <1>2, <1>3, <2>3, <3>1, <3>2, <3>3 DEF CallType, Pcs
    <2> QED BY <2>1, <2>2, <2>3
  <1> HIDE DEF body
  <1>5. CallOK(c)'
    BY <1>0, <1>3, <1>4 DEF CallOK, Exists, RolledBack, RollsBack, Naming, Early, Working, body
  <1>6. ASSUME NEW d \in Calls PROVE CallOK(d)'
    <2>1. CASE d # c
      <3>1. CallOK(d) /\ call'[d] = call[d]
        BY <1>0, <1>4, <2>1
      <3>2. Now.state = "terminal" => Now' = Now
        BY <1>3
      <3> QED BY <1>0, <3>1, <3>2, OtherCall
    <2> QED BY <1>5, <2>1
  <1>7. RecordOK'
    <2>1. CASE Now' = Now
      BY <1>0, <2>1, RecordKept
    <2>2. CASE Now' = Claimed(body)
      BY <2>2 DEF RecordOK, Claimed
    <2> QED BY <1>3, <2>1, <2>2
  <1>8. RenderedOK' /\ \A q \in Procs : ProcOK(q)'
    BY <1>0, RenderedKept, ProcsKept DEF Typed, WorkOK
  <1>9. Single'
    <2>1. CASE Now' = Now /\ call'[c].pc # "admit"
      <3>1. \A d \in Calls : call'[d].pc \in Working =>
               call[d].pc \in Working /\ (call'[d].pc = "complete" <=> call[d].pc = "complete")
        BY <1>4, <2>1 DEF Working, RollsBack
      <3> QED BY <1>0, <2>1, <3>1, SingleKept
    <2>2. CASE Now.state = "none" /\ Now' = Claimed(body)
      <3> SUFFICES ASSUME "jobs" \notin setup.kept PROVE RowsOK' /\ \A d \in Calls : OwnerOK(d)'
        BY <1>0 DEF Single
      <3>1. RowsOK /\ \A d \in Calls : OwnerOK(d)
        BY <1>0 DEF Single
      <3>2. \A d \in Calls : rows[d].state = "none" /\ call[d].pc \notin Working
        BY <2>2, <3>1 DEF OwnerOK, RowsOK, Exists
      <3>3. RowsOK'
        BY <1>0, <3>2 DEF RowsOK, Exists
      <3>4. \A d \in Calls : call'[d].pc \in Working => d = c
        BY <1>4, <3>2
      <3>5. \A d \in Calls : rows'[d].state = "none"
        BY <1>0, <3>2
      <3>6. Now'.state = "claimed" /\ Now'.body = setup'.body[c]
        BY <1>0, <2>2 DEF Claimed, body
      <3>7. ASSUME NEW d \in Calls PROVE OwnerOK(d)'
        BY <3>4, <3>5, <3>6 DEF OwnerOK, Exists
      <3> QED BY <3>3, <3>7
    <2> QED BY <1>3, <1>4, <2>1, <2>2
  <1>10. Typed'
    BY <1>0, <1>3, <1>4 DEF Typed, SetupOK, WorkOK
  <1> QED BY <1>6, <1>7, <1>8, <1>9, <1>10 DEF CreateInv, Durable

LEMMA CompleteKeeps ==
    ASSUME CreateInv, NEW c \in Calls, Complete(c)
    PROVE  CreateInv'
  <1>0. /\ Typed /\ SetupOK /\ LedgerOK /\ WorkOK /\ RecordOK /\ (\A d \in Calls : CallOK(d))
        /\ (\A p \in Procs : ProcOK(p)) /\ setup.body[c] \in Bodies
        /\ RenderedOK /\ Single /\ Now \in Records /\ call[c].pc = "complete" /\ CallOK(c)
        /\ UNCHANGED <<setup, rows, prompts, occupancy, proc, rendered, crashes>>
        /\ call \in [Calls -> CallType] /\ rows \in [Calls -> RowType]
    BY DEF CreateInv, Durable, Typed, LedgerOK, WorkOK, SetupOK, Complete, At, work
  <1> DEFINE body == setup.body[c]
             p == call[c].proc
  <1>1. PICK outcome \in Outcomes("replay", CompleteEntries(Reloaded(p), body, c) # <<>>) :
           /\ Replay(p, CompleteEntries(Reloaded(p), body, c), outcome)
           /\ IF outcome = "ok" /\ CompleteEntries(Reloaded(p), body, c) # <<>>
              THEN Go(c, "enqueue") ELSE Answer(c, "failed")
    BY DEF Complete
  <1>2. p \in Procs
    BY <1>0 DEF CallType
  <1> HIDE DEF body, p
  <1>3. /\ LedgerOK' /\ Now' \in Records /\ Reloaded(p) = Now
        /\ Now' = Now \/ (Completes(Now, body, c) /\ Now' = Terminal(body, c))
        /\ outcome = "ok" /\ CompleteEntries(Now, body, c) # <<>> =>
              Completes(Now, body, c) /\ Now' = Terminal(body, c)
    BY <1>0, <1>1, <1>2, CompleteOK, Zenon DEF body
  <1>4. Now.state = "terminal" => Now' = Now
    BY <1>0, <1>3 DEF Completes, Terminal, Records
  <1>5. Exists(c) /\ call[c].job = c
    BY <1>0 DEF CallOK, Working
  <1>6. /\ call' \in [Calls -> CallType] /\ call'[c].job = c
        /\ \A d \in Calls : d # c => call'[d] = call[d]
        /\ \/ call'[c].pc = "enqueue" /\ Now' = Terminal(body, c)
           \/ call'[c].pc = "failed"
    BY <1>0, <1>1, <1>3, <1>5, GoOK DEF Pcs
  <1>7. CallOK(c)'
    BY <1>0, <1>4, <1>5, <1>6
       DEF CallOK, Exists, RolledBack, RollsBack, Naming, Early, Working, Terminal, body
  <1>8. ASSUME NEW d \in Calls PROVE CallOK(d)'
    <2>1. CASE d # c
      <3>1. CallOK(d) /\ call'[d] = call[d]
        BY <1>0, <1>6, <2>1
      <3> QED BY <1>0, <1>4, <3>1, OtherCall
    <2> QED BY <1>7, <2>1
  <1>9. RecordOK'
    <2>1. CASE Now' = Now
      BY <1>0, <2>1, RecordKept
    <2>2. CASE Now' = Terminal(body, c)
      BY <1>0, <1>5, <2>2 DEF RecordOK, Terminal, Exists, body
    <2> QED BY <1>3, <2>1, <2>2
  <1>10. RenderedOK' /\ \A q \in Procs : ProcOK(q)'
    BY <1>0, RenderedKept, ProcsKept DEF Typed, WorkOK
  <1>11. Single'
    <2> SUFFICES ASSUME "jobs" \notin setup.kept PROVE RowsOK' /\ \A d \in Calls : OwnerOK(d)'
      BY <1>0 DEF Single
    <2>1. RowsOK /\ \A d \in Calls : OwnerOK(d)
      BY <1>0 DEF Single
    <2>2. \A d \in Calls : call[d].pc \in Working => d = c
      BY <1>0, <2>1 DEF OwnerOK, Working
    <2>3. \A d \in Calls : call'[d].pc \notin Working
      BY <1>6, <2>2 DEF Working, RollsBack
    <2>4. Now.state # "none" => Now'.state # "none"
      BY <1>3 DEF Terminal
    <2>5. RowsOK'
      BY <1>0, <2>1, <2>4 DEF RowsOK, Exists
    <2> QED BY <2>3, <2>5 DEF OwnerOK
  <1>12. Typed'
    BY <1>0, <1>3, <1>6 DEF Typed, SetupOK, WorkOK
  <1> QED BY <1>8, <1>9, <1>10, <1>11, <1>12 DEF CreateInv, Durable

\* A call that gives its claim back leaves no row of it behind.
LEMMA AbandonKeeps ==
    ASSUME CreateInv, NEW c \in Calls, Abandon(c)
    PROVE  CreateInv'
  <1>0. /\ Typed /\ SetupOK /\ LedgerOK /\ WorkOK /\ RecordOK /\ (\A d \in Calls : CallOK(d))
        /\ (\A p \in Procs : ProcOK(p)) /\ setup.body[c] \in Bodies
        /\ RenderedOK /\ Single /\ Now \in Records /\ call[c].pc = "abandon" /\ CallOK(c)
        /\ UNCHANGED <<setup, rows, prompts, occupancy, proc, rendered, crashes>>
        /\ call \in [Calls -> CallType] /\ rows \in [Calls -> RowType]
    BY DEF CreateInv, Durable, Typed, LedgerOK, WorkOK, SetupOK, Abandon, At, work
  <1> DEFINE body == setup.body[c]
             p == call[c].proc
  <1>1. PICK outcome \in Outcomes("replay", AbandonEntries(Reloaded(p), body) # <<>>) :
           Replay(p, AbandonEntries(Reloaded(p), body), outcome)
    BY DEF Abandon
  <1>2. p \in Procs
    BY <1>0 DEF CallType
  <1> HIDE DEF body, p
  <1>3. /\ LedgerOK' /\ Now' \in Records
        /\ Now' = Now \/ (Pending(Now, body) /\ Now' = NoRecord)
    BY <1>0, <1>1, <1>2, AbandonOK, Zenon DEF body
  <1>4. Now.state = "terminal" => Now' = Now
    BY <1>3 DEF Pending
  <1>5. /\ call' \in [Calls -> CallType] /\ call'[c].job = call[c].job
        /\ \A d \in Calls : d # c => call'[d] = call[d]
        /\ call'[c].pc = "rolledback"
    BY <1>0, GoOK DEF Pcs, Abandon
  <1>6. CallOK(c)'
    BY <1>0, <1>4, <1>5
       DEF CallOK, Exists, RolledBack, RollsBack, Naming, Early, Working
  <1>7. ASSUME NEW d \in Calls PROVE CallOK(d)'
    <2>1. CASE d # c
      <3>1. CallOK(d) /\ call'[d] = call[d]
        BY <1>0, <1>5, <2>1
      <3> QED BY <1>0, <1>4, <3>1, OtherCall
    <2> QED BY <1>6, <2>1
  <1>8. RecordOK'
    <2>1. CASE Now' = Now
      BY <1>0, <2>1, RecordKept
    <2>2. CASE Now' = NoRecord
      BY <2>2, NoRecordOK DEF RecordOK
    <2> QED BY <1>3, <2>1, <2>2
  <1>9. RenderedOK' /\ \A q \in Procs : ProcOK(q)'
    BY <1>0, RenderedKept, ProcsKept DEF Typed, WorkOK
  <1>10. Single'
    <2> SUFFICES ASSUME "jobs" \notin setup.kept PROVE RowsOK' /\ \A d \in Calls : OwnerOK(d)'
      BY <1>0 DEF Single
    <2>1. \A d \in Calls : OwnerOK(d)
      BY <1>0 DEF Single
    <2>2. /\ \A d \in Calls : call[d].pc \in Working => d = c
          /\ \A d \in Calls : rows[d].state = "none"
      BY <1>0, <2>1 DEF OwnerOK, Working, RollsBack, Exists
    <2>3. \A d \in Calls : call'[d].pc \notin Working
      BY <1>5, <2>2 DEF Working, RollsBack
    <2>4. RowsOK'
      BY <1>0, <2>2 DEF RowsOK, Exists
    <2> QED BY <2>3, <2>4 DEF OwnerOK
  <1>11. Typed'
    BY <1>0, <1>3, <1>5 DEF Typed, SetupOK, WorkOK
  <1> QED BY <1>7, <1>8, <1>9, <1>10, <1>11 DEF CreateInv, Durable

\* Completing again what is complete changes nothing.
LEMMA RefreshKeeps ==
    ASSUME CreateInv, NEW c \in Calls, Refresh(c)
    PROVE  CreateInv'
  <1>0. /\ Typed /\ SetupOK /\ LedgerOK /\ setup.body[c] \in Bodies
        /\ Now \in Records /\ call[c].pc = "refresh" /\ CallOK(c)
        /\ UNCHANGED <<setup, rows, prompts, occupancy, proc, rendered, crashes>>
        /\ call \in [Calls -> CallType] /\ prompts \subseteq Calls /\ occupancy \subseteq Calls
    BY DEF CreateInv, Durable, Typed, LedgerOK, WorkOK, SetupOK, Refresh, At, work
  <1> DEFINE body == setup.body[c]
             p == call[c].proc
             j == call[c].job
  <1>1. PICK outcome \in Outcomes("replay", CompleteEntries(Reloaded(p), body, j) # <<>>) :
           Replay(p, CompleteEntries(Reloaded(p), body, j), outcome)
    BY DEF Refresh
  <1>2. p \in Procs /\ j \in Calls
    BY <1>0 DEF CallType
  <1>3. Now.state = "terminal" /\ Now.job = j /\ Now.body = body
    BY <1>0 DEF CallOK, Naming
  <1> HIDE DEF body, p, j
  <1>4. /\ LedgerOK'
        /\ Now' = Now \/ Now' = Terminal(body, j)
    BY <1>0, <1>1, <1>2, CompleteOK, Zenon DEF body
  <1>5. Now' = Now
    BY <1>0, <1>3, <1>4 DEF Terminal, Records
  <1>6. /\ call' \in [Calls -> CallType] /\ call'[c].job = call[c].job
        /\ \A d \in Calls : d # c => call'[d] = call[d]
        /\ call'[c].pc = "told"
    BY <1>0, GoOK DEF Pcs, Refresh
  <1>7. CallOK(c)'
    BY <1>0, <1>5, <1>6
       DEF CallOK, Exists, RolledBack, RollsBack, Naming, Early, Working
  <1> QED BY <1>0, <1>4, <1>5, <1>6, <1>7, CallStep DEF Working, RollsBack

-----------------------------------------------------------------------------
(* Processes *)

\* A step of a process that changes neither the record nor a call nor the state of a row.
LEMMA ProcStep ==
    ASSUME CreateInv, UNCHANGED <<setup, call, prompts, occupancy, rendered, crashes>>,
           LedgerOK', Now' = Now, rows' \in [Calls -> RowType],
           \A j \in Calls : rows'[j].state = rows[j].state,
           proc' \in [Procs -> ProcType], \A p \in Procs : ProcOK(p)'
    PROVE  CreateInv'
  <1>0. Typed /\ RecordOK /\ (\A d \in Calls : CallOK(d)) /\ RenderedOK /\ Single /\ Now \in Records
    BY DEF CreateInv, Durable, Typed, LedgerOK
  <1>1. ASSUME NEW d \in Calls PROVE CallOK(d)'
    <2>1. CallOK(d) /\ call'[d] = call[d] /\ rows'[d].state = rows[d].state
      BY <1>0
    <2> QED BY <2>1, OtherCall
  <1>2. RecordOK' /\ RenderedOK'
    BY <1>0, RecordKept, RenderedKept DEF Typed, WorkOK
  <1>3. Single'
    BY <1>0, SingleKept
  <1>4. Typed'
    BY <1>0 DEF Typed, SetupOK, WorkOK
  <1> QED BY <1>1, <1>2, <1>3, <1>4 DEF CreateInv, Durable

\* One process changes, to something that knows only jobs with a row.
LEMMA OneProc ==
    ASSUME proc \in [Procs -> ProcType], \A q \in Procs : ProcOK(q),
           NEW p \in Procs, NEW next \in ProcType, Becomes(p, next),
           \A j \in Calls : rows[j].state # "none" => rows'[j].state # "none",
           \A t \in next.todo : Exists(t.job),
           next.claim # NoCall => Exists(next.claim),
           \A j \in next.queue : Exists(j)
    PROVE  proc' \in [Procs -> ProcType] /\ \A q \in Procs : ProcOK(q)'
  <1>1. /\ proc' \in [Procs -> ProcType] /\ proc'[p] = next
        /\ \A q \in Procs : q # p => proc'[q] = proc[q]
    BY BecomesOK
  <1>2. ASSUME NEW q \in Procs PROVE ProcOK(q)'
    <2>1. CASE q = p
      <3>1. /\ \A t \in next.todo : t.job \in Calls
            /\ next.claim # NoCall => next.claim \in Calls
            /\ \A j \in next.queue : j \in Calls
        BY DEF ProcType
      <3> QED BY <1>1, <2>1, <3>1 DEF ProcOK, Exists
    <2>2. CASE q # p
      <3>1. proc'[q] = proc[q] /\ proc[q] \in ProcType /\ ProcOK(q)
        BY <1>1, <2>2
      <3> QED BY <3>1 DEF ProcOK, ProcType, Exists
    <2> QED BY <2>1, <2>2
  <1> QED BY <1>1, <1>2

LEMMA EnterKeeps ==
    ASSUME CreateInv, NEW p \in Procs, NEW phase \in Phases, NEW sound \in BOOLEAN,
           Enter(p, phase, sound)
    PROVE  CreateInv'
  <1>0. /\ Typed /\ SetupOK /\ LedgerOK /\ (\A q \in Procs : ProcOK(q))
        /\ UNCHANGED <<setup, ledger, view, rows, prompts, occupancy, rendered, call, crashes>>
        /\ proc \in [Procs -> ProcType] /\ rows \in [Calls -> RowType]
    BY DEF CreateInv, Durable, Typed, WorkOK, Enter, work
  <1>1. PICK outcome \in Outcomes("jobs", FALSE) :
           /\ Suffer("jobs", outcome)
           /\ Becomes(p, [proc[p] EXCEPT !.phase = phase, !.sound = sound /\ outcome = "ok",
                             !.todo = IF outcome = "ok" THEN Candidates ELSE {}])
    BY Zenon DEF Enter
  <1>2. LedgerOK' /\ Now' = Now
    BY <1>0, <1>1, JobsOK
  <1> DEFINE todo == IF outcome = "ok" THEN Candidates ELSE {}
             next == [proc[p] EXCEPT !.phase = phase, !.sound = sound /\ outcome = "ok", !.todo = todo]
  <1>3. todo \in SUBSET [job : Calls, published : BOOLEAN] /\ \A t \in todo : Exists(t.job)
    BY <1>0 DEF Candidates, RowType, Exists
  <1> HIDE DEF todo
  <1>4. proc[p] \in ProcType /\ ProcOK(p)
    BY <1>0
  <1>5. /\ next \in ProcType /\ next.todo = todo /\ next.claim = proc[p].claim
        /\ next.queue = proc[p].queue
    BY <1>3, <1>4 DEF ProcType
  <1>6. Becomes(p, next)
    BY <1>1 DEF todo
  <1> HIDE DEF next
  <1>7. /\ \A t \in next.todo : Exists(t.job)
        /\ next.claim # NoCall => Exists(next.claim)
        /\ \A j \in next.queue : Exists(j)
    BY <1>3, <1>4, <1>5 DEF ProcOK
  <1>8. proc' \in [Procs -> ProcType] /\ \A q \in Procs : ProcOK(q)'
    BY <1>0, <1>5, <1>6, <1>7, OneProc
  <1> QED BY <1>0, <1>2, <1>8, ProcStep

\* Reconciliation claims the key for a job with a row, or finds it claimed or completed.
LEMMA ReconcileClaimKeeps ==
    ASSUME CreateInv, NEW p \in Procs, ReconcileClaim(p)
    PROVE  CreateInv'
  <1>0. /\ Typed /\ SetupOK /\ LedgerOK /\ WorkOK /\ RecordOK /\ (\A d \in Calls : CallOK(d))
        /\ (\A q \in Procs : ProcOK(q)) /\ proc \in [Procs -> ProcType] /\ proc[p] \in ProcType
        /\ ProcOK(p) /\ RenderedOK /\ Single /\ Now \in Records
        /\ UNCHANGED <<setup, rows, prompts, occupancy, rendered, call, crashes>>
    BY DEF CreateInv, Durable, Typed, LedgerOK, ReconcileClaim, work
  <1> DEFINE Next1(t) ==
               LET j == t.job
                   record == Reloaded(p)
                   decision == Decision(record, setup.body[j])
               IN  \E outcome \in Outcomes("replay", ClaimEntries(record, setup.body[j]) # <<>>) :
                     /\ Replay(p, ClaimEntries(record, setup.body[j]), outcome)
                     /\ Becomes(p,
                          IF outcome = "ok" /\ decision \in {"claimed", "progress"}
                          THEN [proc[p] EXCEPT !.todo = @ \ {t}, !.claim = j]
                          ELSE IF outcome = "ok" /\ decision = "terminal" /\ record.job = j
                          THEN [proc[p] EXCEPT !.todo = @ \ {t}]
                          ELSE Fails(p))
  <1>1. PICK t \in proc[p].todo : Next1(t)
    BY Zenon DEF ReconcileClaim
  <1>2. t.job \in Calls /\ Exists(t.job) /\ setup.body[t.job] \in Bodies
    BY <1>0 DEF ProcType, ProcOK, SetupOK
  <1> DEFINE j == t.job
             body == setup.body[j]
             decision == Decision(Reloaded(p), body)
  <1>3. PICK outcome \in Outcomes("replay", ClaimEntries(Reloaded(p), body) # <<>>) :
           /\ Replay(p, ClaimEntries(Reloaded(p), body), outcome)
           /\ Becomes(p,
                IF outcome = "ok" /\ decision \in {"claimed", "progress"}
                THEN [proc[p] EXCEPT !.todo = @ \ {t}, !.claim = j]
                ELSE IF outcome = "ok" /\ decision = "terminal" /\ Reloaded(p).job = j
                THEN [proc[p] EXCEPT !.todo = @ \ {t}]
                ELSE Fails(p))
    BY <1>1
  <1> HIDE DEF Next1, j, body, decision
  <1>4. j \in Calls /\ Exists(j) /\ body \in Bodies
    BY <1>2 DEF j, body
  <1>5. /\ LedgerOK' /\ Now' \in Records
        /\ Now' = Now \/ (Now.state = "none" /\ Now' = Claimed(body))
    BY <1>0, <1>3, <1>4, ClaimOK, Zenon
  <1>6. proc' \in [Procs -> ProcType] /\ \A q \in Procs : ProcOK(q)'
    <2>1. \A i \in Calls : rows[i].state # "none" => rows'[i].state # "none"
      BY <1>0
    <2>2. PICK next : Becomes(p, next) /\
             next \in {[proc[p] EXCEPT !.todo = @ \ {t}, !.claim = j],
                       [proc[p] EXCEPT !.todo = @ \ {t}], Fails(p)}
      BY <1>3
    <2>3. /\ next \in ProcType /\ next.todo \subseteq proc[p].todo
          /\ next.claim \in {j, NoCall, proc[p].claim} /\ next.queue = proc[p].queue
      BY <1>0, <1>4, <2>2 DEF ProcType, Fails
    <2>4. /\ \A s \in next.todo : Exists(s.job)
          /\ next.claim # NoCall => Exists(next.claim)
          /\ \A i \in next.queue : Exists(i)
      BY <1>0, <1>4, <2>3 DEF ProcOK
    <2> QED BY <1>0, <2>1, <2>2, <2>3, <2>4, OneProc
  <1>7. CASE Now' = Now
    <2>1. rows' \in [Calls -> RowType] /\ \A i \in Calls : rows'[i].state = rows[i].state
      BY <1>0 DEF WorkOK
    <2> QED BY <1>0, <1>5, <1>6, <1>7, <2>1, ProcStep
  <1>8. CASE Now.state = "none" /\ Now' = Claimed(body)
    <2>1. ASSUME NEW d \in Calls PROVE CallOK(d)'
      <3>1. CallOK(d) /\ call'[d] = call[d] /\ rows'[d].state = rows[d].state
            /\ (Now.state = "terminal" => Now' = Now)
        BY <1>0, <1>8
      <3> QED BY <1>0, <3>1, OtherCall
    <2>2. RecordOK'
      BY <1>8 DEF RecordOK, Claimed
    <2>3. RenderedOK'
      BY <1>0, RenderedKept DEF WorkOK
    <2>4. Single'
      <3>1. "jobs" \in setup.kept
        BY <1>0, <1>4, <1>8 DEF Single, RowsOK
      <3> QED BY <1>0, <3>1 DEF Single
    <2>5. Typed'
      BY <1>0, <1>5, <1>6 DEF Typed, SetupOK, WorkOK
    <2> QED BY <1>6, <2>1, <2>2, <2>3, <2>4, <2>5 DEF CreateInv, Durable
  <1> QED BY <1>5, <1>7, <1>8

LEMMA ReconcileCompleteKeeps ==
    ASSUME CreateInv, NEW p \in Procs, ReconcileComplete(p)
    PROVE  CreateInv'
  <1>0. /\ Typed /\ SetupOK /\ LedgerOK /\ WorkOK /\ RecordOK /\ (\A d \in Calls : CallOK(d))
        /\ (\A q \in Procs : ProcOK(q)) /\ proc \in [Procs -> ProcType] /\ proc[p] \in ProcType
        /\ ProcOK(p) /\ RenderedOK /\ Single /\ Now \in Records
        /\ UNCHANGED <<setup, rows, prompts, occupancy, rendered, call, crashes>>
    BY DEF CreateInv, Durable, Typed, LedgerOK, ReconcileComplete, work
  <1> DEFINE j == proc[p].claim
             body == setup.body[j]
  <1>1. PICK outcome \in Outcomes("replay", CompleteEntries(Reloaded(p), body, j) # <<>>) :
           /\ Replay(p, CompleteEntries(Reloaded(p), body, j), outcome)
           /\ Becomes(p, IF outcome = "ok" /\ CompleteEntries(Reloaded(p), body, j) # <<>>
                         THEN [proc[p] EXCEPT !.claim = NoCall] ELSE Fails(p))
    BY DEF ReconcileComplete
  <1>2. j \in Calls /\ Exists(j) /\ body \in Bodies
    BY <1>0 DEF ProcType, ProcOK, SetupOK, ReconcileComplete
  <1> HIDE DEF j, body
  <1>3. /\ LedgerOK' /\ Now' \in Records
        /\ Now' = Now \/ (Completes(Now, body, j) /\ Now' = Terminal(body, j))
    BY <1>0, <1>1, <1>2, CompleteOK, Zenon
  <1>4. Now.state = "terminal" => Now' = Now
    BY <1>0, <1>3 DEF Completes, Terminal, Records
  <1>5. proc' \in [Procs -> ProcType] /\ \A q \in Procs : ProcOK(q)'
    <2>1. \A i \in Calls : rows[i].state # "none" => rows'[i].state # "none"
      BY <1>0
    <2>2. PICK next : Becomes(p, next) /\ next \in {[proc[p] EXCEPT !.claim = NoCall], Fails(p)}
      BY <1>1
    <2>3. /\ next \in ProcType /\ next.todo \subseteq proc[p].todo
          /\ next.claim = NoCall /\ next.queue = proc[p].queue
      BY <1>0, <2>2 DEF ProcType, Fails
    <2>4. /\ \A s \in next.todo : Exists(s.job)
          /\ \A i \in next.queue : Exists(i)
      BY <1>0, <2>3 DEF ProcOK
    <2> QED BY <1>0, <2>1, <2>2, <2>3, <2>4, OneProc
  <1>6. ASSUME NEW d \in Calls PROVE CallOK(d)'
    <2>1. CallOK(d) /\ call'[d] = call[d] /\ rows'[d].state = rows[d].state
      BY <1>0
    <2> QED BY <1>0, <1>4, <2>1, OtherCall
  <1>7. RecordOK'
    <2>1. CASE Now' = Now
      BY <1>0, <2>1, RecordKept
    <2>2. CASE Now' = Terminal(body, j)
      BY <1>0, <1>2, <2>2 DEF RecordOK, Terminal, Exists, body
    <2> QED BY <1>3, <2>1, <2>2
  <1>8. RenderedOK'
    BY <1>0, RenderedKept DEF WorkOK
  <1>9. Single'
    <2> SUFFICES ASSUME "jobs" \notin setup.kept PROVE RowsOK' /\ \A d \in Calls : OwnerOK(d)'
      BY <1>0 DEF Single
    <2>1. RowsOK /\ \A d \in Calls : OwnerOK(d)
      BY <1>0 DEF Single
    <2>2. Now.state # "none" => Now'.state # "none"
      BY <1>3 DEF Terminal
    <2>3. RowsOK'
      BY <1>0, <2>1, <2>2 DEF RowsOK, Exists
    <2>4. ASSUME NEW d \in Calls PROVE OwnerOK(d)'
      <3>1. CASE Now' = Now
        BY <1>0, <2>1, <3>1 DEF OwnerOK, Exists
      <3>2. CASE Now' = Terminal(body, j)
        <4>1. OwnerOK(d) /\ (call[d].pc \in Working => j = d /\ call[d].pc = "complete")
          BY <1>2, <2>1 DEF OwnerOK
        <4> QED BY <1>0, <3>2, <4>1 DEF OwnerOK, Exists, Terminal, body
      <3> QED BY <1>3, <3>1, <3>2
    <2> QED BY <2>3, <2>4
  <1>10. Typed'
    BY <1>0, <1>3, <1>5 DEF Typed, SetupOK, WorkOK
  <1> QED BY <1>5, <1>6, <1>7, <1>8, <1>9, <1>10 DEF CreateInv, Durable

LEMMA RecoverKeeps ==
    ASSUME CreateInv, NEW p \in Procs, Recover(p)
    PROVE  CreateInv'
  <1>0. /\ Typed /\ SetupOK /\ LedgerOK /\ WorkOK /\ (\A q \in Procs : ProcOK(q))
        /\ proc \in [Procs -> ProcType] /\ proc[p] \in ProcType /\ ProcOK(p)
        /\ rows \in [Calls -> RowType]
    BY DEF CreateInv, Durable, Typed, WorkOK
  <1>a. UNCHANGED <<setup, prompts, occupancy, rendered, call, crashes>>
    BY Zenon DEF Recover
  <1> DEFINE Armed(t) == [proc[p] EXCEPT !.todo = @ \ {t}, !.queue = @ \cup {t.job}]
  <1>1. PICK t \in proc[p].todo :
           \/ t.published /\ Becomes(p, Armed(t)) /\ UNCHANGED <<stores, rows>>
           \/ /\ ~t.published
              /\ \E outcome \in Outcomes("jobs", TRUE) :
                    /\ MarkQueuePublished(t.job, outcome)
                    /\ Becomes(p, [Armed(t) EXCEPT !.sound = @ /\ outcome = "ok"])
    BY Zenon DEF Recover
  <1>2. t.job \in Calls /\ Exists(t.job)
    BY <1>0 DEF ProcType, ProcOK
  <1>3. /\ LedgerOK' /\ Now' = Now /\ rows' \in [Calls -> RowType]
        /\ \A i \in Calls : rows'[i].state = rows[i].state
    <2>1. CASE UNCHANGED <<stores, rows>>
      BY <1>0, <1>a, <2>1, FaultOK
    <2>2. CASE \E outcome \in Outcomes("jobs", TRUE) : MarkQueuePublished(t.job, outcome)
      <3>1. PICK outcome \in Outcomes("jobs", TRUE) : MarkQueuePublished(t.job, outcome)
        BY <2>2
      <3>2. /\ rows' \in [Calls -> RowType]
            /\ \A i \in Calls : rows'[i].state = rows[i].state
            /\ Suffer("jobs", outcome) /\ UNCHANGED <<ledger, view>>
        BY <1>0, <1>2, <3>1, MarkOK
      <3> QED BY <1>0, <1>a, <3>2, JobsOK
    <2> QED BY <1>1, <2>1, <2>2, Zenon
  <1>4. PICK sound \in BOOLEAN : Becomes(p, [Armed(t) EXCEPT !.sound = sound])
    <2>1. Armed(t) = [Armed(t) EXCEPT !.sound = Armed(t).sound] /\ Armed(t).sound \in BOOLEAN
          /\ DOMAIN Armed(t) = {"phase", "todo", "claim", "sound", "queue"}
      BY <1>0 DEF ProcType
    <2>2. CASE Becomes(p, Armed(t))
      BY <2>1, <2>2, Zenon
    <2>3. CASE \E outcome \in Outcomes("jobs", TRUE) :
                  Becomes(p, [Armed(t) EXCEPT !.sound = @ /\ outcome = "ok"])
      <3>1. PICK outcome \in Outcomes("jobs", TRUE) :
               Becomes(p, [Armed(t) EXCEPT !.sound = @ /\ outcome = "ok"])
        BY <2>3, Zenon
      <3>2. (Armed(t).sound /\ outcome = "ok") \in BOOLEAN
        OBVIOUS
      <3> HIDE DEF Armed
      <3> QED BY <3>1, <3>2, Zenon
    <2> QED BY <1>1, <2>2, <2>3, Zenon
  <1> DEFINE next == [Armed(t) EXCEPT !.sound = sound]
  <1>5. /\ next \in ProcType /\ next.todo \subseteq proc[p].todo /\ next.claim = proc[p].claim
        /\ next.queue = proc[p].queue \cup {t.job}
    BY <1>0, <1>2, <1>4 DEF ProcType
  <1>6. Becomes(p, next)
    BY <1>4
  <1> HIDE DEF next, Armed
  <1>7. /\ \A s \in next.todo : Exists(s.job)
        /\ next.claim # NoCall => Exists(next.claim)
        /\ \A i \in next.queue : Exists(i)
    BY <1>0, <1>2, <1>5 DEF ProcOK
  <1>8. \A i \in Calls : rows[i].state # "none" => rows'[i].state # "none"
    BY <1>3
  <1>9. proc' \in [Procs -> ProcType] /\ \A q \in Procs : ProcOK(q)'
    BY <1>0, <1>5, <1>6, <1>7, <1>8, OneProc
  <1> QED BY <1>0, <1>a, <1>3, <1>9, ProcStep

\* Only the phase of a process changes.
LEMMA PhaseKeeps ==
    ASSUME CreateInv, NEW p \in Procs, NEW phase \in Phases,
           Becomes(p, [proc[p] EXCEPT !.phase = phase]),
           UNCHANGED <<setup, stores, work, call, crashes>>
    PROVE  CreateInv'
  <1>0. /\ Typed /\ SetupOK /\ LedgerOK /\ (\A q \in Procs : ProcOK(q))
        /\ proc \in [Procs -> ProcType] /\ proc[p] \in ProcType /\ ProcOK(p)
        /\ rows \in [Calls -> RowType]
        /\ UNCHANGED <<setup, stores, rows, prompts, occupancy, rendered, call, crashes>>
    BY DEF CreateInv, Durable, Typed, WorkOK, work
  <1> DEFINE next == [proc[p] EXCEPT !.phase = phase]
  <1>1. LedgerOK' /\ Now' = Now
    BY <1>0, FaultOK
  <1>2. /\ next \in ProcType /\ next.todo = proc[p].todo /\ next.claim = proc[p].claim
        /\ next.queue = proc[p].queue
    BY <1>0 DEF ProcType
  <1> HIDE DEF next
  <1>3. /\ \A s \in next.todo : Exists(s.job)
        /\ next.claim # NoCall => Exists(next.claim)
        /\ \A i \in next.queue : Exists(i)
    BY <1>0, <1>2 DEF ProcOK
  <1>4. Becomes(p, next) /\ \A i \in Calls : rows[i].state # "none" => rows'[i].state # "none"
    BY <1>0 DEF next
  <1>5. proc' \in [Procs -> ProcType] /\ \A q \in Procs : ProcOK(q)'
    BY <1>0, <1>2, <1>3, <1>4, OneProc
  <1> QED BY <1>0, <1>1, <1>5, ProcStep

\* The calls of a process that ends fail, or stay rolled back; what they wrote stays.
LEMMA ExitKeeps ==
    ASSUME CreateInv, NEW p \in Procs, Exit(p), UNCHANGED <<setup, ledger, torn, work, faults>>,
           crashes' \in 0 .. setup.crashes
    PROVE  CreateInv'
  <1>0. /\ Typed /\ SetupOK /\ LedgerOK /\ WorkOK /\ RecordOK /\ (\A d \in Calls : CallOK(d))
        /\ (\A q \in Procs : ProcOK(q)) /\ proc \in [Procs -> ProcType]
        /\ call \in [Calls -> CallType] /\ RenderedOK /\ Single /\ Now \in Records
        /\ UNCHANGED <<setup, rows, prompts, occupancy, rendered>>
    BY DEF CreateInv, Durable, Typed, LedgerOK, work
  <1>1. LedgerOK' /\ Now' = Now
    <2>1. view' = [view EXCEPT ![p] = Unread]
      BY DEF Exit
    <2>2. faults' \in 0 .. setup.faults /\ torn' \subseteq {"replay", "jobs"}
      BY <1>0 DEF LedgerOK
    <2> QED BY <1>0, <2>1, <2>2, LedgerKept
  <1>2. proc' \in [Procs -> ProcType] /\ \A q \in Procs : ProcOK(q)'
    <2>1. Halted \in ProcType /\ Halted.todo = {} /\ Halted.claim = NoCall /\ Halted.queue = {}
      BY DEF Halted, ProcType, Phases
    <2>2. Becomes(p, Halted) /\ \A i \in Calls : rows[i].state # "none" => rows'[i].state # "none"
      BY <1>0 DEF Exit
    <2> QED BY <1>0, <2>1, <2>2, OneProc
  <1>3. /\ call' \in [Calls -> CallType]
        /\ \A d \in Calls :
              \/ call'[d] = call[d]
              \/ /\ call[d].pc \notin {"idle", "told", "failed", "rolledback"} /\ call'[d].job = call[d].job
                 /\ call'[d].pc = IF call[d].pc \in RollsBack THEN "rolledback" ELSE "failed"
    <2> DEFINE q == CHOOSE q \in Procs : TRUE
               Ended(d) == [pc |-> IF call[d].pc \in RollsBack THEN "rolledback" ELSE "failed",
                            proc |-> q, job |-> call[d].job]
    <2>1. q \in Procs
      BY SomeProc
    <2>2. call' = [d \in Calls |->
             IF call[d].proc = p /\ call[d].pc \notin {"idle", "told", "failed", "rolledback"}
             THEN Ended(d) ELSE call[d]]
      BY DEF Exit
    <2> HIDE DEF q
    <2>3. ASSUME NEW d \in Calls
          PROVE  /\ Ended(d) \in CallType /\ Ended(d).job = call[d].job
                 /\ Ended(d).pc = IF call[d].pc \in RollsBack THEN "rolledback" ELSE "failed"
      BY <1>0, <2>1 DEF CallType, Pcs
    <2> HIDE DEF Ended
    <2>4. \A d \in Calls : call'[d] =
             IF call[d].proc = p /\ call[d].pc \notin {"idle", "told", "failed", "rolledback"}
             THEN Ended(d) ELSE call[d]
      BY <2>2
    <2>5. \A d \in Calls : call'[d] \in CallType
      BY <1>0, <2>3, <2>4
    <2>6. call' = [d \in Calls |-> call'[d]]
      BY <2>2
    <2>7. call' \in [Calls -> CallType]
      BY <2>5, <2>6
    <2> QED BY <2>3, <2>4, <2>7
  <1>4. ASSUME NEW d \in Calls PROVE CallOK(d)'
    <2>1. CASE call'[d] = call[d]
      <3>1. CallOK(d)
        BY <1>0
      <3> QED BY <1>0, <1>1, <2>1, <3>1, OtherCall
    <2>2. CASE call'[d] # call[d]
      <3>1. CallOK(d) /\ call[d].pc \in Pcs /\ call[d].pc \notin {"idle", "told", "failed", "rolledback"}
            /\ call'[d].pc = IF call[d].pc \in RollsBack THEN "rolledback" ELSE "failed"
        BY <1>0, <1>3, <2>2 DEF CallType
      <3>2. rows'[d].state = "queued" /\ ~RolledBack(d)' => d \in prompts' /\ d \in occupancy'
        BY <1>0, <3>1 DEF CallOK, RolledBack, RollsBack
      <3> QED BY <3>1, <3>2 DEF CallOK, Naming, Early, Working, RollsBack
    <2> QED BY <2>1, <2>2
  <1>5. RecordOK' /\ RenderedOK'
    BY <1>0, <1>1, RecordKept, RenderedKept DEF WorkOK
  <1>6. Single'
    <2>1. \A d \in Calls : call'[d].pc \in Working =>
             call[d].pc \in Working /\ (call'[d].pc = "complete" <=> call[d].pc = "complete")
      BY <1>3 DEF Working, RollsBack
    <2> QED BY <1>0, <1>1, <2>1, SingleKept
  <1>7. Typed'
    BY <1>0, <1>1, <1>2, <1>3 DEF Typed, SetupOK, WorkOK
  <1> QED BY <1>2, <1>4, <1>5, <1>6, <1>7 DEF CreateInv, Durable

LEMMA ExecuteKeeps ==
    ASSUME CreateInv, NEW p \in Procs, Execute(p)
    PROVE  CreateInv'
  <1>0. /\ Typed /\ SetupOK /\ LedgerOK /\ WorkOK /\ RecordOK /\ (\A d \in Calls : CallOK(d))
        /\ (\A q \in Procs : ProcOK(q)) /\ proc \in [Procs -> ProcType]
        /\ proc[p] \in ProcType /\ ProcOK(p) /\ rows \in [Calls -> RowType]
        /\ RenderedOK /\ Single /\ Now \in Records
        /\ UNCHANGED <<setup, stores, call, crashes>>
    BY DEF CreateInv, Durable, Typed, WorkOK, LedgerOK, Execute
  <1>1. PICK j \in proc[p].queue :
           /\ proc' = [proc EXCEPT ![p].queue = @ \ {j}]
           /\ rendered' = IF rows[j].state = "queued" /\ j \in prompts THEN rendered \cup {j} ELSE rendered
           /\ rows' = [rows EXCEPT ![j].state = "done"]
           /\ prompts' = prompts \ {j}
           /\ occupancy' = occupancy \ {j}
    BY DEF Execute
  <1>2. j \in Calls /\ Exists(j)
    BY <1>0 DEF ProcType, ProcOK
  <1>3. LedgerOK' /\ Now' = Now
    BY <1>0, FaultOK
  <1>4. /\ rows' \in [Calls -> RowType] /\ rows'[j].state = "done"
        /\ \A i \in Calls : i # j => rows'[i] = rows[i]
        /\ \A i \in Calls : rows'[i].state = "none" <=> rows[i].state = "none"
    BY <1>0, <1>1, <1>2 DEF RowType, Exists
  <1>5. /\ prompts' \subseteq Calls /\ occupancy' \subseteq Calls /\ rendered' \subseteq Calls
        /\ rendered' \subseteq rendered \cup {j}
        /\ \A i \in Calls : i # j => /\ i \in prompts => i \in prompts'
                                     /\ i \in occupancy => i \in occupancy'
    BY <1>0, <1>1, <1>2 DEF WorkOK
  <1>6. proc' \in [Procs -> ProcType] /\ \A q \in Procs : ProcOK(q)'
    <2> DEFINE next == [proc[p] EXCEPT !.queue = @ \ {j}]
    <2>1. Becomes(p, next)
      BY <1>1 DEF Becomes
    <2>2. /\ next \in ProcType /\ next.todo = proc[p].todo /\ next.claim = proc[p].claim
          /\ next.queue \subseteq proc[p].queue
      BY <1>0 DEF ProcType
    <2> HIDE DEF next
    <2>3. /\ \A s \in next.todo : Exists(s.job)
          /\ next.claim # NoCall => Exists(next.claim)
          /\ \A i \in next.queue : Exists(i)
      BY <1>0, <2>2 DEF ProcOK
    <2>4. \A i \in Calls : rows[i].state # "none" => rows'[i].state # "none"
      BY <1>4
    <2> QED BY <1>0, <2>1, <2>2, <2>3, <2>4, OneProc
  <1>7. ASSUME NEW d \in Calls PROVE CallOK(d)'
    <2>1. CASE d # j
      <3>1. CallOK(d) /\ call'[d] = call[d] /\ rows'[d].state = rows[d].state
            /\ (d \in prompts => d \in prompts') /\ (d \in occupancy => d \in occupancy')
        BY <1>0, <1>4, <1>5, <2>1
      <3> QED BY <1>0, <1>3, <3>1, OtherCall
    <2>2. CASE d = j
      <3>1. CallOK(d) /\ call'[d] = call[d] /\ Exists(d) /\ rows'[d].state = "done"
        BY <1>0, <1>2, <1>4, <2>2
      <3>2. call[d].pc \notin Early
        BY <3>1 DEF CallOK
      <3> QED BY <1>0, <1>3, <3>1, <3>2 DEF CallOK, Exists, Early
    <2> QED BY <2>1, <2>2
  <1>8. RecordOK'
    <2>1. \A i \in Calls : rows[i].state # "none" => rows'[i].state # "none"
      BY <1>4
    <2> QED BY <1>0, <1>3, <2>1, RecordKept
  <1>9. RenderedOK'
    BY <1>0, <1>2, <1>4, <1>5 DEF RenderedOK, Exists, WorkOK
  <1>10. Single'
    BY <1>0, <1>3, <1>4, SingleKept
  <1>11. Typed'
    BY <1>0, <1>3, <1>4, <1>5, <1>6 DEF Typed, SetupOK, WorkOK
  <1> QED BY <1>6, <1>7, <1>8, <1>9, <1>10, <1>11 DEF CreateInv, Durable

-----------------------------------------------------------------------------
(* The invariant and what follows from it *)

LEMMA InitKeeps == Init => CreateInv
  <1> SUFFICES ASSUME Init PROVE CreateInv
    OBVIOUS
  <1> DEFINE q == CHOOSE p \in Procs : TRUE
  <1>0. /\ setup \in Setups /\ ledger = <<>> /\ torn = {} /\ view = [p \in Procs |-> Unread]
        /\ rows = [j \in Calls |-> [state |-> "none", published |-> FALSE]]
        /\ prompts = {} /\ occupancy = {} /\ rendered = {}
        /\ proc = [p \in Procs |-> Halted]
        /\ call = [c \in Calls |-> [pc |-> "idle", proc |-> q, job |-> c]]
        /\ faults = 0 /\ crashes = 0
    BY DEF Init
  <1>1. q \in Procs
    BY SomeProc
  <1> HIDE DEF q
  <1>2. SetupOK
    BY <1>0, CreateAssumption DEF SetupOK
  <1>3. Now = NoRecord /\ Now \in Records /\ Now.state = "none"
    BY <1>0, FoldOfNothing, NoRecordOK DEF Now, Replayed
  <1>4. LedgerOK
    <2>1. ViewIsDurable
      BY <1>0, UnreadOK DEF ViewIsDurable
    <2>2. view \in [Procs -> [record : Records, at : Nat]] /\ \A p \in Procs : view[p].at <= Len(ledger)
      BY <1>0, UnreadOK
    <2>3. faults \in 0 .. setup.faults
      BY <1>0, <1>2 DEF SetupOK
    <2>4. ledger \in Seq(Records) /\ torn \subseteq {"replay", "jobs"}
      BY <1>0
    <2> QED BY <1>3, <2>1, <2>2, <2>3, <2>4 DEF LedgerOK
  <1>5. rows \in [Calls -> RowType] /\ call \in [Calls -> CallType] /\ proc \in [Procs -> ProcType]
    <2>1. Halted \in ProcType
      BY DEF Halted, ProcType, Phases
    <2> QED BY <1>0, <1>1, <2>1 DEF RowType, CallType, Pcs
  <1>6. Typed
    <2>1. crashes \in 0 .. setup.crashes
      BY <1>0, <1>2 DEF SetupOK
    <2>2. WorkOK
      BY <1>0, <1>5 DEF WorkOK
    <2> QED BY <1>2, <1>4, <1>5, <2>1, <2>2 DEF Typed
  <1>7. \A c \in Calls : call[c].pc = "idle" /\ rows[c].state = "none"
    BY <1>0
  <1>8. Durable
    <2>1. RecordOK
      BY <1>3 DEF RecordOK
    <2>2. \A c \in Calls : CallOK(c)
      BY <1>7 DEF CallOK, Exists, Naming, Early, Working, RollsBack
    <2>3. \A p \in Procs : ProcOK(p)
      BY <1>0 DEF ProcOK, Halted
    <2>4. RenderedOK
      BY <1>0 DEF RenderedOK
    <2> QED BY <2>1, <2>2, <2>3, <2>4 DEF Durable
  <1>9. Single
    <2>1. RowsOK
      BY <1>7 DEF RowsOK, Exists
    <2>2. \A c \in Calls : OwnerOK(c)
      BY <1>7 DEF OwnerOK, Working, RollsBack
    <2> QED BY <2>1, <2>2 DEF Single
  <1> QED BY <1>6, <1>8, <1>9 DEF CreateInv

LEMMA NextKeeps == CreateInv /\ [Next]_vars => CreateInv'
  <1> SUFFICES ASSUME CreateInv, [Next]_vars PROVE CreateInv'
    OBVIOUS
  <1>1. ASSUME NEW c \in Calls, Claim(c) \/ Create(c) PROVE CreateInv'
    <2>1. CASE Claim(c)
      BY <2>1, ClaimKeeps
    <2>2. CASE Admit(c)
      BY <2>2, AdmitKeeps
    <2>3. CASE SelectAccount(c)
      BY <2>3, SelectKeeps
    <2>4. CASE Gates(c)
      BY <2>4, GatesKeeps
    <2>5. CASE CreateRow(c)
      BY <2>5, CreateRowKeeps
    <2>6. CASE Complete(c)
      BY <2>6, CompleteKeeps
    <2>7. CASE DeletePrompt(c)
      BY <2>7, DeletePromptKeeps
    <2>8. CASE Release(c)
      BY <2>8, ReleaseKeeps
    <2>9. CASE Abandon(c)
      BY <2>9, AbandonKeeps
    <2>10. CASE Load(c)
      BY <2>10, LoadKeeps
    <2>11. CASE Enqueue(c)
      BY <2>11, EnqueueKeeps
    <2>12. CASE Publish(c)
      BY <2>12, PublishKeeps
    <2>13. CASE Refresh(c)
      BY <2>13, RefreshKeeps
    <2> QED BY <1>1, <2>1, <2>2, <2>3, <2>4, <2>5, <2>6, <2>7, <2>8, <2>9, <2>10, <2>11, <2>12,
               <2>13, Zenon DEF Create
  <1>2. ASSUME NEW p \in Procs, Startup(p) \/ Execute(p) \/ Crash(p) PROVE CreateInv'
    <2>0. Typed
      BY DEF CreateInv
    <2>1. CASE Start(p)
      <3>1. Enter(p, "reconcile", torn = {}) /\ "reconcile" \in Phases
        BY <2>1 DEF Start, Phases
      <3>2. (torn = {}) \in BOOLEAN
        OBVIOUS
      <3> QED BY <3>1, <3>2, EnterKeeps
    <2>2. CASE Reconciled(p)
      <3>1. Enter(p, "recover", proc[p].sound) /\ "recover" \in Phases
        BY <2>2 DEF Reconciled, Phases
      <3>2. proc[p].sound \in BOOLEAN
        BY <2>0 DEF Typed, ProcType
      <3> QED BY <3>1, <3>2, EnterKeeps
    <2>3. CASE RunWorkers(p)
      <3>1. Enter(p, "rearm", TRUE) /\ "rearm" \in Phases
        BY <2>3 DEF RunWorkers, Phases
      <3> QED BY <3>1, EnterKeeps
    <2>4. CASE ReconcileClaim(p)
      BY <2>4, ReconcileClaimKeeps
    <2>5. CASE ReconcileComplete(p)
      BY <2>5, ReconcileCompleteKeeps
    <2>6. CASE Recover(p)
      BY <2>6, RecoverKeeps
    <2>7. CASE Recovered(p)
      <3> DEFINE phase == IF proc[p].sound THEN "ready" ELSE "notready"
      <3>1. Becomes(p, [proc[p] EXCEPT !.phase = phase]) /\ phase \in Phases
            /\ UNCHANGED <<setup, stores, work, call, crashes>>
        BY <2>7 DEF Recovered, Phases
      <3> HIDE DEF phase
      <3> QED BY <3>1, PhaseKeeps
    <2>8. CASE Rearmed(p)
      <3>1. UNCHANGED <<setup, ledger, torn, work, faults, crashes>>
        BY <2>8 DEF Rearmed
      <3>2. CASE Becomes(p, [proc[p] EXCEPT !.phase = "running"]) /\ UNCHANGED <<view, call>>
        <4>1. UNCHANGED <<setup, stores, work, call, crashes>> /\ "running" \in Phases
          BY <3>1, <3>2 DEF stores, Phases
        <4> QED BY <3>2, <4>1, PhaseKeeps
      <3>3. CASE Exit(p)
        <4>1. crashes' \in 0 .. setup.crashes
          BY <2>0, <3>1 DEF Typed
        <4> QED BY <3>1, <3>3, <4>1, ExitKeeps
      <3> QED BY <2>8, <3>2, <3>3 DEF Rearmed
    <2>9. CASE Execute(p)
      BY <2>9, ExecuteKeeps
    <2>10. CASE Crash(p)
      <3>1. crashes' \in 0 .. setup.crashes
        <4>1. crashes \in 0 .. setup.crashes /\ setup.crashes \in Nat
          BY <2>0 DEF Typed, SetupOK
        <4>2. crashes < setup.crashes /\ crashes' = crashes + 1
          BY <2>10 DEF Crash
        <4> QED BY <4>1, <4>2
      <3>2. Exit(p) /\ UNCHANGED <<setup, ledger, torn, work, faults>>
        BY <2>10 DEF Crash
      <3> QED BY <3>1, <3>2, ExitKeeps
    <2> QED BY <1>2, <2>1, <2>2, <2>3, <2>4, <2>5, <2>6, <2>7, <2>8, <2>9, <2>10, Zenon DEF Startup
  <1>3. CASE UNCHANGED vars
    <2>1. UNCHANGED <<setup, stores, work, call, crashes, proc, rows, prompts, occupancy, rendered>>
      BY <1>3 DEF vars, stores, work
    <2>2. Typed /\ RecordOK /\ (\A d \in Calls : CallOK(d)) /\ (\A p \in Procs : ProcOK(p))
          /\ RenderedOK /\ Single
      BY DEF CreateInv, Durable
    <2>3. LedgerOK' /\ Now' = Now
      BY <2>1, <2>2, FaultOK DEF Typed
    <2>4. proc' \in [Procs -> ProcType] /\ \A p \in Procs : ProcOK(p)'
      BY <2>1, <2>2, ProcsKept DEF Typed
    <2>5. rows' \in [Calls -> RowType] /\ \A j \in Calls : rows'[j].state = rows[j].state
      BY <2>1, <2>2 DEF Typed, WorkOK
    <2> QED BY <2>1, <2>3, <2>4, <2>5, ProcStep
  <1> QED BY <1>1, <1>2, <1>3, Zenon DEF Next

\* The invariant holds at every moment of every behaviour.
THEOREM CreateInvariant == Spec => []CreateInv
  <1> QED BY InitKeeps, NextKeeps, PTL DEF Spec

\* Types: every row, view, queue and call stays in its domain, and no more operations fail and
\* processes crash than the behaviour allows.
THEOREM CreateTypes == Spec => []TypeOK
  <1>1. ASSUME CreateInv PROVE TypeOK
    <2>0. SetupOK /\ LedgerOK /\ WorkOK /\ proc \in [Procs -> ProcType] /\ call \in [Calls -> CallType]
          /\ crashes \in 0 .. setup.crashes
      BY <1>1 DEF CreateInv, Typed
    <2>1. setup \in Setups /\ faults \in 0 .. MaxFaults /\ crashes \in 0 .. MaxCrashes
      BY <2>0, CreateAssumption DEF SetupOK, LedgerOK
    <2>2. \A p \in Procs : view[p].record \in Records /\ view[p].at \in 0 .. Len(ledger)
      <3>1. Len(ledger) \in Nat
        BY <2>0 DEF LedgerOK
      <3> QED BY <2>0, <3>1 DEF LedgerOK
    <2>3. ledger \in Seq(Records) /\ torn \subseteq {"replay", "jobs"}
      BY <2>0 DEF LedgerOK
    <2> QED BY <2>0, <2>1, <2>2, <2>3 DEF TypeOK, WorkOK, RowType, ProcType, Phases, CallType, Pcs
  <1> QED BY <1>1, CreateInvariant, PTL

\* What a process remembers of the replay ledger is what the records it has read say.
THEOREM MemoryFollowsLedger == Spec => []ViewIsDurable
  <1>1. CreateInv => ViewIsDurable
    BY DEF CreateInv, Typed, LedgerOK
  <1> QED BY <1>1, CreateInvariant, PTL

\* Every accepted request of the key names the same durable job, made for its body, and until
\* that job is done its prompt and occupancy are kept unless the call that made it rolled back.
THEOREM AcknowledgedIsDurable == Spec => []AcknowledgedJob
  <1>1. ASSUME CreateInv PROVE AcknowledgedJob
    <2>0. RecordOK /\ (\A c \in Calls : CallOK(c)) /\ call \in [Calls -> CallType]
      BY <1>1 DEF CreateInv, Durable, Typed
    <2> SUFFICES ASSUME NEW c \in Told
                 PROVE  LET j == call[c].job
                        IN  /\ \A d \in Told : call[d].job = j
                            /\ setup.body[c] = setup.body[j]
                            /\ rows[j].state # "none"
                            /\ rows[j].state = "queued" /\ ~RolledBack(j) =>
                                  j \in prompts /\ j \in occupancy
      BY DEF AcknowledgedJob
    <2>1. \A d \in Told : /\ Now.state = "terminal" /\ Now.job = call[d].job
                          /\ Now.body = setup.body[d] /\ d \in Calls
      BY <2>0 DEF Told, At, CallOK, Naming
    <2>2. call[c].job \in Calls /\ CallOK(call[c].job)
      BY <2>0, <2>1 DEF CallType
    <2> QED BY <2>0, <2>1, <2>2 DEF RecordOK, CallOK, Exists
  <1> QED BY <1>1, CreateInvariant, PTL

\* The requests of one key make the Provider generate at most once, however calls, restarts and
\* repairs interleave, as long as a job row that was reported as failed is not durable.
THEOREM RenderedOnce == Spec => []OneRenderUnlessKept
  <1>1. ASSUME CreateInv PROVE OneRenderUnlessKept
    <2> SUFFICES ASSUME "jobs" \notin setup.kept PROVE Cardinality(rendered) <= 1
      BY DEF OneRenderUnlessKept, OneRenderPerKey
    <2>1. \A i, j \in rendered : i = j
      BY <1>1 DEF CreateInv, Typed, WorkOK, Durable, RenderedOK, Single, RowsOK
    <2>2. CASE rendered = {}
      BY <2>2, FS_EmptySet
    <2>3. CASE rendered # {}
      <3>1. PICK j \in rendered : TRUE
        BY <2>3
      <3>2. rendered = {j}
        BY <2>1, <3>1
      <3>3. Cardinality({j}) = 1
        BY FS_Singleton
      <3> QED BY <3>2, <3>3
    <2> QED BY <2>2, <2>3
  <1> QED BY <1>1, CreateInvariant, PTL
=============================================================================
