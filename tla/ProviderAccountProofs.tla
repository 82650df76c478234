------------------------ MODULE ProviderAccountProofs ------------------------
(***************************************************************************)
(* Proofs about ProviderAccount, for any set of handlers, any agendas and  *)
(* any number of failing calls: its types, that a probe puts into use what *)
(* it has proven and respects a disable, and that a cooldown is lifted     *)
(* only by a step that is entitled to.                                     *)
(***************************************************************************)
EXTENDS ProviderAccount, NaturalSets

(* The inductive invariant *)

\* Where a probe may stand.
ProbeSteps ==
    {"gate", "reload", "recheck", "claimpermit", "confirmload", "confirm", "unclaim", "validate",
     "call", "mint", "decideload", "decide", "activate", "observe", "release", "commit",
     "resolve", "renew", "rejectload", "reject", "rejectpending", "rollback", "discard"}

\* Where any request may stand.
Places ==
    ProbeSteps \cup
    {"idle", "reread", "reserve", "claim", "put", "epoch", "stage", "undo", "restore", "mark",
     "begin", "unmark", "ask", "settle", "allocate", "fail", "disableread", "disablesave",
     "disableclear", "enableread", "enablereset", "enablesave", "revoke", "deletesave"}

Requests == [op : Ops \cup {"none"}, pc : Places, id : Nat, acc : Rows, latest : Rows, v : Nat,
             scope : Scopes, permit : Permits, signal : Signals, again : BOOLEAN,
             reason : BOOLEAN, seen : Nat]

HealthRecords == [conds : Seq(Conditions), permit : Permits]

\* A replacement of a disabled account remembers that it has to leave it disabled.
DisabledOrigin(r) == r.life = "disabled" /\ r.pend > 0 => r.origin = "disabled"

RowOK == row \in Rows /\ DisabledOrigin(row)

HealthOK == health \in HealthRecords /\ ValidRecord(health)

StoresOK ==
    /\ RowOK /\ HealthOK
    /\ vault \in [Versions -> [state : {"none", "held", "revoked"}, by : Nat]]
    /\ snapshot \in Nat /\ faults \in 0 .. MaxFaults
    /\ budget \in [Ops -> Nat] /\ ids \in Nat /\ ids + SumOf(budget) <= MaxIds

\* The provider has authenticated the version, and what it said is being applied.
Authenticated == {"mint", "decideload", "decide", "activate", "observe", "release", "commit"}

\* The row that the result goes to has been decided on.
Decided == {"activate", "observe", "release", "commit"}

\* The request r, when n identifiers have been given out.
Identified(r, n) ==
    /\ r.op = "none" => r = Idle
    /\ r.op # "none" => r.id \in 1 .. n /\ r.pc # "idle"
    /\ r.op = "probe" => r.pc \in ProbeSteps
    /\ r.permit # NoPermit => r.permit.owner = r.id
    /\ r.pc = "gate" => r.permit = NoPermit

\* What the request r knows, when these versions have been authenticated.
Applies(r, known) ==
    /\ DisabledOrigin(r.acc) /\ DisabledOrigin(r.latest)
    /\ r.pc \in Authenticated \cup {"call"} => r.v = ProbeVersion(r.acc)
    /\ r.pc \in Authenticated => r.v \in known
    /\ r.pc \in Decided /\ r.acc.pend > 0 => r.latest.pend = r.acc.pend
    /\ r.pc = "observe" => r.signal # "none"
    /\ r.pc = "rejectpending" => r.acc.pend > 0
    /\ r.pc = "rollback" => r.v = r.latest.pend /\ r.v > 0

Unshared ==
    \A x, y \in Handlers : h[x].op # "none" /\ h[y].op # "none" /\ h[x].id = h[y].id => x = y

AccountInv ==
    /\ StoresOK /\ h \in [Handlers -> Requests] /\ Unshared
    /\ \A x \in Handlers : Identified(h[x], ids) /\ Applies(h[x], proven)

\* While the record names the owner of a permit it is the permit that was
\* claimed, and the condition it was claimed for is the one observed then.
PermitHeld(x) ==
    /\ h[x].permit # NoPermit /\ h[x].pc \notin {"reload", "recheck", "claimpermit"}
    /\ health.permit.owner = h[x].id
    => /\ health.permit = h[x].permit
       /\ \A c \in Range(health.conds) :
             c.scope = h[x].permit.scope /\ c.ver = h[x].permit.ver => c.by = h[x].seen

PermitInv == \A x \in Handlers : PermitHeld(x)
-----------------------------------------------------------------------------
(* The conditions that are wanted, in their order *)

\* f[i] is what is kept of the first i conditions.
Keeps(f, conds, wanted, n) ==
    f = [i \in 0 .. n |->
           IF i = 0 THEN <<>>
           ELSE IF conds[i] \in wanted THEN Append(f[i - 1], conds[i]) ELSE f[i - 1]]

LEMMA KeepsExists ==
    ASSUME NEW conds, NEW wanted
    PROVE  \A n \in Nat : \E f : Keeps(f, conds, wanted, n)
  <1> DEFINE S == {n \in Nat : \E f : Keeps(f, conds, wanted, n)}
             Longer(f, i) == IF conds[i] \in wanted THEN Append(f[i - 1], conds[i]) ELSE f[i - 1]
  <1>1. 0 \in S
    <2> DEFINE f == [i \in 0 .. 0 |-> <<>>]
    <2>1. f = [i \in 0 .. 0 |-> IF i = 0 THEN <<>> ELSE Longer(f, i)]
      OBVIOUS
    <2> HIDE DEF f
    <2>2. Keeps(f, conds, wanted, 0)
      BY <2>1 DEF Keeps
    <2> QED BY <2>2
  <1>2. ASSUME NEW n \in Nat, n \in S PROVE n + 1 \in S
    <2>1. PICK f : Keeps(f, conds, wanted, n)
      BY <1>2
    <2> DEFINE g == [i \in 0 .. n + 1 |-> IF i = n + 1 THEN Longer(f, i) ELSE f[i]]
    <2>2. ASSUME NEW i \in 0 .. n + 1
          PROVE  g[i] = IF i = 0 THEN <<>> ELSE Longer(g, i)
      <3>1. CASE i = n + 1
        <4>1. g[i] = Longer(f, i) /\ g[i - 1] = f[i - 1] /\ i # 0
          BY <3>1
        <4> QED BY <4>1
      <3>2. CASE i # n + 1
        <4>1. i \in 0 .. n /\ g[i] = f[i]
          BY <3>2
        <4>2. f[i] = IF i = 0 THEN <<>> ELSE Longer(f, i)
          BY <2>1, <4>1 DEF Keeps
        <4>3. i # 0 => g[i - 1] = f[i - 1]
          BY <4>1
        <4> QED BY <4>1, <4>2, <4>3
      <3> QED BY <3>1, <3>2
    <2>3. g = [i \in 0 .. n + 1 |-> IF i = 0 THEN <<>> ELSE Longer(g, i)]
      BY <2>2
    <2> HIDE DEF g
    <2>4. Keeps(g, conds, wanted, n + 1)
      BY <2>3 DEF Keeps
    <2> QED BY <2>4
  <1> HIDE DEF S
  <1>3. Nat \subseteq S
    BY <1>1, <1>2, NatSetInduction
  <1> QED BY <1>3 DEF S

LEMMA RangeAppend ==
    ASSUME NEW T, NEW s \in Seq(T), NEW e \in T
    PROVE  Range(Append(s, e)) = Range(s) \cup {e}
  <1>1. \A i \in DOMAIN Append(s, e) : Append(s, e)[i] \in Range(s) \cup {e}
    BY DEF Range
  <1>2. ASSUME NEW d \in Range(s) PROVE d \in Range(Append(s, e))
    <2>1. PICK i \in DOMAIN s : s[i] = d
      BY DEF Range
    <2>2. i \in DOMAIN Append(s, e) /\ Append(s, e)[i] = d
      BY <2>1
    <2> QED BY <2>2 DEF Range
  <1>3. Len(s) + 1 \in DOMAIN Append(s, e) /\ Append(s, e)[Len(s) + 1] = e
    OBVIOUS
  <1>4. e \in Range(Append(s, e))
    BY <1>3 DEF Range
  <1> QED BY <1>1, <1>2, <1>4 DEF Range

LEMMA ThoseWanted ==
    ASSUME NEW T, NEW conds \in Seq(T), NEW wanted
    PROVE  /\ Those(conds, wanted) \in Seq(T)
           /\ Range(Those(conds, wanted)) = Range(conds) \cap wanted
  <1> DEFINE n == Len(conds)
             f == CHOOSE f : Keeps(f, conds, wanted, n)
             Kept(i) == {c \in wanted : \E j \in 1 .. i : conds[j] = c}
             S == {i \in Nat : i <= n => f[i] \in Seq(T) /\ Range(f[i]) = Kept(i)}
  <1>0. n \in Nat /\ DOMAIN conds = 1 .. n /\ \A i \in 1 .. n : conds[i] \in T
    OBVIOUS
  <1>1. Keeps(f, conds, wanted, n)
    BY <1>0, KeepsExists
  <1>2. Those(conds, wanted) = f[n]
    BY Zenon DEF Those, Keeps
  <1> HIDE DEF f, n
  <1>3. 0 \in S
    <2>1. f[0] = << >>
      BY <1>0, <1>1 DEF Keeps
    <2>2. Range(f[0]) = {} /\ f[0] \in Seq(T)
      BY <2>1 DEF Range
    <2> QED BY <2>2
  <1>4. ASSUME NEW i \in Nat, i \in S PROVE i + 1 \in S
    <2> SUFFICES ASSUME i + 1 <= n
                 PROVE  f[i + 1] \in Seq(T) /\ Range(f[i + 1]) = Kept(i + 1)
      OBVIOUS
    <2>1. f[i] \in Seq(T) /\ Range(f[i]) = Kept(i)
      BY <1>0, <1>4
    <2>2. i + 1 \in 1 .. n /\ conds[i + 1] \in T
      BY <1>0
    <2>3. f[i + 1] = IF conds[i + 1] \in wanted THEN Append(f[i], conds[i + 1]) ELSE f[i]
      <3>1. i + 1 \in 0 .. n /\ i + 1 # 0 /\ (i + 1) - 1 = i
        BY <1>0, <2>2
      <3> QED BY <1>1, <3>1 DEF Keeps
    <2>4. \A j \in 1 .. i + 1 : j \in 1 .. i \/ j = i + 1
      OBVIOUS
    <2>5. CASE conds[i + 1] \in wanted
      <3>1. Kept(i + 1) = Kept(i) \cup {conds[i + 1]}
        BY <2>4, <2>5
      <3>2. f[i + 1] = Append(f[i], conds[i + 1])
        BY <2>3, <2>5
      <3>3. Range(f[i + 1]) = Range(f[i]) \cup {conds[i + 1]}
        BY <2>1, <2>2, <3>2, RangeAppend
      <3> QED BY <2>1, <2>2, <3>1, <3>2, <3>3
    <2>6. CASE conds[i + 1] \notin wanted
      <3>1. Kept(i + 1) = Kept(i)
        BY <2>4, <2>6
      <3> QED BY <2>1, <2>3, <2>6, <3>1
    <2> QED BY <2>5, <2>6
  <1> HIDE DEF S
  <1>5. n \in S
    BY <1>0, <1>3, <1>4, NatSetInduction
  <1>6. f[n] \in Seq(T) /\ Range(f[n]) = Kept(n)
    BY <1>0, <1>5 DEF S
  <1>7. Kept(n) = Range(conds) \cap wanted
    BY <1>0 DEF Range
  <1> QED BY <1>2, <1>6, <1>7

\* The first of the conditions that are wanted is one of them.
LEMMA FirstWanted ==
    ASSUME NEW T, NEW conds \in Seq(T), NEW wanted,
           NEW c \in Range(conds), c \in wanted
    PROVE  FirstOf(Those(conds, wanted)) \in Range(conds) \cap wanted
  <1> DEFINE s == Those(conds, wanted)
  <1>1. s \in Seq(T) /\ Range(s) = Range(conds) \cap wanted
    BY ThoseWanted
  <1> HIDE DEF s
  <1>2. s # << >>
    BY <1>1 DEF Range
  <1>3. Head(s) \in Range(s)
    BY <1>1, <1>2 DEF Range
  <1> QED BY <1>1, <1>2, <1>3, Zenon DEF FirstOf, s


-----------------------------------------------------------------------------
(* The row *)

LEMMA DraftTypes == Draft \in Rows /\ DisabledOrigin(Draft)
  BY DEF Draft, Rows, Lifecycles, DisabledOrigin

LEMMA RowFields ==
    ASSUME NEW r \in Rows
    PROVE  /\ r.life \in Lifecycles /\ r.ver \in Nat /\ r.last \in Nat /\ r.pend \in Nat
           /\ r.origin \in Lifecycles \cup {"none"} /\ r.marker \in Nat /\ NextVersion(r) \in Nat
           /\ NextVersion(r) > 0
  BY DEF Rows, NextVersion

\* Every transition of a row leads to a row, and none forgets that a
\* replacement began on a disabled account.
LEMMA Transitions ==
    ASSUME NEW r \in Rows, DisabledOrigin(r), NEW id \in Nat
    PROVE  /\ [r EXCEPT !.last = NextVersion(r)] \in Rows
           /\ DisabledOrigin([r EXCEPT !.last = NextVersion(r)])
           /\ WithSubmittedCredential(r) \in Rows /\ DisabledOrigin(WithSubmittedCredential(r))
           /\ WithReplacementCredential(r) \in Rows /\ DisabledOrigin(WithReplacementCredential(r))
           /\ WithProbeActivated(r, TRUE) \in Rows /\ DisabledOrigin(WithProbeActivated(r, TRUE))
           /\ WithProbeActivated(r, FALSE) \in Rows /\ DisabledOrigin(WithProbeActivated(r, FALSE))
           /\ [WithProbeActivated(r, FALSE) EXCEPT !.life = "disabled"] \in Rows
           /\ DisabledOrigin([WithProbeActivated(r, FALSE) EXCEPT !.life = "disabled"])
           /\ WithCredentialRejected(r) \in Rows /\ DisabledOrigin(WithCredentialRejected(r))
           /\ WithPendingCredentialRejected(r) \in Rows
           /\ DisabledOrigin(WithPendingCredentialRejected(r))
           /\ WithDisabled(r) \in Rows /\ DisabledOrigin(WithDisabled(r))
           /\ WithEnableProbePending(r) \in Rows /\ DisabledOrigin(WithEnableProbePending(r))
           /\ WithDeleted(r) \in Rows /\ DisabledOrigin(WithDeleted(r))
           /\ WithOAuthJourneyStarted(r, id) \in Rows
           /\ DisabledOrigin(WithOAuthJourneyStarted(r, id))
           /\ WithOAuthJourneyCleared(r) \in Rows /\ DisabledOrigin(WithOAuthJourneyCleared(r))
  <1>1. NextVersion(r) \in Nat
    BY RowFields
  <1>2. /\ WithSubmittedCredential(r) \in Rows /\ DisabledOrigin(WithSubmittedCredential(r))
        /\ WithReplacementCredential(r) \in Rows /\ DisabledOrigin(WithReplacementCredential(r))
    <2> DEFINE n == NextVersion(r)
               s == WithSubmittedCredential(r)
               p == WithReplacementCredential(r)
    <2>1. s = [r EXCEPT !.last = n, !.ver = n, !.origin = "draft", !.life = "pending_validation"]
      BY DEF WithSubmittedCredential
    <2>2. p = [r EXCEPT !.last = n, !.pend = n, !.origin = r.life,
                        !.life = IF r.life = "disabled" THEN r.life ELSE "pending_validation"]
      BY DEF WithReplacementCredential, Rows
    <2>3. n \in Nat
      BY <1>1
    <2> HIDE DEF n, s, p
    <2>4. s \in Rows /\ s.life = "pending_validation"
      BY <2>1, <2>3 DEF Rows, Lifecycles
    <2>5. p \in Rows /\ (p.life = "disabled" => p.origin = "disabled")
      BY <2>2, <2>3 DEF Rows, Lifecycles
    <2>6. DisabledOrigin(s) /\ DisabledOrigin(p)
      BY <2>4, <2>5, Zenon DEF DisabledOrigin
    <2> QED BY <2>4, <2>5, <2>6 DEF s, p
  <1>3. /\ WithProbeActivated(r, TRUE) \in Rows /\ DisabledOrigin(WithProbeActivated(r, TRUE))
        /\ WithProbeActivated(r, FALSE) \in Rows /\ DisabledOrigin(WithProbeActivated(r, FALSE))
        /\ WithPendingCredentialRejected(r) \in Rows
        /\ DisabledOrigin(WithPendingCredentialRejected(r))
    <2>1. ASSUME NEW b \in BOOLEAN
          PROVE  WithProbeActivated(r, b) \in Rows /\ WithProbeActivated(r, b).pend = 0
      BY DEF Rows, Lifecycles, WithProbeActivated
    <2>2. WithPendingCredentialRejected(r) \in Rows /\ WithPendingCredentialRejected(r).pend = 0
      BY DEF Rows, Lifecycles, WithPendingCredentialRejected
    <2>3. /\ WithProbeActivated(r, TRUE) \in Rows /\ WithProbeActivated(r, TRUE).pend = 0
          /\ WithProbeActivated(r, FALSE) \in Rows /\ WithProbeActivated(r, FALSE).pend = 0
      BY <2>1
    <2>4. \A q : q.pend = 0 => DisabledOrigin(q)
      BY DEF DisabledOrigin
    <2> QED BY <2>2, <2>3, <2>4
  <1>4. /\ [WithProbeActivated(r, FALSE) EXCEPT !.life = "disabled"] \in Rows
        /\ DisabledOrigin([WithProbeActivated(r, FALSE) EXCEPT !.life = "disabled"])
    <2>1. WithProbeActivated(r, FALSE) \in Rows /\ WithProbeActivated(r, FALSE).pend = 0
      BY DEF Rows, Lifecycles, WithProbeActivated
    <2>2. ASSUME NEW q \in Rows, q.pend = 0
          PROVE  /\ [q EXCEPT !.life = "disabled"] \in Rows
                 /\ DisabledOrigin([q EXCEPT !.life = "disabled"])
      BY <2>2 DEF Rows, Lifecycles, DisabledOrigin
    <2> QED BY <2>1, <2>2, Zenon
  <1>5. /\ WithCredentialRejected(r) \in Rows /\ DisabledOrigin(WithCredentialRejected(r))
        /\ WithDisabled(r) \in Rows /\ DisabledOrigin(WithDisabled(r))
        /\ WithEnableProbePending(r) \in Rows /\ DisabledOrigin(WithEnableProbePending(r))
        /\ WithDeleted(r) \in Rows /\ DisabledOrigin(WithDeleted(r))
    BY DEF Rows, Lifecycles, DisabledOrigin, WithCredentialRejected, WithDisabled,
           WithEnableProbePending, WithDeleted
  <1>6. /\ WithOAuthJourneyStarted(r, id) \in Rows
        /\ DisabledOrigin(WithOAuthJourneyStarted(r, id))
        /\ WithOAuthJourneyCleared(r) \in Rows /\ DisabledOrigin(WithOAuthJourneyCleared(r))
        /\ [r EXCEPT !.last = NextVersion(r)] \in Rows
        /\ DisabledOrigin([r EXCEPT !.last = NextVersion(r)])
    BY <1>1 DEF Rows, DisabledOrigin, WithOAuthJourneyStarted, WithOAuthJourneyCleared
  <1> QED BY <1>2, <1>3, <1>4, <1>5, <1>6

LEMMA ProbeVersionTypes ==
    ASSUME NEW r \in Rows
    PROVE  ProbeVersion(r) \in Nat
  BY DEF Rows, ProbeVersion

-----------------------------------------------------------------------------
(* The health record *)

LEMMA ConditionTypes ==
    ASSUME NEW scope \in Scopes, NEW ver \in Nat, NEW state \in States, NEW rev \in Nat, NEW by \in Nat
    PROVE  Condition(scope, ver, state, rev, by) \in Conditions
  BY DEF Condition, Conditions

LEMMA StateTypes ==
    /\ "account" \in Scopes /\ "operation" \in Scopes
    /\ "unknown" \in States /\ "healthy" \in States /\ "cooling_down" \in States /\ "expired" \in States
  BY DEF Scopes, States

LEMMA AbsentTypes == Absent \in Conditions /\ NoPermit \in Permits /\ NoPermit.owner = 0
  BY StateTypes, ConditionTypes DEF Absent, NoPermit, Permits

LEMMA InRange ==
    ASSUME NEW T, NEW conds \in Seq(T), NEW c \in Range(conds)
    PROVE  c \in T /\ \E i \in 1 .. Len(conds) : conds[i] = c
  BY DEF Range

LEMMA FirstTypes ==
    ASSUME NEW conds \in Seq(Conditions), NEW wanted
    PROVE  FirstOf(Those(conds, wanted)) \in Conditions
  <1> DEFINE s == Those(conds, wanted)
  <1>1. s \in Seq(Conditions)
    BY ThoseWanted
  <1> HIDE DEF s
  <1>2. s # << >> => Head(s) \in Conditions
    BY <1>1
  <1>3. FirstOf(s) \in Conditions
    BY <1>2, AbsentTypes DEF FirstOf
  <1> QED BY <1>3 DEF s

\* A list of conditions of which some were replaced, in place.
LEMMA MapTypes ==
    ASSUME NEW T, NEW conds \in Seq(T), NEW f, DOMAIN f = DOMAIN conds,
           \A i \in DOMAIN conds : f[i] \in T,
           f = [i \in DOMAIN conds |-> f[i]]
    PROVE  f \in Seq(T) /\ Len(f) = Len(conds)
  <1>1. f \in [1 .. Len(conds) -> T] /\ Len(conds) \in Nat
    OBVIOUS
  <1> QED BY <1>1

LEMMA CooledTypes ==
    ASSUME NEW conds \in Seq(Conditions), NEW scope \in Scopes, NEW ver \in Nat, NEW by \in Nat
    PROVE  Cooled(conds, scope, ver, by) \in Seq(Conditions)
  <1> DEFINE Mine(c) == c.scope = scope /\ c.ver = ver
             f == [i \in DOMAIN conds |->
                     IF Mine(conds[i]) THEN Condition(scope, ver, "cooling_down", conds[i].rev + 1, by)
                     ELSE conds[i]]
  <1>1. ASSUME NEW i \in DOMAIN conds PROVE f[i] \in Conditions
    <2>1. conds[i] \in Conditions
      OBVIOUS
    <2>2. conds[i].rev + 1 \in Nat
      BY <2>1 DEF Conditions
    <2>3. Condition(scope, ver, "cooling_down", conds[i].rev + 1, by) \in Conditions
      BY <2>2, StateTypes, ConditionTypes
    <2> QED BY <2>1, <2>3
  <1>2. DOMAIN f = DOMAIN conds /\ f = [i \in DOMAIN conds |-> f[i]]
    OBVIOUS
  <1> HIDE DEF f
  <1>3. f \in Seq(Conditions)
    BY <1>1, <1>2, MapTypes
  <1>4. Condition(scope, ver, "cooling_down", 1, by) \in Conditions
    BY StateTypes, ConditionTypes
  <1>5. Append(conds, Condition(scope, ver, "cooling_down", 1, by)) \in Seq(Conditions)
    BY <1>4
  <1>6. Cooled(conds, scope, ver, by) =
          IF \E c \in Range(conds) : Mine(c) THEN f
          ELSE Append(conds, Condition(scope, ver, "cooling_down", 1, by))
    BY Zenon DEF Cooled, f
  <1> QED BY <1>3, <1>5, <1>6, Zenon

LEMMA HealthFields ==
    ASSUME NEW rec \in HealthRecords
    PROVE  rec.conds \in Seq(Conditions) /\ rec.permit \in Permits
  BY DEF HealthRecords

LEMMA HealthRecord ==
    ASSUME NEW conds \in Seq(Conditions), NEW permit \in Permits
    PROVE  [conds |-> conds, permit |-> permit] \in HealthRecords
  BY DEF HealthRecords

LEMMA ObserveTypes ==
    ASSUME NEW rec \in HealthRecords, NEW scope \in Scopes, NEW ver \in Nat, NEW permit \in Permits,
           NEW by \in Nat, permit.owner # 0 /\ permit.scope # scope => permit.scope \in Scopes
    PROVE  ObserveCooldown(rec, scope, ver, permit, by) \in HealthRecords
  <1> DEFINE renewed == IF permit.owner # 0 /\ permit.scope # scope
                        THEN Cooled(rec.conds, permit.scope, ver, by) ELSE rec.conds
             kept == IF permit.owner # 0 \/ rec.permit.scope = scope THEN NoPermit ELSE rec.permit
  <1>1. renewed \in Seq(Conditions)
    BY HealthFields, CooledTypes
  <1>2. kept \in Permits
    BY HealthFields, AbsentTypes
  <1> HIDE DEF renewed, kept
  <1>3. Cooled(renewed, scope, ver, by) \in Seq(Conditions)
    BY <1>1, CooledTypes
  <1>4. ObserveCooldown(rec, scope, ver, permit, by)
          = [conds |-> Cooled(renewed, scope, ver, by), permit |-> kept]
    BY Zenon DEF ObserveCooldown, renewed, kept
  <1> QED BY <1>2, <1>3, <1>4, HealthRecord

LEMMA RenewTypes ==
    ASSUME NEW rec \in HealthRecords, NEW permit \in Permits, permit.scope \in Scopes, NEW by \in Nat
    PROVE  RenewAfterDependencyFailure(rec, permit, by) \in HealthRecords
  <1>1. permit.ver \in Nat
    BY DEF Permits
  <1>2. Cooled(rec.conds, permit.scope, permit.ver, by) \in Seq(Conditions)
    BY <1>1, HealthFields, CooledTypes
  <1> QED BY <1>2, AbsentTypes, HealthRecord DEF RenewAfterDependencyFailure

LEMMA ResolveTypes ==
    ASSUME NEW rec \in HealthRecords, NEW permit \in Permits, NEW by \in Nat
    PROVE  ResolveRecovery(rec, permit, by) \in HealthRecords
  <1> DEFINE wanted == {c \in Range(rec.conds) :
                          ~(/\ c.scope = permit.scope /\ c.state = "cooling_down"
                            /\ c.rev = permit.rev /\ c.ver = permit.ver)}
             kept == Those(rec.conds, wanted)
             healthy == Condition("account", permit.ver, "healthy", 0, by)
             conds == IF kept = <<>> THEN <<healthy>> ELSE kept
  <1>1. kept \in Seq(Conditions)
    BY HealthFields, ThoseWanted
  <1>2. permit.ver \in Nat
    BY DEF Permits
  <1>3. healthy \in Conditions
    BY <1>2, StateTypes, ConditionTypes
  <1> HIDE DEF healthy, kept
  <1>4. conds \in Seq(Conditions)
    BY <1>1, <1>3
  <1>5. ResolveRecovery(rec, permit, by) = [conds |-> conds, permit |-> NoPermit]
    BY Zenon DEF ResolveRecovery, kept, healthy
  <1> HIDE DEF conds
  <1> QED BY <1>4, <1>5, AbsentTypes, HealthRecord

LEMMA RejectPendingTypes ==
    ASSUME NEW rec \in HealthRecords, NEW ver \in Nat, NEW by \in Nat
    PROVE  RejectPending(rec, ver, by) \in HealthRecords
  <1> DEFINE own   == Those(rec.conds, {c \in Range(rec.conds) : c.ver = ver /\ c.scope = "account"})
             prior == IF own = <<>> THEN ConditionAt(rec.conds, "account") ELSE Head(own)
             others == Those(rec.conds, {c \in Range(rec.conds) : c.ver # ver})
             expired == Condition("account", ver, "expired", prior.rev + 1, by)
  <1>1. own \in Seq(Conditions) /\ others \in Seq(Conditions)
    BY HealthFields, ThoseWanted
  <1>2. ConditionAt(rec.conds, "account") \in Conditions
    BY HealthFields, FirstTypes DEF ConditionAt
  <1> HIDE DEF own
  <1>3. prior \in Conditions
    <2>1. own # <<>> => Head(own) \in Conditions
      BY <1>1
    <2> QED BY <1>2, <2>1
  <1> HIDE DEF prior
  <1>4. prior.rev + 1 \in Nat
    BY <1>3 DEF Conditions
  <1>5. expired \in Conditions
    BY <1>4, StateTypes, ConditionTypes
  <1>6. RejectPending(rec, ver, by) = [conds |-> Append(others, expired), permit |-> NoPermit]
    BY Zenon DEF RejectPending, own, prior
  <1> HIDE DEF others, expired
  <1>7. Append(others, expired) \in Seq(Conditions)
    BY <1>1, <1>5
  <1> QED BY <1>6, <1>7, AbsentTypes, HealthRecord

LEMMA RejectCurrentTypes ==
    ASSUME NEW rec \in HealthRecords, NEW ver \in Nat, NEW by \in Nat
    PROVE  RejectCurrent(rec, ver, by) \in HealthRecords
  <1>1. Condition("account", ver, "expired", 0, by) \in Conditions
    BY StateTypes, ConditionTypes
  <1>2. <<Condition("account", ver, "expired", 0, by)>> \in Seq(Conditions)
    BY <1>1
  <1> QED BY <1>2, AbsentTypes, HealthRecord DEF RejectCurrent

LEMMA ResetTypes ==
    ASSUME NEW rec \in HealthRecords, NEW ver \in Nat, NEW preserve \in Nat, NEW by \in Nat
    PROVE  /\ ResetForEnableProbe(rec, ver, by) \in HealthRecords
           /\ ResetForCredentialEpoch(rec, ver, preserve, by) \in HealthRecords
  <1> DEFINE fresh == Condition("account", ver, "unknown", 0, by)
             old(wanted) == Those(rec.conds, wanted)
             held == IF preserve > 0 THEN old({c \in Range(rec.conds) : c.ver = preserve}) ELSE <<fresh>>
             others == old({c \in Range(rec.conds) : ~(c.scope = "account" /\ c.ver \in {ver, 0})})
  <1>1. fresh \in Conditions
    BY StateTypes, ConditionTypes
  <1>2. \A wanted : old(wanted) \in Seq(Conditions)
    BY HealthFields, ThoseWanted
  <1> HIDE DEF old, fresh
  <1>3. held \in Seq(Conditions)
    BY <1>1, <1>2
  <1>4. Append(others, fresh) \in Seq(Conditions)
    BY <1>1, <1>2
  <1>5. ResetForEnableProbe(rec, ver, by) = [conds |-> Append(others, fresh), permit |-> NoPermit]
    BY Zenon DEF ResetForEnableProbe, old, fresh
  <1>6. ResetForCredentialEpoch(rec, ver, preserve, by) = [conds |-> held, permit |-> NoPermit]
    BY Zenon DEF ResetForCredentialEpoch, old, fresh
  <1> HIDE DEF held, others
  <1> QED BY <1>3, <1>4, <1>5, <1>6, AbsentTypes, HealthRecord

LEMMA ActivationTypes ==
    ASSUME NEW rec \in HealthRecords, NEW ver \in Nat, NEW by \in Nat
    PROVE  RecordActivation(rec, ver, by) \in HealthRecords
  <1> DEFINE healthy == Condition("account", ver, "healthy", 0, by)
             Same(c) == c.scope = "account" /\ c.ver = ver
             conds == rec.conds
             f == [i \in DOMAIN conds |-> IF Same(conds[i]) THEN healthy ELSE conds[i]]
             new == IF \E c \in Range(conds) : Same(c) THEN f ELSE Append(conds, healthy)
  <1>1. healthy \in Conditions
    BY StateTypes, ConditionTypes
  <1>2. conds \in Seq(Conditions)
    BY HealthFields
  <1>3. RecordActivation(rec, ver, by) = [rec EXCEPT !.conds = new]
    BY DEF RecordActivation, HealthRecords
  <1> HIDE DEF conds, healthy
  <1>4. /\ \A i \in DOMAIN conds : f[i] \in Conditions
        /\ DOMAIN f = DOMAIN conds /\ f = [i \in DOMAIN conds |-> f[i]]
    BY <1>1, <1>2
  <1> HIDE DEF f
  <1>5. f \in Seq(Conditions)
    BY <1>2, <1>4, MapTypes
  <1>6. Append(conds, healthy) \in Seq(Conditions)
    BY <1>1, <1>2
  <1>7. new \in Seq(Conditions)
    BY <1>5, <1>6, Zenon
  <1> HIDE DEF new
  <1> QED BY <1>3, <1>7 DEF HealthRecords

LEMMA PermitTypes ==
    ASSUME NEW rec \in HealthRecords, NEW permit \in Permits
    PROVE  /\ ClearPermit(rec) \in HealthRecords /\ ClaimPermit(rec, permit) \in HealthRecords
  BY AbsentTypes DEF ClearPermit, ClaimPermit, HealthRecords

LEMMA PermitForTypes ==
    ASSUME NEW c \in Conditions, NEW owner \in Nat
    PROVE  PermitFor(c, owner) \in Permits /\ PermitFor(c, owner).owner = owner
  BY DEF PermitFor, Permits, Conditions

-----------------------------------------------------------------------------
(* What every step of a request keeps *)

LEMMA BudgetTypes ==
    ASSUME NEW a \in Agendas
    PROVE  Budget(a) \in [Ops -> Nat] /\ SumOf(Budget(a)) \in Nat
  <1>1. \A o \in Ops : (IF o \in DOMAIN a.ops THEN a.ops[o] ELSE 0) \in Nat
    BY AccountAssumption
  <1>2. Budget(a) \in [Ops -> Nat]
    BY <1>1 DEF Budget
  <1> HIDE DEF Budget
  <1>3. \A o \in Ops : Budget(a)[o] \in Nat
    BY <1>2
  <1>4. SumOf(Budget(a)) \in Nat
    BY <1>3 DEF SumOf, Ops
  <1> QED BY <1>2, <1>4

LEMMA MaxIdsBounds == MaxIds \in Nat /\ \A a \in Agendas : SumOf(Budget(a)) <= MaxIds
  <1> DEFINE S == {SumOf(Budget(a)) : a \in Agendas}
             Most(n) == \A a \in Agendas : SumOf(Budget(a)) <= n
  <1>1. \E n \in S : Most(n)
    BY AgendaAssumption
  <1>2. MaxIds = CHOOSE n \in S : Most(n)
    BY Zenon DEF MaxIds
  <1>3. MaxIds \in S /\ Most(MaxIds)
    BY <1>1, <1>2, Zenon
  <1> QED BY <1>3, BudgetTypes

\* A request that comes takes the next identifier.
LEMMA BudgetSpent ==
    ASSUME NEW b \in [Ops -> Nat], NEW op \in Ops, b[op] > 0
    PROVE  /\ [b EXCEPT ![op] = @ - 1] \in [Ops -> Nat]
           /\ SumOf([b EXCEPT ![op] = @ - 1]) = SumOf(b) - 1
  <1> DEFINE c == [b EXCEPT ![op] = b[op] - 1]
  <1>1. c \in [Ops -> Nat]
    OBVIOUS
  <1>2. \A o \in Ops : c[o] = IF o = op THEN b[o] - 1 ELSE b[o]
    OBVIOUS
  <1>3. \A o \in Ops : b[o] \in Nat
    OBVIOUS
  <1> HIDE DEF c
  <1>4. SumOf(c) = SumOf(b) - 1
    BY <1>2, <1>3 DEF Ops, SumOf
  <1> QED BY <1>1, <1>4 DEF c

LEMMA PlacesAre ==
    /\ "gate" \in Places /\ "reload" \in Places /\ "recheck" \in Places
    /\ "claimpermit" \in Places /\ "confirmload" \in Places /\ "confirm" \in Places
    /\ "unclaim" \in Places /\ "validate" \in Places /\ "call" \in Places
    /\ "mint" \in Places /\ "decideload" \in Places /\ "decide" \in Places
    /\ "activate" \in Places /\ "observe" \in Places /\ "release" \in Places
    /\ "commit" \in Places /\ "resolve" \in Places /\ "renew" \in Places
    /\ "rejectload" \in Places /\ "reject" \in Places /\ "rejectpending" \in Places
    /\ "rollback" \in Places /\ "discard" \in Places /\ "idle" \in Places
    /\ "reread" \in Places /\ "reserve" \in Places /\ "claim" \in Places
    /\ "put" \in Places /\ "epoch" \in Places /\ "stage" \in Places
    /\ "undo" \in Places /\ "restore" \in Places /\ "mark" \in Places
    /\ "begin" \in Places /\ "unmark" \in Places /\ "ask" \in Places
    /\ "settle" \in Places /\ "allocate" \in Places /\ "fail" \in Places
    /\ "disableread" \in Places /\ "disablesave" \in Places /\ "disableclear" \in Places
    /\ "enableread" \in Places /\ "enablereset" \in Places /\ "enablesave" \in Places
    /\ "revoke" \in Places /\ "deletesave" \in Places
  BY DEF Places, ProbeSteps

LEMMA IdleTypes ==
    /\ Idle \in Requests /\ Idle.op = "none" /\ Idle.pc = "idle" /\ Idle.permit = NoPermit
    /\ Idle.latest = Draft /\ Idle.acc = Draft
  <1>1. "none" \in Signals /\ "idle" \in Places /\ "account" \in Scopes
    BY StateTypes, PlacesAre DEF Signals
  <1>2. Idle \in Requests
    BY <1>1, DraftTypes, AbsentTypes DEF Idle, Requests
  <1> QED BY <1>2 DEF Idle

LEMMA RequestFields ==
    ASSUME NEW r \in Requests
    PROVE  /\ r.op \in Ops \cup {"none"} /\ r.pc \in Places /\ r.id \in Nat
           /\ r.acc \in Rows /\ r.latest \in Rows /\ r.v \in Nat
           /\ r.scope \in Scopes /\ r.permit \in Permits /\ r.signal \in Signals
           /\ r.again \in BOOLEAN /\ r.reason \in BOOLEAN /\ r.seen \in Nat
  BY DEF Requests

\* Only the request x goes on.
Others(x) == h' = [y \in Handlers |-> h'[y]] /\ \A y \in Handlers \ {x} : h'[y] = h[y]

\* The request stays the one it was, ends, or is a new one.
Continues(x) ==
    \/ h'[x].op = "none"
    \/ h[x].op # "none" /\ h'[x].id = h[x].id
    \/ h'[x].id = ids + 1 /\ ids' = ids + 1

LEMMA Preserved ==
    ASSUME AccountInv, NEW x \in Handlers, StoresOK', Others(x), Continues(x),
           h'[x] \in Requests, Identified(h'[x], ids'), Applies(h'[x], proven'),
           proven \subseteq proven', ids <= ids'
    PROVE  AccountInv'
  <1>1. ids \in Nat /\ ids' \in Nat
    BY DEF AccountInv, StoresOK
  <1>2. ASSUME NEW y \in Handlers, y # x
        PROVE  h'[y] = h[y] /\ h'[y] \in Requests /\ Identified(h'[y], ids') /\ Applies(h'[y], proven')
    <2>1. h'[y] = h[y] /\ h[y] \in Requests /\ Identified(h[y], ids) /\ Applies(h[y], proven)
      BY <1>2 DEF AccountInv, Others
    <2>2. Identified(h[y], ids')
      BY <1>1, <2>1 DEF Identified, Requests
    <2>3. Applies(h[y], proven')
      BY <2>1 DEF Applies
    <2> QED BY <2>1, <2>2, <2>3
  <1>3. h' \in [Handlers -> Requests]
    <2>1. \A y \in Handlers : h'[y] \in Requests
      BY <1>2
    <2> QED BY <2>1 DEF Others
  <1>4. \A y \in Handlers : Identified(h'[y], ids') /\ Applies(h'[y], proven')
    BY <1>2
  <1>5. ASSUME NEW y \in Handlers, y # x, h'[x].op # "none", h'[y].op # "none"
        PROVE  h'[x].id # h'[y].id
    <2>1. h'[y] = h[y] /\ h[y].id \in 1 .. ids
      BY <1>2, <1>5 DEF AccountInv, Identified
    <2>2. CASE h'[x].id = ids + 1
      BY <1>1, <2>1, <2>2
    <2>3. CASE h[x].op # "none" /\ h'[x].id = h[x].id
      BY <1>5, <2>1, <2>3 DEF AccountInv, Unshared
    <2> QED BY <1>5, <2>2, <2>3 DEF Continues
  <1>6. Unshared'
    <2> SUFFICES ASSUME NEW y \in Handlers, NEW z \in Handlers, h'[y].op # "none",
                        h'[z].op # "none", h'[y].id = h'[z].id
                 PROVE  y = z
      BY DEF Unshared
    <2>1. CASE y = x
      BY <1>5, <2>1
    <2>2. CASE z = x
      BY <1>5, <2>2
    <2>3. CASE y # x /\ z # x
      <3>1. h'[y] = h[y] /\ h'[z] = h[z]
        BY <1>2, <2>3
      <3> QED BY <3>1 DEF AccountInv, Unshared
    <2> QED BY <2>1, <2>2, <2>3
  <1> QED BY <1>3, <1>4, <1>6 DEF AccountInv

\* Where a request may go on whatever it knows.
Plain == Places \ (Authenticated \cup {"call", "rejectpending", "rollback", "gate", "idle"})

LEMMA Ongoing ==
    ASSUME AccountInv, NEW x \in Handlers, h[x].pc # "idle"
    PROVE  /\ h[x] \in Requests /\ h[x].op # "none" /\ h[x].id \in 1 .. ids
           /\ Identified(h[x], ids) /\ Applies(h[x], proven)
           /\ DisabledOrigin(h[x].acc) /\ DisabledOrigin(h[x].latest)
  BY IdleTypes DEF AccountInv, Identified, Applies

\* The calls a handler makes in between leave the budget and the identifiers alone.
LEMMA StoresKept ==
    ASSUME AccountInv, KeepRest, faults' = faults \/ Fault, RowOK', HealthOK', snapshot' \in Nat,
           vault' \in [Versions -> [state : {"none", "held", "revoked"}, by : Nat]]
    PROVE  StoresOK'
  <1>1. faults' \in 0 .. MaxFaults
    BY AccountAssumption DEF AccountInv, StoresOK, Fault
  <1>2. budget' = budget /\ ids' = ids /\ MaxIds' = MaxIds
    BY DEF KeepRest
  <1>3. budget' \in [Ops -> Nat] /\ ids' \in Nat /\ ids' + SumOf(budget') <= MaxIds
    BY <1>2 DEF AccountInv, StoresOK
  <1> QED BY <1>1, <1>3 DEF StoresOK

LEMMA AllKept ==
    ASSUME AccountInv, KeepRest, faults' = faults \/ Fault,
           UNCHANGED <<row, health, vault, snapshot>>
    PROVE  StoresOK'
  <1>1. /\ RowOK' /\ HealthOK' /\ snapshot' \in Nat
        /\ vault' \in [Versions -> [state : {"none", "held", "revoked"}, by : Nat]]
    BY DEF AccountInv, StoresOK, RowOK, HealthOK
  <1> QED BY <1>1, StoresKept

LEMMA RowMoves ==
    ASSUME AccountInv, KeepRest, faults' = faults, RowOK', UNCHANGED <<health, vault, snapshot>>
    PROVE  StoresOK'
  <1>1. /\ HealthOK' /\ snapshot' \in Nat
        /\ vault' \in [Versions -> [state : {"none", "held", "revoked"}, by : Nat]]
    BY DEF AccountInv, StoresOK, HealthOK
  <1> QED BY <1>1, StoresKept

LEMMA HealthMoves ==
    ASSUME AccountInv, KeepRest, faults' = faults \/ Fault, HealthOK',
           UNCHANGED <<row, vault, snapshot>>
    PROVE  StoresOK'
  <1>1. /\ RowOK' /\ snapshot' \in Nat
        /\ vault' \in [Versions -> [state : {"none", "held", "revoked"}, by : Nat]]
    BY DEF AccountInv, StoresOK, RowOK
  <1> QED BY <1>1, StoresKept

LEMMA VaultMoves ==
    ASSUME AccountInv, KeepRest, faults' = faults \/ Fault,
           vault' \in [Versions -> [state : {"none", "held", "revoked"}, by : Nat]],
           UNCHANGED <<row, health, snapshot>>
    PROVE  StoresOK'
  <1>1. RowOK' /\ HealthOK' /\ snapshot' \in Nat
    BY DEF AccountInv, StoresOK, RowOK, HealthOK
  <1> QED BY <1>1, StoresKept

LEMMA Returns ==
    ASSUME AccountInv, NEW x \in Handlers, StoresOK', Return(x), KeepRest, UNCHANGED proven
    PROVE  AccountInv'
  <1>1. ids \in Nat /\ ids' = ids /\ DOMAIN h = Handlers
    BY DEF AccountInv, StoresOK, KeepRest
  <1>2. h'[x] = Idle /\ Others(x)
    BY <1>1 DEF Return, Others
  <1>3. Identified(Idle, ids')
    BY <1>1, IdleTypes DEF Identified
  <1>4. Applies(Idle, proven')
    BY DraftTypes DEF Idle, Applies, Authenticated, Decided
  <1> QED BY <1>1, <1>2, <1>3, <1>4, IdleTypes, Preserved DEF Continues

\* The request goes on as r, and is still the request that it was.
LEMMA Moves ==
    ASSUME AccountInv, NEW x \in Handlers, StoresOK', NEW r \in Requests,
           h[x].pc # "idle", h'[x] = r, Others(x), KeepRest, proven \subseteq proven',
           r.op = h[x].op, r.id = h[x].id, r.pc \notin {"idle", "gate"},
           r.op = "probe" => r.pc \in ProbeSteps,
           r.permit # NoPermit => r.permit.owner = r.id,
           Applies(r, proven')
    PROVE  AccountInv'
  <1>1. ids \in Nat /\ ids' = ids
    BY DEF AccountInv, StoresOK, KeepRest
  <1>2. h[x].op # "none" /\ h[x].id \in 1 .. ids
    BY Ongoing
  <1>3. Identified(r, ids')
    BY <1>1, <1>2 DEF Identified
  <1> QED BY <1>1, <1>2, <1>3, Preserved DEF Continues

\* The request goes on from pc.
LEMMA Goes ==
    ASSUME AccountInv, NEW x \in Handlers, StoresOK', NEW pc \in Places \ {"idle", "gate"},
           h[x].pc # "idle", Go(x, pc), KeepRest, proven \subseteq proven',
           h[x].op = "probe" => pc \in ProbeSteps, Applies([h[x] EXCEPT !.pc = pc], proven')
    PROVE  AccountInv'
  <1> DEFINE r == [h[x] EXCEPT !.pc = pc]
  <1>1. h[x] \in Requests /\ Identified(h[x], ids)
    BY Ongoing
  <1>2. /\ r \in Requests /\ r.op = h[x].op /\ r.id = h[x].id /\ r.pc = pc
        /\ r.permit = h[x].permit
    BY <1>1 DEF Requests
  <1>3. h'[x] = r /\ Others(x)
    BY DEF Go, Others, AccountInv
  <1>4. Applies(r, proven')
    OBVIOUS
  <1> HIDE DEF r
  <1> QED BY <1>1, <1>2, <1>3, <1>4, Moves DEF Identified

\* A place where nothing is applied asks nothing more of the request.
LEMMA PlainApplies ==
    ASSUME NEW r, NEW known, r.pc \in Plain, DisabledOrigin(r.acc), DisabledOrigin(r.latest),
           r.pc = "observe" => r.signal # "none"
    PROVE  Applies(r, known)
  BY DEF Applies, Plain, Authenticated, Decided

LEMMA GoesPlain ==
    ASSUME AccountInv, NEW x \in Handlers, StoresOK', NEW pc \in Plain, h[x].pc # "idle",
           Go(x, pc), KeepRest, proven \subseteq proven', h[x].op = "probe" => pc \in ProbeSteps
    PROVE  AccountInv'
  <1> DEFINE r == [h[x] EXCEPT !.pc = pc]
  <1>1. h[x] \in Requests /\ DisabledOrigin(h[x].acc) /\ DisabledOrigin(h[x].latest)
    BY Ongoing
  <1>2. r.pc = pc /\ r.acc = h[x].acc /\ r.latest = h[x].latest
    BY <1>1 DEF Requests
  <1>3. pc # "observe" /\ pc \in Places \ {"idle", "gate"}
    BY DEF Plain, Authenticated
  <1>4. Applies(r, proven')
    BY <1>1, <1>2, <1>3, PlainApplies
  <1> QED BY <1>3, <1>4, Goes

LEMMA PlainAre ==
    /\ "reread" \in Plain /\ "reserve" \in Plain /\ "claim" \in Plain /\ "put" \in Plain
    /\ "epoch" \in Plain /\ "stage" \in Plain /\ "undo" \in Plain /\ "restore" \in Plain
    /\ "discard" \in Plain /\ "mark" \in Plain /\ "begin" \in Plain /\ "unmark" \in Plain
    /\ "ask" \in Plain /\ "settle" \in Plain /\ "allocate" \in Plain /\ "fail" \in Plain
    /\ "reload" \in Plain /\ "recheck" \in Plain /\ "claimpermit" \in Plain
    /\ "confirmload" \in Plain /\ "confirm" \in Plain /\ "unclaim" \in Plain
    /\ "validate" \in Plain /\ "resolve" \in Plain /\ "renew" \in Plain
    /\ "rejectload" \in Plain /\ "reject" \in Plain /\ "disableread" \in Plain
    /\ "disablesave" \in Plain /\ "disableclear" \in Plain /\ "enableread" \in Plain
    /\ "enablereset" \in Plain /\ "enablesave" \in Plain /\ "revoke" \in Plain
    /\ "deletesave" \in Plain
  BY PlacesAre DEF Plain, Authenticated

\* The request goes on as r, from a place where nothing is applied.
LEMMA MovesPlain ==
    ASSUME AccountInv, NEW x \in Handlers, StoresOK', NEW r \in Requests,
           h[x].pc # "idle", h'[x] = r, Others(x), KeepRest, proven \subseteq proven',
           r.op = h[x].op, r.id = h[x].id, r.pc \in Plain,
           r.op = "probe" => r.pc \in ProbeSteps,
           r.permit # NoPermit => r.permit.owner = r.id,
           DisabledOrigin(r.acc), DisabledOrigin(r.latest)
    PROVE  AccountInv'
  <1>1. r.pc \notin {"idle", "gate"} /\ (r.pc = "observe" => r.signal # "none")
    BY DEF Plain, Authenticated
  <1>2. Applies(r, proven')
    BY <1>1, PlainApplies
  <1> QED BY <1>1, <1>2, Moves

LEMMA PermitIsMine ==
    ASSUME AccountInv, NEW x \in Handlers
    PROVE  h[x].permit # NoPermit => h[x].permit.owner = h[x].id
  BY DEF AccountInv, Identified

-----------------------------------------------------------------------------
(* A request arrives *)

LEMMA Arrival ==
    ASSUME AccountInv, NEW x \in Handlers, NEW r \in Requests, r.op \in Ops,
           r.pc \in Plain \/ r.pc = "gate", r.op = "probe" => r.pc \in ProbeSteps,
           budget[r.op] > 0, budget' = [budget EXCEPT ![r.op] = @ - 1], ids' = ids + 1,
           r.id = ids + 1, r.acc = row, r.latest = Draft, r.permit = NoPermit,
           KeepStores, UNCHANGED faults, h'[x] = r, Others(x)
    PROVE  AccountInv'
  <1>1. /\ ids \in Nat /\ ids + SumOf(budget) <= MaxIds /\ budget \in [Ops -> Nat]
        /\ row \in Rows /\ DisabledOrigin(row)
    BY DEF AccountInv, StoresOK, RowOK
  <1>2. budget' \in [Ops -> Nat] /\ SumOf(budget') = SumOf(budget) - 1
    BY <1>1, BudgetSpent
  <1>3. SumOf(budget) \in Nat
    BY <1>1 DEF SumOf, Ops
  <1>4. StoresOK'
    <2>1. ids' + SumOf(budget') <= MaxIds /\ ids' \in Nat
      BY <1>1, <1>2, <1>3, MaxIdsBounds
    <2>2. /\ RowOK' /\ HealthOK' /\ snapshot' \in Nat /\ faults' \in 0 .. MaxFaults
          /\ vault' \in [Versions -> [state : {"none", "held", "revoked"}, by : Nat]]
      BY DEF AccountInv, StoresOK, RowOK, HealthOK, KeepStores
    <2> QED BY <1>2, <2>1, <2>2 DEF StoresOK
  <1>7. Identified(r, ids')
    <2>1. ids + 1 \in 1 .. ids'
      BY <1>1
    <2>2. r.pc # "idle" /\ r.op # "none"
      BY DEF Plain, Ops
    <2> QED BY <2>1, <2>2 DEF Identified
  <1>8. Applies(r, proven')
    <2>1. DisabledOrigin(r.acc) /\ DisabledOrigin(r.latest)
      BY <1>1, DraftTypes
    <2>2. r.pc \notin Authenticated \cup {"call", "rejectpending", "rollback"}
      BY DEF Plain, Authenticated
    <2>3. r.pc # "observe" /\ r.pc \notin Decided
      BY DEF Plain, Authenticated, Decided
    <2> QED BY <2>1, <2>2, <2>3, Zenon DEF Applies
  <1>9. ids <= ids' /\ proven \subseteq proven' /\ Continues(x)
    BY <1>1 DEF KeepStores, Continues
  <1> QED BY <1>4, <1>7, <1>8, <1>9, Preserved

LEMMA ArrivesStep ==
    ASSUME AccountInv, NEW x \in Handlers, NEW op \in Ops \ {"probe"}, NEW gate, NEW pc \in Plain,
           Arrives(x, op, gate, pc)
    PROVE  AccountInv'
  <1> DEFINE n == ids + 1
             r == [Idle EXCEPT !.op = op, !.pc = pc, !.id = n, !.acc = row]
  <1>1. /\ budget[op] > 0 /\ budget' = [budget EXCEPT ![op] = @ - 1] /\ ids' = ids + 1
        /\ KeepStores /\ UNCHANGED faults /\ h' = [h EXCEPT ![x] = r]
    BY DEF Arrives
  <1>2. /\ r \in Requests /\ r.op = op /\ r.pc = pc /\ r.id = ids + 1 /\ r.acc = row
        /\ r.latest = Draft /\ r.permit = NoPermit
    <2>1. n \in Nat /\ n = ids + 1 /\ row \in Rows /\ op \in Ops /\ pc \in Places
      BY DEF AccountInv, StoresOK, RowOK, Plain
    <2> HIDE DEF n
    <2> QED BY <2>1, IdleTypes DEF Requests
  <1> HIDE DEF r
  <1>3. h'[x] = r /\ Others(x)
    BY <1>1 DEF Others, AccountInv
  <1> QED BY <1>1, <1>2, <1>3, Arrival

LEMMA ArrivalsStep ==
    ASSUME AccountInv, NEW x \in Handlers,
           \/ Submit(x) \/ Replace(x) \/ StartOAuth(x, "connect") \/ StartOAuth(x, "reauthenticate")
           \/ Disable(x) \/ Enable(x) \/ Delete(x)
    PROVE  AccountInv'
  <1>1. /\ "submit" \in Ops \ {"probe"} /\ "replace" \in Ops \ {"probe"}
        /\ "connect" \in Ops \ {"probe"} /\ "reauthenticate" \in Ops \ {"probe"}
        /\ "disable" \in Ops \ {"probe"} /\ "enable" \in Ops \ {"probe"}
        /\ "delete" \in Ops \ {"probe"}
    BY DEF Ops
  <1>2. CASE Submit(x)
    BY <1>1, <1>2, PlainAre, ArrivesStep DEF Submit
  <1>3. CASE Replace(x)
    BY <1>1, <1>3, PlainAre, ArrivesStep DEF Replace
  <1>4. CASE StartOAuth(x, "connect")
    BY <1>1, <1>4, PlainAre, ArrivesStep DEF StartOAuth
  <1>5. CASE StartOAuth(x, "reauthenticate")
    BY <1>1, <1>5, PlainAre, ArrivesStep DEF StartOAuth
  <1>6. CASE Disable(x)
    BY <1>1, <1>6, PlainAre, ArrivesStep DEF Disable
  <1>7. CASE Enable(x)
    BY <1>1, <1>7, PlainAre, ArrivesStep DEF Enable
  <1>8. CASE Delete(x)
    BY <1>1, <1>8, PlainAre, ArrivesStep DEF Delete
  <1> QED BY <1>2, <1>3, <1>4, <1>5, <1>6, <1>7, <1>8

LEMMA PollStep ==
    ASSUME AccountInv, NEW x \in Handlers, NEW id \in 1 .. ids, Poll(x, id)
    PROVE  AccountInv'
  <1> DEFINE n == ids + 1
             r == [Idle EXCEPT !.op = "poll", !.pc = "ask", !.id = n, !.acc = row, !.seen = id]
  <1>1. /\ budget["poll"] > 0 /\ budget' = [budget EXCEPT !["poll"] = @ - 1] /\ ids' = ids + 1
        /\ KeepStores /\ UNCHANGED faults /\ h' = [h EXCEPT ![x] = r]
    BY DEF Poll
  <1>2. "poll" \in Ops /\ "ask" \in Places /\ "ask" \in Plain /\ id \in Nat
    BY PlacesAre, PlainAre DEF Ops, ProbeSteps
  <1>3. /\ r \in Requests /\ r.op = "poll" /\ r.pc = "ask" /\ r.id = ids + 1 /\ r.acc = row
        /\ r.latest = Draft /\ r.permit = NoPermit
    <2>1. n \in Nat /\ n = ids + 1 /\ row \in Rows
      BY DEF AccountInv, StoresOK, RowOK
    <2> HIDE DEF n
    <2> QED BY <1>2, <2>1, IdleTypes DEF Requests
  <1> HIDE DEF r
  <1>4. h'[x] = r /\ Others(x)
    BY <1>1 DEF Others, AccountInv
  <1> QED BY <1>1, <1>2, <1>3, <1>4, Arrival

LEMMA ProbeStep ==
    ASSUME AccountInv, NEW x \in Handlers, NEW scope \in Scopes, Probe(x, scope)
    PROVE  AccountInv'
  <1> DEFINE n == ids + 1
             r == [Idle EXCEPT !.op = "probe", !.pc = "gate", !.id = n, !.acc = row, !.scope = scope]
  <1>1. /\ budget["probe"] > 0 /\ budget' = [budget EXCEPT !["probe"] = @ - 1] /\ ids' = ids + 1
        /\ KeepStores /\ UNCHANGED faults /\ h' = [h EXCEPT ![x] = r]
    BY DEF Probe
  <1>2. "probe" \in Ops /\ "gate" \in Places /\ "gate" \in ProbeSteps /\ 0 \in Nat
    BY PlacesAre DEF Ops, ProbeSteps
  <1>3. /\ r \in Requests /\ r.op = "probe" /\ r.pc = "gate" /\ r.id = ids + 1 /\ r.acc = row
        /\ r.latest = Draft /\ r.permit = NoPermit
    <2>1. n \in Nat /\ n = ids + 1 /\ row \in Rows
      BY DEF AccountInv, StoresOK, RowOK
    <2> HIDE DEF n
    <2> QED BY <1>2, <2>1, IdleTypes DEF Requests
  <1> HIDE DEF r
  <1>4. h'[x] = r /\ Others(x)
    BY <1>1 DEF Others, AccountInv
  <1> QED BY <1>1, <1>2, <1>3, <1>4, Arrival


-----------------------------------------------------------------------------
(* Steps that only read the stores *)

LEMMA RereadStep ==
    ASSUME AccountInv, NEW x \in Handlers, Reread(x)
    PROVE  AccountInv'
  <1>1. StoresOK'
    BY AllKept DEF Reread, KeepStores
  <1>2. h[x].pc # "idle" /\ KeepRest
    BY DEF Reread, At
  <1>3. proven' = proven
    BY DEF Reread, KeepStores
  <1>4. \/ Return(x)
        \/ h' = [h EXCEPT ![x].acc = row,
                       ![x].pc = IF h[x].op = "submit" THEN "reserve" ELSE "claim"]
    BY DEF Reread
  <1>5. CASE Return(x)
    BY <1>1, <1>3, <1>5, <1>2, Returns
  <1>6. CASE h' = [h EXCEPT ![x].acc = row,
                       ![x].pc = IF h[x].op = "submit" THEN "reserve" ELSE "claim"]
    <2> DEFINE r == [h[x] EXCEPT !.acc = row, !.pc = IF h[x].op = "submit" THEN "reserve" ELSE "claim"]
    <2>1. h'[x] = r /\ Others(x)
      BY <1>6 DEF Others, AccountInv
    <2>2. h[x] \in Requests /\ row \in Rows /\ DisabledOrigin(row)
      BY <1>2, Ongoing DEF AccountInv, StoresOK, RowOK
    <2>3. h[x].op # "probe" /\ "reserve" \in Plain \cap Places /\ "claim" \in Plain \cap Places
      BY Ongoing, <1>2, PlainAre, PlacesAre DEF Identified, ProbeSteps, Reread, At
    <2>4. /\ r \in Requests /\ r.op = h[x].op /\ r.id = h[x].id /\ r.permit = h[x].permit
          /\ r.acc = row /\ r.latest = h[x].latest /\ r.pc \in Plain
      BY <2>2, <2>3 DEF Requests
    <2>5. DisabledOrigin(r.acc) /\ DisabledOrigin(r.latest)
      BY <1>2, <2>2, <2>4, Ongoing
    <2> HIDE DEF r
    <2> QED BY <1>1, <1>2, <1>3, <2>1, <2>3, <2>4, <2>5, PermitIsMine, MovesPlain
  <1> QED BY <1>4, <1>5, <1>6

LEMMA SettleStep ==
    ASSUME AccountInv, NEW x \in Handlers, Settle(x)
    PROVE  AccountInv'
  <1>1. StoresOK'
    BY AllKept DEF Settle, KeepStores
  <1>2. h[x].pc # "idle" /\ KeepRest
    BY DEF Settle, At
  <1>3. proven' = proven
    BY DEF Settle, KeepStores
  <1>4. \/ Return(x)
        \/ h' = [h EXCEPT ![x].acc = row,
                       ![x].v  = IF row.pend > 0 THEN row.pend ELSE NextVersion(row),
                       ![x].pc = IF ~Connecting(x) /\ row.pend = 0 THEN "allocate" ELSE "put"]
    BY DEF Settle
  <1>5. CASE Return(x)
    BY <1>1, <1>3, <1>5, <1>2, Returns
  <1>6. CASE h' = [h EXCEPT ![x].acc = row,
                       ![x].v  = IF row.pend > 0 THEN row.pend ELSE NextVersion(row),
                       ![x].pc = IF ~Connecting(x) /\ row.pend = 0 THEN "allocate" ELSE "put"]
    <2> DEFINE r == [h[x] EXCEPT !.acc = row,
                           !.v  = IF row.pend > 0 THEN row.pend ELSE NextVersion(row),
                           !.pc = IF ~Connecting(x) /\ row.pend = 0 THEN "allocate" ELSE "put"]
    <2>1. h'[x] = r /\ Others(x)
      BY <1>6 DEF Others, AccountInv
    <2>2. h[x] \in Requests /\ row \in Rows /\ DisabledOrigin(row)
      BY <1>2, Ongoing DEF AccountInv, StoresOK, RowOK
    <2>3. h[x].op # "probe" /\ "allocate" \in Plain \cap Places /\ "put" \in Plain \cap Places
      BY Ongoing, <1>2, PlainAre, PlacesAre DEF Identified, ProbeSteps, Settle, At
    <2>4. /\ r \in Requests /\ r.op = h[x].op /\ r.id = h[x].id /\ r.permit = h[x].permit
          /\ r.acc = row /\ r.latest = h[x].latest /\ r.pc \in Plain
      BY <2>2, <2>3, RowFields DEF Requests
    <2>5. DisabledOrigin(r.acc) /\ DisabledOrigin(r.latest)
      BY <1>2, <2>2, <2>4, Ongoing
    <2> HIDE DEF r
    <2> QED BY <1>1, <1>2, <1>3, <2>1, <2>3, <2>4, <2>5, PermitIsMine, MovesPlain
  <1> QED BY <1>4, <1>5, <1>6

LEMMA DisableReadStep ==
    ASSUME AccountInv, NEW x \in Handlers, DisableRead(x)
    PROVE  AccountInv'
  <1>1. StoresOK'
    BY AllKept DEF DisableRead, KeepStores
  <1>2. h[x].pc # "idle" /\ KeepRest
    BY DEF DisableRead, At
  <1>3. proven' = proven
    BY DEF DisableRead, KeepStores
  <1>4. \/ Return(x)
        \/ h' = [h EXCEPT ![x].latest = row, ![x].pc = "disablesave"]
    BY DEF DisableRead
  <1>5. CASE Return(x)
    BY <1>1, <1>3, <1>5, <1>2, Returns
  <1>6. CASE h' = [h EXCEPT ![x].latest = row, ![x].pc = "disablesave"]
    <2> DEFINE r == [h[x] EXCEPT !.latest = row, !.pc = "disablesave"]
    <2>1. h'[x] = r /\ Others(x)
      BY <1>6 DEF Others, AccountInv
    <2>2. h[x] \in Requests /\ row \in Rows /\ DisabledOrigin(row)
      BY <1>2, Ongoing DEF AccountInv, StoresOK, RowOK
    <2>3. h[x].op # "probe" /\ "disablesave" \in Plain \cap Places
      BY Ongoing, <1>2, PlainAre, PlacesAre DEF Identified, ProbeSteps, DisableRead, At
    <2>4. /\ r \in Requests /\ r.op = h[x].op /\ r.id = h[x].id /\ r.permit = h[x].permit
          /\ r.acc = h[x].acc /\ r.latest = row /\ r.pc \in Plain
      BY <2>2, <2>3 DEF Requests
    <2>5. DisabledOrigin(r.acc) /\ DisabledOrigin(r.latest)
      BY <1>2, <2>2, <2>4, Ongoing
    <2> HIDE DEF r
    <2> QED BY <1>1, <1>2, <1>3, <2>1, <2>3, <2>4, <2>5, PermitIsMine, MovesPlain
  <1> QED BY <1>4, <1>5, <1>6

LEMMA EnableReadStep ==
    ASSUME AccountInv, NEW x \in Handlers, EnableRead(x)
    PROVE  AccountInv'
  <1>1. StoresOK'
    BY AllKept DEF EnableRead, KeepStores
  <1>2. h[x].pc # "idle" /\ KeepRest
    BY DEF EnableRead, At
  <1>3. proven' = proven
    BY DEF EnableRead, KeepStores
  <1>4. \/ Return(x)
        \/ h' = [h EXCEPT ![x].latest = row, ![x].pc = "enablereset"]
    BY DEF EnableRead
  <1>5. CASE Return(x)
    BY <1>1, <1>3, <1>5, <1>2, Returns
  <1>6. CASE h' = [h EXCEPT ![x].latest = row, ![x].pc = "enablereset"]
    <2> DEFINE r == [h[x] EXCEPT !.latest = row, !.pc = "enablereset"]
    <2>1. h'[x] = r /\ Others(x)
      BY <1>6 DEF Others, AccountInv
    <2>2. h[x] \in Requests /\ row \in Rows /\ DisabledOrigin(row)
      BY <1>2, Ongoing DEF AccountInv, StoresOK, RowOK
    <2>3. h[x].op # "probe" /\ "enablereset" \in Plain \cap Places
      BY Ongoing, <1>2, PlainAre, PlacesAre DEF Identified, ProbeSteps, EnableRead, At
    <2>4. /\ r \in Requests /\ r.op = h[x].op /\ r.id = h[x].id /\ r.permit = h[x].permit
          /\ r.acc = h[x].acc /\ r.latest = row /\ r.pc \in Plain
      BY <2>2, <2>3 DEF Requests
    <2>5. DisabledOrigin(r.acc) /\ DisabledOrigin(r.latest)
      BY <1>2, <2>2, <2>4, Ongoing
    <2> HIDE DEF r
    <2> QED BY <1>1, <1>2, <1>3, <2>1, <2>3, <2>4, <2>5, PermitIsMine, MovesPlain
  <1> QED BY <1>4, <1>5, <1>6

LEMMA LoadStep ==
    ASSUME AccountInv, NEW x \in Handlers, Load(x)
    PROVE  AccountInv'
  <1>1. StoresOK'
    BY AllKept DEF Load, KeepStores
  <1>2. /\ h[x].pc # "idle" /\ KeepRest /\ proven' = proven
        /\ h[x].pc \in {"reload", "confirmload", "decideload", "rejectload"}
    BY DEF Load, KeepStores
  <1>3. /\ h[x] \in Requests /\ Applies(h[x], proven) /\ row \in Rows /\ DisabledOrigin(row)
        /\ DisabledOrigin(h[x].acc) /\ DisabledOrigin(h[x].latest)
    BY <1>2, Ongoing DEF AccountInv, StoresOK, RowOK
  <1> DEFINE to == CASE h[x].pc = "reload" -> "recheck"
                     [] h[x].pc = "confirmload" -> "confirm"
                     [] h[x].pc = "decideload" -> "decide"
                     [] OTHER -> IF h[x].acc.pend > 0 THEN "rejectpending" ELSE "reject"
             r == [h[x] EXCEPT !.latest = row, !.pc = to]
  <1>4. \/ Return(x) \/ Go(x, "unclaim")
        \/ h' = [h EXCEPT ![x].latest = row,
                          ![x].pc = CASE @ = "reload" -> "recheck"
                                      [] @ = "confirmload" -> "confirm"
                                      [] @ = "decideload" -> "decide"
                                      [] OTHER -> IF h[x].acc.pend > 0 THEN "rejectpending" ELSE "reject"]
    BY DEF Load
  <1>5. CASE Return(x)
    BY <1>1, <1>2, <1>5, Returns
  <1>6. CASE Go(x, "unclaim")
    <2>1. "unclaim" \in ProbeSteps
      BY DEF ProbeSteps
    <2> QED BY <1>1, <1>2, <1>6, <2>1, PlainAre, GoesPlain
  <1>7. CASE h' = [h EXCEPT ![x].latest = row,
                          ![x].pc = CASE @ = "reload" -> "recheck"
                                      [] @ = "confirmload" -> "confirm"
                                      [] @ = "decideload" -> "decide"
                                      [] OTHER -> IF h[x].acc.pend > 0 THEN "rejectpending" ELSE "reject"]
    <2>1. h'[x] = r /\ Others(x)
      BY <1>7 DEF Others, AccountInv
    <2>2. \/ h[x].pc = "reload" /\ to = "recheck"
          \/ h[x].pc = "confirmload" /\ to = "confirm"
          \/ h[x].pc = "decideload" /\ to = "decide"
          \/ h[x].pc = "rejectload" /\ h[x].acc.pend > 0 /\ to = "rejectpending"
          \/ h[x].pc = "rejectload" /\ to = "reject"
      BY <1>2
    <2> HIDE DEF to
    <2>3. to \in Places /\ to \in ProbeSteps /\ to \notin {"idle", "gate"}
      BY <2>2, PlacesAre DEF ProbeSteps
    <2>4. /\ r \in Requests /\ r.op = h[x].op /\ r.id = h[x].id /\ r.permit = h[x].permit
          /\ r.acc = h[x].acc /\ r.latest = row /\ r.v = h[x].v /\ r.pc = to
      BY <1>3, <2>3 DEF Requests
    <2> HIDE DEF r
    <2>5. Applies(r, proven')
      <3>1. CASE to \in {"recheck", "confirm", "reject"}
        <4>1. to \in Plain /\ to # "observe"
          BY <3>1, PlainAre
        <4> QED BY <1>3, <2>4, <4>1, PlainApplies
      <3>2. CASE to = "decide" /\ h[x].pc = "decideload"
        <4>1. h[x].v = ProbeVersion(h[x].acc) /\ h[x].v \in proven
          BY <1>3, <3>2 DEF Applies, Authenticated
        <4> QED BY <1>2, <1>3, <2>4, <3>2, <4>1 DEF Applies, Decided
      <3>3. CASE to = "rejectpending" /\ h[x].acc.pend > 0
        BY <1>3, <2>4, <3>3 DEF Applies, Authenticated, Decided
      <3> QED BY <2>2, <3>1, <3>2, <3>3
    <2> QED BY <1>1, <1>2, <2>1, <2>3, <2>4, <2>5, PermitIsMine, Moves
  <1> QED BY <1>4, <1>5, <1>6, <1>7

LEMMA GateStep ==
    ASSUME AccountInv, NEW x \in Handlers, Gate(x)
    PROVE  AccountInv'
  <1>1. StoresOK'
    BY AllKept DEF Gate, KeepStores
  <1>2. h[x].pc # "idle" /\ KeepRest /\ proven' = proven
    BY DEF Gate, KeepStores, At
  <1>3. /\ h[x] \in Requests /\ DisabledOrigin(h[x].acc) /\ DisabledOrigin(h[x].latest)
        /\ h[x].id \in Nat /\ health.conds \in Seq(Conditions)
    BY <1>2, Ongoing, RequestFields, HealthFields DEF AccountInv, StoresOK, HealthOK
  <1> DEFINE exact == ExactCooldown(health.conds, h[x].acc.ver, h[x].scope)
  <1>4. \/ Return(x) \/ Go(x, "rejectload") \/ Go(x, "validate")
        \/ \E c \in exact : h' = [h EXCEPT ![x].permit = PermitFor(c, h[x].id), ![x].pc = "reload"]
    BY Zenon DEF Gate
  <1>5. CASE Return(x)
    BY <1>1, <1>2, <1>5, Returns
  <1>6. CASE Go(x, "rejectload")
    <2>1. "rejectload" \in ProbeSteps
      BY DEF ProbeSteps
    <2> QED BY <1>1, <1>2, <1>6, <2>1, PlainAre, GoesPlain
  <1>7. CASE Go(x, "validate")
    <2>1. "validate" \in ProbeSteps
      BY DEF ProbeSteps
    <2> QED BY <1>1, <1>2, <1>7, <2>1, PlainAre, GoesPlain
  <1>8. ASSUME NEW c \in exact, h' = [h EXCEPT ![x].permit = PermitFor(c, h[x].id), ![x].pc = "reload"]
        PROVE  AccountInv'
    <2> DEFINE p == PermitFor(c, h[x].id)
               r == [h[x] EXCEPT !.permit = p, !.pc = "reload"]
    <2>1. c \in Conditions
      BY <1>3, InRange DEF ExactCooldown, Cooling
    <2>2. p \in Permits /\ p.owner = h[x].id
      BY <1>3, <2>1, PermitForTypes
    <2>3. h'[x] = r /\ Others(x)
      BY <1>8 DEF Others, AccountInv
    <2> HIDE DEF p
    <2>4. "reload" \in Plain /\ "reload" \in Places /\ "reload" \in ProbeSteps
      BY PlainAre, PlacesAre DEF ProbeSteps
    <2>5. /\ r \in Requests /\ r.op = h[x].op /\ r.id = h[x].id /\ r.permit = p
          /\ r.acc = h[x].acc /\ r.latest = h[x].latest /\ r.pc = "reload"
      BY <1>3, <2>2, <2>4 DEF Requests
    <2> HIDE DEF r
    <2> QED BY <1>1, <1>2, <1>3, <2>2, <2>3, <2>4, <2>5, MovesPlain
  <1> QED BY <1>4, <1>5, <1>6, <1>7, <1>8

LEMMA RecheckStep ==
    ASSUME AccountInv, NEW x \in Handlers, Recheck(x)
    PROVE  AccountInv'
  <1>1. StoresOK'
    BY AllKept DEF Recheck, KeepStores
  <1>2. h[x].pc # "idle" /\ KeepRest
    BY DEF Recheck, At
  <1>3. proven' = proven
    BY DEF Recheck, KeepStores
  <1>4. \/ Return(x)
        \/ h' = [h EXCEPT ![x].acc = h[x].latest, ![x].pc = "claimpermit"]
    BY DEF Recheck
  <1>5. CASE Return(x)
    BY <1>1, <1>3, <1>5, <1>2, Returns
  <1>6. CASE h' = [h EXCEPT ![x].acc = h[x].latest, ![x].pc = "claimpermit"]
    <2> DEFINE r == [h[x] EXCEPT !.acc = h[x].latest, !.pc = "claimpermit"]
    <2>1. h'[x] = r /\ Others(x)
      BY <1>6 DEF Others, AccountInv
    <2>2. h[x] \in Requests /\ row \in Rows /\ DisabledOrigin(row)
      BY <1>2, Ongoing DEF AccountInv, StoresOK, RowOK
    <2>3. "claimpermit" \in Plain \cap Places /\ "claimpermit" \in ProbeSteps
      BY Ongoing, <1>2, PlainAre, PlacesAre DEF Identified, ProbeSteps, Recheck, At
    <2>4. /\ r \in Requests /\ r.op = h[x].op /\ r.id = h[x].id /\ r.permit = h[x].permit
          /\ r.acc = h[x].latest /\ r.latest = h[x].latest /\ r.pc = "claimpermit"
      BY <2>2, <2>3, RequestFields DEF Requests
    <2>5. DisabledOrigin(r.acc) /\ DisabledOrigin(r.latest)
      BY <1>2, <2>2, <2>4, Ongoing
    <2> HIDE DEF r
    <2> QED BY <1>1, <1>2, <1>3, <2>1, <2>3, <2>4, <2>5, PermitIsMine, MovesPlain
  <1> QED BY <1>4, <1>5, <1>6

LEMMA ConfirmStep ==
    ASSUME AccountInv, NEW x \in Handlers, Confirm(x)
    PROVE  AccountInv'
  <1>1. StoresOK'
    BY AllKept DEF Confirm, KeepStores
  <1>2. h[x].pc # "idle" /\ KeepRest
    BY DEF Confirm, At
  <1>3. proven' = proven
    BY DEF Confirm, KeepStores
  <1>4. \/ Return(x)
        \/ Go(x, "unclaim")
        \/ h' = [h EXCEPT ![x].acc = h[x].latest, ![x].pc = "validate"]
    BY DEF Confirm
  <1>5. CASE Return(x)
    BY <1>1, <1>3, <1>5, <1>2, Returns
  <1>6. CASE Go(x, "unclaim")
    <2>1. h[x].op = "probe" => "unclaim" \in ProbeSteps
      BY Ongoing, <1>2 DEF Identified, ProbeSteps, Confirm, At
    <2> QED BY <1>1, <1>2, <1>3, <2>1, <1>6, PlainAre, GoesPlain
  <1>7. CASE h' = [h EXCEPT ![x].acc = h[x].latest, ![x].pc = "validate"]
    <2> DEFINE r == [h[x] EXCEPT !.acc = h[x].latest, !.pc = "validate"]
    <2>1. h'[x] = r /\ Others(x)
      BY <1>7 DEF Others, AccountInv
    <2>2. h[x] \in Requests /\ row \in Rows /\ DisabledOrigin(row)
      BY <1>2, Ongoing DEF AccountInv, StoresOK, RowOK
    <2>3. "validate" \in Plain \cap Places /\ "validate" \in ProbeSteps
      BY Ongoing, <1>2, PlainAre, PlacesAre DEF Identified, ProbeSteps, Confirm, At
    <2>4. /\ r \in Requests /\ r.op = h[x].op /\ r.id = h[x].id /\ r.permit = h[x].permit
          /\ r.acc = h[x].latest /\ r.latest = h[x].latest /\ r.pc = "validate"
      BY <2>2, <2>3, RequestFields DEF Requests
    <2>5. DisabledOrigin(r.acc) /\ DisabledOrigin(r.latest)
      BY <1>2, <2>2, <2>4, Ongoing
    <2> HIDE DEF r
    <2> QED BY <1>1, <1>2, <1>3, <2>1, <2>3, <2>4, <2>5, PermitIsMine, MovesPlain
  <1> QED BY <1>4, <1>5, <1>6, <1>7

LEMMA ValidateStep ==
    ASSUME AccountInv, NEW x \in Handlers, Validate(x)
    PROVE  AccountInv'
  <1>1. StoresOK'
    BY AllKept DEF Validate, KeepStores
  <1>2. h[x].pc # "idle" /\ KeepRest
    BY DEF Validate, At
  <1>3. proven' = proven
    BY DEF Validate, KeepStores
  <1>4. \/ Return(x)
        \/ Go(x, "rejectload")
        \/ Go(x, "renew")
        \/ h' = [h EXCEPT ![x].v = ProbeVersion(h[x].acc), ![x].pc = "call"]
    BY DEF Validate, Renewal
  <1>5. CASE Return(x)
    BY <1>1, <1>3, <1>5, <1>2, Returns
  <1>6. CASE Go(x, "rejectload")
    <2>1. h[x].op = "probe" => "rejectload" \in ProbeSteps
      BY Ongoing, <1>2 DEF Identified, ProbeSteps, Validate, At
    <2> QED BY <1>1, <1>2, <1>3, <2>1, <1>6, PlainAre, GoesPlain
  <1>7. CASE Go(x, "renew")
    <2>1. h[x].op = "probe" => "renew" \in ProbeSteps
      BY Ongoing, <1>2 DEF Identified, ProbeSteps, Validate, At
    <2> QED BY <1>1, <1>2, <1>3, <2>1, <1>7, PlainAre, GoesPlain
  <1>8. CASE h' = [h EXCEPT ![x].v = ProbeVersion(h[x].acc), ![x].pc = "call"]
    <2> DEFINE r == [h[x] EXCEPT !.v = ProbeVersion(h[x].acc), !.pc = "call"]
    <2>1. h'[x] = r /\ Others(x)
      BY <1>8 DEF Others, AccountInv
    <2>2. h[x] \in Requests /\ row \in Rows /\ DisabledOrigin(row)
      BY <1>2, Ongoing DEF AccountInv, StoresOK, RowOK
    <2>3. "call" \in Places /\ "call" \in ProbeSteps
      BY Ongoing, <1>2, PlainAre, PlacesAre DEF Identified, ProbeSteps, Validate, At
    <2>4. /\ r \in Requests /\ r.op = h[x].op /\ r.id = h[x].id
          /\ r.permit = h[x].permit
          /\ r.acc = h[x].acc /\ r.latest = h[x].latest /\ r.v = ProbeVersion(h[x].acc) /\ r.pc = "call"
      BY <2>2, <2>3, RequestFields, ProbeVersionTypes DEF Requests
    <2>5. Applies(h[x], proven)
      BY <1>2, Ongoing
    <2> HIDE DEF r
    <2>6. Applies(r, proven')
      BY <2>4, <2>5 DEF Applies, Authenticated, Decided
    <2>7. r.pc \notin {"idle", "gate"} /\ (r.op = "probe" => r.pc \in ProbeSteps)
      BY <2>3, <2>4 DEF ProbeSteps
    <2>8. r.permit # NoPermit => r.permit.owner = r.id
      BY <2>4, PermitIsMine
    <2> QED BY <1>1, <1>2, <1>3, <2>1, <2>4, <2>6, <2>7, <2>8, Moves
  <1> QED BY <1>4, <1>5, <1>6, <1>7, <1>8

LEMMA DecideStep ==
    ASSUME AccountInv, NEW x \in Handlers, Decide(x)
    PROVE  AccountInv'
  <1>1. StoresOK'
    BY AllKept DEF Decide, KeepStores
  <1>2. h[x].pc = "decide" /\ h[x].pc # "idle" /\ KeepRest /\ proven' = proven
    BY DEF Decide, KeepStores, At
  <1>3. h[x] \in Requests /\ Applies(h[x], proven) /\ Identified(h[x], ids)
    BY <1>2, Ongoing
  <1> DEFINE new == h[x].latest
             to == IF ~Owns(x) /\ new.life \in Pending THEN "activate"
                   ELSE IF h[x].signal # "none" THEN "observe"
                   ELSE IF new.life # "active" /\ Owns(x) THEN "release" ELSE "commit"
             limited == LimitAt(health.conds, h[x].permit.scope)
             r == [h[x] EXCEPT !.reason = limited, !.pc = to]
  <1>4. CASE Return(x)
    BY <1>1, <1>2, <1>4, Returns
  <1>5. CASE StillAccepts(h[x].acc, new) /\ h' = [h EXCEPT ![x].reason = limited, ![x].pc = to]
    <2>1. h'[x] = r /\ Others(x)
      BY <1>5 DEF Others, AccountInv
    <2>2. limited \in BOOLEAN
      BY DEF LimitAt
    <2>3. to \in {"activate", "observe", "release", "commit"} /\ (to = "observe" => h[x].signal # "none")
      OBVIOUS
    <2> HIDE DEF to, limited
    <2>4. to \in Places /\ to \in ProbeSteps /\ to \notin {"idle", "gate"}
      BY <2>3, PlacesAre DEF ProbeSteps
    <2>5. /\ r \in Requests /\ r.op = h[x].op /\ r.id = h[x].id /\ r.permit = h[x].permit
          /\ r.acc = h[x].acc /\ r.latest = h[x].latest /\ r.v = h[x].v /\ r.signal = h[x].signal
          /\ r.pc = to
      BY <1>3, <2>2, <2>4 DEF Requests
    <2> HIDE DEF r
    <2>6. Applies(r, proven')
      <3>1. /\ h[x].v = ProbeVersion(h[x].acc) /\ h[x].v \in proven
            /\ DisabledOrigin(h[x].acc) /\ DisabledOrigin(h[x].latest)
        BY <1>2, <1>3 DEF Applies, Authenticated
      <3>2. h[x].acc.pend > 0 => h[x].latest.pend = h[x].acc.pend
        BY <1>5 DEF StillAccepts
      <3>3. r.pc \notin {"rejectpending", "rollback"}
        BY <2>3, <2>5
      <3> QED BY <1>2, <2>3, <2>5, <3>1, <3>2, <3>3, Zenon DEF Applies
    <2> QED BY <1>1, <1>2, <2>1, <2>4, <2>5, <2>6, PermitIsMine, Moves
  <1> QED BY <1>4, <1>5, Zenon DEF Decide

LEMMA CallStep ==
    ASSUME AccountInv, NEW x \in Handlers, Call(x)
    PROVE  AccountInv'
  <1>1. StoresOK'
    BY AllKept DEF Call
  <1>2. /\ h[x].pc = "call" /\ h[x].pc # "idle" /\ KeepRest /\ proven \subseteq proven'
    BY DEF Call, At
  <1>3. h[x] \in Requests /\ Applies(h[x], proven) /\ Identified(h[x], ids)
    BY <1>2, Ongoing
  <1>4. \/ Return(x) /\ proven' = proven
        \/ Go(x, "renew") \/ Go(x, "rejectload")
        \/ \E signal \in Signals :
             /\ proven' = proven \cup {h[x].v}
             /\ h' = [h EXCEPT ![x].signal = signal, ![x].pc = IF Owns(x) THEN "decideload" ELSE "mint"]
    BY DEF Call, Renewal
  <1>5. "renew" \in ProbeSteps /\ "rejectload" \in ProbeSteps
    BY DEF ProbeSteps
  <1>6. CASE Return(x) /\ proven' = proven
    BY <1>1, <1>2, <1>6, Returns
  <1>7. CASE Go(x, "renew")
    BY <1>1, <1>2, <1>5, <1>7, PlainAre, GoesPlain
  <1>8. CASE Go(x, "rejectload")
    BY <1>1, <1>2, <1>5, <1>8, PlainAre, GoesPlain
  <1>9. ASSUME NEW signal \in Signals, proven' = proven \cup {h[x].v},
               h' = [h EXCEPT ![x].signal = signal, ![x].pc = IF Owns(x) THEN "decideload" ELSE "mint"]
        PROVE  AccountInv'
    <2> DEFINE to == IF Owns(x) THEN "decideload" ELSE "mint"
               r == [h[x] EXCEPT !.signal = signal, !.pc = to]
    <2>1. h'[x] = r /\ Others(x)
      BY <1>9 DEF Others, AccountInv
    <2>2. to \in {"decideload", "mint"}
      OBVIOUS
    <2> HIDE DEF to
    <2>3. to \in Places /\ to \in ProbeSteps /\ to \notin {"idle", "gate"}
      BY <2>2, PlacesAre DEF ProbeSteps
    <2>4. /\ r \in Requests /\ r.op = h[x].op /\ r.id = h[x].id /\ r.permit = h[x].permit
          /\ r.acc = h[x].acc /\ r.latest = h[x].latest /\ r.v = h[x].v /\ r.pc = to
      BY <1>3, <2>3 DEF Requests
    <2> HIDE DEF r
    <2>5. Applies(r, proven')
      <3>1. /\ h[x].v = ProbeVersion(h[x].acc) /\ h[x].v \in proven'
            /\ DisabledOrigin(h[x].acc) /\ DisabledOrigin(h[x].latest)
        BY <1>2, <1>3, <1>9 DEF Applies
      <3>2. r.pc \notin {"rejectpending", "rollback", "observe"} /\ r.pc \notin Decided
        BY <2>2, <2>4 DEF Decided
      <3> QED BY <2>4, <3>1, <3>2, Zenon DEF Applies
    <2> QED BY <1>1, <1>2, <2>1, <2>3, <2>4, <2>5, PermitIsMine, Moves
  <1> QED BY <1>4, <1>6, <1>7, <1>8, <1>9

LEMMA MintStep ==
    ASSUME AccountInv, NEW x \in Handlers, Mint(x)
    PROVE  AccountInv'
  <1>2. /\ h[x].pc = "mint" /\ h[x].pc # "idle" /\ KeepRest /\ proven' = proven
    BY DEF Mint, At
  <1>3. h[x] \in Requests /\ Applies(h[x], proven) /\ Identified(h[x], ids)
    BY <1>2, Ongoing
  <1>1. StoresOK'
    <2>1. /\ RowOK' /\ HealthOK'
          /\ vault' \in [Versions -> [state : {"none", "held", "revoked"}, by : Nat]]
      BY DEF Mint, AccountInv, StoresOK, RowOK, HealthOK
    <2>2. snapshot' \in Nat
      BY <1>3, RequestFields DEF Mint, AccountInv, StoresOK
    <2>3. faults' = faults \/ Fault
      BY DEF Mint
    <2> QED BY <1>2, <2>1, <2>2, <2>3, StoresKept
  <1>4. CASE Return(x)
    BY <1>1, <1>2, <1>4, Returns
  <1>5. CASE Go(x, "decideload")
    <2> DEFINE r == [h[x] EXCEPT !.pc = "decideload"]
    <2>1. r.acc = h[x].acc /\ r.latest = h[x].latest /\ r.v = h[x].v /\ r.pc = "decideload"
      BY <1>3 DEF Requests
    <2>2. Applies(r, proven')
      <3>1. /\ h[x].v = ProbeVersion(h[x].acc) /\ h[x].v \in proven'
            /\ DisabledOrigin(h[x].acc) /\ DisabledOrigin(h[x].latest)
        BY <1>2, <1>3 DEF Applies, Authenticated
      <3>2. r.pc \notin {"rejectpending", "rollback", "observe"} /\ r.pc \notin Decided
        BY <2>1 DEF Decided
      <3> HIDE DEF r
      <3> QED BY <2>1, <3>1, <3>2, Zenon DEF Applies
    <2>3. "decideload" \in Places \ {"idle", "gate"} /\ "decideload" \in ProbeSteps
      BY PlacesAre DEF ProbeSteps
    <2> QED BY <1>1, <1>2, <1>5, <2>2, <2>3, Goes
  <1> QED BY <1>4, <1>5 DEF Mint

-----------------------------------------------------------------------------
(* Steps that write the row *)

LEMMA RowWritten ==
    ASSUME AccountInv, NEW fence, NEW next \in Rows, DisabledOrigin(next),
           Saves(fence, next) \/ Rejects(fence)
    PROVE  RowOK'
  BY DEF Saves, Rejects, RowOK, AccountInv, StoresOK

LEMMA ReserveStep ==
    ASSUME AccountInv, NEW x \in Handlers, Reserve(x)
    PROVE  AccountInv'
  <1>1. StoresOK'
    <2> DEFINE next == [row EXCEPT !.last = NextVersion(h[x].acc)]
    <2>1. h[x].pc # "idle"
      BY DEF Reserve, At
    <2>2. h[x] \in Requests /\ DisabledOrigin(h[x].acc) /\ DisabledOrigin(h[x].latest)
      BY <2>1, Ongoing
    <2>3. row \in Rows /\ DisabledOrigin(row)
      BY DEF AccountInv, StoresOK, RowOK
    <2>4. next \in Rows /\ DisabledOrigin(next)
      <3> DEFINE n == NextVersion(h[x].acc)
      <3>1. n \in Nat
        BY <2>2, RequestFields, RowFields
      <3>2. next = [row EXCEPT !.last = n]
        OBVIOUS
      <3> HIDE DEF n, next
      <3> QED BY <2>3, <3>1, <3>2 DEF Rows, DisabledOrigin
    <2>5. Saves(AllocationFence(h[x].acc), next) \/ Rejects(AllocationFence(h[x].acc))
      BY DEF Reserve
    <2> HIDE DEF next
    <2>6. RowOK'
      BY <2>4, <2>5, RowWritten
    <2> QED BY <2>6, RowMoves DEF Reserve
  <1>2. h[x].pc # "idle" /\ KeepRest
    BY DEF Reserve, At
  <1>3. proven' = proven
    BY DEF Reserve, KeepStores
  <1>4. \/ Return(x)
        \/ h' = [h EXCEPT ![x].v = NextVersion(h[x].acc), ![x].pc = "put"]
    BY DEF Reserve
  <1>5. CASE Return(x)
    BY <1>1, <1>3, <1>5, <1>2, Returns
  <1>6. CASE h' = [h EXCEPT ![x].v = NextVersion(h[x].acc), ![x].pc = "put"]
    <2> DEFINE r == [h[x] EXCEPT !.v = NextVersion(h[x].acc), !.pc = "put"]
    <2>1. h'[x] = r /\ Others(x)
      BY <1>6 DEF Others, AccountInv
    <2>2. h[x] \in Requests /\ row \in Rows /\ DisabledOrigin(row)
      BY <1>2, Ongoing DEF AccountInv, StoresOK, RowOK
    <2>3. h[x].op # "probe" /\ "put" \in Plain \cap Places
      BY Ongoing, <1>2, PlainAre, PlacesAre DEF Identified, ProbeSteps, Reserve, At
    <2>4. /\ r \in Requests /\ r.op = h[x].op /\ r.id = h[x].id /\ r.permit = h[x].permit
          /\ r.acc = h[x].acc /\ r.latest = h[x].latest /\ r.pc = "put"
      BY <2>2, <2>3, RequestFields, RowFields DEF Requests
    <2>5. DisabledOrigin(r.acc) /\ DisabledOrigin(r.latest)
      BY <1>2, <2>2, <2>4, Ongoing
    <2> HIDE DEF r
    <2> QED BY <1>1, <1>2, <1>3, <2>1, <2>3, <2>4, <2>5, PermitIsMine, MovesPlain
  <1> QED BY <1>4, <1>5, <1>6

LEMMA StageStep ==
    ASSUME AccountInv, NEW x \in Handlers, Stage(x)
    PROVE  AccountInv'
  <1>1. StoresOK'
    <2> DEFINE next == Staged(x)
    <2>1. h[x].pc # "idle"
      BY DEF Stage, At
    <2>2. h[x] \in Requests /\ DisabledOrigin(h[x].acc) /\ DisabledOrigin(h[x].latest)
      BY <2>1, Ongoing
    <2>3. row \in Rows /\ DisabledOrigin(row)
      BY DEF AccountInv, StoresOK, RowOK
    <2>4. next \in Rows /\ DisabledOrigin(next)
      <3> DEFINE a == h[x].acc
      <3>1. /\ a \in Rows /\ DisabledOrigin(a)
            /\ WithSubmittedCredential(a) \in Rows /\ DisabledOrigin(WithSubmittedCredential(a))
        BY <2>2, RequestFields, Transitions
      <3>2. \A b \in Rows : DisabledOrigin(b) =>
              WithOAuthJourneyCleared(b) \in Rows /\ DisabledOrigin(WithOAuthJourneyCleared(b))
        BY Transitions
      <3> QED BY <3>1, <3>2 DEF Staged
    <2>5. Saves(StageFence(x), next) \/ Rejects(StageFence(x))
      BY DEF Stage
    <2> HIDE DEF next
    <2>6. RowOK'
      BY <2>4, <2>5, RowWritten
    <2> QED BY <2>6, RowMoves DEF Stage
  <1>2. h[x].pc # "idle" /\ KeepRest
    BY DEF Stage, At
  <1>3. proven' = proven
    BY DEF Stage, KeepStores
  <1>4. \/ Return(x)
        \/ Go(x, "undo")
    BY DEF Stage
  <1>5. CASE Return(x)
    BY <1>1, <1>3, <1>5, <1>2, Returns
  <1>6. CASE Go(x, "undo")
    <2>1. h[x].op = "probe" => "undo" \in ProbeSteps
      BY Ongoing, <1>2 DEF Identified, ProbeSteps, Stage, At
    <2> QED BY <1>1, <1>2, <1>3, <2>1, <1>6, PlainAre, GoesPlain
  <1> QED BY <1>4, <1>5, <1>6

LEMMA RestoreStep ==
    ASSUME AccountInv, NEW x \in Handlers, Restore(x)
    PROVE  AccountInv'
  <1>1. StoresOK'
    <2> DEFINE next == WithOAuthJourneyCleared(WithPendingCredentialRejected(h[x].acc))
    <2>1. h[x].pc # "idle"
      BY DEF Restore, At
    <2>2. h[x] \in Requests /\ DisabledOrigin(h[x].acc) /\ DisabledOrigin(h[x].latest)
      BY <2>1, Ongoing
    <2>3. row \in Rows /\ DisabledOrigin(row)
      BY DEF AccountInv, StoresOK, RowOK
    <2>4. next \in Rows /\ DisabledOrigin(next)
      <3> DEFINE b == WithPendingCredentialRejected(h[x].acc)
      <3>1. b \in Rows /\ DisabledOrigin(b)
        BY <2>2, RequestFields, Transitions
      <3> QED BY <3>1, Transitions
    <2>5. Saves(RestoreFence(x), next) \/ Rejects(RestoreFence(x))
      BY DEF Restore
    <2> HIDE DEF next
    <2>6. RowOK'
      BY <2>4, <2>5, RowWritten
    <2> QED BY <2>6, RowMoves DEF Restore
  <1>2. h[x].pc # "idle" /\ KeepRest
    BY DEF Restore, At
  <1>3. proven' = proven
    BY DEF Restore, KeepStores
  <1>4. Return(x)
    BY DEF Restore
  <1>5. CASE Return(x)
    BY <1>1, <1>3, <1>5, <1>2, Returns
  <1> QED BY <1>4, <1>5

LEMMA MarkStep ==
    ASSUME AccountInv, NEW x \in Handlers, Mark(x)
    PROVE  AccountInv'
  <1>1. StoresOK'
    <2> DEFINE next == WithOAuthJourneyStarted(h[x].acc, h[x].id)
    <2>1. h[x].pc # "idle"
      BY DEF Mark, At
    <2>2. h[x] \in Requests /\ DisabledOrigin(h[x].acc) /\ DisabledOrigin(h[x].latest)
      BY <2>1, Ongoing
    <2>3. row \in Rows /\ DisabledOrigin(row)
      BY DEF AccountInv, StoresOK, RowOK
    <2>4. next \in Rows /\ DisabledOrigin(next)
      BY <2>2, <2>3, RequestFields, Transitions, DraftTypes
    <2>5. Saves(MarkFence(x), next) \/ Rejects(MarkFence(x))
      BY DEF Mark
    <2> HIDE DEF next
    <2>6. RowOK'
      BY <2>4, <2>5, RowWritten
    <2> QED BY <2>6, RowMoves DEF Mark
  <1>2. h[x].pc # "idle" /\ KeepRest
    BY DEF Mark, At
  <1>3. proven' = proven
    BY DEF Mark, KeepStores
  <1>4. \/ Return(x)
        \/ Go(x, "begin")
    BY DEF Mark
  <1>5. CASE Return(x)
    BY <1>1, <1>3, <1>5, <1>2, Returns
  <1>6. CASE Go(x, "begin")
    <2>1. h[x].op = "probe" => "begin" \in ProbeSteps
      BY Ongoing, <1>2 DEF Identified, ProbeSteps, Mark, At
    <2> QED BY <1>1, <1>2, <1>3, <2>1, <1>6, PlainAre, GoesPlain
  <1> QED BY <1>4, <1>5, <1>6

LEMMA UnmarkStep ==
    ASSUME AccountInv, NEW x \in Handlers, Unmark(x)
    PROVE  AccountInv'
  <1>1. StoresOK'
    <2> DEFINE next == h[x].acc
    <2>1. h[x].pc # "idle"
      BY DEF Unmark, At
    <2>2. h[x] \in Requests /\ DisabledOrigin(h[x].acc) /\ DisabledOrigin(h[x].latest)
      BY <2>1, Ongoing
    <2>3. row \in Rows /\ DisabledOrigin(row)
      BY DEF AccountInv, StoresOK, RowOK
    <2>4. next \in Rows /\ DisabledOrigin(next)
      BY <2>2, <2>3, RequestFields, Transitions, DraftTypes
    <2>5. Saves(row.marker = h[x].id, next) \/ Rejects(row.marker = h[x].id)
      BY DEF Unmark
    <2> HIDE DEF next
    <2>6. RowOK'
      BY <2>4, <2>5, RowWritten
    <2> QED BY <2>6, RowMoves DEF Unmark
  <1>2. h[x].pc # "idle" /\ KeepRest
    BY DEF Unmark, At
  <1>3. proven' = proven
    BY DEF Unmark, KeepStores
  <1>4. Return(x)
    BY DEF Unmark
  <1>5. CASE Return(x)
    BY <1>1, <1>3, <1>5, <1>2, Returns
  <1> QED BY <1>4, <1>5

LEMMA AllocateStep ==
    ASSUME AccountInv, NEW x \in Handlers, Allocate(x)
    PROVE  AccountInv'
  <1>1. StoresOK'
    <2> DEFINE next == WithReplacementCredential(h[x].acc)
    <2>1. h[x].pc # "idle"
      BY DEF Allocate, At
    <2>2. h[x] \in Requests /\ DisabledOrigin(h[x].acc) /\ DisabledOrigin(h[x].latest)
      BY <2>1, Ongoing
    <2>3. row \in Rows /\ DisabledOrigin(row)
      BY DEF AccountInv, StoresOK, RowOK
    <2>4. next \in Rows /\ DisabledOrigin(next)
      BY <2>2, <2>3, RequestFields, Transitions, DraftTypes
    <2>5. Saves(row.marker = h[x].seen, next) \/ Rejects(row.marker = h[x].seen)
      BY DEF Allocate
    <2> HIDE DEF next
    <2>6. RowOK'
      BY <2>4, <2>5, RowWritten
    <2> QED BY <2>6, RowMoves DEF Allocate
  <1>2. h[x].pc # "idle" /\ KeepRest
    BY DEF Allocate, At
  <1>3. proven' = proven
    BY DEF Allocate, KeepStores
  <1>4. \/ Return(x)
        \/ h' = [h EXCEPT ![x].acc = WithReplacementCredential(h[x].acc), ![x].pc = "put"]
    BY DEF Allocate
  <1>5. CASE Return(x)
    BY <1>1, <1>3, <1>5, <1>2, Returns
  <1>6. CASE h' = [h EXCEPT ![x].acc = WithReplacementCredential(h[x].acc), ![x].pc = "put"]
    <2> DEFINE r == [h[x] EXCEPT !.acc = WithReplacementCredential(h[x].acc), !.pc = "put"]
    <2>1. h'[x] = r /\ Others(x)
      BY <1>6 DEF Others, AccountInv
    <2>2. h[x] \in Requests /\ DisabledOrigin(h[x].acc) /\ DisabledOrigin(h[x].latest)
      BY <1>2, Ongoing
    <2>3. h[x].op # "probe" /\ "put" \in Plain \cap Places
      BY Ongoing, <1>2, PlainAre, PlacesAre DEF Identified, ProbeSteps, Allocate, At
    <2> DEFINE next == WithReplacementCredential(h[x].acc)
    <2>4. next \in Rows /\ DisabledOrigin(next)
      BY <2>2, RequestFields, Transitions
    <2> HIDE DEF next
    <2>5. /\ r \in Requests /\ r.op = h[x].op /\ r.id = h[x].id /\ r.permit = h[x].permit
          /\ r.acc = next /\ r.latest = h[x].latest /\ r.pc = "put"
      BY <2>2, <2>3, <2>4 DEF Requests, next
    <2> HIDE DEF r
    <2> QED BY <1>1, <1>2, <1>3, <2>1, <2>2, <2>3, <2>4, <2>5, PermitIsMine, MovesPlain
  <1> QED BY <1>4, <1>5, <1>6

LEMMA FailStep ==
    ASSUME AccountInv, NEW x \in Handlers, Fail(x)
    PROVE  AccountInv'
  <1>1. StoresOK'
    <2> DEFINE next == IF Connecting(x) THEN WithOAuthConnectFailed ELSE WithOAuthJourneyCleared(h[x].acc)
    <2>1. h[x].pc # "idle"
      BY DEF Fail, At
    <2>2. h[x] \in Requests /\ DisabledOrigin(h[x].acc) /\ DisabledOrigin(h[x].latest)
      BY <2>1, Ongoing
    <2>3. row \in Rows /\ DisabledOrigin(row)
      BY DEF AccountInv, StoresOK, RowOK
    <2>4. next \in Rows /\ DisabledOrigin(next)
      BY <2>2, <2>3, RequestFields, Transitions, DraftTypes DEF WithOAuthConnectFailed
    <2>5. Saves(row.marker = h[x].seen, next) \/ Rejects(row.marker = h[x].seen)
      BY DEF Fail
    <2> HIDE DEF next
    <2>6. RowOK'
      BY <2>4, <2>5, RowWritten
    <2> QED BY <2>6, RowMoves DEF Fail
  <1>2. h[x].pc # "idle" /\ KeepRest
    BY DEF Fail, At
  <1>3. proven' = proven
    BY DEF Fail, KeepStores
  <1>4. Return(x)
    BY DEF Fail
  <1>5. CASE Return(x)
    BY <1>1, <1>3, <1>5, <1>2, Returns
  <1> QED BY <1>4, <1>5

LEMMA RollbackStep ==
    ASSUME AccountInv, NEW x \in Handlers, Rollback(x)
    PROVE  AccountInv'
  <1>1. StoresOK'
    <2> DEFINE next == WithOAuthJourneyCleared(WithPendingCredentialRejected(h[x].latest))
    <2>1. h[x].pc # "idle"
      BY DEF Rollback, At
    <2>2. h[x] \in Requests /\ DisabledOrigin(h[x].acc) /\ DisabledOrigin(h[x].latest)
      BY <2>1, Ongoing
    <2>3. row \in Rows /\ DisabledOrigin(row)
      BY DEF AccountInv, StoresOK, RowOK
    <2>4. next \in Rows /\ DisabledOrigin(next)
      <3> DEFINE b == WithPendingCredentialRejected(h[x].latest)
      <3>1. b \in Rows /\ DisabledOrigin(b)
        BY <2>2, RequestFields, Transitions
      <3> QED BY <3>1, Transitions
    <2>5. Saves(RollbackFence(x), next) \/ Rejects(RollbackFence(x))
      BY DEF Rollback
    <2> HIDE DEF next
    <2>6. RowOK'
      BY <2>4, <2>5, RowWritten
    <2> QED BY <2>6, RowMoves DEF Rollback
  <1>2. h[x].pc # "idle" /\ KeepRest
    BY DEF Rollback, At
  <1>3. proven' = proven
    BY DEF Rollback, KeepStores
  <1>4. \/ Return(x)
        \/ Go(x, "discard")
    BY DEF Rollback
  <1>5. CASE Return(x)
    BY <1>1, <1>3, <1>5, <1>2, Returns
  <1>6. CASE Go(x, "discard")
    <2>1. h[x].op = "probe" => "discard" \in ProbeSteps
      BY Ongoing, <1>2 DEF Identified, ProbeSteps, Rollback, At
    <2> QED BY <1>1, <1>2, <1>3, <2>1, <1>6, PlainAre, GoesPlain
  <1> QED BY <1>4, <1>5, <1>6

LEMMA DisableSaveStep ==
    ASSUME AccountInv, NEW x \in Handlers, DisableSave(x)
    PROVE  AccountInv'
  <1>1. StoresOK'
    <2> DEFINE next == WithDisabled(h[x].latest)
    <2>1. h[x].pc # "idle"
      BY DEF DisableSave, At
    <2>2. h[x] \in Requests /\ DisabledOrigin(h[x].acc) /\ DisabledOrigin(h[x].latest)
      BY <2>1, Ongoing
    <2>3. row \in Rows /\ DisabledOrigin(row)
      BY DEF AccountInv, StoresOK, RowOK
    <2>4. next \in Rows /\ DisabledOrigin(next)
      BY <2>2, <2>3, RequestFields, Transitions, DraftTypes
    <2>5. Saves(DisableFence(x), next) \/ Rejects(DisableFence(x))
      BY DEF DisableSave
    <2> HIDE DEF next
    <2>6. RowOK'
      BY <2>4, <2>5, RowWritten
    <2> QED BY <2>6, RowMoves DEF DisableSave
  <1>2. h[x].pc # "idle" /\ KeepRest
    BY DEF DisableSave, At
  <1>3. proven' = proven
    BY DEF DisableSave, KeepStores
  <1>4. \/ Return(x)
        \/ Go(x, "disableclear")
        \/ h' = [h EXCEPT ![x].again = TRUE, ![x].pc = "disableread"]
    BY DEF DisableSave
  <1>5. CASE Return(x)
    BY <1>1, <1>3, <1>5, <1>2, Returns
  <1>6. CASE Go(x, "disableclear")
    <2>1. h[x].op = "probe" => "disableclear" \in ProbeSteps
      BY Ongoing, <1>2 DEF Identified, ProbeSteps, DisableSave, At
    <2> QED BY <1>1, <1>2, <1>3, <2>1, <1>6, PlainAre, GoesPlain
  <1>7. CASE h' = [h EXCEPT ![x].again = TRUE, ![x].pc = "disableread"]
    <2> DEFINE r == [h[x] EXCEPT !.again = TRUE, !.pc = "disableread"]
    <2>1. h'[x] = r /\ Others(x)
      BY <1>7 DEF Others, AccountInv
    <2>2. h[x] \in Requests /\ row \in Rows /\ DisabledOrigin(row)
      BY <1>2, Ongoing DEF AccountInv, StoresOK, RowOK
    <2>3. h[x].op # "probe" /\ "disableread" \in Plain \cap Places
      BY Ongoing, <1>2, PlainAre, PlacesAre DEF Identified, ProbeSteps, DisableSave, At
    <2>4. /\ r \in Requests /\ r.op = h[x].op /\ r.id = h[x].id /\ r.permit = h[x].permit
          /\ r.acc = h[x].acc /\ r.latest = h[x].latest /\ r.pc = "disableread"
      BY <2>2, <2>3 DEF Requests
    <2>5. DisabledOrigin(r.acc) /\ DisabledOrigin(r.latest)
      BY <1>2, <2>2, <2>4, Ongoing
    <2> HIDE DEF r
    <2> QED BY <1>1, <1>2, <1>3, <2>1, <2>3, <2>4, <2>5, PermitIsMine, MovesPlain
  <1> QED BY <1>4, <1>5, <1>6, <1>7

LEMMA EnableSaveStep ==
    ASSUME AccountInv, NEW x \in Handlers, EnableSave(x)
    PROVE  AccountInv'
  <1>1. StoresOK'
    <2> DEFINE next == WithEnableProbePending(h[x].latest)
    <2>1. h[x].pc # "idle"
      BY DEF EnableSave, At
    <2>2. h[x] \in Requests /\ DisabledOrigin(h[x].acc) /\ DisabledOrigin(h[x].latest)
      BY <2>1, Ongoing
    <2>3. row \in Rows /\ DisabledOrigin(row)
      BY DEF AccountInv, StoresOK, RowOK
    <2>4. next \in Rows /\ DisabledOrigin(next)
      BY <2>2, <2>3, RequestFields, Transitions, DraftTypes
    <2>5. Saves(row.marker = 0 /\ row.pend = 0 /\ row.life = h[x].latest.life, next) \/ Rejects(row.marker = 0 /\ row.pend = 0 /\ row.life = h[x].latest.life)
      BY DEF EnableSave
    <2> HIDE DEF next
    <2>6. RowOK'
      BY <2>4, <2>5, RowWritten
    <2> QED BY <2>6, RowMoves DEF EnableSave
  <1>2. h[x].pc # "idle" /\ KeepRest
    BY DEF EnableSave, At
  <1>3. proven' = proven
    BY DEF EnableSave, KeepStores
  <1>4. Return(x)
    BY DEF EnableSave
  <1>5. CASE Return(x)
    BY <1>1, <1>3, <1>5, <1>2, Returns
  <1> QED BY <1>4, <1>5

LEMMA DeleteSaveStep ==
    ASSUME AccountInv, NEW x \in Handlers, DeleteSave(x)
    PROVE  AccountInv'
  <1>1. StoresOK'
    <2> DEFINE next == WithDeleted(h[x].acc)
    <2>1. h[x].pc # "idle"
      BY DEF DeleteSave, At
    <2>2. h[x] \in Requests /\ DisabledOrigin(h[x].acc) /\ DisabledOrigin(h[x].latest)
      BY <2>1, Ongoing
    <2>3. row \in Rows /\ DisabledOrigin(row)
      BY DEF AccountInv, StoresOK, RowOK
    <2>4. next \in Rows /\ DisabledOrigin(next)
      BY <2>2, <2>3, RequestFields, Transitions, DraftTypes
    <2>5. Saves(TRUE, next) \/ Rejects(TRUE)
      BY DEF DeleteSave
    <2> HIDE DEF next
    <2>6. RowOK'
      BY <2>4, <2>5, RowWritten
    <2> QED BY <2>6, RowMoves DEF DeleteSave
  <1>2. h[x].pc # "idle" /\ KeepRest
    BY DEF DeleteSave, At
  <1>3. proven' = proven
    BY DEF DeleteSave, KeepStores
  <1>4. Return(x)
    BY DEF DeleteSave
  <1>5. CASE Return(x)
    BY <1>1, <1>3, <1>5, <1>2, Returns
  <1> QED BY <1>4, <1>5

LEMMA ClaimStep ==
    ASSUME AccountInv, NEW x \in Handlers, Claim(x)
    PROVE  AccountInv'
  <1> DEFINE marked  == WithOAuthJourneyStarted(h[x].acc, h[x].id)
             claimed == IF marked.pend = 0 THEN WithReplacementCredential(marked) ELSE marked
             r == [h[x] EXCEPT !.acc = claimed, !.v = claimed.pend, !.pc = "put"]
  <1>1. h[x].pc # "idle" /\ h[x].pc = "claim" /\ KeepRest /\ proven' = proven
    BY DEF Claim, At
  <1>2. /\ h[x] \in Requests /\ DisabledOrigin(h[x].acc) /\ DisabledOrigin(h[x].latest)
        /\ Identified(h[x], ids)
    BY <1>1, Ongoing
  <1>3. marked \in Rows /\ DisabledOrigin(marked)
    BY <1>2, RequestFields, Transitions
  <1> HIDE DEF marked
  <1>4. claimed \in Rows /\ DisabledOrigin(claimed) /\ claimed.pend \in Nat
    BY <1>3, Transitions, RowFields
  <1>5. \/ Rejects(row.marker = 0) /\ Return(x)
        \/ /\ Saves(row.marker = 0, claimed)
           /\ h' = [h EXCEPT ![x].acc = claimed, ![x].v = claimed.pend, ![x].pc = "put"]
    BY Zenon DEF Claim, marked
  <1> HIDE DEF claimed
  <1>6. RowOK'
    BY <1>4, <1>5, RowWritten
  <1>7. StoresOK'
    BY <1>6, RowMoves DEF Claim
  <1>8. CASE Return(x)
    BY <1>1, <1>7, <1>8, Returns
  <1>9. CASE h' = [h EXCEPT ![x].acc = claimed, ![x].v = claimed.pend, ![x].pc = "put"]
    <2>1. h'[x] = r /\ Others(x)
      BY <1>9 DEF Others, AccountInv
    <2>2. h[x].op # "probe" /\ "put" \in Plain \cap Places
      BY <1>1, <1>2, PlainAre, PlacesAre DEF Identified, ProbeSteps
    <2>3. /\ r \in Requests /\ r.op = h[x].op /\ r.id = h[x].id /\ r.permit = h[x].permit
          /\ r.acc = claimed /\ r.latest = h[x].latest /\ r.pc = "put"
      BY <1>2, <1>4, <2>2 DEF Requests
    <2> HIDE DEF r
    <2> QED BY <1>1, <1>2, <1>4, <1>7, <2>1, <2>2, <2>3, PermitIsMine, MovesPlain
  <1> QED BY <1>5, <1>8, <1>9

\* The result of a probe is a row.
LEMMA ResultTypes ==
    ASSUME AccountInv, NEW x \in Handlers, h[x].pc # "idle"
    PROVE  Result(x) \in Rows /\ DisabledOrigin(Result(x))
  <1>1. h[x].latest \in Rows /\ DisabledOrigin(h[x].latest)
    BY Ongoing, RequestFields
  <1> QED BY <1>1, Transitions DEF Result

LEMMA CommitStep ==
    ASSUME AccountInv, NEW x \in Handlers, Commit(x)
    PROVE  AccountInv'
  <1> DEFINE next == IF Heartbeat(x) THEN row ELSE Result(x)
             r == [h[x] EXCEPT !.v = h[x].latest.ver, !.pc = "discard"]
  <1>1. h[x].pc # "idle" /\ KeepRest /\ proven' = proven
    BY DEF Commit, At
  <1>2. /\ h[x] \in Requests /\ DisabledOrigin(h[x].acc) /\ DisabledOrigin(h[x].latest)
        /\ h[x].latest.ver \in Nat
    BY <1>1, Ongoing, RequestFields, RowFields
  <1>3. next \in Rows /\ DisabledOrigin(next)
    BY <1>1, ResultTypes DEF AccountInv, StoresOK, RowOK
  <1>4. \/ Saves(CommitFence(x), next) /\ Committed(x)
        \/ Rejects(CommitFence(x)) /\ Return(x)
    BY DEF Commit
  <1> HIDE DEF next
  <1>5. RowOK'
    BY <1>3, <1>4, RowWritten
  <1>6. StoresOK'
    BY <1>5, RowMoves DEF Commit
  <1>7. \/ Return(x) \/ Go(x, "resolve")
        \/ h' = [h EXCEPT ![x].v = h[x].latest.ver, ![x].pc = "discard"]
    BY <1>4 DEF Committed
  <1>8. /\ "resolve" \in ProbeSteps /\ "discard" \in ProbeSteps
        /\ "discard" \in Plain /\ "discard" \in Places
    BY PlacesAre, PlainAre DEF ProbeSteps
  <1>9. CASE Return(x)
    BY <1>1, <1>6, <1>9, Returns
  <1>10. CASE Go(x, "resolve")
    BY <1>1, <1>6, <1>8, <1>10, PlainAre, GoesPlain
  <1>11. CASE h' = [h EXCEPT ![x].v = h[x].latest.ver, ![x].pc = "discard"]
    <2>1. h'[x] = r /\ Others(x)
      BY <1>11 DEF Others, AccountInv
    <2>2. /\ r \in Requests /\ r.op = h[x].op /\ r.id = h[x].id /\ r.permit = h[x].permit
          /\ r.acc = h[x].acc /\ r.latest = h[x].latest /\ r.pc = "discard"
      BY <1>2, <1>8 DEF Requests
    <2> HIDE DEF r
    <2> QED BY <1>1, <1>2, <1>6, <1>8, <2>1, <2>2, PermitIsMine, MovesPlain
  <1> QED BY <1>7, <1>9, <1>10, <1>11

-----------------------------------------------------------------------------
(* Steps that call the Vault or the OAuth adapter *)

Vaults == [Versions -> [state : {"none", "held", "revoked"}, by : Nat]]

LEMMA VaultSteps ==
    ASSUME AccountInv, NEW v \in Nat, NEW by \in Nat
    PROVE  /\ vault \in Vaults /\ RevokedIn(v) \in Vaults
           /\ [vault EXCEPT ![v] = [state |-> "held", by |-> by]] \in Vaults
  <1> DEFINE Entry == [state : {"none", "held", "revoked"}, by : Nat]
  <1>1. vault \in [Versions -> Entry]
    BY DEF AccountInv, StoresOK
  <1>2. [state |-> "held", by |-> by] \in Entry
    OBVIOUS
  <1>3. ASSUME NEW e \in Entry PROVE [e EXCEPT !.state = "revoked"] \in Entry
    OBVIOUS
  <1> HIDE DEF Entry
  <1>4. [vault EXCEPT ![v] = [state |-> "held", by |-> by]] \in [Versions -> Entry]
    BY <1>1, <1>2
  <1>5. [vault EXCEPT ![v] = [vault[v] EXCEPT !.state = "revoked"]] \in [Versions -> Entry]
    <2>1. CASE v \in Versions
      BY <1>1, <1>3, <2>1
    <2>2. CASE v \notin Versions
      BY <1>1, <2>2
    <2> QED BY <2>1, <2>2
  <1> QED BY <1>1, <1>4, <1>5 DEF Vaults, RevokedIn, Entry

LEMMA PutStep ==
    ASSUME AccountInv, NEW x \in Handlers, Put(x)
    PROVE  AccountInv'
  <1>1. StoresOK'
    <2>1. h[x].pc # "idle"
      BY DEF Put, At
    <2>2. h[x].v \in Nat /\ h[x].id \in Nat
      BY <2>1, Ongoing, RequestFields
    <2>3. /\ vault \in Vaults /\ RevokedIn(h[x].v) \in Vaults
          /\ [vault EXCEPT ![h[x].v] = [state |-> "held", by |-> h[x].id]] \in Vaults
      BY <2>2, VaultSteps
    <2>4. vault' \in Vaults
      BY <2>3 DEF Put
    <2> QED BY <2>4, VaultMoves DEF Put, Vaults
  <1>2. h[x].pc # "idle" /\ KeepRest
    BY DEF Put, At
  <1>3. proven' = proven
    BY DEF Put, KeepStores
  <1>4. \/ Return(x)
        \/ Go(x, "epoch")
        \/ Go(x, "restore")
    BY DEF Put
  <1>5. CASE Return(x)
    BY <1>1, <1>3, <1>5, <1>2, Returns
  <1>6. CASE Go(x, "epoch")
    <2>1. h[x].op = "probe" => "epoch" \in ProbeSteps
      BY Ongoing, <1>2 DEF Identified, ProbeSteps, Put, At
    <2> QED BY <1>1, <1>2, <1>3, <2>1, <1>6, PlainAre, GoesPlain
  <1>7. CASE Go(x, "restore")
    <2>1. h[x].op = "probe" => "restore" \in ProbeSteps
      BY Ongoing, <1>2 DEF Identified, ProbeSteps, Put, At
    <2> QED BY <1>1, <1>2, <1>3, <2>1, <1>7, PlainAre, GoesPlain
  <1> QED BY <1>4, <1>5, <1>6, <1>7

LEMMA UndoStep ==
    ASSUME AccountInv, NEW x \in Handlers, Undo(x)
    PROVE  AccountInv'
  <1>1. StoresOK'
    <2>1. h[x].pc # "idle"
      BY DEF Undo, At
    <2>2. h[x].v \in Nat /\ h[x].id \in Nat
      BY <2>1, Ongoing, RequestFields
    <2>3. /\ vault \in Vaults /\ RevokedIn(h[x].v) \in Vaults
          /\ [vault EXCEPT ![h[x].v] = [state |-> "held", by |-> h[x].id]] \in Vaults
      BY <2>2, VaultSteps
    <2>4. vault' \in Vaults
      BY <2>3 DEF Undo
    <2> QED BY <2>4, VaultMoves DEF Undo, Vaults
  <1>2. h[x].pc # "idle" /\ KeepRest
    BY DEF Undo, At
  <1>3. proven' = proven
    BY DEF Undo, KeepStores
  <1>4. \/ Return(x)
        \/ Go(x, "restore")
    BY DEF Undo
  <1>5. CASE Return(x)
    BY <1>1, <1>3, <1>5, <1>2, Returns
  <1>6. CASE Go(x, "restore")
    <2>1. h[x].op = "probe" => "restore" \in ProbeSteps
      BY Ongoing, <1>2 DEF Identified, ProbeSteps, Undo, At
    <2> QED BY <1>1, <1>2, <1>3, <2>1, <1>6, PlainAre, GoesPlain
  <1> QED BY <1>4, <1>5, <1>6

LEMMA DiscardStep ==
    ASSUME AccountInv, NEW x \in Handlers, Discard(x)
    PROVE  AccountInv'
  <1>1. StoresOK'
    <2>1. h[x].pc # "idle"
      BY DEF Discard, At
    <2>2. h[x].v \in Nat /\ h[x].id \in Nat
      BY <2>1, Ongoing, RequestFields
    <2>3. /\ vault \in Vaults /\ RevokedIn(h[x].v) \in Vaults
          /\ [vault EXCEPT ![h[x].v] = [state |-> "held", by |-> h[x].id]] \in Vaults
      BY <2>2, VaultSteps
    <2>4. vault' \in Vaults
      BY <2>3 DEF Discard
    <2> QED BY <2>4, VaultMoves DEF Discard, Vaults
  <1>2. h[x].pc # "idle" /\ KeepRest
    BY DEF Discard, At
  <1>3. proven' = proven
    BY DEF Discard, KeepStores
  <1>4. Return(x)
    BY DEF Discard
  <1>5. CASE Return(x)
    BY <1>1, <1>3, <1>5, <1>2, Returns
  <1> QED BY <1>4, <1>5

LEMMA RevokeStep ==
    ASSUME AccountInv, NEW x \in Handlers, Revoke(x)
    PROVE  AccountInv'
  <1>1. StoresOK'
    <2> DEFINE todo == {h[x].acc.ver, h[x].acc.pend} \ {0}
               all == [v \in Versions |-> IF v \in todo THEN [vault[v] EXCEPT !.state = "revoked"]
                                          ELSE vault[v]]
    <2>1. h[x].pc # "idle"
      BY DEF Revoke, At
    <2>2. h[x].acc.ver \in Nat
      BY <2>1, Ongoing, RequestFields, RowFields
    <2>3. vault \in Vaults /\ RevokedIn(h[x].acc.ver) \in Vaults
      BY <2>2, VaultSteps
    <2>4. all \in Vaults
      BY <2>3 DEF Vaults
    <2>5. vault' \in {all, vault, RevokedIn(h[x].acc.ver)}
      BY DEF Revoke
    <2> HIDE DEF all
    <2>6. vault' \in Vaults
      BY <2>3, <2>4, <2>5
    <2> QED BY <2>6, VaultMoves DEF Revoke, Vaults
  <1>2. h[x].pc # "idle" /\ KeepRest
    BY DEF Revoke, At
  <1>3. proven' = proven
    BY DEF Revoke, KeepStores
  <1>4. \/ Return(x)
        \/ Go(x, "deletesave")
    BY DEF Revoke
  <1>5. CASE Return(x)
    BY <1>1, <1>3, <1>5, <1>2, Returns
  <1>6. CASE Go(x, "deletesave")
    <2>1. h[x].op = "probe" => "deletesave" \in ProbeSteps
      BY Ongoing, <1>2 DEF Identified, ProbeSteps, Revoke, At
    <2> QED BY <1>1, <1>2, <1>3, <2>1, <1>6, PlainAre, GoesPlain
  <1> QED BY <1>4, <1>5, <1>6

LEMMA BeginStep ==
    ASSUME AccountInv, NEW x \in Handlers, Begin(x)
    PROVE  AccountInv'
  <1>1. StoresOK'
    BY AllKept DEF Begin
  <1>2. h[x].pc # "idle" /\ KeepRest
    BY DEF Begin, At
  <1>3. proven' = proven
    BY DEF Begin, KeepStores
  <1>4. \/ Return(x)
        \/ Go(x, "unmark")
    BY DEF Begin
  <1>5. CASE Return(x)
    BY <1>1, <1>3, <1>5, <1>2, Returns
  <1>6. CASE Go(x, "unmark")
    <2>1. h[x].op = "probe" => "unmark" \in ProbeSteps
      BY Ongoing, <1>2 DEF Identified, ProbeSteps, Begin, At
    <2> QED BY <1>1, <1>2, <1>3, <2>1, <1>6, PlainAre, GoesPlain
  <1> QED BY <1>4, <1>5, <1>6

LEMMA AskStep ==
    ASSUME AccountInv, NEW x \in Handlers, Ask(x)
    PROVE  AccountInv'
  <1>1. StoresOK'
    BY AllKept DEF Ask
  <1>2. h[x].pc # "idle" /\ KeepRest
    BY DEF Ask, At
  <1>3. proven' = proven
    BY DEF Ask, KeepStores
  <1>4. \/ Return(x)
        \/ Go(x, "fail")
        \/ h' = [h EXCEPT ![x].pc = "settle",
                       ![x].again = journeys[h[x].seen].status = "taken"]
    BY DEF Ask
  <1>5. CASE Return(x)
    BY <1>1, <1>3, <1>5, <1>2, Returns
  <1>6. CASE Go(x, "fail")
    <2>1. h[x].op = "probe" => "fail" \in ProbeSteps
      BY Ongoing, <1>2 DEF Identified, ProbeSteps, Ask, At
    <2> QED BY <1>1, <1>2, <1>3, <2>1, <1>6, PlainAre, GoesPlain
  <1>7. CASE h' = [h EXCEPT ![x].pc = "settle",
                       ![x].again = journeys[h[x].seen].status = "taken"]
    <2> DEFINE r == [h[x] EXCEPT !.pc = "settle", !.again = journeys[h[x].seen].status = "taken"]
    <2>1. h'[x] = r /\ Others(x)
      BY <1>7 DEF Others, AccountInv
    <2>2. h[x] \in Requests /\ row \in Rows /\ DisabledOrigin(row)
      BY <1>2, Ongoing DEF AccountInv, StoresOK, RowOK
    <2>3. h[x].op # "probe" /\ "settle" \in Plain \cap Places
      BY Ongoing, <1>2, PlainAre, PlacesAre DEF Identified, ProbeSteps, Ask, At
    <2>4. /\ r \in Requests /\ r.op = h[x].op /\ r.id = h[x].id /\ r.permit = h[x].permit
          /\ r.acc = h[x].acc /\ r.latest = h[x].latest /\ r.pc = "settle"
      BY <2>2, <2>3 DEF Requests
    <2>5. DisabledOrigin(r.acc) /\ DisabledOrigin(r.latest)
      BY <1>2, <2>2, <2>4, Ongoing
    <2> HIDE DEF r
    <2> QED BY <1>1, <1>2, <1>3, <2>1, <2>3, <2>4, <2>5, PermitIsMine, MovesPlain
  <1> QED BY <1>4, <1>5, <1>6, <1>7

-----------------------------------------------------------------------------
(* Steps that write the health record *)

LEMMA HealthWritten ==
    ASSUME NEW rec \in HealthRecords, Commits(rec)
    PROVE  HealthOK'
  BY DEF Commits, HealthOK

LEMMA HealthNow == AccountInv => HealthOK /\ health \in HealthRecords
  BY DEF AccountInv, StoresOK, HealthOK

LEMMA HealthSame ==
    ASSUME AccountInv, UNCHANGED health
    PROVE  HealthOK'
  BY HealthNow DEF HealthOK

\* While the result is applied, nothing that was decided is forgotten.
LEMMA DecidedGoes ==
    ASSUME AccountInv, NEW x \in Handlers, StoresOK', NEW pc \in Decided, h[x].pc \in Decided,
           pc = "observe" => h[x].signal # "none", Go(x, pc), KeepRest, proven' = proven
    PROVE  AccountInv'
  <1> DEFINE r == [h[x] EXCEPT !.pc = pc]
  <1>1. h[x].pc # "idle" /\ h[x].pc \in Authenticated
    BY DEF Decided, Authenticated
  <1>2. h[x] \in Requests /\ Applies(h[x], proven)
    BY <1>1, Ongoing
  <1>3. /\ r.acc = h[x].acc /\ r.latest = h[x].latest /\ r.v = h[x].v /\ r.pc = pc
        /\ r.signal = h[x].signal
    BY <1>2 DEF Requests
  <1>4. pc \notin {"rejectpending", "rollback", "idle", "gate"}
    BY DEF Decided
  <1>5. Applies(r, proven')
    <2> HIDE DEF r
    <2> QED BY <1>1, <1>2, <1>3, <1>4, Zenon DEF Applies
  <1>6. pc \in Places /\ pc \in ProbeSteps
    BY PlacesAre DEF Decided, ProbeSteps
  <1> QED BY <1>1, <1>4, <1>5, <1>6, Goes

LEMMA EpochStep ==
    ASSUME AccountInv, NEW x \in Handlers, Epoch(x)
    PROVE  AccountInv'
  <1>1. StoresOK'
    <2> DEFINE rec == EpochOf(x)
    <2>1. h[x].pc # "idle"
      BY DEF Epoch, At
    <2>2. h[x] \in Requests /\ h[x].id \in Nat /\ h[x].v \in Nat /\ h[x].permit \in Permits
      BY <2>1, Ongoing, RequestFields
    <2>3. rec \in HealthRecords
      <3> DEFINE keep == IF FirstCredential(x) THEN 0 ELSE h[x].acc.ver
      <3>1. keep \in Nat
        BY <2>2, RequestFields, RowFields
      <3>2. rec = ResetForCredentialEpoch(health, h[x].v, keep, h[x].id)
        BY Zenon DEF EpochOf
      <3> HIDE DEF keep, rec
      <3> QED BY <2>2, <3>1, <3>2, HealthNow, ResetTypes
    <2>4. Commits(rec) \/ UNCHANGED health
      BY DEF Epoch, Commits
    <2> HIDE DEF rec
    <2>5. HealthOK'
      BY <2>3, <2>4, HealthWritten, HealthSame
    <2> QED BY <2>5, HealthMoves DEF Epoch
  <1>2. h[x].pc # "idle" /\ KeepRest
    BY DEF Epoch, At
  <1>3. proven' = proven
    BY DEF Epoch, KeepStores
  <1>4. \/ Go(x, "stage")
        \/ Go(x, "discard")
    BY DEF Epoch
  <1>5. CASE Go(x, "stage")
    <2>1. h[x].op = "probe" => "stage" \in ProbeSteps
      BY Ongoing, <1>2 DEF Identified, ProbeSteps, Epoch, At
    <2> QED BY <1>1, <1>2, <1>3, <2>1, <1>5, PlainAre, GoesPlain
  <1>6. CASE Go(x, "discard")
    <2>1. h[x].op = "probe" => "discard" \in ProbeSteps
      BY Ongoing, <1>2 DEF Identified, ProbeSteps, Epoch, At
    <2> QED BY <1>1, <1>2, <1>3, <2>1, <1>6, PlainAre, GoesPlain
  <1> QED BY <1>4, <1>5, <1>6

LEMMA UnclaimStep ==
    ASSUME AccountInv, NEW x \in Handlers, Unclaim(x)
    PROVE  AccountInv'
  <1>1. StoresOK'
    <2> DEFINE rec == ClearPermit(health)
    <2>1. h[x].pc # "idle"
      BY DEF Unclaim, At
    <2>2. h[x] \in Requests /\ h[x].id \in Nat /\ h[x].v \in Nat /\ h[x].permit \in Permits
      BY <2>1, Ongoing, RequestFields
    <2>3. rec \in HealthRecords
      BY HealthNow, AbsentTypes, PermitTypes
    <2>4. Commits(rec) \/ UNCHANGED health
      BY DEF Unclaim, Commits
    <2> HIDE DEF rec
    <2>5. HealthOK'
      BY <2>3, <2>4, HealthWritten, HealthSame
    <2> QED BY <2>5, HealthMoves DEF Unclaim
  <1>2. h[x].pc # "idle" /\ KeepRest
    BY DEF Unclaim, At
  <1>3. proven' = proven
    BY DEF Unclaim, KeepStores
  <1>4. Return(x)
    BY DEF Unclaim
  <1>5. CASE Return(x)
    BY <1>1, <1>3, <1>5, <1>2, Returns
  <1> QED BY <1>4, <1>5

LEMMA ResolveStep ==
    ASSUME AccountInv, NEW x \in Handlers, Resolve(x)
    PROVE  AccountInv'
  <1>1. StoresOK'
    <2> DEFINE rec == ResolveRecovery(health, h[x].permit, h[x].id)
    <2>1. h[x].pc # "idle"
      BY DEF Resolve, At
    <2>2. h[x] \in Requests /\ h[x].id \in Nat /\ h[x].v \in Nat /\ h[x].permit \in Permits
      BY <2>1, Ongoing, RequestFields
    <2>3. rec \in HealthRecords
      BY <2>2, HealthNow, ResolveTypes
    <2>4. Commits(rec) \/ UNCHANGED health
      BY DEF Resolve, Commits
    <2> HIDE DEF rec
    <2>5. HealthOK'
      BY <2>3, <2>4, HealthWritten, HealthSame
    <2> QED BY <2>5, HealthMoves DEF Resolve
  <1>2. h[x].pc # "idle" /\ KeepRest
    BY DEF Resolve, At
  <1>3. proven' = proven
    BY DEF Resolve, KeepStores
  <1>4. Return(x)
    BY DEF Resolve
  <1>5. CASE Return(x)
    BY <1>1, <1>3, <1>5, <1>2, Returns
  <1> QED BY <1>4, <1>5

LEMMA DisableClearStep ==
    ASSUME AccountInv, NEW x \in Handlers, DisableClear(x)
    PROVE  AccountInv'
  <1>1. StoresOK'
    <2> DEFINE rec == ClearPermit(health)
    <2>1. h[x].pc # "idle"
      BY DEF DisableClear, At
    <2>2. h[x] \in Requests /\ h[x].id \in Nat /\ h[x].v \in Nat /\ h[x].permit \in Permits
      BY <2>1, Ongoing, RequestFields
    <2>3. rec \in HealthRecords
      BY HealthNow, AbsentTypes, PermitTypes
    <2>4. Commits(rec) \/ UNCHANGED health
      BY DEF DisableClear, Commits
    <2> HIDE DEF rec
    <2>5. HealthOK'
      BY <2>3, <2>4, HealthWritten, HealthSame
    <2> QED BY <2>5, HealthMoves DEF DisableClear
  <1>2. h[x].pc # "idle" /\ KeepRest
    BY DEF DisableClear, At
  <1>3. proven' = proven
    BY DEF DisableClear, KeepStores
  <1>4. Return(x)
    BY DEF DisableClear
  <1>5. CASE Return(x)
    BY <1>1, <1>3, <1>5, <1>2, Returns
  <1> QED BY <1>4, <1>5

LEMMA EnableResetStep ==
    ASSUME AccountInv, NEW x \in Handlers, EnableReset(x)
    PROVE  AccountInv'
  <1>1. StoresOK'
    <2> DEFINE rec == ResetForEnableProbe(health, h[x].latest.ver, h[x].id)
    <2>1. h[x].pc # "idle"
      BY DEF EnableReset, At
    <2>2. h[x] \in Requests /\ h[x].id \in Nat /\ h[x].v \in Nat /\ h[x].permit \in Permits
      BY <2>1, Ongoing, RequestFields
    <2>3. rec \in HealthRecords
      BY <2>2, HealthNow, RequestFields, RowFields, ResetTypes
    <2>4. Commits(rec) \/ UNCHANGED health
      BY DEF EnableReset, Commits
    <2> HIDE DEF rec
    <2>5. HealthOK'
      BY <2>3, <2>4, HealthWritten, HealthSame
    <2> QED BY <2>5, HealthMoves DEF EnableReset
  <1>2. h[x].pc # "idle" /\ KeepRest
    BY DEF EnableReset, At
  <1>3. proven' = proven
    BY DEF EnableReset, KeepStores
  <1>4. \/ Return(x)
        \/ Go(x, "enablesave")
    BY DEF EnableReset
  <1>5. CASE Return(x)
    BY <1>1, <1>3, <1>5, <1>2, Returns
  <1>6. CASE Go(x, "enablesave")
    <2>1. h[x].op = "probe" => "enablesave" \in ProbeSteps
      BY Ongoing, <1>2 DEF Identified, ProbeSteps, EnableReset, At
    <2> QED BY <1>1, <1>2, <1>3, <2>1, <1>6, PlainAre, GoesPlain
  <1> QED BY <1>4, <1>5, <1>6

LEMMA ExactTypes ==
    ASSUME AccountInv, NEW permit, HasExactCondition(health, permit)
    PROVE  permit.scope \in Scopes
  <1>1. health.conds \in Seq(Conditions)
    BY HealthNow, HealthFields
  <1>2. PICK c \in Range(health.conds) : c.scope = permit.scope
    BY DEF HasExactCondition
  <1>3. c \in Conditions
    BY <1>1, InRange
  <1> QED BY <1>2, <1>3 DEF Conditions

LEMMA RenewStep ==
    ASSUME AccountInv, NEW x \in Handlers, Renew(x)
    PROVE  AccountInv'
  <1> DEFINE rec == RenewAfterDependencyFailure(health, h[x].permit, h[x].id)
  <1>1. h[x].pc # "idle" /\ KeepRest /\ proven' = proven /\ Return(x)
    BY DEF Renew, At
  <1>2. h[x].id \in Nat /\ h[x].permit \in Permits
    BY <1>1, Ongoing, RequestFields
  <1>3. \/ OwnsDurably(x) /\ Commits(rec)
        \/ UNCHANGED health
    BY DEF Renew, Commits
  <1>4. OwnsDurably(x) => rec \in HealthRecords
    BY <1>2, HealthNow, ExactTypes, RenewTypes DEF OwnsDurably
  <1> HIDE DEF rec
  <1>5. HealthOK'
    BY <1>3, <1>4, HealthWritten, HealthSame
  <1>6. StoresOK'
    BY <1>5, HealthMoves DEF Renew
  <1> QED BY <1>1, <1>6, Returns

LEMMA ClaimRecoveryPermitStep ==
    ASSUME AccountInv, NEW x \in Handlers, ClaimRecoveryPermit(x)
    PROVE  AccountInv'
  <1> DEFINE p == h[x].permit
             rec == ClaimPermit(health, p)
             seen == AtVersion(health.conds, p.scope, p.ver).by
             r == [h[x] EXCEPT !.pc = "confirmload", !.seen = seen]
  <1>1. h[x].pc # "idle" /\ KeepRest /\ proven' = proven
    BY DEF ClaimRecoveryPermit, At
  <1>2. /\ h[x] \in Requests /\ p \in Permits
        /\ DisabledOrigin(h[x].acc) /\ DisabledOrigin(h[x].latest)
    BY <1>1, Ongoing, RequestFields
  <1>3. rec \in HealthRecords
    BY <1>2, HealthNow, PermitTypes
  <1>4. seen \in Nat
    <2>1. AtVersion(health.conds, p.scope, p.ver) \in Conditions
      BY HealthNow, HealthFields, FirstTypes DEF AtVersion
    <2> QED BY <2>1 DEF Conditions
  <1>5. \/ /\ Commits(rec)
           /\ h' = [h EXCEPT ![x].pc = "confirmload", ![x].seen = seen]
        \/ UNCHANGED health /\ Return(x)
    BY Zenon DEF ClaimRecoveryPermit
  <1> HIDE DEF rec, seen
  <1>6. HealthOK'
    BY <1>3, <1>5, HealthWritten, HealthSame
  <1>7. StoresOK'
    BY <1>6, HealthMoves DEF ClaimRecoveryPermit
  <1>8. CASE Return(x)
    BY <1>1, <1>7, <1>8, Returns
  <1>9. CASE h' = [h EXCEPT ![x].pc = "confirmload", ![x].seen = seen]
    <2>1. h'[x] = r /\ Others(x)
      BY <1>9 DEF Others, AccountInv
    <2>2. "confirmload" \in Plain /\ "confirmload" \in Places /\ "confirmload" \in ProbeSteps
      BY PlainAre, PlacesAre DEF ProbeSteps
    <2>3. /\ r \in Requests /\ r.op = h[x].op /\ r.id = h[x].id /\ r.permit = h[x].permit
          /\ r.acc = h[x].acc /\ r.latest = h[x].latest /\ r.pc = "confirmload"
      BY <1>2, <1>4, <2>2 DEF Requests
    <2> HIDE DEF r
    <2> QED BY <1>1, <1>2, <1>7, <2>1, <2>2, <2>3, PermitIsMine, MovesPlain
  <1> QED BY <1>5, <1>8, <1>9

LEMMA ActivateStep ==
    ASSUME AccountInv, NEW x \in Handlers, Activate(x)
    PROVE  AccountInv'
  <1> DEFINE rec == RecordActivation(health, h[x].v, h[x].id)
  <1>1. h[x].pc # "idle" /\ KeepRest /\ proven' = proven /\ h[x].pc \in Decided
    BY DEF Activate, At, Decided
  <1>2. h[x].id \in Nat /\ h[x].v \in Nat
    BY <1>1, Ongoing, RequestFields
  <1>3. rec \in HealthRecords
    BY <1>2, HealthNow, ActivationTypes
  <1>4. Commits(rec) \/ UNCHANGED health
    BY DEF Activate
  <1> HIDE DEF rec
  <1>5. HealthOK'
    BY <1>3, <1>4, HealthWritten, HealthSame
  <1>6. StoresOK'
    BY <1>5, HealthMoves DEF Activate
  <1>7. "observe" \in Decided /\ "commit" \in Decided
    BY DEF Decided
  <1>8. Return(x) \/ (Go(x, "observe") /\ h[x].signal # "none") \/ Go(x, "commit")
    BY DEF Activate
  <1>9. CASE Return(x)
    BY <1>1, <1>6, <1>9, Returns
  <1>10. CASE Go(x, "observe") /\ h[x].signal # "none"
    BY <1>1, <1>6, <1>7, <1>10, DecidedGoes
  <1>11. CASE Go(x, "commit")
    BY <1>1, <1>6, <1>7, <1>11, DecidedGoes
  <1> QED BY <1>8, <1>9, <1>10, <1>11

LEMMA ObserveStep ==
    ASSUME AccountInv, NEW x \in Handlers, Observe(x)
    PROVE  AccountInv'
  <1> DEFINE rec == ObserveCooldown(health, h[x].signal, h[x].v, h[x].permit, h[x].id)
  <1>1. h[x].pc # "idle" /\ KeepRest /\ proven' = proven /\ h[x].pc = "observe" /\ h[x].pc \in Decided
    BY DEF Observe, At, Decided
  <1>2. /\ h[x].id \in Nat /\ h[x].v \in Nat /\ h[x].permit \in Permits /\ h[x].signal \in Signals
        /\ h[x].signal # "none"
    BY <1>1, Ongoing, RequestFields DEF Applies
  <1>3. h[x].signal \in Scopes
    BY <1>2 DEF Signals, Scopes
  <1>4. (Owns(x) => OwnsDurably(x)) => rec \in HealthRecords
    <2>1. h[x].permit.owner # 0 => Owns(x)
      BY AbsentTypes DEF Owns
    <2>2. OwnsDurably(x) => h[x].permit.scope \in Scopes
      BY ExactTypes DEF OwnsDurably
    <2> QED BY <1>2, <1>3, <2>1, <2>2, HealthNow, ObserveTypes
  <1>5. \/ (Owns(x) => OwnsDurably(x)) /\ Commits(rec)
        \/ UNCHANGED health
    BY DEF Observe, Commits
  <1> HIDE DEF rec
  <1>6. HealthOK'
    BY <1>4, <1>5, HealthWritten, HealthSame
  <1>7. StoresOK'
    BY <1>6, HealthMoves DEF Observe
  <1>8. Return(x) \/ Go(x, "commit")
    BY DEF Observe
  <1>9. "commit" \in Decided
    BY DEF Decided
  <1>10. CASE Return(x)
    BY <1>1, <1>7, <1>10, Returns
  <1>11. CASE Go(x, "commit")
    BY <1>1, <1>7, <1>9, <1>11, DecidedGoes
  <1> QED BY <1>8, <1>10, <1>11

LEMMA ReleaseStep ==
    ASSUME AccountInv, NEW x \in Handlers, Release(x)
    PROVE  AccountInv'
  <1>1. h[x].pc # "idle" /\ KeepRest /\ proven' = proven /\ h[x].pc \in Decided
    BY DEF Release, At, Decided
  <1>2. ClearPermit(health) \in HealthRecords
    BY HealthNow, AbsentTypes, PermitTypes
  <1>3. Commits(ClearPermit(health)) \/ UNCHANGED health
    BY DEF Release
  <1>4. HealthOK'
    BY <1>2, <1>3, HealthWritten, HealthSame
  <1>5. StoresOK'
    BY <1>4, HealthMoves DEF Release
  <1>6. Return(x) \/ Go(x, "commit")
    BY DEF Release
  <1>7. "commit" \in Decided
    BY DEF Decided
  <1>8. CASE Return(x)
    BY <1>1, <1>5, <1>8, Returns
  <1>9. CASE Go(x, "commit")
    BY <1>1, <1>5, <1>7, <1>9, DecidedGoes
  <1> QED BY <1>6, <1>8, <1>9

LEMMA RejectStep ==
    ASSUME AccountInv, NEW x \in Handlers, Reject(x)
    PROVE  AccountInv'
  <1> DEFINE new == h[x].latest
             rec == RejectCurrent(health, new.ver, h[x].id)
  <1>1. h[x].pc # "idle" /\ KeepRest /\ proven' = proven /\ Return(x)
    BY DEF Reject, At
  <1>2. h[x].id \in Nat /\ new \in Rows /\ DisabledOrigin(new) /\ new.ver \in Nat
    BY <1>1, Ongoing, RequestFields, RowFields
  <1>3. rec \in HealthRecords
    BY <1>2, HealthNow, RejectCurrentTypes
  <1>4. Commits(rec) \/ UNCHANGED health
    BY Zenon DEF Reject, Commits
  <1> HIDE DEF rec
  <1>5. HealthOK'
    BY <1>3, <1>4, HealthWritten, HealthSame
  <1>6. WithCredentialRejected(new) \in Rows /\ DisabledOrigin(WithCredentialRejected(new))
    BY <1>2, Transitions
  <1>7. row' \in {new, WithCredentialRejected(new), row}
    BY DEF Reject
  <1> HIDE DEF new
  <1>8. RowOK'
    BY <1>2, <1>6, <1>7 DEF RowOK, AccountInv, StoresOK
  <1>9. StoresOK'
    <2>1. vault' \in Vaults /\ snapshot' \in Nat /\ faults' = faults
      BY DEF Reject, AccountInv, StoresOK, Vaults
    <2> QED BY <1>1, <1>5, <1>8, <2>1, StoresKept DEF Vaults
  <1> QED BY <1>1, <1>9, Returns

LEMMA RejectPendingHealthStep ==
    ASSUME AccountInv, NEW x \in Handlers, RejectPendingHealth(x)
    PROVE  AccountInv'
  <1> DEFINE new == h[x].latest
             r == [h[x] EXCEPT !.v = new.pend, !.pc = "rollback"]
  <1>1. h[x].pc # "idle" /\ KeepRest /\ proven' = proven /\ h[x].pc = "rejectpending"
    BY DEF RejectPendingHealth, At
  <1>2. /\ h[x] \in Requests /\ h[x].id \in Nat /\ new \in Rows /\ new.pend \in Nat
        /\ DisabledOrigin(h[x].acc) /\ DisabledOrigin(h[x].latest) /\ h[x].acc.pend > 0
    BY <1>1, Ongoing, RequestFields, RowFields DEF Applies
  <1>3. RejectionOf(x) \in HealthRecords
    BY <1>2, HealthNow, RejectPendingTypes DEF RejectionOf
  <1>4. Commits(RejectionOf(x)) \/ UNCHANGED health
    BY DEF RejectPendingHealth
  <1>5. HealthOK'
    BY <1>3, <1>4, HealthWritten, HealthSame
  <1>6. StoresOK'
    BY <1>5, HealthMoves DEF RejectPendingHealth
  <1>7. \/ Return(x)
        \/ new.pend = h[x].acc.pend /\ h' = [h EXCEPT ![x].v = new.pend, ![x].pc = "rollback"]
    BY DEF RejectPendingHealth
  <1>8. CASE Return(x)
    BY <1>1, <1>6, <1>8, Returns
  <1>9. CASE new.pend = h[x].acc.pend /\ h' = [h EXCEPT ![x].v = new.pend, ![x].pc = "rollback"]
    <2>1. h'[x] = r /\ Others(x)
      BY <1>9 DEF Others, AccountInv
    <2>2. "rollback" \in Places /\ "rollback" \in ProbeSteps
      BY PlacesAre DEF ProbeSteps
    <2>3. /\ r \in Requests /\ r.op = h[x].op /\ r.id = h[x].id /\ r.permit = h[x].permit
          /\ r.acc = h[x].acc /\ r.latest = new /\ r.v = new.pend /\ r.pc = "rollback"
      BY <1>2, <2>2 DEF Requests
    <2> HIDE DEF r
    <2>4. Applies(r, proven')
      BY <1>2, <1>9, <2>3 DEF Applies, Authenticated, Decided
    <2> QED BY <1>1, <1>2, <1>6, <2>1, <2>2, <2>3, <2>4, PermitIsMine, Moves
  <1> QED BY <1>7, <1>8, <1>9

-----------------------------------------------------------------------------
(* The invariant *)

LEMMA UserDecidesStep ==
    ASSUME AccountInv, NEW id \in 1 .. ids, UserDecides(id)
    PROVE  AccountInv'
  <1>1. /\ KeepRest /\ UNCHANGED <<row, health, vault, snapshot, proven, h, faults>>
    BY DEF UserDecides
  <1>2. StoresOK'
    BY <1>1, AllKept
  <1>3. h' \in [Handlers -> Requests] /\ \A x \in Handlers : Identified(h'[x], ids') /\ Applies(h'[x], proven')
    BY <1>1 DEF AccountInv, KeepRest
  <1>4. Unshared'
    BY <1>1 DEF AccountInv, Unshared
  <1> QED BY <1>2, <1>3, <1>4 DEF AccountInv

LEMMA AccountStutter ==
    ASSUME AccountInv, UNCHANGED vars
    PROVE  AccountInv'
  <1>1. /\ StoresOK' /\ Unshared' /\ h' \in [Handlers -> Requests]
        /\ \A x \in Handlers : Identified(h'[x], ids') /\ Applies(h'[x], proven')
    BY DEF vars, AccountInv, StoresOK, RowOK, HealthOK, Unshared
  <1> QED BY <1>1 DEF AccountInv

LEMMA AccountSteps ==
    ASSUME AccountInv, NEW x \in Handlers, Step(x)
    PROVE  AccountInv'
  <1>1. CASE Submit(x) \/ Replace(x) \/ StartOAuth(x, "connect") \/ StartOAuth(x, "reauthenticate")
             \/ Disable(x) \/ Enable(x) \/ Delete(x)
    BY <1>1, ArrivalsStep
  <1>2. CASE \/ Reread(x) \/ Reserve(x) \/ Claim(x) \/ Put(x) \/ Epoch(x)
             \/ Stage(x) \/ Undo(x) \/ Restore(x) \/ Discard(x)
    BY <1>2, RereadStep, ReserveStep, ClaimStep, PutStep, EpochStep, StageStep, UndoStep,
       RestoreStep, DiscardStep
  <1>3. CASE \/ Mark(x) \/ Begin(x) \/ Unmark(x) \/ (\E id \in 1 .. ids : Poll(x, id)) \/ Ask(x)
             \/ Settle(x) \/ Allocate(x) \/ Fail(x)
    BY <1>3, MarkStep, BeginStep, UnmarkStep, PollStep, AskStep, SettleStep, AllocateStep, FailStep
  <1>4. CASE \/ (\E scope \in Scopes : Probe(x, scope)) \/ Load(x) \/ Gate(x) \/ Recheck(x)
             \/ ClaimRecoveryPermit(x) \/ Confirm(x) \/ Unclaim(x) \/ Validate(x) \/ Call(x) \/ Mint(x)
    BY <1>4, ProbeStep, LoadStep, GateStep, RecheckStep, ClaimRecoveryPermitStep, ConfirmStep,
       UnclaimStep, ValidateStep, CallStep, MintStep
  <1>5. CASE \/ Decide(x) \/ Activate(x) \/ Observe(x) \/ Release(x) \/ Commit(x) \/ Resolve(x)
             \/ Renew(x) \/ Reject(x) \/ RejectPendingHealth(x) \/ Rollback(x)
    BY <1>5, DecideStep, ActivateStep, ObserveStep, ReleaseStep, CommitStep, ResolveStep, RenewStep,
       RejectStep, RejectPendingHealthStep, RollbackStep
  <1>6. CASE \/ DisableRead(x) \/ DisableSave(x) \/ DisableClear(x)
             \/ EnableRead(x) \/ EnableReset(x) \/ EnableSave(x) \/ Revoke(x) \/ DeleteSave(x)
    BY <1>6, DisableReadStep, DisableSaveStep, DisableClearStep, EnableReadStep, EnableResetStep,
       EnableSaveStep, RevokeStep, DeleteSaveStep
  <1> QED BY <1>1, <1>2, <1>3, <1>4, <1>5, <1>6, Zenon DEF Step

LEMMA AccountInit == Init => AccountInv
  <1> SUFFICES ASSUME Init PROVE AccountInv
    OBVIOUS
  <1>1. PICK a \in Agendas :
          /\ budget = Budget(a)
          /\ row = IF a.from = "draft" THEN Draft
                   ELSE [Draft EXCEPT !.life = "active", !.ver = 1, !.last = 1]
          /\ health = [Initialized EXCEPT !.conds =
                          CASE a.from = "draft" -> @
                            [] a.from = "active" -> <<HealthyOf(1)>>
                            [] OTHER -> <<HealthyOf(1), Condition("operation", 1, "cooling_down", 1, 0)>>]
          /\ vault = Held(a.from)
          /\ snapshot = IF a.from = "draft" THEN 0 ELSE 1
    BY DEF Init
  <1>2. h = [x \in Handlers |-> Idle] /\ ids = 0 /\ faults = 0
    BY DEF Init
  <1>3. RowOK
    <2>1. [Draft EXCEPT !.life = "active", !.ver = 1, !.last = 1] \in Rows
      BY DraftTypes DEF Rows, Lifecycles
    <2>2. row \in Rows /\ row.pend = 0
      BY <1>1, <2>1, DraftTypes DEF Draft
    <2> QED BY <2>2 DEF RowOK, DisabledOrigin
  <1>4. HealthOK
    <2> DEFINE fresh == Condition("account", 0, "unknown", 0, 0)
               well == HealthyOf(1)
               cooling == Condition("operation", 1, "cooling_down", 1, 0)
    <2>1. /\ fresh \in Conditions /\ well \in Conditions /\ cooling \in Conditions
          /\ fresh.state = "unknown" /\ well.state = "healthy" /\ cooling.rev = 1 /\ cooling.ver = 1
          /\ well.scope = "account" /\ cooling.scope = "operation"
      <3>1. fresh \in Conditions /\ cooling \in Conditions
        BY StateTypes, ConditionTypes
      <3>2. well \in Conditions
        BY StateTypes, ConditionTypes DEF HealthyOf
      <3> QED BY <3>1, <3>2 DEF HealthyOf, Condition
    <2>2. health.permit = NoPermit /\ health = [conds |-> health.conds, permit |-> NoPermit]
      BY <1>1 DEF Initialized
    <2>3. health.conds = <<fresh>> \/ health.conds = <<well>> \/ health.conds = <<well, cooling>>
      BY <1>1 DEF Initialized
    <2> HIDE DEF fresh, well, cooling
    <2>4. health.conds \in Seq(Conditions)
      <3>1. <<fresh>> \in Seq(Conditions) /\ <<well>> \in Seq(Conditions)
        BY <2>1
      <3>2. <<well, cooling>> \in Seq(Conditions)
        BY <2>1
      <3> QED BY <2>3, <3>1, <3>2, Zenon
    <2>5. health \in HealthRecords
      BY <2>2, <2>4, AbsentTypes, HealthRecord
    <2>6. \A c \in Range(health.conds) : c \in {fresh, well, cooling}
      BY <2>3 DEF Range
    <2>7. \A c \in Range(health.conds) : ValidCondition(c)
      BY <2>1, <2>6 DEF ValidCondition, Blocking
    <2>8. \A i, j \in DOMAIN health.conds :
             health.conds[i].scope = health.conds[j].scope /\ health.conds[i].ver = health.conds[j].ver => i = j
      <3>1. CASE health.conds = <<fresh>>
        BY <3>1
      <3>2. CASE health.conds = <<well>>
        BY <3>2
      <3>3. CASE health.conds = <<well, cooling>>
        <4>1. DOMAIN health.conds = {1, 2} /\ health.conds[1] = well /\ health.conds[2] = cooling
          BY <3>3
        <4> QED BY <2>1, <4>1
      <3> QED BY <2>3, <3>1, <3>2, <3>3
    <2>9. ValidPermit(health)
      BY <2>2 DEF ValidPermit
    <2> QED BY <2>5, <2>7, <2>8, <2>9 DEF HealthOK, ValidRecord
  <1>5. vault \in [Versions -> [state : {"none", "held", "revoked"}, by : Nat]]
    BY <1>1 DEF Held
  <1>6. snapshot \in Nat /\ faults \in 0 .. MaxFaults /\ ids \in Nat
    BY <1>1, <1>2, AccountAssumption
  <1>7. budget \in [Ops -> Nat] /\ ids + SumOf(budget) <= MaxIds
    BY <1>1, <1>2, BudgetTypes, MaxIdsBounds
  <1>8. \A x \in Handlers : h[x] = Idle
    BY <1>2
  <1>9. \A x \in Handlers : Identified(h[x], ids) /\ Applies(h[x], proven)
    <2>1. Identified(Idle, ids)
      BY IdleTypes DEF Identified
    <2>2. Applies(Idle, proven)
      BY IdleTypes, DraftTypes DEF Applies, Authenticated, Decided
    <2> QED BY <1>8, <2>1, <2>2
  <1>10. h \in [Handlers -> Requests] /\ Unshared
    BY <1>2, <1>8, IdleTypes DEF Unshared
  <1> QED BY <1>3, <1>4, <1>5, <1>6, <1>7, <1>9, <1>10 DEF AccountInv, StoresOK

\* What the stores hold and what every request remembers fit together.
THEOREM AccountInvariant == Spec => []AccountInv
  <1>1. ASSUME AccountInv, [Next]_vars PROVE AccountInv'
    BY <1>1, AccountSteps, UserDecidesStep, AccountStutter DEF Next
  <1> QED BY <1>1, AccountInit, PTL DEF Spec

\* The stores and the requests stay in their domains, for any requests in any order.
THEOREM AccountTypes == Spec => []TypeOK
  <1>1. AccountInv => TypeOK
    <2> SUFFICES ASSUME AccountInv PROVE TypeOK
      OBVIOUS
    <2>1. SumOf(budget) \in Nat
      BY DEF AccountInv, StoresOK, SumOf, Ops
    <2>2. ids \in 0 .. MaxIds
      BY <2>1, MaxIdsBounds DEF AccountInv, StoresOK
    <2>3. health.conds \in Seq(Conditions) /\ health.permit \in Permits
      BY HealthNow, HealthFields
    <2>4. \A x \in Handlers : h[x].op \in Ops \cup {"none"} /\ h[x].v \in Nat
      BY RequestFields DEF AccountInv
    <2> QED BY <2>2, <2>3, <2>4 DEF TypeOK, AccountInv, StoresOK, RowOK
  <1> QED BY <1>1, AccountInvariant, PTL

-----------------------------------------------------------------------------
(* What a step does: it is of one request, and few of them write a store *)

\* A step is of one request and leaves the others where they are.
LEMMA OneRequest ==
    ASSUME AccountInv, NEW x \in Handlers, Step(x)
    PROVE  Others(x)
  <1>1. CASE Submit(x) \/ Replace(x) \/ StartOAuth(x, "connect") \/ StartOAuth(x, "reauthenticate")
             \/ Disable(x) \/ Enable(x) \/ Delete(x)
    BY <1>1 DEF Submit, Replace, StartOAuth, Disable, Enable, Delete, Arrives, Return, Go, Others, AccountInv
  <1>2. CASE (\E id \in 1 .. ids : Poll(x, id)) \/ (\E scope \in Scopes : Probe(x, scope))
    BY <1>2 DEF Poll, Probe, Return, Go, Others, AccountInv
  <1>3. CASE Reread(x)
    BY <1>3 DEF Reread, Return, Go, Others, AccountInv
  <1>4. CASE Reserve(x)
    BY <1>4 DEF Reserve, Return, Go, Others, AccountInv
  <1>5. CASE Claim(x)
    BY <1>5 DEF Claim, Return, Go, Others, AccountInv
  <1>6. CASE Put(x)
    BY <1>6 DEF Put, Return, Go, Others, AccountInv
  <1>7. CASE Epoch(x)
    BY <1>7 DEF Epoch, Return, Go, Others, AccountInv
  <1>8. CASE Stage(x)
    BY <1>8 DEF Stage, Return, Go, Others, AccountInv
  <1>9. CASE Undo(x)
    BY <1>9 DEF Undo, Return, Go, Others, AccountInv
  <1>10. CASE Restore(x)
    BY <1>10 DEF Restore, Return, Go, Others, AccountInv
  <1>11. CASE Discard(x)
    BY <1>11 DEF Discard, Return, Go, Others, AccountInv
  <1>12. CASE Mark(x)
    BY <1>12 DEF Mark, Return, Go, Others, AccountInv
  <1>13. CASE Begin(x)
    BY <1>13 DEF Begin, Return, Go, Others, AccountInv
  <1>14. CASE Unmark(x)
    BY <1>14 DEF Unmark, Return, Go, Others, AccountInv
  <1>15. CASE Ask(x)
    BY <1>15 DEF Ask, Return, Go, Others, AccountInv
  <1>16. CASE Settle(x)
    BY <1>16 DEF Settle, Return, Go, Others, AccountInv
  <1>17. CASE Allocate(x)
    BY <1>17 DEF Allocate, Return, Go, Others, AccountInv
  <1>18. CASE Fail(x)
    BY <1>18 DEF Fail, Return, Go, Others, AccountInv
  <1>19. CASE Load(x)
    BY <1>19 DEF Load, Return, Go, Others, AccountInv
  <1>20. CASE Gate(x)
    BY <1>20 DEF Gate, Return, Go, Others, AccountInv
  <1>21. CASE Recheck(x)
    BY <1>21 DEF Recheck, Return, Go, Others, AccountInv
  <1>22. CASE ClaimRecoveryPermit(x)
    BY <1>22 DEF ClaimRecoveryPermit, Return, Go, Others, AccountInv
  <1>23. CASE Confirm(x)
    BY <1>23 DEF Confirm, Return, Go, Others, AccountInv
  <1>24. CASE Unclaim(x)
    BY <1>24 DEF Unclaim, Return, Go, Others, AccountInv
  <1>25. CASE Validate(x)
    BY <1>25 DEF Validate, Return, Go, Others, AccountInv, Renewal
  <1>26. CASE Call(x)
    BY <1>26 DEF Call, Return, Go, Others, AccountInv, Renewal
  <1>27. CASE Mint(x)
    BY <1>27 DEF Mint, Return, Go, Others, AccountInv
  <1>28. CASE Decide(x)
    BY <1>28 DEF Decide, Return, Go, Others, AccountInv
  <1>29. CASE Activate(x)
    BY <1>29 DEF Activate, Return, Go, Others, AccountInv
  <1>30. CASE Observe(x)
    BY <1>30 DEF Observe, Return, Go, Others, AccountInv
  <1>31. CASE Release(x)
    BY <1>31 DEF Release, Return, Go, Others, AccountInv
  <1>32. CASE Commit(x)
    BY <1>32 DEF Commit, Return, Go, Others, AccountInv, Committed
  <1>33. CASE Resolve(x)
    BY <1>33 DEF Resolve, Return, Go, Others, AccountInv
  <1>34. CASE Renew(x)
    BY <1>34 DEF Renew, Return, Go, Others, AccountInv
  <1>35. CASE Reject(x)
    BY <1>35 DEF Reject, Return, Go, Others, AccountInv
  <1>36. CASE RejectPendingHealth(x)
    BY <1>36 DEF RejectPendingHealth, Return, Go, Others, AccountInv
  <1>37. CASE Rollback(x)
    BY <1>37 DEF Rollback, Return, Go, Others, AccountInv
  <1>38. CASE DisableRead(x)
    BY <1>38 DEF DisableRead, Return, Go, Others, AccountInv
  <1>39. CASE DisableSave(x)
    BY <1>39 DEF DisableSave, Return, Go, Others, AccountInv
  <1>40. CASE DisableClear(x)
    BY <1>40 DEF DisableClear, Return, Go, Others, AccountInv
  <1>41. CASE EnableRead(x)
    BY <1>41 DEF EnableRead, Return, Go, Others, AccountInv
  <1>42. CASE EnableReset(x)
    BY <1>42 DEF EnableReset, Return, Go, Others, AccountInv
  <1>43. CASE EnableSave(x)
    BY <1>43 DEF EnableSave, Return, Go, Others, AccountInv
  <1>44. CASE Revoke(x)
    BY <1>44 DEF Revoke, Return, Go, Others, AccountInv
  <1>45. CASE DeleteSave(x)
    BY <1>45 DEF DeleteSave, Return, Go, Others, AccountInv
  <1> QED BY <1>1, <1>2, <1>3, <1>4, <1>5, <1>6, <1>7, <1>8, <1>9, <1>10, <1>11, <1>12, <1>13, <1>14, <1>15, <1>16, <1>17, <1>18, <1>19, <1>20, <1>21, <1>22, <1>23, <1>24, <1>25, <1>26, <1>27, <1>28, <1>29, <1>30, <1>31, <1>32, <1>33, <1>34, <1>35, <1>36, <1>37, <1>38, <1>39, <1>40, <1>41, <1>42, <1>43, <1>44, <1>45, Zenon DEF Step

\* The steps that write the row.
LEMMA RowWriters ==
    ASSUME NEW x \in Handlers, Step(x), row' # row
    PROVE  \/ Reserve(x) \/ Claim(x) \/ Stage(x) \/ Restore(x) \/ Mark(x) \/ Unmark(x)
           \/ Allocate(x) \/ Fail(x) \/ Commit(x) \/ Reject(x) \/ Rollback(x) \/ DisableSave(x)
           \/ EnableSave(x) \/ DeleteSave(x)
  <1>1. CASE Submit(x) \/ Replace(x) \/ StartOAuth(x, "connect") \/ StartOAuth(x, "reauthenticate")
             \/ Disable(x) \/ Enable(x) \/ Delete(x)
    BY <1>1 DEF Submit, Replace, StartOAuth, Disable, Enable, Delete, Arrives, KeepStores
  <1>2. CASE (\E id \in 1 .. ids : Poll(x, id)) \/ (\E scope \in Scopes : Probe(x, scope))
    BY <1>2 DEF Poll, Probe, KeepStores
  <1>3. CASE Reread(x)
    BY <1>3 DEF Reread, KeepStores
  <1>4. CASE Put(x)
    BY <1>4 DEF Put, KeepStores
  <1>5. CASE Epoch(x)
    BY <1>5 DEF Epoch, KeepStores
  <1>6. CASE Undo(x)
    BY <1>6 DEF Undo, KeepStores
  <1>7. CASE Discard(x)
    BY <1>7 DEF Discard, KeepStores
  <1>8. CASE Begin(x)
    BY <1>8 DEF Begin, KeepStores
  <1>9. CASE Ask(x)
    BY <1>9 DEF Ask, KeepStores
  <1>10. CASE Settle(x)
    BY <1>10 DEF Settle, KeepStores
  <1>11. CASE Load(x)
    BY <1>11 DEF Load, KeepStores
  <1>12. CASE Gate(x)
    BY <1>12 DEF Gate, KeepStores
  <1>13. CASE Recheck(x)
    BY <1>13 DEF Recheck, KeepStores
  <1>14. CASE ClaimRecoveryPermit(x)
    BY <1>14 DEF ClaimRecoveryPermit, KeepStores
  <1>15. CASE Confirm(x)
    BY <1>15 DEF Confirm, KeepStores
  <1>16. CASE Unclaim(x)
    BY <1>16 DEF Unclaim, KeepStores
  <1>17. CASE Validate(x)
    BY <1>17 DEF Validate, KeepStores
  <1>18. CASE Call(x)
    BY <1>18 DEF Call, KeepStores
  <1>19. CASE Mint(x)
    BY <1>19 DEF Mint, KeepStores
  <1>20. CASE Decide(x)
    BY <1>20 DEF Decide, KeepStores
  <1>21. CASE Activate(x)
    BY <1>21 DEF Activate, KeepStores
  <1>22. CASE Observe(x)
    BY <1>22 DEF Observe, KeepStores
  <1>23. CASE Release(x)
    BY <1>23 DEF Release, KeepStores
  <1>24. CASE Resolve(x)
    BY <1>24 DEF Resolve, KeepStores
  <1>25. CASE Renew(x)
    BY <1>25 DEF Renew, KeepStores
  <1>26. CASE RejectPendingHealth(x)
    BY <1>26 DEF RejectPendingHealth, KeepStores
  <1>27. CASE DisableRead(x)
    BY <1>27 DEF DisableRead, KeepStores
  <1>28. CASE DisableClear(x)
    BY <1>28 DEF DisableClear, KeepStores
  <1>29. CASE EnableRead(x)
    BY <1>29 DEF EnableRead, KeepStores
  <1>30. CASE EnableReset(x)
    BY <1>30 DEF EnableReset, KeepStores
  <1>31. CASE Revoke(x)
    BY <1>31 DEF Revoke, KeepStores
  <1> QED BY <1>1, <1>2, <1>3, <1>4, <1>5, <1>6, <1>7, <1>8, <1>9, <1>10, <1>11, <1>12, <1>13, <1>14, <1>15, <1>16, <1>17, <1>18, <1>19, <1>20, <1>21, <1>22, <1>23, <1>24, <1>25, <1>26, <1>27, <1>28, <1>29, <1>30, <1>31, Zenon DEF Step

\* The steps that write the health record.
LEMMA HealthWriters ==
    ASSUME NEW x \in Handlers, Step(x), health' # health
    PROVE  \/ Epoch(x) \/ ClaimRecoveryPermit(x) \/ Unclaim(x) \/ Activate(x) \/ Observe(x) \/ Release(x)
           \/ Resolve(x) \/ Renew(x) \/ Reject(x) \/ RejectPendingHealth(x) \/ DisableClear(x) \/ EnableReset(x)
  <1>1. CASE Submit(x) \/ Replace(x) \/ StartOAuth(x, "connect") \/ StartOAuth(x, "reauthenticate")
             \/ Disable(x) \/ Enable(x) \/ Delete(x)
    BY <1>1 DEF Submit, Replace, StartOAuth, Disable, Enable, Delete, Arrives, KeepStores
  <1>2. CASE (\E id \in 1 .. ids : Poll(x, id)) \/ (\E scope \in Scopes : Probe(x, scope))
    BY <1>2 DEF Poll, Probe, KeepStores
  <1>3. CASE Reread(x)
    BY <1>3 DEF Reread, KeepStores
  <1>4. CASE Reserve(x)
    BY <1>4 DEF Reserve, KeepStores
  <1>5. CASE Claim(x)
    BY <1>5 DEF Claim, KeepStores
  <1>6. CASE Put(x)
    BY <1>6 DEF Put, KeepStores
  <1>7. CASE Stage(x)
    BY <1>7 DEF Stage, KeepStores
  <1>8. CASE Undo(x)
    BY <1>8 DEF Undo, KeepStores
  <1>9. CASE Restore(x)
    BY <1>9 DEF Restore, KeepStores
  <1>10. CASE Discard(x)
    BY <1>10 DEF Discard, KeepStores
  <1>11. CASE Mark(x)
    BY <1>11 DEF Mark, KeepStores
  <1>12. CASE Begin(x)
    BY <1>12 DEF Begin, KeepStores
  <1>13. CASE Unmark(x)
    BY <1>13 DEF Unmark, KeepStores
  <1>14. CASE Ask(x)
    BY <1>14 DEF Ask, KeepStores
  <1>15. CASE Settle(x)
    BY <1>15 DEF Settle, KeepStores
  <1>16. CASE Allocate(x)
    BY <1>16 DEF Allocate, KeepStores
  <1>17. CASE Fail(x)
    BY <1>17 DEF Fail, KeepStores
  <1>18. CASE Load(x)
    BY <1>18 DEF Load, KeepStores
  <1>19. CASE Gate(x)
    BY <1>19 DEF Gate, KeepStores
  <1>20. CASE Recheck(x)
    BY <1>20 DEF Recheck, KeepStores
  <1>21. CASE Confirm(x)
    BY <1>21 DEF Confirm, KeepStores
  <1>22. CASE Validate(x)
    BY <1>22 DEF Validate, KeepStores
  <1>23. CASE Call(x)
    BY <1>23 DEF Call, KeepStores
  <1>24. CASE Mint(x)
    BY <1>24 DEF Mint, KeepStores
  <1>25. CASE Decide(x)
    BY <1>25 DEF Decide, KeepStores
  <1>26. CASE Commit(x)
    BY <1>26 DEF Commit, KeepStores
  <1>27. CASE Rollback(x)
    BY <1>27 DEF Rollback, KeepStores
  <1>28. CASE DisableRead(x)
    BY <1>28 DEF DisableRead, KeepStores
  <1>29. CASE DisableSave(x)
    BY <1>29 DEF DisableSave, KeepStores
  <1>30. CASE EnableRead(x)
    BY <1>30 DEF EnableRead, KeepStores
  <1>31. CASE EnableSave(x)
    BY <1>31 DEF EnableSave, KeepStores
  <1>32. CASE Revoke(x)
    BY <1>32 DEF Revoke, KeepStores
  <1>33. CASE DeleteSave(x)
    BY <1>33 DEF DeleteSave, KeepStores
  <1> QED BY <1>1, <1>2, <1>3, <1>4, <1>5, <1>6, <1>7, <1>8, <1>9, <1>10, <1>11, <1>12, <1>13, <1>14, <1>15, <1>16, <1>17, <1>18, <1>19, <1>20, <1>21, <1>22, <1>23, <1>24, <1>25, <1>26, <1>27, <1>28, <1>29, <1>30, <1>31, <1>32, <1>33, Zenon DEF Step

LEMMA StepOfMine ==
    ASSUME AccountInv, [Next]_vars, NEW x \in Handlers, h'[x] # h[x]
    PROVE  Step(x)
  <1>1. CASE UNCHANGED vars
    BY <1>1 DEF vars
  <1>2. ASSUME NEW id \in 1 .. ids, UserDecides(id)
        PROVE  FALSE
    BY <1>2 DEF UserDecides
  <1>3. ASSUME NEW y \in Handlers, Step(y)
        PROVE  Step(x)
    <2>1. Others(y)
      BY <1>3, OneRequest
    <2>2. x = y
      BY <2>1 DEF Others
    <2> QED BY <1>3, <2>2
  <1> QED BY <1>1, <1>2, <1>3 DEF Next

\* Of a probe, only the commit, a rejection and the rollback write the row.
LEMMA ProbeWrites ==
    ASSUME AccountInv, NEW x \in Handlers, Step(x), row' # row, h[x].op = "probe"
    PROVE  Commit(x) \/ Reject(x) \/ Rollback(x)
  <1>1. h[x].pc \in ProbeSteps
    BY DEF AccountInv, Identified
  <1>2. /\ ~At(x, "reserve") /\ ~At(x, "claim") /\ ~At(x, "stage") /\ ~At(x, "restore")
        /\ ~At(x, "mark") /\ ~At(x, "unmark") /\ ~At(x, "allocate") /\ ~At(x, "fail")
        /\ ~At(x, "disablesave") /\ ~At(x, "enablesave") /\ ~At(x, "deletesave")
    BY <1>1 DEF At, ProbeSteps
  <1>3. \/ Reserve(x) \/ Claim(x) \/ Stage(x) \/ Restore(x) \/ Mark(x) \/ Unmark(x)
        \/ Allocate(x) \/ Fail(x) \/ Commit(x) \/ Reject(x) \/ Rollback(x) \/ DisableSave(x)
        \/ EnableSave(x) \/ DeleteSave(x)
    BY RowWriters
  <1>4. ~Reserve(x) /\ ~Claim(x) /\ ~Stage(x) /\ ~Restore(x)
    BY <1>2, Zenon DEF Reserve, Claim, Stage, Restore
  <1>5. ~Mark(x) /\ ~Unmark(x) /\ ~Allocate(x) /\ ~Fail(x)
    BY <1>2, Zenon DEF Mark, Unmark, Allocate, Fail
  <1>6. ~DisableSave(x) /\ ~EnableSave(x) /\ ~DeleteSave(x)
    BY <1>2, Zenon DEF DisableSave, EnableSave, DeleteSave
  <1> QED BY <1>3, <1>4, <1>5, <1>6, Zenon

\* What a probe commits is the version it has proven, unless it was of no
\* replacement and the row it decided on had moved.
LEMMA CommitIsProven ==
    ASSUME AccountInv, NEW x \in Handlers, Commit(x), row' # row
    PROVE  \/ row'.ver \in proven
           \/ h[x].acc.pend = 0 /\ <<h[x].latest.ver, h[x].latest.pend>> # <<h[x].v, 0>>
  <1> DEFINE acc == h[x].acc
             new == h[x].latest
  <1>1. h[x].pc = "commit"
    BY DEF Commit, At
  <1>2. /\ acc \in Rows /\ new \in Rows /\ h[x].v = ProbeVersion(acc) /\ h[x].v \in proven
        /\ acc.pend > 0 => new.pend = acc.pend
    BY <1>1, Ongoing, RequestFields DEF Applies, Authenticated, Decided
  <1>3. row' = Result(x)
    BY DEF Commit, Saves, Rejects
  <1>4. acc.pend \in Nat /\ new.pend \in Nat /\ new.ver \in Nat
    BY <1>2, RowFields
  <1>5. CASE acc.pend > 0
    <2>1. row' = WithProbeActivated(new, TRUE) /\ new.pend > 0
      BY <1>2, <1>3, <1>4, <1>5 DEF Result
    <2>2. row'.ver = new.pend
      BY <1>2, <2>1 DEF WithProbeActivated, Rows
    <2>3. h[x].v = acc.pend
      BY <1>2, <1>5 DEF ProbeVersion
    <2> QED BY <1>2, <1>5, <2>2, <2>3
  <1>6. CASE acc.pend = 0 /\ new.ver = h[x].v /\ new.pend = 0
    <2> DEFINE p == WithProbeActivated(new, FALSE)
    <2>1. new.pend = 0 => p.ver = new.ver
      BY <1>2 DEF WithProbeActivated, Rows
    <2>2. DisabledOrigin(new)
      BY <1>1, Ongoing
    <2>3. p \in Rows
      BY <1>2, <2>2, Transitions
    <2>4. row' \in {[p EXCEPT !.life = "disabled"], new, p}
      BY <1>3, <1>6 DEF Result
    <2> HIDE DEF p
    <2>5. [p EXCEPT !.life = "disabled"].ver = p.ver
      BY <2>3 DEF Rows
    <2>6. row'.ver = new.ver
      BY <1>6, <2>1, <2>4, <2>5
    <2> QED BY <1>2, <1>6, <2>6
  <1> QED BY <1>4, <1>5, <1>6

\* A probe puts into use the version it has proven, whatever came in between.
THEOREM CutoverIsProven == Spec => CutoverProven
  <1>1. ASSUME AccountInv, [Next]_vars, NEW x \in Handlers, At(x, "commit"), h'[x] # h[x], row' # row
        PROVE  \/ row'.ver \in proven
               \/ h[x].acc.pend = 0 /\ <<h[x].latest.ver, h[x].latest.pend>> # <<h[x].v, 0>>
    <2>1. Step(x)
      BY <1>1, StepOfMine
    <2>2. ~Reject(x) /\ ~Rollback(x)
      BY <1>1 DEF Reject, Rollback, At
    <2>3. /\ ~At(x, "reserve") /\ ~At(x, "claim") /\ ~At(x, "stage") /\ ~At(x, "restore")
          /\ ~At(x, "mark") /\ ~At(x, "unmark") /\ ~At(x, "allocate") /\ ~At(x, "fail")
          /\ ~At(x, "disablesave") /\ ~At(x, "enablesave") /\ ~At(x, "deletesave")
      BY <1>1 DEF At
    <2>4. ~Reserve(x) /\ ~Claim(x) /\ ~Stage(x) /\ ~Restore(x)
      BY <2>3, Zenon DEF Reserve, Claim, Stage, Restore
    <2>5. ~Mark(x) /\ ~Unmark(x) /\ ~Allocate(x) /\ ~Fail(x)
      BY <2>3, Zenon DEF Mark, Unmark, Allocate, Fail
    <2>6. ~DisableSave(x) /\ ~EnableSave(x) /\ ~DeleteSave(x)
      BY <2>3, Zenon DEF DisableSave, EnableSave, DeleteSave
    <2>7. \/ Reserve(x) \/ Claim(x) \/ Stage(x) \/ Restore(x) \/ Mark(x) \/ Unmark(x)
          \/ Allocate(x) \/ Fail(x) \/ Commit(x) \/ Reject(x) \/ Rollback(x) \/ DisableSave(x)
          \/ EnableSave(x) \/ DeleteSave(x)
      BY <1>1, <2>1, RowWriters
    <2>8. Commit(x)
      BY <2>2, <2>4, <2>5, <2>6, <2>7, Zenon
    <2> QED BY <1>1, <2>8, CommitIsProven
  <1>2. AccountInv /\ [Next]_vars =>
          [\A x \in Handlers :
             At(x, "commit") /\ h'[x] # h[x] /\ row' # row =>
               \/ row'.ver \in proven
               \/ h[x].acc.pend = 0 /\ <<h[x].latest.ver, h[x].latest.pend>> # <<h[x].v, 0>>]_vars
    BY <1>1, Zenon
  <1> QED BY <1>2, AccountInvariant, PTL DEF Spec, CutoverProven

\* Disable wins: neither what a probe commits nor what it takes back or
\* rejects leaves that lifecycle.
THEOREM DisableWins == Spec => ProbeRespectsDisable
  <1>1. ASSUME AccountInv, [Next]_vars, NEW x \in Handlers, h[x].op = "probe", h'[x] # h[x],
               row.life = "disabled"
        PROVE  row'.life = row.life
    <2> DEFINE new == h[x].latest
    <2>1. Step(x)
      BY <1>1, StepOfMine
    <2> SUFFICES ASSUME row' # row PROVE row'.life = "disabled"
      BY <1>1
    <2>2. Commit(x) \/ Reject(x) \/ Rollback(x)
      BY <1>1, <2>1, ProbeWrites
    <2>3. h[x].pc # "idle"
      BY <2>2 DEF Commit, Reject, Rollback, At
    <2>4. /\ new \in Rows /\ h[x].acc \in Rows /\ DisabledOrigin(new) /\ Applies(h[x], proven)
          /\ new.pend \in Nat /\ h[x].acc.pend \in Nat
      BY <1>1, <2>3, Ongoing, RequestFields, RowFields
    <2>5. CASE Commit(x)
      <3>1. new.life = "disabled" /\ row' = Result(x)
        BY <1>1, <2>5 DEF Commit, Saves, Rejects, CommitFence
      <3>2. CASE h[x].acc.pend > 0
        <4>1. new.pend = h[x].acc.pend
          BY <2>4, <2>5, <3>2 DEF Applies, Decided, Commit, At
        <4>2. new.origin = "disabled"
          BY <2>4, <3>1, <3>2, <4>1 DEF DisabledOrigin
        <4>3. row' = WithProbeActivated(new, TRUE)
          BY <3>1, <3>2 DEF Result
        <4> QED BY <2>4, <4>2, <4>3 DEF WithProbeActivated, Rows
      <3>3. CASE ~(h[x].acc.pend > 0)
        <4>1. row' = [WithProbeActivated(new, FALSE) EXCEPT !.life = "disabled"]
          BY <3>1, <3>3 DEF Result
        <4>2. WithProbeActivated(new, FALSE) \in Rows
          BY <2>4, Transitions
        <4> QED BY <4>1, <4>2 DEF Rows
      <3> QED BY <3>2, <3>3
    <2>6. CASE Reject(x)
      <3>1. row.life = new.life => row' \in {row, new}
        BY <1>1, <2>6 DEF Reject
      <3>2. row.life # new.life => row' = row
        BY <2>6 DEF Reject
      <3> QED BY <1>1, <3>1, <3>2
    <2>7. CASE Rollback(x)
      <3> DEFINE back == WithPendingCredentialRejected(new)
      <3>1. new.life = "disabled" /\ row' = WithOAuthJourneyCleared(back)
        BY <1>1, <2>7 DEF Rollback, Saves, Rejects, RollbackFence
      <3>2. new.pend > 0
        BY <2>4, <2>7 DEF Applies, Rollback, At
      <3>3. new.origin = "disabled"
        BY <2>4, <3>1, <3>2 DEF DisabledOrigin
      <3>4. back.life = "disabled"
        BY <2>4, <3>3 DEF WithPendingCredentialRejected, Rows
      <3>5. back \in Rows
        BY <2>4, Transitions
      <3> HIDE DEF back
      <3> QED BY <3>1, <3>4, <3>5 DEF WithOAuthJourneyCleared, Rows
    <2> QED BY <2>2, <2>5, <2>6, <2>7
  <1>2. AccountInv /\ [Next]_vars =>
          [\A x \in Handlers :
             h[x].op = "probe" /\ h'[x] # h[x] /\ row'.life # row.life => row.life # "disabled"]_vars
    BY <1>1, Zenon
  <1> QED BY <1>2, AccountInvariant, PTL DEF Spec, ProbeRespectsDisable

-----------------------------------------------------------------------------
(* What a mutation of the health record does to the conditions it finds *)

LEMMA OneCondition ==
    ASSUME NEW rec \in HealthRecords, ValidRecord(rec),
           NEW c \in Range(rec.conds), NEW d \in Range(rec.conds), c.scope = d.scope, c.ver = d.ver
    PROVE  c = d
  <1>1. PICK i \in DOMAIN rec.conds : rec.conds[i] = c
    BY DEF Range
  <1>2. PICK j \in DOMAIN rec.conds : rec.conds[j] = d
    BY DEF Range
  <1>3. i = j
    BY <1>1, <1>2 DEF ValidRecord
  <1> QED BY <1>1, <1>2, <1>3

LEMMA CooledRange ==
    ASSUME NEW conds \in Seq(Conditions), NEW scope \in Scopes, NEW ver \in Nat, NEW by \in Nat
    PROVE  /\ \A d \in Range(Cooled(conds, scope, ver, by)) :
                d \in Range(conds) \/ (d.scope = scope /\ d.ver = ver)
           /\ \A c \in Range(conds) : \E d \in Range(Cooled(conds, scope, ver, by)) :
                d.scope = c.scope /\ d.ver = c.ver /\ (Blocking(c) => Blocking(d))
  <1> DEFINE Mine(c) == c.scope = scope /\ c.ver = ver
             f == [i \in DOMAIN conds |->
                     IF Mine(conds[i]) THEN Condition(scope, ver, "cooling_down", conds[i].rev + 1, by)
                     ELSE conds[i]]
             first == Condition(scope, ver, "cooling_down", 1, by)
  <1>1. ASSUME NEW i \in DOMAIN conds
        PROVE  /\ Mine(conds[i]) => Mine(f[i]) /\ Blocking(f[i])
               /\ ~Mine(conds[i]) => f[i] = conds[i]
    BY DEF Condition, Blocking
  <1>2. DOMAIN f = DOMAIN conds
    OBVIOUS
  <1>3. Cooled(conds, scope, ver, by) =
          IF \E c \in Range(conds) : Mine(c) THEN f ELSE Append(conds, first)
    BY Zenon DEF Cooled
  <1>4. first \in Conditions /\ Mine(first)
    BY StateTypes, ConditionTypes DEF Condition
  <1> HIDE DEF f, first
  <1>5. CASE \E c \in Range(conds) : Mine(c)
    <2>1. Cooled(conds, scope, ver, by) = f
      BY <1>3, <1>5
    <2>2. ASSUME NEW d \in Range(f)
          PROVE  d \in Range(conds) \/ Mine(d)
      <3>1. PICK i \in DOMAIN f : f[i] = d
        BY DEF Range
      <3> QED BY <1>1, <1>2, <3>1 DEF Range
    <2>3. ASSUME NEW c \in Range(conds)
          PROVE  \E d \in Range(f) : d.scope = c.scope /\ d.ver = c.ver /\ (Blocking(c) => Blocking(d))
      <3>1. PICK i \in DOMAIN conds : conds[i] = c
        BY DEF Range
      <3>2. f[i] \in Range(f)
        BY <1>2 DEF Range
      <3>3. f[i].scope = c.scope /\ f[i].ver = c.ver /\ (Blocking(c) => Blocking(f[i]))
        BY <1>1, <3>1
      <3> QED BY <3>2, <3>3
    <2> QED BY <2>1, <2>2, <2>3
  <1>6. CASE ~\E c \in Range(conds) : Mine(c)
    <2>1. Cooled(conds, scope, ver, by) = Append(conds, first)
      BY <1>3, <1>6
    <2>2. Range(Append(conds, first)) = Range(conds) \cup {first}
      BY <1>4, RangeAppend
    <2> QED BY <1>4, <2>1, <2>2
  <1> QED BY <1>5, <1>6

LEMMA ActivationRange ==
    ASSUME NEW rec \in HealthRecords, NEW ver \in Nat, NEW by \in Nat
    PROVE  /\ RecordActivation(rec, ver, by).permit = rec.permit
           /\ \A d \in Range(RecordActivation(rec, ver, by).conds) :
                d \in Range(rec.conds) \/ d.state = "healthy"
           /\ \A c \in Range(rec.conds) :
                c.scope # "account" => c \in Range(RecordActivation(rec, ver, by).conds)
  <1> DEFINE healthy == Condition("account", ver, "healthy", 0, by)
             Same(c) == c.scope = "account" /\ c.ver = ver
             conds == rec.conds
             f == [i \in DOMAIN conds |-> IF Same(conds[i]) THEN healthy ELSE conds[i]]
             new == IF \E c \in Range(conds) : Same(c) THEN f ELSE Append(conds, healthy)
  <1>1. healthy \in Conditions /\ healthy.state = "healthy"
    BY StateTypes, ConditionTypes DEF Condition
  <1>2. conds \in Seq(Conditions)
    BY HealthFields
  <1>3. RecordActivation(rec, ver, by) = [rec EXCEPT !.conds = new]
    BY DEF RecordActivation, HealthRecords
  <1> HIDE DEF conds, healthy
  <1>4. /\ DOMAIN f = DOMAIN conds
        /\ \A i \in DOMAIN conds : f[i] = IF Same(conds[i]) THEN healthy ELSE conds[i]
    OBVIOUS
  <1> HIDE DEF f
  <1>5. ASSUME NEW d \in Range(f) PROVE d \in Range(conds) \/ d = healthy
    <2>1. PICK i \in DOMAIN f : f[i] = d
      BY DEF Range
    <2> QED BY <1>4, <2>1 DEF Range
  <1>6. ASSUME NEW c \in Range(conds), c.scope # "account" PROVE c \in Range(f)
    <2>1. PICK i \in DOMAIN conds : conds[i] = c
      BY DEF Range
    <2>2. f[i] = c /\ i \in DOMAIN f
      BY <1>4, <1>6, <2>1
    <2> QED BY <2>2 DEF Range
  <1>7. Range(Append(conds, healthy)) = Range(conds) \cup {healthy}
    BY <1>1, <1>2, RangeAppend
  <1>8. /\ \A d \in Range(new) : d \in Range(conds) \/ d = healthy
        /\ \A c \in Range(conds) : c.scope # "account" => c \in Range(new)
    BY <1>5, <1>6, <1>7
  <1> HIDE DEF new
  <1>9. RecordActivation(rec, ver, by).permit = rec.permit /\ RecordActivation(rec, ver, by).conds = new
    BY <1>3 DEF HealthRecords
  <1> QED BY <1>1, <1>8, <1>9 DEF conds

\* What a recovery takes out is what its permit names.
LEMMA ResolveRange ==
    ASSUME NEW rec \in HealthRecords, NEW permit \in Permits, NEW by \in Nat,
           NEW c \in Range(rec.conds), c \notin Range(ResolveRecovery(rec, permit, by).conds)
    PROVE  c.scope = permit.scope /\ c.rev = permit.rev /\ c.ver = permit.ver
  <1> DEFINE wanted == {d \in Range(rec.conds) :
                          ~(/\ d.scope = permit.scope /\ d.state = "cooling_down"
                            /\ d.rev = permit.rev /\ d.ver = permit.ver)}
             kept == Those(rec.conds, wanted)
             healthy == Condition("account", permit.ver, "healthy", 0, by)
             conds == IF kept = <<>> THEN <<healthy>> ELSE kept
  <1>1. ResolveRecovery(rec, permit, by).conds = conds
    BY DEF ResolveRecovery
  <1>2. Range(kept) = Range(rec.conds) \cap wanted
    BY HealthFields, ThoseWanted
  <1> SUFFICES ASSUME c \in wanted PROVE FALSE
    OBVIOUS
  <1> HIDE DEF wanted
  <1>3. c \in Range(kept)
    BY <1>2
  <1> HIDE DEF kept
  <1>4. kept # << >>
    BY <1>3 DEF Range
  <1> QED BY <1>1, <1>3, <1>4

-----------------------------------------------------------------------------
(* The permit a request has claimed *)

Unclaimed == {"reload", "recheck", "claimpermit"}

\* What a step of another request, or of the holder, leaves of a permit.
KeepsPermit ==
    \/ health'.permit = NoPermit
    \/ /\ health'.permit = health.permit
       /\ \A c \in Range(health'.conds) :
             c.scope = health.permit.scope /\ c.ver = health.permit.ver => c \in Range(health.conds)

LEMMA ActivateKeeps ==
    ASSUME AccountInv, NEW x \in Handlers, Activate(x), health' # health
    PROVE  KeepsPermit
  <1> DEFINE rec == RecordActivation(health, h[x].v, h[x].id)
  <1>1. h[x].pc # "idle"
    BY DEF Activate, At
  <1>2. h[x].id \in Nat /\ h[x].v \in Nat
    BY <1>1, Ongoing, RequestFields
  <1>3. rec \in HealthRecords /\ health \in HealthRecords
    BY <1>2, HealthNow, ActivationTypes
  <1>4. health' = rec /\ ValidRecord(rec)
    BY DEF Activate, Commits
  <1>5. /\ rec.permit = health.permit
        /\ \A d \in Range(rec.conds) : d \in Range(health.conds) \/ d.state = "healthy"
    BY <1>2, <1>3, ActivationRange
  <1> HIDE DEF rec
  <1>6. CASE rec.permit = NoPermit
    BY <1>4, <1>6 DEF KeepsPermit
  <1>7. CASE rec.permit # NoPermit
    <2>1. PICK d \in Range(rec.conds) : /\ d.scope = rec.permit.scope /\ d.ver = rec.permit.ver
                                       /\ d.state = "cooling_down"
      BY <1>4, <1>7 DEF ValidRecord, ValidPermit
    <2>2. ASSUME NEW c \in Range(rec.conds), c.scope = rec.permit.scope, c.ver = rec.permit.ver
          PROVE  c \in Range(health.conds)
      <3>1. c = d
        BY <1>3, <1>4, <2>1, <2>2, OneCondition
      <3> QED BY <1>5, <2>1, <3>1
    <2> QED BY <1>4, <1>5, <2>2 DEF KeepsPermit
  <1> QED BY <1>6, <1>7

LEMMA ObserveKeeps ==
    ASSUME AccountInv, NEW x \in Handlers, Observe(x), health' # health
    PROVE  KeepsPermit
  <1> DEFINE p == h[x].permit
             signal == h[x].signal
             rec == ObserveCooldown(health, signal, h[x].v, p, h[x].id)
  <1>1. h[x].pc = "observe" /\ h[x].pc # "idle"
    BY DEF Observe, At
  <1>2. h[x].id \in Nat /\ h[x].v \in Nat /\ signal \in Signals /\ signal # "none"
    BY <1>1, Ongoing, RequestFields DEF Applies
  <1>3. health' = rec
    BY DEF Observe
  <1>4. health.conds \in Seq(Conditions)
    BY HealthNow, HealthFields
  <1>5. CASE p.owner # 0 \/ health.permit.scope = signal
    BY <1>3, <1>5 DEF ObserveCooldown, KeepsPermit
  <1>6. CASE p.owner = 0 /\ health.permit.scope # signal
    <2> DEFINE cooled == Cooled(health.conds, signal, h[x].v, h[x].id)
    <2>1. signal \in Scopes
      BY <1>2 DEF Signals, Scopes
    <2>2. \A d \in Range(cooled) : d \in Range(health.conds) \/ (d.scope = signal /\ d.ver = h[x].v)
      BY <1>2, <1>4, <2>1, CooledRange
    <2>3. rec = [conds |-> cooled, permit |-> health.permit]
      BY <1>6 DEF ObserveCooldown
    <2> HIDE DEF cooled
    <2>4. health'.conds = cooled /\ health'.permit = health.permit
      BY <1>3, <2>3
    <2> QED BY <1>6, <2>2, <2>4 DEF KeepsPermit
  <1> QED BY <1>5, <1>6

\* Only a claim gives the permit away.
LEMMA PermitKept ==
    ASSUME AccountInv, NEW x \in Handlers, Step(x), ~ClaimRecoveryPermit(x)
    PROVE  health' = health \/ KeepsPermit
  <1> SUFFICES ASSUME health' # health PROVE KeepsPermit
    OBVIOUS
  <1>1. \/ Epoch(x) \/ Unclaim(x) \/ Activate(x) \/ Observe(x)
        \/ Release(x) \/ Resolve(x) \/ Renew(x) \/ Reject(x) \/ RejectPendingHealth(x)
        \/ DisableClear(x) \/ EnableReset(x)
    BY HealthWriters, Zenon
  <1>2. ClearPermit(health).permit = NoPermit
    BY HealthNow DEF ClearPermit, HealthRecords
  <1>3. CASE Epoch(x)
    BY <1>3 DEF Epoch, Commits, EpochOf, ResetForCredentialEpoch, KeepsPermit
  <1>4. CASE Unclaim(x)
    BY <1>2, <1>4 DEF Unclaim, Commits, KeepsPermit
  <1>5. CASE Activate(x)
    BY <1>5, ActivateKeeps
  <1>6. CASE Observe(x)
    BY <1>6, ObserveKeeps
  <1>7. CASE Release(x)
    BY <1>2, <1>7 DEF Release, Commits, KeepsPermit
  <1>8. CASE Resolve(x)
    BY <1>8 DEF Resolve, ResolveRecovery, KeepsPermit
  <1>9. CASE Renew(x)
    BY <1>9 DEF Renew, RenewAfterDependencyFailure, KeepsPermit
  <1>10. CASE Reject(x)
    BY <1>10 DEF Reject, RejectCurrent, KeepsPermit
  <1>11. CASE RejectPendingHealth(x)
    BY <1>11 DEF RejectPendingHealth, Commits, RejectionOf, RejectPending, KeepsPermit
  <1>12. CASE DisableClear(x)
    BY <1>2, <1>12 DEF DisableClear, Commits, KeepsPermit
  <1>13. CASE EnableReset(x)
    BY <1>13 DEF EnableReset, Commits, ResetForEnableProbe, KeepsPermit
  <1> QED BY <1>1, <1>3, <1>4, <1>5, <1>6, <1>7, <1>8, <1>9, <1>10, <1>11, <1>12, <1>13

\* A request keeps what it knows of its permit, or has none, or has yet to claim it.
Remembers(x) ==
    \/ h'[x].permit = NoPermit
    \/ h'[x].pc \in Unclaimed
    \/ /\ h'[x].permit = h[x].permit /\ h'[x].id = h[x].id /\ h'[x].seen = h[x].seen
       /\ h[x].pc \notin Unclaimed

LEMMA Remembering ==
    ASSUME AccountInv, NEW x \in Handlers, Step(x), ~ClaimRecoveryPermit(x)
    PROVE  Remembers(x)
  <1>0. h[x] \in Requests /\ DOMAIN h = Handlers
    BY DEF AccountInv
  <1>1. CASE Submit(x) \/ Replace(x) \/ StartOAuth(x, "connect") \/ StartOAuth(x, "reauthenticate")
             \/ Disable(x) \/ Enable(x) \/ Delete(x)
    <2>1. PICK op, pc : h' = [h EXCEPT ![x] = [Idle EXCEPT !.op = op, !.pc = pc, !.id = ids + 1, !.acc = row]]
      BY <1>1 DEF Submit, Replace, StartOAuth, Disable, Enable, Delete, Arrives
    <2>2. h'[x] = [Idle EXCEPT !.op = op, !.pc = pc, !.id = ids + 1, !.acc = row]
      BY <1>0, <2>1
    <2>3. h'[x].permit = NoPermit
      BY <2>2, IdleTypes DEF Requests
    <2> QED BY <2>3 DEF Remembers
  <1>2. CASE (\E id \in 1 .. ids : Poll(x, id)) \/ (\E scope \in Scopes : Probe(x, scope))
    <2>1. ASSUME NEW id \in 1 .. ids, Poll(x, id) PROVE h'[x].permit = NoPermit
      <3>1. h'[x] = [Idle EXCEPT !.op = "poll", !.pc = "ask", !.id = ids + 1, !.acc = row, !.seen = id]
        BY <1>0, <2>1 DEF Poll
      <3> QED BY <3>1, IdleTypes DEF Requests
    <2>2. ASSUME NEW scope \in Scopes, Probe(x, scope) PROVE h'[x].permit = NoPermit
      <3>1. h'[x] = [Idle EXCEPT !.op = "probe", !.pc = "gate", !.id = ids + 1, !.acc = row,
                                 !.scope = scope]
        BY <1>0, <2>2 DEF Probe
      <3> QED BY <3>1, IdleTypes DEF Requests
    <2> QED BY <1>2, <2>1, <2>2 DEF Remembers
  <1>3. CASE Reread(x)
    BY <1>0, <1>3, IdleTypes DEF Reread, At, Return, Go, Remembers, Unclaimed, Requests
  <1>4. CASE Reserve(x)
    BY <1>0, <1>4, IdleTypes DEF Reserve, At, Return, Go, Remembers, Unclaimed, Requests
  <1>5. CASE Claim(x)
    BY <1>0, <1>5, IdleTypes DEF Claim, At, Return, Go, Remembers, Unclaimed, Requests
  <1>6. CASE Put(x)
    BY <1>0, <1>6, IdleTypes DEF Put, At, Return, Go, Remembers, Unclaimed, Requests
  <1>7. CASE Epoch(x)
    BY <1>0, <1>7, IdleTypes DEF Epoch, At, Return, Go, Remembers, Unclaimed, Requests
  <1>8. CASE Stage(x)
    BY <1>0, <1>8, IdleTypes DEF Stage, At, Return, Go, Remembers, Unclaimed, Requests
  <1>9. CASE Undo(x)
    BY <1>0, <1>9, IdleTypes DEF Undo, At, Return, Go, Remembers, Unclaimed, Requests
  <1>10. CASE Restore(x)
    BY <1>0, <1>10, IdleTypes DEF Restore, At, Return, Go, Remembers, Unclaimed, Requests
  <1>11. CASE Discard(x)
    BY <1>0, <1>11, IdleTypes DEF Discard, At, Return, Go, Remembers, Unclaimed, Requests
  <1>12. CASE Mark(x)
    BY <1>0, <1>12, IdleTypes DEF Mark, At, Return, Go, Remembers, Unclaimed, Requests
  <1>13. CASE Begin(x)
    BY <1>0, <1>13, IdleTypes DEF Begin, At, Return, Go, Remembers, Unclaimed, Requests
  <1>14. CASE Unmark(x)
    BY <1>0, <1>14, IdleTypes DEF Unmark, At, Return, Go, Remembers, Unclaimed, Requests
  <1>15. CASE Ask(x)
    BY <1>0, <1>15, IdleTypes DEF Ask, At, Return, Go, Remembers, Unclaimed, Requests
  <1>16. CASE Settle(x)
    BY <1>0, <1>16, IdleTypes DEF Settle, At, Return, Go, Remembers, Unclaimed, Requests
  <1>17. CASE Allocate(x)
    BY <1>0, <1>17, IdleTypes DEF Allocate, At, Return, Go, Remembers, Unclaimed, Requests
  <1>18. CASE Fail(x)
    BY <1>0, <1>18, IdleTypes DEF Fail, At, Return, Go, Remembers, Unclaimed, Requests
  <1>19. CASE Load(x)
    BY <1>0, <1>19, IdleTypes DEF Load, At, Return, Go, Remembers, Unclaimed, Requests
  <1>20. CASE Gate(x)
    <2>1. h[x].pc = "gate"
      BY <1>20 DEF Gate, At
    <2>2. \/ Return(x) \/ Go(x, "rejectload") \/ Go(x, "validate")
          \/ \E c \in ExactCooldown(health.conds, h[x].acc.ver, h[x].scope) :
                h' = [h EXCEPT ![x].permit = PermitFor(c, h[x].id), ![x].pc = "reload"]
      BY <1>20, Zenon DEF Gate
    <2>3. ASSUME NEW p, h' = [h EXCEPT ![x].permit = p, ![x].pc = "reload"]
          PROVE  h'[x].pc = "reload"
      BY <1>0, <2>3 DEF Requests
    <2>4. (\E p : h' = [h EXCEPT ![x].permit = p, ![x].pc = "reload"]) => Remembers(x)
      BY <2>3 DEF Remembers, Unclaimed
    <2>5. Return(x) \/ Go(x, "rejectload") \/ Go(x, "validate") => Remembers(x)
      BY <1>0, <2>1, IdleTypes DEF Return, Go, Remembers, Unclaimed, Requests
    <2> QED BY <2>2, <2>4, <2>5, Zenon
  <1>21. CASE Recheck(x)
    BY <1>0, <1>21, IdleTypes DEF Recheck, At, Return, Go, Remembers, Unclaimed, Requests
  <1>22. CASE Confirm(x)
    BY <1>0, <1>22, IdleTypes DEF Confirm, At, Return, Go, Remembers, Unclaimed, Requests
  <1>23. CASE Unclaim(x)
    BY <1>0, <1>23, IdleTypes DEF Unclaim, At, Return, Go, Remembers, Unclaimed, Requests
  <1>24. CASE Validate(x)
    BY <1>0, <1>24, IdleTypes DEF Validate, At, Return, Go, Remembers, Unclaimed, Requests, Renewal
  <1>25. CASE Call(x)
    <2>1. h[x].pc = "call"
      BY <1>25 DEF Call, At
    <2>2. \/ Return(x) \/ Go(x, "renew") \/ Go(x, "rejectload")
          \/ \E signal \in Signals :
                h' = [h EXCEPT ![x].signal = signal, ![x].pc = IF Owns(x) THEN "decideload" ELSE "mint"]
      BY <1>25 DEF Call, Renewal
    <2>3. ASSUME NEW signal \in Signals,
                 h' = [h EXCEPT ![x].signal = signal, ![x].pc = IF Owns(x) THEN "decideload" ELSE "mint"]
          PROVE  Remembers(x)
      <3>1. h'[x] = [h[x] EXCEPT !.signal = signal, !.pc = IF Owns(x) THEN "decideload" ELSE "mint"]
        BY <1>0, <2>3
      <3>2. h'[x].permit = h[x].permit /\ h'[x].id = h[x].id /\ h'[x].seen = h[x].seen
        BY <1>0, <3>1 DEF Requests
      <3> QED BY <2>1, <3>2 DEF Remembers, Unclaimed
    <2>4. Return(x) \/ Go(x, "renew") \/ Go(x, "rejectload") => Remembers(x)
      BY <1>0, <2>1, IdleTypes DEF Return, Go, Remembers, Unclaimed, Requests
    <2> QED BY <2>2, <2>3, <2>4
  <1>26. CASE Mint(x)
    BY <1>0, <1>26, IdleTypes DEF Mint, At, Return, Go, Remembers, Unclaimed, Requests
  <1>27. CASE Decide(x)
    BY <1>0, <1>27, IdleTypes DEF Decide, At, Return, Go, Remembers, Unclaimed, Requests
  <1>28. CASE Activate(x)
    BY <1>0, <1>28, IdleTypes DEF Activate, At, Return, Go, Remembers, Unclaimed, Requests
  <1>29. CASE Observe(x)
    BY <1>0, <1>29, IdleTypes DEF Observe, At, Return, Go, Remembers, Unclaimed, Requests
  <1>30. CASE Release(x)
    BY <1>0, <1>30, IdleTypes DEF Release, At, Return, Go, Remembers, Unclaimed, Requests
  <1>31. CASE Commit(x)
    BY <1>0, <1>31, IdleTypes DEF Commit, At, Return, Go, Remembers, Unclaimed, Requests, Committed
  <1>32. CASE Resolve(x)
    BY <1>0, <1>32, IdleTypes DEF Resolve, At, Return, Go, Remembers, Unclaimed, Requests
  <1>33. CASE Renew(x)
    BY <1>0, <1>33, IdleTypes DEF Renew, At, Return, Go, Remembers, Unclaimed, Requests
  <1>34. CASE Reject(x)
    BY <1>0, <1>34, IdleTypes DEF Reject, At, Return, Go, Remembers, Unclaimed, Requests
  <1>35. CASE RejectPendingHealth(x)
    BY <1>0, <1>35, IdleTypes DEF RejectPendingHealth, At, Return, Go, Remembers, Unclaimed, Requests
  <1>36. CASE Rollback(x)
    BY <1>0, <1>36, IdleTypes DEF Rollback, At, Return, Go, Remembers, Unclaimed, Requests
  <1>37. CASE DisableRead(x)
    BY <1>0, <1>37, IdleTypes DEF DisableRead, At, Return, Go, Remembers, Unclaimed, Requests
  <1>38. CASE DisableSave(x)
    BY <1>0, <1>38, IdleTypes DEF DisableSave, At, Return, Go, Remembers, Unclaimed, Requests
  <1>39. CASE DisableClear(x)
    BY <1>0, <1>39, IdleTypes DEF DisableClear, At, Return, Go, Remembers, Unclaimed, Requests
  <1>40. CASE EnableRead(x)
    BY <1>0, <1>40, IdleTypes DEF EnableRead, At, Return, Go, Remembers, Unclaimed, Requests
  <1>41. CASE EnableReset(x)
    BY <1>0, <1>41, IdleTypes DEF EnableReset, At, Return, Go, Remembers, Unclaimed, Requests
  <1>42. CASE EnableSave(x)
    BY <1>0, <1>42, IdleTypes DEF EnableSave, At, Return, Go, Remembers, Unclaimed, Requests
  <1>43. CASE Revoke(x)
    BY <1>0, <1>43, IdleTypes DEF Revoke, At, Return, Go, Remembers, Unclaimed, Requests
  <1>44. CASE DeleteSave(x)
    BY <1>0, <1>44, IdleTypes DEF DeleteSave, At, Return, Go, Remembers, Unclaimed, Requests
  <1> QED BY <1>1, <1>2, <1>3, <1>4, <1>5, <1>6, <1>7, <1>8, <1>9, <1>10, <1>11, <1>12, <1>13, <1>14, <1>15, <1>16, <1>17, <1>18, <1>19, <1>20, <1>21, <1>22, <1>23, <1>24, <1>25, <1>26, <1>27, <1>28, <1>29, <1>30, <1>31, <1>32, <1>33, <1>34, <1>35, <1>36, <1>37, <1>38, <1>39, <1>40, <1>41, <1>42, <1>43, <1>44, Zenon DEF Step

LEMMA ClaimIsOfOne ==
    ASSUME AccountInv, NEW x \in Handlers, ClaimRecoveryPermit(x), h'[x].permit # NoPermit
    PROVE  /\ health'.conds = health.conds /\ health'.permit = h[x].permit
           /\ h'[x].permit = h[x].permit /\ h'[x].id = h[x].id /\ h[x].permit.owner = h[x].id
           /\ h[x].op # "none"
           /\ \A c \in Range(health.conds) :
                c.scope = h[x].permit.scope /\ c.ver = h[x].permit.ver => c.by = h'[x].seen
  <1> DEFINE p == h[x].permit
             seen == AtVersion(health.conds, p.scope, p.ver).by
             Same == {c \in Range(health.conds) : c.scope = p.scope /\ c.ver = p.ver}
  <1>1. h[x].pc # "idle"
    BY DEF ClaimRecoveryPermit, At
  <1>2. h[x] \in Requests /\ DOMAIN h = Handlers /\ h[x].op # "none"
    BY <1>1, Ongoing DEF AccountInv
  <1>3. health \in HealthRecords /\ ValidRecord(health) /\ health.conds \in Seq(Conditions)
    BY HealthNow, HealthFields DEF HealthOK
  <1>4. ~Return(x)
    BY <1>2, IdleTypes DEF Return
  <1>5. /\ Commits(ClaimPermit(health, p))
        /\ h' = [h EXCEPT ![x].pc = "confirmload", ![x].seen = seen]
    BY <1>4, Zenon DEF ClaimRecoveryPermit
  <1>6. health'.conds = health.conds /\ health'.permit = p
    BY <1>3, <1>5 DEF Commits, ClaimPermit, HealthRecords
  <1> HIDE DEF seen
  <1>7. h'[x].permit = p /\ h'[x].id = h[x].id /\ h'[x].seen = seen
    BY <1>2, <1>5 DEF Requests
  <1>8. p.owner = h[x].id
    BY <1>7, PermitIsMine
  <1>9. ASSUME NEW c \in Range(health.conds), c \in Same
        PROVE  c.by = seen
    <2> DEFINE d == FirstOf(Those(health.conds, Same))
    <2>1. d \in Range(health.conds) \cap Same
      BY <1>3, <1>9, FirstWanted
    <2>2. seen = d.by
      BY DEF seen, AtVersion
    <2> HIDE DEF d
    <2>3. c = d
      BY <1>3, <1>9, <2>1, OneCondition
    <2> QED BY <2>2, <2>3
  <1> QED BY <1>2, <1>6, <1>7, <1>8, <1>9

LEMMA PermitStep ==
    ASSUME AccountInv, PermitInv, NEW y \in Handlers, Step(y)
    PROVE  PermitInv'
  <1>1. Others(y)
    BY OneRequest
  <1> SUFFICES ASSUME NEW x \in Handlers, h'[x].permit # NoPermit, h'[x].pc \notin Unclaimed,
                      health'.permit.owner = h'[x].id
               PROVE  /\ health'.permit = h'[x].permit
                      /\ \A c \in Range(health'.conds) :
                           c.scope = h'[x].permit.scope /\ c.ver = h'[x].permit.ver => c.by = h'[x].seen
    BY DEF PermitInv, PermitHeld, Unclaimed
  <1>2. ASSUME h'[x].permit = h[x].permit, h'[x].id = h[x].id, h'[x].seen = h[x].seen,
               h[x].pc \notin Unclaimed, health' = health \/ KeepsPermit
        PROVE  /\ health'.permit = h'[x].permit
               /\ \A c \in Range(health'.conds) :
                    c.scope = h'[x].permit.scope /\ c.ver = h'[x].permit.ver => c.by = h'[x].seen
    <2>1. h[x].id > 0
      <3>1. h[x] # Idle
        BY <1>2, IdleTypes
      <3>2. h[x].id \in 1 .. ids /\ ids \in Nat
        BY <3>1 DEF AccountInv, Identified, StoresOK
      <3> QED BY <3>2
    <2>2. health'.permit # NoPermit
      BY <1>2, <2>1, AbsentTypes
    <2>3. /\ health'.permit = health.permit
          /\ \A c \in Range(health'.conds) :
               c.scope = health.permit.scope /\ c.ver = health.permit.ver => c \in Range(health.conds)
      BY <1>2, <2>2 DEF KeepsPermit
    <2>4. /\ health.permit = h[x].permit
          /\ \A c \in Range(health.conds) :
               c.scope = h[x].permit.scope /\ c.ver = h[x].permit.ver => c.by = h[x].seen
      BY <1>2, <2>3 DEF PermitInv, PermitHeld, Unclaimed
    <2> QED BY <1>2, <2>3, <2>4
  <1>3. CASE x # y
    <2>1. h'[x] = h[x]
      BY <1>1, <1>3 DEF Others
    <2>2. CASE ~ClaimRecoveryPermit(y)
      BY <1>2, <2>1, <2>2, PermitKept
    <2>3. CASE ClaimRecoveryPermit(y) /\ h'[y].permit = NoPermit
      <3> DEFINE seen == AtVersion(health.conds, h[y].permit.scope, h[y].permit.ver).by
      <3>1. h[y] \in Requests /\ DOMAIN h = Handlers /\ health \in HealthRecords
        BY HealthNow DEF AccountInv
      <3>2. \/ health' = health
            \/ /\ health' = ClaimPermit(health, h[y].permit)
               /\ h' = [h EXCEPT ![y].pc = "confirmload", ![y].seen = seen]
        BY <2>3, Zenon DEF ClaimRecoveryPermit, Commits
      <3> HIDE DEF seen
      <3>3. h' = [h EXCEPT ![y].pc = "confirmload", ![y].seen = seen] => h'[y].permit = h[y].permit
        BY <3>1 DEF Requests
      <3>4. ClaimPermit(health, h[y].permit).permit = h[y].permit
        BY <3>1 DEF ClaimPermit, HealthRecords
      <3>5. health' = health \/ KeepsPermit
        BY <2>3, <3>2, <3>3, <3>4, Zenon DEF KeepsPermit
      <3> QED BY <1>2, <2>1, <3>5
    <2>4. CASE ClaimRecoveryPermit(y) /\ h'[y].permit # NoPermit
      <3>1. health'.permit.owner = h[y].id /\ h[y].op # "none"
        BY <2>4, ClaimIsOfOne
      <3>2. h[x].op # "none"
        BY <2>1, IdleTypes DEF AccountInv, Identified
      <3>3. h[x].id = h[y].id
        BY <2>1, <3>1
      <3> QED BY <1>3, <3>1, <3>2, <3>3 DEF AccountInv, Unshared
    <2> QED BY <2>2, <2>3, <2>4
  <1>4. CASE x = y /\ ~ClaimRecoveryPermit(y)
    <2>1. Remembers(x)
      BY <1>4, Remembering
    <2>2. health' = health \/ KeepsPermit
      BY <1>4, PermitKept
    <2> QED BY <1>2, <2>1, <2>2 DEF Remembers
  <1>5. CASE x = y /\ ClaimRecoveryPermit(y)
    <2>1. /\ health'.conds = health.conds /\ health'.permit = h[x].permit
          /\ h'[x].permit = h[x].permit
          /\ \A c \in Range(health.conds) :
               c.scope = h[x].permit.scope /\ c.ver = h[x].permit.ver => c.by = h'[x].seen
      BY <1>5, ClaimIsOfOne
    <2> QED BY <2>1
  <1> QED BY <1>3, <1>4, <1>5

LEMMA PermitSteps ==
    ASSUME AccountInv, PermitInv, [Next]_vars
    PROVE  PermitInv'
  <1>1. CASE UNCHANGED <<health, h>>
    BY <1>1 DEF PermitInv, PermitHeld
  <1>2. CASE UNCHANGED vars
    BY <1>1, <1>2 DEF vars
  <1>3. ASSUME NEW id \in 1 .. ids, UserDecides(id) PROVE PermitInv'
    BY <1>1, <1>3 DEF UserDecides
  <1>4. ASSUME NEW y \in Handlers, Step(y) PROVE PermitInv'
    BY <1>4, PermitStep
  <1> QED BY <1>2, <1>3, <1>4 DEF Next

\* The permit the record names is the one that its owner claimed, for the
\* condition it saw then.
THEOREM PermitInvariant == Spec => []PermitInv
  <1>1. Init => PermitInv
    <2> SUFFICES ASSUME Init, NEW x \in Handlers PROVE h[x].permit = NoPermit
      BY DEF PermitInv, PermitHeld
    <2> QED BY IdleTypes DEF Init
  <1>2. AccountInv /\ PermitInv /\ [Next]_vars => PermitInv'
    BY PermitSteps
  <1> QED BY <1>1, <1>2, AccountInvariant, PTL DEF Spec

-----------------------------------------------------------------------------
(* What lifts a cooldown *)

\* A request that may resolve holds a permit of its own.
LEMMA OwnPermit ==
    ASSUME AccountInv, NEW x \in Handlers, OwnsDurably(x), h[x].pc # "idle"
    PROVE  /\ h[x].permit # NoPermit /\ h[x].permit.owner = h[x].id
           /\ health.permit.owner = h[x].id /\ h[x].permit \in Permits /\ h[x].id \in Nat
  <1>1. h[x].permit.scope \in Scopes
    BY ExactTypes DEF OwnsDurably
  <1>2. h[x].permit # NoPermit
    BY <1>1 DEF NoPermit, Scopes
  <1>3. h[x].permit.owner = h[x].id
    BY <1>2, PermitIsMine
  <1> QED BY <1>2, <1>3, Ongoing, RequestFields DEF OwnsDurably

LEMMA ResolvesOwn ==
    ASSUME AccountInv, NEW x \in Handlers, Resolve(x), health' # health,
           NEW c \in Range(health.conds), c \notin Range(health'.conds)
    PROVE  /\ OwnsDurably(x) /\ h[x].pc = "resolve"
           /\ c.scope = h[x].permit.scope /\ c.rev = h[x].permit.rev /\ c.ver = h[x].permit.ver
  <1>1. OwnsDurably(x) /\ h[x].pc = "resolve" /\ health' = ResolveRecovery(health, h[x].permit, h[x].id)
    BY DEF Resolve, At
  <1>2. h[x].permit \in Permits /\ h[x].id \in Nat
    BY <1>1, OwnPermit
  <1> QED BY <1>1, <1>2, HealthNow, ResolveRange

\* A recovery lifts the very observation that it was claimed for.
THEOREM RecoveryIsOfItsOwn == Spec => NoStaleClear
  <1>1. ASSUME AccountInv, PermitInv, [Next]_vars, NEW x \in Handlers, At(x, "resolve"), h'[x] # h[x],
               NEW c \in Range(health.conds), c \notin Range(health'.conds)
        PROVE  c.by = h[x].seen
    <2>1. Step(x) /\ health' # health
      BY <1>1, StepOfMine
    <2>2. \/ Epoch(x) \/ ClaimRecoveryPermit(x) \/ Unclaim(x) \/ Activate(x) \/ Observe(x)
          \/ Release(x) \/ Resolve(x) \/ Renew(x) \/ Reject(x) \/ RejectPendingHealth(x)
          \/ DisableClear(x) \/ EnableReset(x)
      BY <2>1, HealthWriters, Zenon
    <2>3. /\ ~At(x, "epoch") /\ ~At(x, "claimpermit") /\ ~At(x, "unclaim") /\ ~At(x, "activate")
          /\ ~At(x, "observe") /\ ~At(x, "release") /\ ~At(x, "renew") /\ ~At(x, "reject")
          /\ ~At(x, "rejectpending") /\ ~At(x, "disableclear") /\ ~At(x, "enablereset")
      BY <1>1 DEF At
    <2>4. ~Epoch(x) /\ ~ClaimRecoveryPermit(x) /\ ~Unclaim(x) /\ ~Activate(x) /\ ~Observe(x)
      BY <2>3, Zenon DEF Epoch, ClaimRecoveryPermit, Unclaim, Activate, Observe
    <2>5. /\ ~Release(x) /\ ~Renew(x) /\ ~Reject(x) /\ ~RejectPendingHealth(x)
          /\ ~DisableClear(x) /\ ~EnableReset(x)
      BY <2>3, Zenon DEF Release, Renew, Reject, RejectPendingHealth, DisableClear, EnableReset
    <2>6. Resolve(x)
      BY <2>2, <2>4, <2>5, Zenon
    <2>7. /\ OwnsDurably(x) /\ h[x].pc = "resolve"
          /\ c.scope = h[x].permit.scope /\ c.ver = h[x].permit.ver
      BY <1>1, <2>1, <2>6, ResolvesOwn
    <2>8. h[x].permit # NoPermit /\ health.permit.owner = h[x].id
      BY <1>1, <2>7, OwnPermit
    <2>9. PermitHeld(x)
      BY <1>1 DEF PermitInv
    <2> QED BY <2>7, <2>8, <2>9 DEF PermitHeld
  <1>2. AccountInv /\ PermitInv /\ [Next]_vars =>
          [\A x \in Handlers :
             At(x, "resolve") /\ h'[x] # h[x] =>
                \A c \in Range(health.conds) :
                   c.state = "cooling_down" /\ c \notin Range(health'.conds) => c.by = h[x].seen]_vars
    BY <1>1, Zenon
  <1> QED BY <1>2, AccountInvariant, PermitInvariant, PTL DEF Spec, NoStaleClear

\* The version and scope of c are still held back by some condition.
StaysHeld(c) ==
    \E d \in Range(health'.conds) :
        Blocking(d) /\ d.ver = c.ver /\ d.scope \in {c.scope, "account"}

LEMMA SameHeld ==
    ASSUME NEW c \in Range(health'.conds), c.state = "cooling_down"
    PROVE  StaysHeld(c)
  BY DEF StaysHeld, Blocking

LEMMA EpochLifts ==
    ASSUME AccountInv, NEW x \in Handlers, Epoch(x), health' # health,
           NEW c \in Range(health.conds), c.state = "cooling_down", c.ver = row.ver, ~StaysHeld(c)
    PROVE  Lifts(x, c)
  <1>1. h[x].pc = "epoch" /\ h[x].pc # "idle" /\ health' = EpochOf(x) /\ Go(x, "stage")
    BY DEF Epoch, At, Commits
  <1>2. h'[x] # h[x]
    <2>1. h[x] \in Requests /\ DOMAIN h = Handlers
      BY <1>1, Ongoing DEF AccountInv
    <2>2. h'[x].pc = "stage"
      BY <1>1, <2>1 DEF Go, Requests
    <2> QED BY <1>1, <2>2
  <1>3. health.conds \in Seq(Conditions) /\ c.ver > 0
    BY HealthNow, HealthFields DEF HealthOK, ValidRecord, ValidCondition, Blocking
  <1>4. ASSUME ~FirstCredential(x), h[x].acc.ver = row.ver PROVE FALSE
    <2> DEFINE wanted == {d \in Range(health.conds) : d.ver = h[x].acc.ver}
    <2>1. health'.conds = Those(health.conds, wanted)
      BY <1>1, <1>3, <1>4 DEF EpochOf, ResetForCredentialEpoch
    <2>2. Range(Those(health.conds, wanted)) = Range(health.conds) \cap wanted
      BY <1>3, ThoseWanted
    <2>3. c \in Range(health'.conds)
      BY <1>4, <2>1, <2>2
    <2> QED BY <2>3, SameHeld
  <1> QED BY <1>1, <1>2, <1>4 DEF Lifts, At

LEMMA ActivateLifts ==
    ASSUME AccountInv, NEW x \in Handlers, Activate(x), health' # health,
           NEW c \in Range(health.conds), c.state = "cooling_down", ~StaysHeld(c)
    PROVE  Lifts(x, c)
  <1>1. /\ h[x].pc = "activate" /\ h[x].pc # "idle"
        /\ health' = RecordActivation(health, h[x].v, h[x].id)
        /\ Go(x, "observe") \/ Go(x, "commit")
    BY DEF Activate, At, Commits
  <1>2. h'[x] # h[x]
    <2>1. h[x] \in Requests /\ DOMAIN h = Handlers
      BY <1>1, Ongoing DEF AccountInv
    <2>2. h'[x].pc = "observe" \/ h'[x].pc = "commit"
      BY <1>1, <2>1 DEF Go, Requests
    <2> QED BY <1>1, <2>2
  <1>3. h[x].id \in Nat /\ h[x].v \in Nat
    BY <1>1, Ongoing, RequestFields
  <1>4. c.scope # "account" => c \in Range(health'.conds)
    BY <1>1, <1>3, HealthNow, ActivationRange
  <1> QED BY <1>1, <1>2, <1>4, SameHeld DEF Lifts

LEMMA EnableLifts ==
    ASSUME AccountInv, NEW x \in Handlers, EnableReset(x), health' # health,
           NEW c \in Range(health.conds), c.state = "cooling_down", ~StaysHeld(c)
    PROVE  Lifts(x, c)
  <1> DEFINE ver == h[x].latest.ver
             wanted == {d \in Range(health.conds) : ~(d.scope = "account" /\ d.ver \in {ver, 0})}
             fresh == Condition("account", ver, "unknown", 0, h[x].id)
  <1>1. /\ h[x].pc = "enablereset" /\ h[x].pc # "idle" /\ Go(x, "enablesave")
        /\ health' = ResetForEnableProbe(health, ver, h[x].id)
    BY DEF EnableReset, At, Commits
  <1>2. h'[x] # h[x]
    <2>1. h[x] \in Requests /\ DOMAIN h = Handlers
      BY <1>1, Ongoing DEF AccountInv
    <2>2. h'[x].pc = "enablesave"
      BY <1>1, <2>1 DEF Go, Requests
    <2> QED BY <1>1, <2>2
  <1>3. h[x].id \in Nat /\ ver \in Nat
    BY <1>1, Ongoing, RequestFields, RowFields
  <1>4. fresh \in Conditions
    BY <1>3, StateTypes, ConditionTypes
  <1>5. health'.conds = Append(Those(health.conds, wanted), fresh)
    BY <1>1, Zenon DEF ResetForEnableProbe
  <1>6. /\ Those(health.conds, wanted) \in Seq(Conditions)
        /\ Range(Those(health.conds, wanted)) = Range(health.conds) \cap wanted
    BY HealthNow, HealthFields, ThoseWanted
  <1> DEFINE kept == Those(health.conds, wanted)
  <1>7. Range(health'.conds) = (Range(health.conds) \cap wanted) \cup {fresh}
    <2>1. kept \in Seq(Conditions) /\ Range(kept) = Range(health.conds) \cap wanted
      BY <1>6
    <2> HIDE DEF fresh, kept
    <2>2. Range(Append(kept, fresh)) = Range(kept) \cup {fresh}
      BY <1>4, <2>1, RangeAppend
    <2> QED BY <1>5, <2>1, <2>2 DEF kept
  <1>8. c.scope # "account" => c \in Range(health'.conds)
    BY <1>7
  <1> QED BY <1>1, <1>2, <1>8, SameHeld DEF Lifts

LEMMA ResolveLifts ==
    ASSUME AccountInv, NEW x \in Handlers, Resolve(x), health' # health,
           NEW c \in Range(health.conds), c.state = "cooling_down", ~StaysHeld(c)
    PROVE  Lifts(x, c)
  <1>1. c \notin Range(health'.conds)
    BY SameHeld
  <1>2. /\ OwnsDurably(x) /\ h[x].pc = "resolve" /\ h[x].pc # "idle" /\ Return(x)
        /\ c.scope = h[x].permit.scope /\ c.rev = h[x].permit.rev /\ c.ver = h[x].permit.ver
    BY <1>1, ResolvesOwn DEF Resolve
  <1>3. h'[x] # h[x]
    <2>1. DOMAIN h = Handlers
      BY DEF AccountInv
    <2> QED BY <1>2, <2>1, IdleTypes DEF Return
  <1>4. h[x].permit.owner = h[x].id /\ h[x].permit \in Permits
    BY <1>2, OwnPermit
  <1>5. PermitFor(c, h[x].id) = h[x].permit
    BY <1>2, <1>4 DEF PermitFor, Permits
  <1> QED BY <1>2, <1>3, <1>5 DEF Lifts, At

LEMMA ObserveHolds ==
    ASSUME AccountInv, NEW x \in Handlers, Observe(x) \/ Renew(x), health' # health,
           NEW c \in Range(health.conds), c.state = "cooling_down"
    PROVE  StaysHeld(c)
  <1>1. h[x].pc # "idle"
    BY DEF Observe, Renew, At
  <1>2. /\ h[x].id \in Nat /\ h[x].v \in Nat /\ h[x].permit \in Permits
        /\ h[x].signal \in Signals /\ health.conds \in Seq(Conditions)
    BY <1>1, Ongoing, RequestFields, HealthNow, HealthFields
  <1>3. Blocking(c)
    BY DEF Blocking
  <1>4. CASE Observe(x)
    <2> DEFINE p == h[x].permit
               signal == h[x].signal
               renewed == IF p.owner # 0 /\ p.scope # signal
                          THEN Cooled(health.conds, p.scope, h[x].v, h[x].id) ELSE health.conds
    <2>1. signal \in Scopes
      <3>1. signal # "none"
        BY <1>1, <1>4, Ongoing DEF Applies, Observe, At
      <3> QED BY <1>2, <3>1 DEF Signals, Scopes
    <2>2. /\ health' = ObserveCooldown(health, signal, h[x].v, p, h[x].id)
          /\ Owns(x) => OwnsDurably(x)
      BY <1>4 DEF Observe
    <2>3. health'.conds = Cooled(renewed, signal, h[x].v, h[x].id)
      BY <2>2 DEF ObserveCooldown
    <2>4. p.owner # 0 => p.scope \in Scopes
      BY <2>2, AbsentTypes, ExactTypes DEF Owns, OwnsDurably
    <2>5. /\ renewed \in Seq(Conditions)
          /\ \E d \in Range(renewed) : d.scope = c.scope /\ d.ver = c.ver /\ Blocking(d)
      <3>1. CASE p.owner # 0 /\ p.scope # signal
        <4> DEFINE cooled == Cooled(health.conds, p.scope, h[x].v, h[x].id)
        <4>1. cooled \in Seq(Conditions)
          BY <1>2, <2>4, <3>1, CooledTypes
        <4>2. \E d \in Range(cooled) : d.scope = c.scope /\ d.ver = c.ver /\ (Blocking(c) => Blocking(d))
          BY <1>2, <2>4, <3>1, CooledRange
        <4>3. renewed = cooled
          BY <3>1
        <4> HIDE DEF cooled, renewed
        <4> QED BY <1>3, <4>1, <4>2, <4>3
      <3>2. CASE ~(p.owner # 0 /\ p.scope # signal)
        BY <1>2, <1>3, <3>2
      <3> QED BY <3>1, <3>2
    <2> HIDE DEF renewed
    <2>6. PICK d \in Range(renewed) : d.scope = c.scope /\ d.ver = c.ver /\ Blocking(d)
      BY <2>5
    <2>7. PICK e \in Range(Cooled(renewed, signal, h[x].v, h[x].id)) :
            e.scope = d.scope /\ e.ver = d.ver /\ (Blocking(d) => Blocking(e))
      BY <1>2, <2>1, <2>5, CooledRange
    <2> QED BY <2>3, <2>6, <2>7 DEF StaysHeld
  <1>5. CASE Renew(x)
    <2> DEFINE p == h[x].permit
    <2>1. health' = RenewAfterDependencyFailure(health, p, h[x].id) /\ OwnsDurably(x)
      BY <1>5 DEF Renew
    <2>2. p.scope \in Scopes /\ p.ver \in Nat
      BY <1>2, <2>1, ExactTypes DEF OwnsDurably, Permits
    <2>3. health'.conds = Cooled(health.conds, p.scope, p.ver, h[x].id)
      BY <2>1 DEF RenewAfterDependencyFailure
    <2>4. \E d \in Range(Cooled(health.conds, p.scope, p.ver, h[x].id)) :
            d.scope = c.scope /\ d.ver = c.ver /\ (Blocking(c) => Blocking(d))
      BY <1>2, <2>2, CooledRange
    <2> QED BY <1>3, <2>3, <2>4 DEF StaysHeld
  <1> QED BY <1>4, <1>5

LEMMA RejectsNothing ==
    ASSUME AccountInv, NEW x \in Handlers, Reject(x)
    PROVE  health' = health
  <1> DEFINE rec == RejectCurrent(health, h[x].latest.ver, h[x].id)
             c == Condition("account", h[x].latest.ver, "expired", 0, h[x].id)
  <1>1. rec.conds = << c >>
    BY DEF RejectCurrent
  <1>2. c.state = "expired" /\ c.rev = 0
    BY DEF Condition
  <1> HIDE DEF rec, c
  <1>3. c \in Range(rec.conds)
    BY <1>1 DEF Range
  <1>4. ~ValidRecord(rec)
    BY <1>2, <1>3 DEF ValidRecord, ValidCondition, Blocking
  <1> QED BY <1>4, Zenon DEF Reject, rec

LEMMA RejectionHolds ==
    ASSUME AccountInv, NEW x \in Handlers, RejectPendingHealth(x), health' # health,
           NEW c \in Range(health.conds), c.state = "cooling_down"
    PROVE  StaysHeld(c)
  <1> DEFINE ver == h[x].latest.pend
             own   == Those(health.conds, {d \in Range(health.conds) : d.ver = ver /\ d.scope = "account"})
             prior == IF own = <<>> THEN ConditionAt(health.conds, "account") ELSE Head(own)
             wanted == {d \in Range(health.conds) : d.ver # ver}
             others == Those(health.conds, wanted)
             expired == Condition("account", ver, "expired", prior.rev + 1, h[x].id)
  <1>1. health' = RejectPending(health, ver, h[x].id) /\ health' \in HealthRecords
    <2>1. h[x].pc # "idle"
      BY DEF RejectPendingHealth, At
    <2>2. ver \in Nat /\ h[x].id \in Nat
      BY <2>1, Ongoing, RequestFields, RowFields
    <2>3. health' = RejectPending(health, ver, h[x].id)
      BY DEF RejectPendingHealth, Commits, RejectionOf
    <2> QED BY <2>2, <2>3, HealthNow, RejectPendingTypes
  <1>2. health'.conds = Append(others, expired)
    BY <1>1 DEF RejectPending
  <1>3. expired.state = "expired" /\ expired.scope = "account" /\ expired.ver = ver
    BY DEF Condition
  <1> HIDE DEF prior, expired
  <1>4. others \in Seq(Conditions) /\ Range(others) = Range(health.conds) \cap wanted
    BY HealthNow, HealthFields, ThoseWanted
  <1> HIDE DEF others
  <1>5. Append(others, expired) \in Seq(Conditions)
    BY <1>1, <1>2, HealthFields
  <1>6. Len(others) + 1 \in DOMAIN health'.conds /\ health'.conds[Len(others) + 1] = expired
    BY <1>2, <1>4
  <1>7. expired \in Range(health'.conds)
    BY <1>6 DEF Range
  <1>8. CASE c.ver = ver
    BY <1>3, <1>7, <1>8 DEF StaysHeld, Blocking
  <1>9. CASE c.ver # ver
    <2>1. PICK i \in DOMAIN others : others[i] = c
      BY <1>4, <1>9 DEF Range
    <2>2. i \in DOMAIN health'.conds /\ health'.conds[i] = c
      BY <1>2, <1>4, <2>1
    <2>3. c \in Range(health'.conds)
      BY <2>2 DEF Range
    <2> QED BY <2>3, SameHeld
  <1> QED BY <1>8, <1>9

\* A cooldown of the version in use ends only by a step that is entitled to
\* end it: nothing that is done about another version lifts it.
THEOREM CooldownsStay == Spec => CoolingKept
  <1>1. ASSUME AccountInv, [Next]_vars, NEW c \in Range(health.conds), c.state = "cooling_down",
               c.ver = row.ver, ~StaysHeld(c)
        PROVE  \E x \in Handlers : Lifts(x, c)
    <2>1. health' # health /\ health'.conds # health.conds
      BY <1>1, SameHeld
    <2>2. PICK x \in Handlers : Step(x)
      BY <1>1, <2>1 DEF Next, vars, UserDecides
    <2>3. \/ Epoch(x) \/ ClaimRecoveryPermit(x) \/ Unclaim(x) \/ Activate(x) \/ Observe(x)
          \/ Release(x) \/ Resolve(x) \/ Renew(x) \/ Reject(x) \/ RejectPendingHealth(x)
          \/ DisableClear(x) \/ EnableReset(x)
      BY <2>1, <2>2, HealthWriters, Zenon
    <2>4. /\ ClearPermit(health).conds = health.conds
          /\ ClaimPermit(health, h[x].permit).conds = health.conds
      BY <1>1, HealthNow DEF ClearPermit, ClaimPermit, HealthRecords
    <2>5. ~ClaimRecoveryPermit(x) /\ ~Unclaim(x)
      BY <2>1, <2>4 DEF ClaimRecoveryPermit, Unclaim, Commits
    <2>6. ~Release(x) /\ ~DisableClear(x)
      BY <2>1, <2>4 DEF Release, DisableClear, Commits
    <2>7. ~Reject(x)
      BY <1>1, <2>1, RejectsNothing
    <2>8. ~Observe(x) /\ ~Renew(x) /\ ~RejectPendingHealth(x)
      BY <1>1, <2>1, ObserveHolds, RejectionHolds
    <2>9. Lifts(x, c)
      BY <1>1, <2>1, <2>3, <2>5, <2>6, <2>7, <2>8, EpochLifts, ActivateLifts, ResolveLifts, EnableLifts
    <2> QED BY <2>9
  <1>2. AccountInv /\ [Next]_vars =>
          [\A c \in Range(health.conds) :
             /\ c.state = "cooling_down" /\ c.ver = row.ver
             /\ ~\E d \in Range(health'.conds) :
                   Blocking(d) /\ d.ver = c.ver /\ d.scope \in {c.scope, "account"}
             => \E x \in Handlers : Lifts(x, c)]_vars
    BY <1>1, Zenon DEF StaysHeld
  <1> QED BY <1>2, AccountInvariant, PTL DEF Spec, CoolingKept
=============================================================================
