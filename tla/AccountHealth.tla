--------------------------- MODULE AccountHealth ---------------------------
(***************************************************************************)
(* The health record of one Provider Account: scoped conditions, each      *)
(* bound to a credential version, and the single recovery permit           *)
(* (persistence/health.go, with the transitions of                         *)
(* domain/provideraccount.go it applies).                                  *)
(*                                                                         *)
(* A mutation is computed here from the record it finds; HealthStore       *)
(* commits it only if the result satisfies ValidRecord.  Scopes are the    *)
(* account and one operation of it: a model scope is to an operation what  *)
(* an operation is to the account.  Backoff levels and timers set only     *)
(* when a cooldown may be retried, and are left to the reader of the       *)
(* record.  A condition's reason follows from its state.                   *)
(***************************************************************************)
EXTENDS Naturals, Sequences, SequencesExt

Scopes == {"account", "operation"}

States == {"unknown", "healthy", "cooling_down", "expired"}

\* "by" is no field of the program: the request that recorded the condition.
Conditions == [scope : Scopes, ver : Nat, state : States, rev : Nat, by : Nat]

Permits == [owner : Nat, scope : Scopes \cup {"none"}, rev : Nat, ver : Nat]

NoPermit == [owner |-> 0, scope |-> "none", rev |-> 0, ver |-> 0]

\* What the record of an account may claim to be.
Condition(scope, ver, state, rev, by) ==
    [scope |-> scope, ver |-> ver, state |-> state, rev |-> rev, by |-> by]

Initialized == [conds |-> <<Condition("account", 0, "unknown", 0, 0)>>, permit |-> NoPermit]

Absent == Condition("account", 0, "unknown", 0, 0)

\* The conditions of a record that are wanted, in their order.
Those(conds, wanted) ==
    LET kept[i \in 0 .. Len(conds)] ==
            IF i = 0 THEN <<>>
            ELSE IF conds[i] \in wanted THEN Append(kept[i - 1], conds[i]) ELSE kept[i - 1]
    IN  kept[Len(conds)]

\* conditionAt and conditionAtVersion take the first that matches.
FirstOf(conds) == IF conds = <<>> THEN Absent ELSE Head(conds)

ConditionAt(conds, scope) == FirstOf(Those(conds, {c \in Range(conds) : c.scope = scope}))

AtVersion(conds, scope, ver) ==
    FirstOf(Those(conds, {c \in Range(conds) : c.scope = scope /\ c.ver = ver}))

HasExactCondition(rec, permit) ==
    \E c \in Range(rec.conds) :
        c.scope = permit.scope /\ c.rev = permit.rev /\ c.ver = permit.ver

RejectedAt(conds, ver) == \E c \in Range(conds) : c.ver = ver /\ c.state = "expired"

Blocking(c) == c.state \in {"cooling_down", "expired"}

-----------------------------------------------------------------------------
(* Validation *)

ValidCondition(c) == Blocking(c) => c.rev > 0 /\ c.ver > 0

ValidPermit(rec) ==
    \/ rec.permit = NoPermit
    \/ /\ rec.permit.owner # 0 /\ rec.permit.rev > 0 /\ rec.permit.ver > 0
       /\ \E c \in Range(rec.conds) :
            /\ c.scope = rec.permit.scope /\ c.rev = rec.permit.rev /\ c.ver = rec.permit.ver
            /\ c.state = "cooling_down"

\* One condition for each scope and version.
ValidRecord(rec) ==
    /\ \A c \in Range(rec.conds) : ValidCondition(c)
    /\ \A i, j \in DOMAIN rec.conds :
          rec.conds[i].scope = rec.conds[j].scope /\ rec.conds[i].ver = rec.conds[j].ver => i = j
    /\ ValidPermit(rec)

-----------------------------------------------------------------------------
(* The recovery permit a request may claim before a probe of a scope *)

Cooling(conds, ver) == {c \in Range(conds) : c.ver = ver /\ c.state = "cooling_down"}

BroaderCooldown(conds, ver, scope) ==
    \E c \in Cooling(conds, ver) : c.scope = "account" /\ scope = "operation"

ExactCooldown(conds, ver, scope) == {c \in Cooling(conds, ver) : c.scope = scope}

PermitFor(c, owner) == [owner |-> owner, scope |-> c.scope, rev |-> c.rev, ver |-> c.ver]

Occupied(rec, ver, scope) ==
    \E c \in ExactCooldown(rec.conds, ver, scope) :
        /\ rec.permit.owner # 0
        /\ PermitFor(c, rec.permit.owner) = rec.permit

-----------------------------------------------------------------------------
(* Mutations *)

\* WithScopedCooldownSource: renews the condition of the scope and version in
\* place under the next revision, or adds the first one.
Cooled(conds, scope, ver, by) ==
    IF \E c \in Range(conds) : c.scope = scope /\ c.ver = ver
    THEN [i \in DOMAIN conds |->
            IF conds[i].scope = scope /\ conds[i].ver = ver
            THEN Condition(scope, ver, "cooling_down", conds[i].rev + 1, by)
            ELSE conds[i]]
    ELSE Append(conds, Condition(scope, ver, "cooling_down", 1, by))

\* A request that holds a permit renews the permit's own scope as well, when
\* the provider's signal is about another one.
ObserveCooldown(rec, scope, ver, permit, by) ==
    LET renewed == IF permit.owner # 0 /\ permit.scope # scope
                   THEN Cooled(rec.conds, permit.scope, ver, by) ELSE rec.conds
    IN  [conds  |-> Cooled(renewed, scope, ver, by),
         permit |-> IF permit.owner # 0 \/ rec.permit.scope = scope THEN NoPermit ELSE rec.permit]

ClaimPermit(rec, permit) == [rec EXCEPT !.permit = permit]

ClearPermit(rec) == [rec EXCEPT !.permit = NoPermit]

RenewAfterDependencyFailure(rec, permit, by) ==
    [conds |-> Cooled(rec.conds, permit.scope, permit.ver, by), permit |-> NoPermit]

\* WithScopedRecovery: resolves the permit's own condition; an emptied record
\* says healthy.
ResolveRecovery(rec, permit, by) ==
    LET kept == Those(rec.conds, {c \in Range(rec.conds) :
                    ~(/\ c.scope = permit.scope /\ c.state = "cooling_down"
                      /\ c.rev = permit.rev /\ c.ver = permit.ver)})
    IN  [conds  |-> IF kept = <<>> THEN <<Condition("account", permit.ver, "healthy", 0, by)>> ELSE kept,
         permit |-> NoPermit]

\* A rejected pending version gets its own evidence; every other version keeps its.
RejectPending(rec, ver, by) ==
    LET own   == Those(rec.conds, {c \in Range(rec.conds) : c.ver = ver /\ c.scope = "account"})
        prior == IF own = <<>> THEN ConditionAt(rec.conds, "account") ELSE Head(own)
    IN  [conds  |-> Append(Those(rec.conds, {c \in Range(rec.conds) : c.ver # ver}),
                           Condition("account", ver, "expired", prior.rev + 1, by)),
         permit |-> NoPermit]

\* WithCredentialRejected: one fresh condition, whose revision is unset.
RejectCurrent(rec, ver, by) ==
    [conds |-> <<Condition("account", ver, "expired", 0, by)>>, permit |-> NoPermit]

ResetForEnableProbe(rec, ver, by) ==
    [conds  |-> Append(Those(rec.conds, {c \in Range(rec.conds) : ~(c.scope = "account" /\ c.ver \in {ver, 0})}),
                       Condition("account", ver, "unknown", 0, by)),
     permit |-> NoPermit]

RecordActivation(rec, ver, by) ==
    LET healthy == Condition("account", ver, "healthy", 0, by)
        Same(c) == c.scope = "account" /\ c.ver = ver
    IN  [rec EXCEPT !.conds =
            IF \E c \in Range(@) : Same(c)
            THEN [i \in DOMAIN @ |-> IF Same(@[i]) THEN healthy ELSE @[i]]
            ELSE Append(@, healthy)]

\* A replacement keeps the evidence of the version still in use; a first
\* credential starts from nothing.
ResetForCredentialEpoch(rec, ver, preserve, by) ==
    [conds  |-> IF preserve > 0 THEN Those(rec.conds, {c \in Range(rec.conds) : c.ver = preserve})
                ELSE <<Condition("account", ver, "unknown", 0, by)>>,
     permit |-> NoPermit]
=============================================================================
