--------------------------- MODULE ProviderAccount ---------------------------
(***************************************************************************)
(* One Provider Account under concurrent management requests: credential   *)
(* submission and replacement, server-owned OAuth journeys, probes with    *)
(* their cooldowns and recovery permits, disable, enable and delete        *)
(* (application/credential.go, oauth.go, provideraccount_lifecycle.go,     *)
(* capability.go).                                                         *)
(*                                                                         *)
(* The account row, the health record, the Vault, the Capability Snapshot  *)
(* and the OAuth adapter are separate stores without a common transaction: *)
(* an action is one call to one of them, and a request keeps in between    *)
(* only what its handler h[x] remembers.  A request that a gate refuses    *)
(* changes nothing and is not modelled; every request presents a fresh     *)
(* Idempotency-Key.  Time passes at any moment, so a cooldown is due or    *)
(* not due whenever it is looked at.                                       *)
(*                                                                         *)
(* Operators whose comment begins "Wrong:" are slips in the operator that  *)
(* follows them; no specification uses them.                               *)
(***************************************************************************)
EXTENDS AccountRow, AccountHealth, FiniteSets

CONSTANTS Handlers,     \* requests in progress at once
          Agendas,      \* [from, ops]: what an account starts as and is asked to do
          FileBacked,   \* the row is in the file-backed store
          MaxFaults     \* bound on failing calls

ASSUME AccountAssumption ==
    /\ FileBacked \in BOOLEAN /\ MaxFaults \in Nat
    /\ \A a \in Agendas : a.from \in {"draft", "active", "cooling"} /\ a.ops \in [DOMAIN a.ops -> Nat]

VARIABLES row,        \* the account store
          health,     \* the health store
          vault,      \* vault[v]: the material of version v
          snapshot,   \* version of the stored Capability Snapshot, 0: none
          journeys,   \* the OAuth adapter's journeys, by authorization id
          proven,     \* versions the provider has authenticated in a probe
          h,          \* h[x]: the request handler x works on
          budget,     \* requests of each kind still to come
          ids,        \* request and authorization ids given out
          faults      \* failed calls so far

vars == <<row, health, vault, snapshot, journeys, proven, h, budget, ids, faults>>

Ops == {"submit", "replace", "connect", "reauthenticate", "poll", "probe",
        "disable", "enable", "delete"}

Budget(a) == [o \in Ops |-> IF o \in DOMAIN a.ops THEN a.ops[o] ELSE 0]

SumOf(b) == b["submit"] + b["replace"] + b["connect"] + b["reauthenticate"] + b["poll"]
            + b["probe"] + b["disable"] + b["enable"] + b["delete"]

MaxIds == CHOOSE n \in {SumOf(Budget(a)) : a \in Agendas} :
            \A a \in Agendas : SumOf(Budget(a)) <= n

\* There are not always more requests to come: some agenda has the most.
ASSUME AgendaAssumption ==
    \E a \in Agendas : \A b \in Agendas : SumOf(Budget(b)) <= SumOf(Budget(a))

Versions == 1 .. MaxIds + 2

Signals == {"none", "account", "operation"}   \* scope of a rate or quota signal

Idle == [op |-> "none", pc |-> "idle", id |-> 0, acc |-> Draft, latest |-> Draft, v |-> 0,
         scope |-> "account", permit |-> NoPermit, signal |-> "none", again |-> FALSE,
         reason |-> TRUE, seen |-> 0]

-----------------------------------------------------------------------------
(* Steps of a handler *)

At(x, pc) == h[x].pc = pc

Go(x, pc) == h' = [h EXCEPT ![x].pc = pc]

Return(x) == h' = [h EXCEPT ![x] = Idle]

Fault == faults < MaxFaults /\ faults' = faults + 1

\* An operation of the account store reloads the ledger first.
Readable == FileBacked => ValidAccountRow(row)

Visible == Readable /\ row.life # "deleted"

\* The visible row is replaced if the update's fences hold.
Saves(fence, next) == Visible /\ fence /\ row' = next

Rejects(fence) == ~(Visible /\ fence) /\ UNCHANGED row

\* A mutation of the health record is audited and validated before it is stored.
Commits(rec) == ValidRecord(rec) /\ health' = rec

KeepStores == UNCHANGED <<row, health, vault, snapshot, journeys, proven>>

KeepRest == UNCHANGED <<budget, ids>>

Held(from) == [v \in Versions |-> IF from # "draft" /\ v = 1 THEN [state |-> "held", by |-> 0]
                                  ELSE [state |-> "none", by |-> 0]]

HealthyOf(v) == Condition("account", v, "healthy", 0, 0)

\* The account is new, in use, or in use with one operation cooling down.
Init ==
    /\ \E a \in Agendas :
        /\ budget = Budget(a)
        /\ row = IF a.from = "draft" THEN Draft
                 ELSE [Draft EXCEPT !.life = "active", !.ver = 1, !.last = 1]
        /\ health = [Initialized EXCEPT !.conds =
                        CASE a.from = "draft" -> @
                          [] a.from = "active" -> <<HealthyOf(1)>>
                          [] OTHER -> <<HealthyOf(1), Condition("operation", 1, "cooling_down", 1, 0)>>]
        /\ vault = Held(a.from)
        /\ snapshot = IF a.from = "draft" THEN 0 ELSE 1
        /\ proven = IF a.from = "draft" THEN {} ELSE {1}
    /\ journeys = [i \in 1 .. MaxIds |-> [purpose |-> "none", status |-> "none"]]
    /\ h = [x \in Handlers |-> Idle] /\ ids = 0 /\ faults = 0

\* A request arrives, its gate passes on the row it reads, and it goes on from pc.
Arrives(x, op, gate, pc) ==
    /\ h[x].op = "none" /\ budget[op] > 0 /\ Visible /\ gate
    /\ budget' = [budget EXCEPT ![op] = @ - 1]
    /\ ids' = ids + 1
    /\ h' = [h EXCEPT ![x] = [Idle EXCEPT !.op = op, !.pc = pc, !.id = ids + 1, !.acc = row]]
    /\ KeepStores /\ UNCHANGED faults

-----------------------------------------------------------------------------
(* Submission and replacement of a credential *)

Submit(x) ==
    Arrives(x, "submit", row.marker = 0 /\ AcceptsCredentialSubmission(row.life), "reread")

Replace(x) ==
    Arrives(x, "replace", row.marker = 0 /\ row.pend = 0 /\ AcceptsReplacement(row.life), "reread")

\* After admission: of a replacement only the marker is looked at again.
Reread(x) ==
    /\ At(x, "reread")
    /\ \/ /\ Visible /\ row.marker = 0
          /\ h[x].op = "submit" => AcceptsCredentialSubmission(row.life)
          /\ h' = [h EXCEPT ![x].acc = row,
                            ![x].pc = IF h[x].op = "submit" THEN "reserve" ELSE "claim"]
       \/ /\ ~(/\ Visible /\ row.marker = 0
               /\ h[x].op = "submit" => AcceptsCredentialSubmission(row.life))
          /\ Return(x)
    /\ KeepStores /\ KeepRest /\ UNCHANGED faults

AllocationFence(acc) ==
    /\ row.marker = 0 /\ row.pend = 0
    /\ row.life = acc.life /\ row.last = acc.last
    /\ NextVersion(acc) > row.last /\ NextVersion(acc) > row.ver

\* A first submission only allocates the version, before the Vault sees it.
Reserve(x) ==
    LET acc == h[x].acc  v == NextVersion(acc) IN
    /\ At(x, "reserve")
    /\ \/ /\ Saves(AllocationFence(acc), [row EXCEPT !.last = v])
          /\ h' = [h EXCEPT ![x].v = v, ![x].pc = "put"]
       \/ Rejects(AllocationFence(acc)) /\ Return(x)
    /\ KeepRest /\ UNCHANGED <<health, vault, snapshot, journeys, proven, faults>>

\* A replacement takes the single-flight marker and allocates its version at
\* once, by writing back the row it read.
Claim(x) ==
    LET marked  == WithOAuthJourneyStarted(h[x].acc, h[x].id)
        claimed == IF marked.pend = 0 THEN WithReplacementCredential(marked) ELSE marked
    IN
    /\ At(x, "claim")
    /\ \/ /\ Saves(row.marker = 0, claimed)
          /\ h' = [h EXCEPT ![x].acc = claimed, ![x].v = claimed.pend, ![x].pc = "put"]
       \/ Rejects(row.marker = 0) /\ Return(x)
    /\ KeepRest /\ UNCHANGED <<health, vault, snapshot, journeys, proven, faults>>

Restorable(x) == h[x].op = "replace" \/ (h[x].op = "poll" /\ h[x].acc.pend > 0)

Put(x) ==
    /\ At(x, "put")
    /\ \/ /\ vault' = [vault EXCEPT ![h[x].v] = [state |-> "held", by |-> h[x].id]]
          /\ Go(x, "epoch") /\ UNCHANGED faults
       \/ /\ Fault /\ UNCHANGED vault
          /\ IF Restorable(x) THEN Go(x, "restore") ELSE Return(x)
    /\ KeepRest /\ UNCHANGED <<row, health, snapshot, journeys, proven>>

\* Connects as a first credential, or replaces the one in use.
FirstCredential(x) == h[x].op = "submit" \/ (h[x].op = "poll" /\ h[x].acc.pend = 0)

\* Wrong: a replacement starts the health record from nothing as well.
EpochOfAll(x) == ResetForCredentialEpoch(health, h[x].v, 0, h[x].id)

EpochOf(x) ==
    ResetForCredentialEpoch(health, h[x].v, IF FirstCredential(x) THEN 0 ELSE h[x].acc.ver, h[x].id)

\* The health record is fenced to the new version before the row is; when that
\* fails the stored version is revoked, and nothing else is undone.
Epoch(x) ==
    /\ At(x, "epoch")
    /\ \/ Commits(EpochOf(x)) /\ Go(x, "stage") /\ UNCHANGED faults
       \/ Fault /\ UNCHANGED health /\ Go(x, "discard")
    /\ KeepRest /\ UNCHANGED <<row, vault, snapshot, journeys, proven>>

StageFence(x) ==
    CASE h[x].op = "submit"  -> row.marker = 0 /\ row.life = h[x].acc.life /\ row.last = h[x].v
      [] h[x].op = "replace" -> row.marker = h[x].id /\ row.pend = h[x].acc.pend
      [] OTHER -> row.marker = h[x].seen /\ (h[x].acc.pend > 0 => row.pend = h[x].v)

Staged(x) ==
    WithOAuthJourneyCleared(IF FirstCredential(x) THEN WithSubmittedCredential(h[x].acc) ELSE h[x].acc)

\* The row advances; a poll that loses takes the journey for settled.
Stage(x) ==
    /\ At(x, "stage")
    /\ \/ Saves(StageFence(x), Staged(x)) /\ Return(x)
       \/ Rejects(StageFence(x)) /\ (IF h[x].op = "poll" THEN Return(x) ELSE Go(x, "undo"))
    /\ KeepRest /\ UNCHANGED <<health, vault, snapshot, journeys, proven, faults>>

RevokedIn(v) == [vault EXCEPT ![v].state = "revoked"]

\* A submission that lost its row revokes the version; if it cannot, the
\* outcome stays uncertain.
Undo(x) ==
    /\ At(x, "undo")
    /\ \/ /\ vault' = RevokedIn(h[x].v) /\ UNCHANGED faults
          /\ IF h[x].op = "replace" THEN Go(x, "restore") ELSE Return(x)
       \/ Fault /\ UNCHANGED vault /\ Return(x)
    /\ KeepRest /\ UNCHANGED <<row, health, snapshot, journeys, proven>>

RestoreFence(x) ==
    /\ row.marker = IF h[x].op = "replace" THEN h[x].id ELSE h[x].seen
    /\ row.pend = h[x].acc.pend

\* The replacement is taken back, marker and pending version together.
Restore(x) ==
    /\ At(x, "restore")
    /\ \/ Saves(RestoreFence(x), WithOAuthJourneyCleared(WithPendingCredentialRejected(h[x].acc)))
       \/ Rejects(RestoreFence(x))
    /\ Return(x)
    /\ KeepRest /\ UNCHANGED <<health, vault, snapshot, journeys, proven, faults>>

\* A last revocation whose failure is ignored.
Discard(x) ==
    /\ At(x, "discard")
    /\ \/ vault' = RevokedIn(h[x].v) /\ UNCHANGED faults
       \/ Fault /\ UNCHANGED vault
    /\ Return(x)
    /\ KeepRest /\ UNCHANGED <<row, health, snapshot, journeys, proven>>

-----------------------------------------------------------------------------
(* Server-owned OAuth: start, and the poll that settles the journey.  The  *)
(* adapter and the user at the provider's site are outside the program.    *)

StartOAuth(x, purpose) ==
    Arrives(x, purpose, row.marker = 0 /\ row.pend = 0 /\ AcceptsOAuthStart(row.life, purpose), "mark")

MarkFence(x) == row.marker = 0 /\ (h[x].op = "connect" => row.life = "draft")

\* The marker is written with the row as it was before admission.
Mark(x) ==
    /\ At(x, "mark")
    /\ \/ Saves(MarkFence(x), WithOAuthJourneyStarted(h[x].acc, h[x].id)) /\ Go(x, "begin")
       \/ Rejects(MarkFence(x)) /\ Return(x)
    /\ KeepRest /\ UNCHANGED <<health, vault, snapshot, journeys, proven, faults>>

Begin(x) ==
    /\ At(x, "begin")
    /\ \/ /\ journeys' = [journeys EXCEPT ![h[x].id] = [purpose |-> h[x].op, status |-> "pending"]]
          /\ Return(x) /\ UNCHANGED faults
       \/ Fault /\ UNCHANGED journeys /\ Go(x, "unmark")
    /\ KeepRest /\ UNCHANGED <<row, health, vault, snapshot, proven>>

Unmark(x) ==
    /\ At(x, "unmark")
    /\ \/ Saves(row.marker = h[x].id, h[x].acc)
       \/ Rejects(row.marker = h[x].id)
    /\ Return(x)
    /\ KeepRest /\ UNCHANGED <<health, vault, snapshot, journeys, proven, faults>>

UserDecides(id) ==
    /\ journeys[id].status = "pending"
    /\ \E status \in {"succeeded", "failed"} : journeys' = [journeys EXCEPT ![id].status = status]
    /\ KeepRest /\ UNCHANGED <<row, health, vault, snapshot, proven, h, faults>>

\* "seen" is the journey polled.
Poll(x, id) ==
    /\ h[x].op = "none" /\ budget["poll"] > 0 /\ Visible /\ journeys[id].status # "none"
    /\ budget' = [budget EXCEPT !["poll"] = @ - 1]
    /\ ids' = ids + 1
    /\ h' = [h EXCEPT ![x] = [Idle EXCEPT !.op = "poll", !.pc = "ask", !.id = ids + 1,
                                          !.acc = row, !.seen = id]]
    /\ KeepStores /\ UNCHANGED faults

\* The material of a success is handed out once.  A pending journey past its
\* expiry counts as failed.
Ask(x) ==
    LET id == h[x].seen  mine == h[x].acc.marker = h[x].seen IN
    /\ At(x, "ask")
    /\ \/ /\ journeys[id].status \in {"succeeded", "taken"} /\ UNCHANGED faults
          /\ journeys' = [journeys EXCEPT ![id].status = "taken"]
          /\ IF mine
             THEN h' = [h EXCEPT ![x].pc = "settle",
                                 ![x].again = journeys[id].status = "taken"]
             ELSE Return(x)
       \/ /\ journeys[id].status \in {"failed", "pending"} /\ UNCHANGED <<journeys, faults>>
          /\ IF mine THEN Go(x, "fail") ELSE Return(x)
       \/ /\ journeys[id].status = "pending" /\ UNCHANGED <<journeys, faults>> /\ Return(x)
       \/ Fault /\ UNCHANGED journeys /\ Return(x)
    /\ KeepRest /\ UNCHANGED <<row, health, vault, snapshot, proven>>

Connecting(x) == journeys[h[x].seen].purpose = "connect"

\* Rereads the row before the material ("again": someone else has it) is
\* used.  A connected account has no marker left to clear: Stage clears it.
Settle(x) ==
    LET use == Visible /\ ~(Connecting(x) /\ row.ver > 0) /\ ~h[x].again IN
    /\ At(x, "settle")
    /\ IF use
       THEN h' = [h EXCEPT ![x].acc = row,
                    ![x].v  = IF row.pend > 0 THEN row.pend ELSE NextVersion(row),
                    ![x].pc = IF ~Connecting(x) /\ row.pend = 0 THEN "allocate" ELSE "put"]
       ELSE Return(x)
    /\ KeepStores /\ KeepRest /\ UNCHANGED faults

\* A reauthentication fences its version in the row before the Vault has it.
Allocate(x) ==
    LET next == WithReplacementCredential(h[x].acc) IN
    /\ At(x, "allocate")
    /\ \/ /\ Saves(row.marker = h[x].seen, next)
          /\ h' = [h EXCEPT ![x].acc = next, ![x].pc = "put"]
       \/ Rejects(row.marker = h[x].seen) /\ Return(x)
    /\ KeepRest /\ UNCHANGED <<health, vault, snapshot, journeys, proven, faults>>

\* A failed journey is settled from the row the poll read first.
Fail(x) ==
    LET next == IF Connecting(x) THEN WithOAuthConnectFailed ELSE WithOAuthJourneyCleared(h[x].acc) IN
    /\ At(x, "fail")
    /\ Saves(row.marker = h[x].seen, next) \/ Rejects(row.marker = h[x].seen)
    /\ Return(x)
    /\ KeepRest /\ UNCHANGED <<health, vault, snapshot, journeys, proven, faults>>

-----------------------------------------------------------------------------
(* Probe *)

Probe(x, scope) ==
    /\ h[x].op = "none" /\ budget["probe"] > 0 /\ Visible
    /\ budget' = [budget EXCEPT !["probe"] = @ - 1]
    /\ ids' = ids + 1
    /\ h' = [h EXCEPT ![x] = [Idle EXCEPT !.op = "probe", !.pc = "gate", !.id = ids + 1,
                                          !.acc = row, !.scope = scope]]
    /\ KeepStores /\ UNCHANGED faults

\* The account row is read, then the health record: the next step has both.
Load(x) ==
    /\ h[x].pc \in {"reload", "confirmload", "decideload", "rejectload"}
    /\ IF Visible
       THEN h' = [h EXCEPT ![x].latest = row,
                           ![x].pc = CASE @ = "reload" -> "recheck"
                                       [] @ = "confirmload" -> "confirm"
                                       [] @ = "decideload" -> "decide"
                                       [] OTHER -> IF h[x].acc.pend > 0 THEN "rejectpending" ELSE "reject"]
       ELSE IF h[x].pc = "confirmload" THEN Go(x, "unclaim") ELSE Return(x)
    /\ KeepStores /\ KeepRest /\ UNCHANGED faults

ProbeGate(r) == ProbeableRow(r) /\ ~RejectedAt(health.conds, r.ver)

\* An account in use is not probed within a cooldown; once that is due, the
\* probe must own its recovery permit.
Gate(x) ==
    LET acc == h[x].acc
        exact == ExactCooldown(health.conds, acc.ver, h[x].scope)
    IN
    /\ At(x, "gate")
    /\ \/ /\ ProbeGate(acc) /\ RejectedAt(health.conds, ProbeVersion(acc)) /\ Go(x, "rejectload")
       \/ /\ ProbeGate(acc) /\ ~RejectedAt(health.conds, ProbeVersion(acc))
          /\ acc.life = "active" => ~BroaderCooldown(health.conds, acc.ver, h[x].scope) /\ exact = {}
          /\ Go(x, "validate")
       \/ /\ ProbeGate(acc) /\ ~RejectedAt(health.conds, ProbeVersion(acc)) /\ acc.life = "active"
          /\ ~BroaderCooldown(health.conds, acc.ver, h[x].scope)
          /\ ~Occupied(health, acc.ver, h[x].scope)
          /\ \E c \in exact :
                h' = [h EXCEPT ![x].permit = PermitFor(c, h[x].id), ![x].pc = "reload"]
       \/ /\ \/ ~ProbeGate(acc)
             \/ acc.life = "active" /\ (exact # {} \/ BroaderCooldown(health.conds, acc.ver, h[x].scope))
          /\ Return(x)
    /\ KeepStores /\ KeepRest /\ UNCHANGED faults

Recheck(x) ==
    LET new == h[x].latest
        still == /\ new.life = "active" /\ new.pend = 0
                 /\ ~BroaderCooldown(health.conds, new.ver, h[x].scope)
                 /\ ~Occupied(health, new.ver, h[x].scope)
                 /\ h[x].permit \in {PermitFor(c, h[x].id) : c \in ExactCooldown(health.conds, new.ver, h[x].scope)}
    IN
    /\ At(x, "recheck")
    /\ \/ still /\ h' = [h EXCEPT ![x].acc = new, ![x].pc = "claimpermit"]
       \/ Return(x)
    /\ KeepStores /\ KeepRest /\ UNCHANGED faults

Claimable(permit) == health.permit.owner = 0 /\ HasExactCondition(health, permit)

\* "seen" is the request whose observation the permit is about.
ClaimRecoveryPermit(x) ==
    LET p == h[x].permit IN
    /\ At(x, "claimpermit")
    /\ \/ /\ Claimable(p) /\ Commits(ClaimPermit(health, p))
          /\ h' = [h EXCEPT ![x].pc = "confirmload",
                            ![x].seen = AtVersion(health.conds, p.scope, p.ver).by]
       \/ ~(Claimable(p) /\ ValidRecord(ClaimPermit(health, p))) /\ UNCHANGED health /\ Return(x)
    /\ KeepRest /\ UNCHANGED <<row, vault, snapshot, journeys, proven, faults>>

\* The account may have left use between the first look and the claim.
Confirm(x) ==
    LET new == h[x].latest  inUse == new.life = "active" /\ new.pend = 0 IN
    /\ At(x, "confirm")
    /\ \/ ~ProbeGate(new) /\ Go(x, "unclaim")
       \/ ProbeGate(new) /\ health.permit.owner # h[x].id /\ Return(x)
       \/ ProbeGate(new) /\ health.permit.owner = h[x].id /\ ~inUse /\ Go(x, "unclaim")
       \/ /\ ProbeGate(new) /\ health.permit.owner = h[x].id /\ inUse
          /\ h' = [h EXCEPT ![x].acc = new, ![x].pc = "validate"]
    /\ KeepStores /\ KeepRest /\ UNCHANGED faults

\* Gives back exactly the permit this request claimed.
Unclaim(x) ==
    /\ At(x, "unclaim")
    /\ \/ health.permit = h[x].permit /\ Commits(ClearPermit(health)) /\ UNCHANGED faults
       \/ health.permit # h[x].permit /\ UNCHANGED <<health, faults>>
       \/ Fault /\ UNCHANGED health
    /\ Return(x)
    /\ KeepRest /\ UNCHANGED <<row, vault, snapshot, journeys, proven>>

Owns(x) == h[x].permit # NoPermit

Renewal(x) == IF Owns(x) THEN Go(x, "renew") ELSE Return(x)

\* Only stored material can be valid, and even that may be malformed.
Validate(x) ==
    LET v == ProbeVersion(h[x].acc) IN
    /\ At(x, "validate")
    /\ \/ /\ vault[v].state = "held" /\ UNCHANGED faults
          /\ h' = [h EXCEPT ![x].v = v, ![x].pc = "call"]
       \/ UNCHANGED faults /\ Go(x, "rejectload")
       \/ Fault /\ Renewal(x)
    /\ KeepStores /\ KeepRest

\* The provider authenticates the version or not, and may signal a limit.
Call(x) ==
    /\ At(x, "call")
    /\ \/ \E signal \in Signals :
            /\ proven' = proven \cup {h[x].v} /\ UNCHANGED faults
            /\ h' = [h EXCEPT ![x].signal = signal,
                              ![x].pc = IF Owns(x) THEN "decideload" ELSE "mint"]
       \/ UNCHANGED <<proven, faults>> /\ Go(x, "rejectload")
       \/ Fault /\ UNCHANGED proven /\ Renewal(x)
    /\ KeepRest /\ UNCHANGED <<row, health, vault, snapshot, journeys>>

\* A recovery probe mints no capability evidence.
Mint(x) ==
    /\ At(x, "mint")
    /\ \/ snapshot' = h[x].v /\ Go(x, "decideload") /\ UNCHANGED faults
       \/ Fault /\ UNCHANGED snapshot /\ Return(x)
    /\ KeepRest /\ UNCHANGED <<row, health, vault, journeys, proven>>

Pending == {"pending_probe", "pending_validation", "draft", "reauth_required"}

\* The condition found first at the permit's scope gives a renewal its reason.
LimitAt(conds, scope) == ConditionAt(conds, scope).state = "cooling_down"

\* The row the result is to be applied to still allows it.
StillAccepts(acc, new) ==
    IF acc.pend > 0 THEN new.pend = acc.pend ELSE new.life = "disabled" \/ AcceptsProbe(new.life)

Decide(x) ==
    LET new == h[x].latest IN
    /\ At(x, "decide")
    /\ IF ~StillAccepts(h[x].acc, new) THEN Return(x)
       ELSE h' = [h EXCEPT
                ![x].reason = LimitAt(health.conds, h[x].permit.scope),
                ![x].pc = IF ~Owns(x) /\ new.life \in Pending THEN "activate"
                          ELSE IF h[x].signal # "none" THEN "observe"
                          ELSE IF new.life # "active" /\ Owns(x) THEN "release" ELSE "commit"]
    /\ KeepStores /\ KeepRest /\ UNCHANGED faults

Activate(x) ==
    LET rec == RecordActivation(health, h[x].v, h[x].id) IN
    /\ At(x, "activate")
    /\ \/ /\ Commits(rec) /\ UNCHANGED faults
          /\ Go(x, IF h[x].signal # "none" THEN "observe" ELSE "commit")
       \/ ~ValidRecord(rec) /\ UNCHANGED <<health, faults>> /\ Return(x)
       \/ Fault /\ UNCHANGED health /\ Return(x)
    /\ KeepRest /\ UNCHANGED <<row, vault, snapshot, journeys, proven>>

\* Wrong: does not ask who holds the permit.
OwnsByCondition(x) == HasExactCondition(health, h[x].permit)

OwnsDurably(x) ==
    health.permit.owner = h[x].permit.owner /\ HasExactCondition(health, h[x].permit)

\* The renewal of the permit's own scope takes over the reason found there.
Observe(x) ==
    LET rec == ObserveCooldown(health, h[x].signal, h[x].v, h[x].permit, h[x].id)
        ok  == /\ Owns(x) => OwnsDurably(x)
               /\ Owns(x) /\ h[x].permit.scope # h[x].signal => h[x].reason
               /\ ValidRecord(rec)
    IN
    /\ At(x, "observe")
    /\ \/ ok /\ health' = rec /\ Go(x, "commit") /\ UNCHANGED faults
       \/ ~ok /\ UNCHANGED <<health, faults>> /\ Return(x)
       \/ Fault /\ UNCHANGED health /\ Return(x)
    /\ KeepRest /\ UNCHANGED <<row, vault, snapshot, journeys, proven>>

\* The account left use while its recovery was probed.
Release(x) ==
    /\ At(x, "release")
    /\ \/ /\ health.permit \in {NoPermit, h[x].permit} /\ UNCHANGED faults
          /\ Commits(ClearPermit(health)) /\ Go(x, "commit")
       \/ /\ health.permit \notin {NoPermit, h[x].permit} /\ UNCHANGED <<health, faults>> /\ Return(x)
       \/ Fault /\ UNCHANGED health /\ Return(x)
    /\ KeepRest /\ UNCHANGED <<row, vault, snapshot, journeys, proven>>

\* Wrong: does not look at the lifecycle again.
CommitFenceAnyLife(x) == row.pend = h[x].acc.pend

\* A probe of a pending version needs it still pending, any other probe needs
\* none; the lifecycle must be the one decided on.
CommitFence(x) == row.pend = h[x].acc.pend /\ row.life = h[x].latest.life

Heartbeat(x) ==
    h[x].acc.pend = 0 /\ h[x].latest.life = "active" /\ ~Owns(x) /\ h[x].signal = "none"

Result(x) ==
    LET new == h[x].latest IN
    IF h[x].acc.pend > 0 THEN WithProbeActivated(new, TRUE)
    ELSE IF new.life = "disabled" THEN [WithProbeActivated(new, FALSE) EXCEPT !.life = "disabled"]
    ELSE IF new.life = "active" THEN new
    ELSE WithProbeActivated(new, FALSE)

Committed(x) ==
    IF Owns(x) /\ h[x].signal = "none" /\ h[x].latest.life = "active" THEN Go(x, "resolve")
    ELSE IF h[x].acc.pend > 0
         THEN h' = [h EXCEPT ![x].v = h[x].latest.ver, ![x].pc = "discard"]
    ELSE Return(x)

\* A heartbeat patches the row it finds; any other result replaces the row by
\* the one read before.
Commit(x) ==
    /\ At(x, "commit")
    /\ \/ Saves(CommitFence(x), IF Heartbeat(x) THEN row ELSE Result(x)) /\ Committed(x)
       \/ Rejects(CommitFence(x)) /\ Return(x)
    /\ KeepRest /\ UNCHANGED <<health, vault, snapshot, journeys, proven, faults>>

\* The one relaxation of an account in use comes after its row is written.
Resolve(x) ==
    LET rec == ResolveRecovery(health, h[x].permit, h[x].id)
        ok  == OwnsDurably(x) /\ ValidRecord(rec)
    IN
    /\ At(x, "resolve")
    /\ \/ ok /\ health' = rec /\ UNCHANGED faults
       \/ ~ok /\ UNCHANGED <<health, faults>>
       \/ Fault /\ UNCHANGED health
    /\ Return(x)
    /\ KeepRest /\ UNCHANGED <<row, vault, snapshot, journeys, proven>>

\* A recovery the Vault or the provider could not answer starts a new cooldown.
Renew(x) ==
    LET rec == RenewAfterDependencyFailure(health, h[x].permit, h[x].id)
        ok  == /\ OwnsDurably(x) /\ LimitAt(health.conds, h[x].permit.scope)
               /\ ValidRecord(rec)
    IN
    /\ At(x, "renew")
    /\ \/ ok /\ health' = rec /\ UNCHANGED faults
       \/ ~ok /\ UNCHANGED <<health, faults>>
       \/ Fault /\ UNCHANGED health
    /\ Return(x)
    /\ KeepRest /\ UNCHANGED <<row, vault, snapshot, journeys, proven>>

\* probeRejected: the health record first, then the row.  A rejection not
\* recorded yet never validates, because its condition has no revision, so the first
\* call changes nothing and the two are one step.
Reject(x) ==
    LET new   == h[x].latest
        rec   == RejectCurrent(health, new.ver, h[x].id)
        known == RejectedAt(health.conds, new.ver)
        added == ~known /\ (Owns(x) => health.permit = h[x].permit) /\ ValidRecord(rec)
    IN
    /\ At(x, "reject")
    /\ health' = IF added THEN rec ELSE health
    /\ row' = IF (known \/ added) /\ Visible /\ row.life = new.life
              THEN IF new.life = "disabled" THEN new ELSE WithCredentialRejected(new)
              ELSE row
    /\ Return(x)
    /\ KeepRest /\ UNCHANGED <<vault, snapshot, journeys, proven, faults>>

RejectionOf(x) == RejectPending(health, h[x].latest.pend, h[x].id)

\* A rejected replacement: first its evidence, then the origin is restored.
RejectPendingHealth(x) ==
    LET new == h[x].latest IN
    /\ At(x, "rejectpending")
    /\ \/ new.pend # h[x].acc.pend /\ UNCHANGED <<health, faults>> /\ Return(x)
       \/ /\ new.pend = h[x].acc.pend /\ UNCHANGED faults
          /\ IF RejectedAt(health.conds, new.pend) THEN UNCHANGED health ELSE Commits(RejectionOf(x))
          /\ h' = [h EXCEPT ![x].v = new.pend, ![x].pc = "rollback"]
       \/ Fault /\ UNCHANGED health /\ Return(x)
    /\ KeepRest /\ UNCHANGED <<row, vault, snapshot, journeys, proven>>

RollbackFence(x) == row.pend = h[x].v /\ row.life = h[x].latest.life

Rollback(x) ==
    LET next == WithOAuthJourneyCleared(WithPendingCredentialRejected(h[x].latest)) IN
    /\ At(x, "rollback")
    /\ \/ Saves(RollbackFence(x), next) /\ Go(x, "discard")
       \/ Rejects(RollbackFence(x)) /\ Return(x)
    /\ KeepRest /\ UNCHANGED <<health, vault, snapshot, journeys, proven, faults>>

-----------------------------------------------------------------------------
(* Disable, enable, delete *)

Disable(x) == Arrives(x, "disable", AcceptsDisable(row.life), "disableread")

DisableRead(x) ==
    /\ At(x, "disableread")
    /\ IF Visible /\ AcceptsDisable(row.life)
       THEN h' = [h EXCEPT ![x].latest = row, ![x].pc = "disablesave"] ELSE Return(x)
    /\ KeepStores /\ KeepRest /\ UNCHANGED faults

DisableFence(x) == row.pend = h[x].latest.pend /\ row.marker = h[x].latest.marker

\* One conflict is retried.
DisableSave(x) ==
    /\ At(x, "disablesave")
    /\ \/ Saves(DisableFence(x), WithDisabled(h[x].latest)) /\ Go(x, "disableclear")
       \/ /\ Rejects(DisableFence(x))
          /\ IF Visible /\ ~h[x].again
             THEN h' = [h EXCEPT ![x].again = TRUE, ![x].pc = "disableread"] ELSE Return(x)
    /\ KeepRest /\ UNCHANGED <<health, vault, snapshot, journeys, proven, faults>>

\* Whoever holds a permit loses it.
DisableClear(x) ==
    /\ At(x, "disableclear")
    /\ \/ Commits(ClearPermit(health)) /\ UNCHANGED faults
       \/ Fault /\ UNCHANGED health
    /\ Return(x)
    /\ KeepRest /\ UNCHANGED <<row, vault, snapshot, journeys, proven>>

EnableGate(r) == AcceptsEnable(r.life) /\ r.marker = 0 /\ r.pend = 0

Enable(x) == Arrives(x, "enable", EnableGate(row), "enableread")

EnableRead(x) ==
    /\ At(x, "enableread")
    /\ IF Visible /\ EnableGate(row)
       THEN h' = [h EXCEPT ![x].latest = row, ![x].pc = "enablereset"] ELSE Return(x)
    /\ KeepStores /\ KeepRest /\ UNCHANGED faults

EnableReset(x) ==
    LET rec == ResetForEnableProbe(health, h[x].latest.ver, h[x].id) IN
    /\ At(x, "enablereset")
    /\ \/ Commits(rec) /\ Go(x, "enablesave") /\ UNCHANGED faults
       \/ Fault /\ UNCHANGED health /\ Return(x)
    /\ KeepRest /\ UNCHANGED <<row, vault, snapshot, journeys, proven>>

EnableSave(x) ==
    LET fence == row.marker = 0 /\ row.pend = 0 /\ row.life = h[x].latest.life IN
    /\ At(x, "enablesave")
    /\ Saves(fence, WithEnableProbePending(h[x].latest)) \/ Rejects(fence)
    /\ Return(x)
    /\ KeepRest /\ UNCHANGED <<health, vault, snapshot, journeys, proven, faults>>

Delete(x) == Arrives(x, "delete", TRUE, "revoke")

\* Both versions of the row read at the start lose decrypt authority first.
Revoke(x) ==
    LET todo == {h[x].acc.ver, h[x].acc.pend} \ {0} IN
    /\ At(x, "revoke")
    /\ \/ /\ vault' = [v \in Versions |-> IF v \in todo THEN [vault[v] EXCEPT !.state = "revoked"] ELSE vault[v]]
          /\ Go(x, "deletesave") /\ UNCHANGED faults
       \/ /\ Fault /\ Return(x)
          /\ \/ UNCHANGED vault
             \/ h[x].acc.ver > 0 /\ h[x].acc.pend > 0 /\ vault' = RevokedIn(h[x].acc.ver)
    /\ KeepRest /\ UNCHANGED <<row, health, snapshot, journeys, proven>>

DeleteSave(x) ==
    /\ At(x, "deletesave")
    /\ Saves(TRUE, WithDeleted(h[x].acc)) \/ Rejects(TRUE)
    /\ Return(x)
    /\ KeepRest /\ UNCHANGED <<health, vault, snapshot, journeys, proven, faults>>

-----------------------------------------------------------------------------
Step(x) ==
    \/ Submit(x) \/ Replace(x) \/ Reread(x) \/ Reserve(x) \/ Claim(x) \/ Put(x) \/ Epoch(x)
    \/ Stage(x) \/ Undo(x) \/ Restore(x) \/ Discard(x)
    \/ StartOAuth(x, "connect") \/ StartOAuth(x, "reauthenticate") \/ Mark(x) \/ Begin(x)
    \/ Unmark(x) \/ (\E id \in 1 .. ids : Poll(x, id)) \/ Ask(x) \/ Settle(x)
    \/ Allocate(x) \/ Fail(x)
    \/ (\E scope \in Scopes : Probe(x, scope)) \/ Load(x) \/ Gate(x) \/ Recheck(x)
    \/ ClaimRecoveryPermit(x) \/ Confirm(x) \/ Unclaim(x) \/ Validate(x) \/ Call(x) \/ Mint(x)
    \/ Decide(x) \/ Activate(x) \/ Observe(x) \/ Release(x) \/ Commit(x) \/ Resolve(x)
    \/ Renew(x) \/ Reject(x) \/ RejectPendingHealth(x) \/ Rollback(x)
    \/ Disable(x) \/ DisableRead(x) \/ DisableSave(x) \/ DisableClear(x)
    \/ Enable(x) \/ EnableRead(x) \/ EnableReset(x) \/ EnableSave(x)
    \/ Delete(x) \/ Revoke(x) \/ DeleteSave(x)

Next == (\E x \in Handlers : Step(x)) \/ (\E id \in 1 .. ids : UserDecides(id))

Spec == Init /\ [][Next]_vars

-----------------------------------------------------------------------------
(* Properties *)

\* Every variable stays in its domain: a row's lifecycle is one of the
\* program's, and versions and permits are numbers it gave out.
TypeOK ==
    /\ row \in Rows
    /\ health.conds \in Seq(Conditions) /\ health.permit \in Permits
    /\ vault \in [Versions -> [state : {"none", "held", "revoked"}, by : Nat]]
    /\ snapshot \in Nat /\ ids \in 0 .. MaxIds /\ faults \in 0 .. MaxFaults
    /\ \A x \in Handlers : h[x].op \in Ops \cup {"none"} /\ h[x].v \in Nat

\* A probe puts into use the version it has proven: whatever submissions, rotations and
\* journeys ran since, the row it writes names a version the provider has authenticated,
\* unless the probe was of no replacement and the row it decided on had moved meanwhile.
CutoverProven ==
    [][\A x \in Handlers :
          At(x, "commit") /\ h'[x] # h[x] /\ row' # row =>
             \/ row'.ver \in proven
             \/ h[x].acc.pend = 0 /\ <<h[x].latest.ver, h[x].latest.pend>> # <<h[x].v, 0>>]_vars

\* Disable intent wins over a probe in flight: no step of a probe takes a
\* disabled account out of that lifecycle.
ProbeRespectsDisable ==
    [][\A x \in Handlers :
          h[x].op = "probe" /\ h'[x] # h[x] /\ row'.life # row.life => row.life # "disabled"]_vars

\* A recovery probe resolves the very observation its permit was claimed for,
\* never a cooldown that was observed at the same scope afterwards.
NoStaleClear ==
    [][\A x \in Handlers :
          At(x, "resolve") /\ h'[x] # h[x] =>
             \A c \in Range(health.conds) :
                c.state = "cooling_down" /\ c \notin Range(health'.conds) => c.by = h[x].seen]_vars

\* What may lift a cooldown of the version in use: the recovery of that very
\* condition, a new activation or enable at account scope, and the epoch reset of
\* a first credential or of a request whose row has been overtaken, which nothing
\* fences.
Lifts(x, c) ==
    /\ h'[x] # h[x]
    /\ \/ At(x, "resolve") /\ PermitFor(c, h[x].id) = h[x].permit
       \/ h[x].pc \in {"enablereset", "activate"} /\ c.scope = "account"
       \/ At(x, "epoch") /\ (FirstCredential(x) \/ h[x].acc.ver # row.ver)

\* Staging, probing and rejecting a replacement leave the cooldowns of the
\* version in use alone: one of its scopes becomes routable only by a step
\* that is entitled to say so.
CoolingKept ==
    [][\A c \in Range(health.conds) :
          /\ c.state = "cooling_down" /\ c.ver = row.ver
          /\ ~\E d \in Range(health'.conds) :
                Blocking(d) /\ d.ver = c.ver /\ d.scope \in {c.scope, "account"}
          => \E x \in Handlers : Lifts(x, c)]_vars

\* The file-backed account store can read back every row the application
\* writes to it.
RowReloads == ValidAccountRow(row)

\* The credential version of an account only ever grows, as rotations and
\* reauthentications succeed.
VersionGrows == [][row'.ver >= row.ver]_vars

\* A probe that the provider refused takes the account out of use.
RejectionIsRecorded ==
    [][\A x \in Handlers :
          At(x, "reject") /\ h'[x] # h[x] /\ row.life = h[x].latest.life => row'.life # "active"]_vars
=============================================================================
