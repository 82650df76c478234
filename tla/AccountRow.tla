----------------------------- MODULE AccountRow -----------------------------
(***************************************************************************)
(* The Provider Account row: the lifecycle gates and transitions of        *)
(* domain/provideraccount.go and domain/oauth.go, and the rule by which    *)
(* the file-backed account store accepts a row when it reloads its ledger. *)
(*                                                                         *)
(* Labels, timestamps and the administrative controls, which nothing in    *)
(* the program writes, are left out.  Operators whose comment begins       *)
(* "Wrong:" are slips in the operator that follows them.                   *)
(***************************************************************************)
EXTENDS Naturals

Lifecycles == {"draft", "pending_validation", "pending_probe", "active", "disabled",
               "reauth_required", "revoked", "deleted"}

Rows == [life   : Lifecycles,
         ver    : Nat,                        \* Credential.Version, 0: none stored
         last   : Nat,                        \* Credential.LastAllocatedVersion
         pend   : Nat,                        \* PendingCredentialVersion
         origin : Lifecycles \cup {"none"},   \* PendingOrigin
         marker : Nat]                        \* ActiveOAuthAuthorizationID, 0: none

Draft == [life |-> "draft", ver |-> 0, last |-> 0, pend |-> 0, origin |-> "none", marker |-> 0]

AcceptsCredentialSubmission(life) == life \in {"draft", "reauth_required", "revoked"}

AcceptsReplacement(life) == life \in {"active", "disabled", "reauth_required", "revoked"}

AcceptsDisable(life) ==
    life \in {"pending_validation", "pending_probe", "active", "reauth_required", "disabled"}

AcceptsEnable(life) == life = "disabled"

AcceptsProbe(life) == life \in {"pending_validation", "pending_probe", "active"}

AcceptsOAuthStart(life, purpose) ==
    IF purpose = "connect" THEN life = "draft"
    ELSE life \in {"active", "disabled", "reauth_required", "revoked"}

\* A probe may start: nothing is being staged and a stored version can be proven.
ProbeableRow(r) ==
    /\ r.marker = 0
    /\ AcceptsProbe(r.life) \/ r.pend > 0
    /\ r.ver # 0

\* Wrong: proves the version in use while another is pending.
CurrentVersion(r) == r.ver

\* The version a probe proves.
ProbeVersion(r) == IF r.pend > 0 THEN r.pend ELSE r.ver

-----------------------------------------------------------------------------
(* Transitions *)

NextVersion(r) == 1 + (IF r.last < r.ver THEN r.ver ELSE r.last)

WithSubmittedCredential(r) ==
    [r EXCEPT !.last = NextVersion(r), !.ver = NextVersion(r),
              !.origin = "draft", !.life = "pending_validation"]

WithReplacementCredential(r) ==
    [r EXCEPT !.last = NextVersion(r), !.pend = NextVersion(r), !.origin = r.life,
              !.life = IF @ = "disabled" THEN @ ELSE "pending_validation"]

\* Promotes the pending version, if there is one; a replacement that began on
\* a disabled account leaves it disabled.
WithProbeActivated(r, replacement) ==
    [r EXCEPT !.life = IF replacement /\ r.origin = "disabled" THEN "disabled" ELSE "active",
              !.ver = IF r.pend > 0 THEN r.pend ELSE @,
              !.pend = 0, !.origin = "none"]

WithCredentialRejected(r) == [r EXCEPT !.life = "reauth_required"]

\* Wrong: the origin is cleared before it is restored.
OriginClearedFirst(r) ==
    [r EXCEPT !.pend = 0, !.origin = "none", !.life = "none"]

WithPendingCredentialRejected(r) ==
    [r EXCEPT !.pend = 0, !.origin = "none",
              !.life = IF r.origin \in {"active", "disabled", "revoked"} THEN r.origin
                       ELSE "reauth_required"]

WithDisabled(r) ==
    [r EXCEPT !.life = "disabled", !.origin = IF r.pend > 0 THEN "disabled" ELSE @]

WithEnableProbePending(r) == [r EXCEPT !.life = "pending_probe"]

WithDeleted(r) == [r EXCEPT !.life = "deleted"]

WithOAuthJourneyStarted(r, id) == [r EXCEPT !.marker = id]

WithOAuthJourneyCleared(r) == [r EXCEPT !.marker = 0]

\* A failed first connect restores a fresh draft.
WithOAuthConnectFailed == Draft

-----------------------------------------------------------------------------
(* The file-backed store reloads its whole ledger before every operation   *)
(* and refuses a row that breaks one of these rules.                       *)

ValidVersions(r) ==
    /\ r.last >= r.ver
    /\ r.pend > 0 => r.pend > r.ver /\ r.pend <= r.last

ValidOrigin(r) == (r.pend > 0) <=> (r.origin # "none")

ValidMarker(r) == r.marker # 0 => r.life \notin {"revoked", "deleted"}

ValidAccountRow(r) == ValidVersions(r) /\ ValidOrigin(r) /\ ValidMarker(r)
=============================================================================
