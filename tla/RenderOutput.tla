---------------------------- MODULE RenderOutput ----------------------------
(***************************************************************************)
(* Placement of the outputs of one captured Render Job: staged bytes       *)
(* become permanent Assets under the Tenant's storage cap, and the job row *)
(* records where each entry's delivery stands (application/render.go,      *)
(* placeEntryFromStaging and its callers).                                 *)
(*                                                                         *)
(* Two kinds of handler place outputs.  A worker that owns the job's fence *)
(* places every entry and then ends the job; a client's output-delivery    *)
(* retry places one entry of an ended job, without any fence.  An action   *)
(* is one call to the job store, the staging store or the Asset stores.    *)
(*                                                                         *)
(* Job ledger, staging and Asset stores outlive a handler that crashes, as *)
(* the recovery paths of placeOutputBytes expect of them.  An output and   *)
(* an upload each weigh one unit against the cap, which stands for the     *)
(* byte cap and the object cap alike.                                      *)
(*                                                                         *)
(* Operators whose comment begins "Wrong:" are slips in the operator that  *)
(* follows them; no specification uses them.                               *)
(***************************************************************************)
EXTENDS Naturals, FiniteSets

CONSTANTS Entries,     \* output entries of the manifest
          Workers,     \* gateway processes that may claim the job
          Clients,     \* concurrent output-delivery retries
          Cap,         \* storage cap of the Tenant, in units
          MaxUploads,  \* bound on ordinary uploads of the same Tenant
          MaxFaults    \* bound on crashes, lost leases and failing calls

ASSUME OutputAssumption ==
    /\ Workers # {} /\ Workers \cap Clients = {}
    /\ Cap \in Nat /\ MaxUploads \in Nat /\ MaxFaults \in Nat

VARIABLES job,      \* the durable row
          staged,   \* entries whose bytes are in the staging store
          stale,    \* entries whose staging retention has run out
          store,    \* the Tenant's storage accounting and Assets
          uploads,  \* ordinary uploads: [open, done]
          h,        \* h[x]: handler x
          faults    \* faults injected so far

vars == <<job, staged, stale, store, uploads, h, faults>>

Handlers == Workers \cup Clients
Ended == {"completed", "failed"}
Deliveries == {"pending", "capped", "available", "expired", "failed"}

Jobs == [lifecycle : {"running", "cancel_requested", "completed", "failed"},
         fence     : Nat,                    \* WorkerFencingToken
         held      : BOOLEAN,                \* LeaseHeld
         delivery  : [Entries -> Deliveries],
         asset     : [Entries -> BOOLEAN],   \* the entry's AssetID is set
         purge     : BOOLEAN]                \* StagingPurgePending

Stores == [committed : Nat, reserved : Nat,
           holds     : SUBSET Entries,       \* open holds, by placement key
           assets    : SUBSET Entries,       \* committed output Assets, by stable id
           content   : SUBSET Entries]       \* bytes in the content store

PCs == {"idle", "load", "use", "expire", "visible", "reserve", "put", "release",
        "recheck", "commit", "record", "rerecord", "mark", "delete", "clear",
        "forceCap", "forceFailed", "terminal", "cleanup", "sweep"}

HandlerStates ==
    [pc    : PCs,
     fence : Nat,                            \* 0: no fence, a client
     e     : Entries,                        \* the entry being placed
     todo  : SUBSET Entries,                 \* entries of the snapshot still to visit
     placed : SUBSET Entries,                \* entries the snapshot shows available
     why   : {"cap", "put", "commit", "none"},  \* the store error being handled
     to    : Ended]

SomeEntry == CHOOSE e \in Entries : TRUE
Idle == [pc |-> "idle", fence |-> 0, e |-> SomeEntry, todo |-> {}, placed |-> {},
         why |-> "none", to |-> "failed"]

-----------------------------------------------------------------------------
(* The Asset store (persistence/asset.go), one operator per call. *)

\* Wrong: counts what is committed and forgets the open holds.
FitsCommitted(s) == s.committed + 1 <= Cap

Fits(s) == s.committed + s.reserved + 1 <= Cap

Reserve(s, e) ==
    IF e \in s.holds THEN s
    ELSE [s EXCEPT !.reserved = @ + 1, !.holds = @ \cup {e}]

\* Wrong: hands the units of a hold back again when nothing is held any more.
ConsumeTwice(s, e) ==
    [s EXCEPT !.reserved = IF @ = 0 THEN @ ELSE @ - 1, !.holds = @ \ {e}]

\* A hold already consumed for this placement key leaves the accounting alone.
ConsumeHold(s, e) ==
    IF e \notin s.holds THEN s
    ELSE [s EXCEPT !.reserved = IF @ = 0 THEN @ ELSE @ - 1, !.holds = @ \ {e}]

\* Wrong: counts a commit that only repeats an earlier one.
CommitAgain(s, e) ==
    [ConsumeHold(s, e) EXCEPT !.committed = @ + 1, !.assets = @ \cup {e}]

\* Wrong: leaves the hold of a committed placement open.
CommitBeside(s, e) ==
    IF e \in s.assets THEN s
    ELSE [s EXCEPT !.committed = @ + 1, !.assets = @ \cup {e}]

Commit(s, e) ==
    IF e \in s.assets THEN ConsumeHold(s, e)
    ELSE [ConsumeHold(s, e) EXCEPT !.committed = @ + 1, !.assets = @ \cup {e}]

\* Wrong: takes an open hold for an Asset.
VisibleWhenHeld(s, e) == e \in s.assets \cup s.holds

Visible(s, e) == e \in s.assets

-----------------------------------------------------------------------------
(* The job store (persistence/render.go). *)

\* Wrong: any token will do.
AnyToken(row, token) == token # 0 \/ row.lifecycle \in Ended

\* Fence 0 is placement-only recovery of an ended job that holds a manifest.
MayPlace(row, token) ==
    IF token = 0 THEN row.lifecycle \in Ended
    ELSE row.held /\ row.fence = token

\* Wrong: stores the forced state of a request that forces none.
PlaceUnset(row, e) == [row EXCEPT !.delivery[e] = "", !.asset[e] = TRUE]

Place(row, e) == [row EXCEPT !.delivery[e] = "available", !.asset[e] = TRUE]

\* A forced state replaces whatever the entry's delivery was; AssetID stays.
ForceDelivery(row, e, delivery) == [row EXCEPT !.delivery[e] = delivery]

\* Wrong: takes every entry that does not wait for capacity.
Uncapped(row) == {e \in Entries : row.delivery[e] # "capped"}

Placed(row) == {e \in Entries : row.delivery[e] = "available" /\ row.asset[e]}

CanTransition(from, to) ==
    \/ from = "running"
    \/ from = "cancel_requested" /\ to = "failed"

-----------------------------------------------------------------------------
(* Control flow of the handlers. *)

At(x, pc) == h[x].pc = pc
Fault == faults < MaxFaults /\ faults' = faults + 1
NoFault == UNCHANGED faults
Owns(x) == MayPlace(job, h[x].fence)

Goto(x, pc) == h' = [h EXCEPT ![x].pc = pc]
Handle(x, pc, why) == h' = [h EXCEPT ![x] = [@ EXCEPT !.pc = pc, !.why = why]]
Return(x) == h' = [h EXCEPT ![x] = Idle]
Settle(x, to) == h' = [h EXCEPT ![x] = [@ EXCEPT !.pc = "terminal", !.to = to]]

\* A worker turns to its next entry, or completes the job after the last one.
Visit(x, todo, placed) ==
    IF todo = {} THEN Settle(x, "completed")
    ELSE \E e \in todo :
            h' = [h EXCEPT ![x] = [@ EXCEPT !.e = e, !.todo = todo \ {e}, !.placed = placed,
                                            !.pc = IF e \in placed THEN "mark" ELSE "use",
                                            !.why = "none"]]

\* The entry is dealt with: a client returns.
Continue(x) == IF x \in Clients THEN Return(x) ELSE Visit(x, h[x].todo, h[x].placed)

\* Wrong: a worker passes over an entry it could not place.
SkipEntry(x) == IF x \in Clients THEN Goto(x, "forceFailed") \/ Return(x) ELSE Continue(x)

\* Placement failed for another reason than the cap: a worker fails the job, a
\* client records the failure or, for an error it cannot classify, returns it.
GiveUp(x) == IF x \in Clients THEN Goto(x, "forceFailed") \/ Return(x) ELSE Settle(x, "failed")

JobOnly == UNCHANGED <<staged, stale, store, uploads>>
StoreOnly == UNCHANGED <<job, staged, stale, uploads>>
Nothing == UNCHANGED <<job, staged, stale, store, uploads>>

\* Wrong: an expired lease still counts.
Released == ~job.held

\* The last lease's holder is gone: nobody renews it.
Orphaned == \A x \in Workers : h[x].fence # job.fence

\* CaptureManifest has frozen the manifest and staged its bytes; the worker that
\* did goes on to the placement loop of ExecuteJob.
Init ==
    /\ job = [lifecycle |-> "running", fence |-> 1, held |-> TRUE,
              delivery |-> [e \in Entries |-> "pending"],
              asset |-> [e \in Entries |-> FALSE], purge |-> FALSE]
    /\ staged = Entries
    /\ stale = {}
    /\ store = [committed |-> 0, reserved |-> 0, holds |-> {}, assets |-> {}, content |-> {}]
    /\ uploads = [open |-> 0, done |-> 0]
    /\ \E x \in Workers, e \in Entries :
          h = [y \in Handlers |-> IF y # x THEN Idle
                 ELSE [Idle EXCEPT !.pc = "use", !.fence = 1, !.e = e, !.todo = Entries \ {e}]]
    /\ faults = 0

-----------------------------------------------------------------------------
(* Redelivery: ClaimWorker after the lease ran out, then                     *)
(* recoverAttemptWithoutRender's load of the row.                            *)

Claim(x) ==
    /\ x \in Workers /\ At(x, "idle")
    /\ job.lifecycle \notin Ended
    /\ IF Orphaned THEN NoFault ELSE Fault
    /\ job' = [job EXCEPT !.fence = @ + 1, !.held = TRUE]
    /\ h' = [h EXCEPT ![x] = [Idle EXCEPT !.pc = "load", !.fence = job.fence + 1]]
    /\ JobOnly

Load(x) ==
    /\ At(x, "load")
    /\ CASE job.lifecycle = "running" -> Visit(x, Entries, Placed(job))
         [] job.lifecycle = "cancel_requested" -> Settle(x, "failed")
         [] OTHER -> Goto(x, "cleanup")
    /\ Nothing /\ NoFault

\* RetryRenderJobOutput: an available entry is answered from the row; an entry
\* that kept its AssetID is only recorded again.
RetryOutput(x) ==
    /\ x \in Clients /\ At(x, "idle")
    /\ job.lifecycle \in Ended
    /\ \E e \in Entries \ Placed(job) :
          h' = [h EXCEPT ![x] = [Idle EXCEPT !.e = e,
                                    !.pc = IF job.asset[e] THEN "rerecord" ELSE "use"]]
    /\ Nothing /\ NoFault

-----------------------------------------------------------------------------
(* placeEntryFromStaging and placeOutputBytes. *)

\* staging.Use hands out the bytes; a blob past its retention is dropped.
Use(x) ==
    /\ At(x, "use")
    /\ staged' = IF h[x].e \in stale THEN staged \ {h[x].e} ELSE staged
    /\ IF h[x].e \notin staged
       THEN IF x \in Clients THEN Goto(x, "forceFailed") ELSE Settle(x, "failed")
       ELSE Goto(x, IF h[x].e \in stale THEN "expire" ELSE "visible")
    /\ UNCHANGED <<job, stale, store, uploads>> /\ NoFault

Expire(x) ==
    /\ At(x, "expire")
    /\ job' = IF Owns(x) THEN ForceDelivery(job, h[x].e, "expired") ELSE job
    /\ IF x \in Clients THEN Return(x) ELSE Settle(x, "failed")
    /\ JobOnly /\ NoFault

CheckVisible(x) ==
    /\ At(x, "visible")
    /\ Goto(x, IF Visible(store, h[x].e) THEN "record" ELSE "reserve")
    /\ Nothing /\ NoFault

ReserveHold(x) ==
    /\ At(x, "reserve")
    /\ IF h[x].e \in store.holds \/ Fits(store)
       THEN store' = Reserve(store, h[x].e) /\ Goto(x, "put")
       ELSE store' = store /\ Handle(x, "recheck", "cap")
    /\ StoreOnly /\ NoFault

PutContent(x) ==
    /\ At(x, "put")
    /\ \/ /\ store' = [store EXCEPT !.content = @ \cup {h[x].e}]
          /\ Goto(x, "commit") /\ NoFault
       \/ store' = store /\ Handle(x, "release", "put") /\ Fault
    /\ StoreOnly

CommitAsset(x) ==
    /\ At(x, "commit")
    /\ \/ store' = Commit(store, h[x].e) /\ Goto(x, "record") /\ NoFault
       \/ /\ store' \in {store, Commit(store, h[x].e)}
          /\ Handle(x, "recheck", "commit") /\ Fault
    /\ StoreOnly

\* After a refused hold, a failed Put or a failed Commit the Asset may still be
\* there, committed by an earlier attempt or by another handler.
Recheck(x) ==
    /\ At(x, "recheck")
    /\ IF Visible(store, h[x].e) THEN Goto(x, "record")
       ELSE CASE h[x].why = "cap" -> Goto(x, "forceCap")
              [] h[x].why = "put" -> GiveUp(x)
              [] OTHER -> Goto(x, "release")    \* a failed Commit
    /\ Nothing /\ NoFault

ReleaseHold(x) ==
    /\ At(x, "release")
    /\ store' = ConsumeHold(store, h[x].e)
    /\ IF h[x].why = "put" THEN Goto(x, "recheck") ELSE GiveUp(x)
    /\ StoreOnly /\ NoFault

\* PlaceOutput of the committed Asset; a refused fence is a placement failure.
Record(x) ==
    /\ At(x, "record")
    /\ \/ Owns(x) /\ job' = Place(job, h[x].e) /\ Goto(x, "mark") /\ NoFault
       \/ ~Owns(x) /\ job' = job /\ GiveUp(x) /\ NoFault
       \/ job' = job /\ GiveUp(x) /\ Fault
    /\ JobOnly

Rerecord(x) ==
    /\ At(x, "rerecord")
    /\ job' = Place(job, h[x].e)
    /\ Return(x)
    /\ JobOnly /\ NoFault

-----------------------------------------------------------------------------
(* afterPlacementSettled: a failure from here on is cleanup debt, and the    *)
(* entry counts as placed.                                                   *)

MarkPurge(x) ==
    /\ At(x, "mark")
    /\ \/ job' = [job EXCEPT !.purge = TRUE] /\ Goto(x, "delete") /\ NoFault
       \/ job' = job /\ Continue(x) /\ Fault
    /\ JobOnly

\* The fault is a failing audit or a failing Delete.
DeleteStaged(x) ==
    /\ At(x, "delete")
    /\ \/ staged' = staged \ {h[x].e} /\ Goto(x, "clear") /\ NoFault
       \/ staged' = staged /\ Continue(x) /\ Fault
    /\ UNCHANGED <<job, stale, store, uploads>>

ClearPurge(x) ==
    /\ At(x, "clear")
    /\ \/ job' = [job EXCEPT !.purge = FALSE] /\ NoFault
       \/ job' = job /\ Fault
    /\ Continue(x)
    /\ JobOnly

-----------------------------------------------------------------------------
(* What the callers make of a placement that failed. *)

\* Storage cap: the entry stays pending; a stale fence ends the worker quietly.
ForceCap(x) ==
    /\ At(x, "forceCap")
    /\ IF Owns(x)
       THEN job' = ForceDelivery(job, h[x].e, "capped") /\ Continue(x)
       ELSE job' = job /\ Return(x)
    /\ JobOnly /\ NoFault

ForceFailed(x) ==
    /\ At(x, "forceFailed")
    /\ job' = ForceDelivery(job, h[x].e, "failed")
    /\ Return(x)
    /\ JobOnly /\ NoFault

\* persistTerminal: a stale fence is swallowed, an invalid edge ends the process.
PersistTerminal(x) ==
    /\ At(x, "terminal")
    /\ IF Owns(x) /\ CanTransition(job.lifecycle, h[x].to)
       THEN /\ job' = [job EXCEPT !.lifecycle = h[x].to, !.held = FALSE]
            /\ Goto(x, "cleanup")
       ELSE job' = job /\ Return(x)
    /\ JobOnly /\ NoFault

\* finishTerminalCleanup reloads the row and drains the purge debt it finds.
Cleanup(x) ==
    /\ At(x, "cleanup")
    /\ IF job.purge
       THEN h' = [h EXCEPT ![x] = [@ EXCEPT !.pc = "sweep", !.todo = Placed(job)]]
       ELSE Return(x)
    /\ Nothing /\ NoFault

Sweep(x) ==
    /\ At(x, "sweep")
    /\ IF h[x].todo = {}
       THEN /\ job' = [job EXCEPT !.purge = FALSE]
            /\ Return(x) /\ NoFault /\ UNCHANGED staged
       ELSE /\ \E e \in h[x].todo :
                  \/ staged' = staged \ {e} /\ h' = [h EXCEPT ![x].todo = @ \ {e}] /\ NoFault
                  \/ staged' = staged /\ Return(x) /\ Fault
            /\ UNCHANGED job
    /\ UNCHANGED <<stale, store, uploads>>

-----------------------------------------------------------------------------
(* The rest of the system. *)

\* CancelRenderJob of a running job.
Cancel ==
    /\ job.lifecycle = "running"
    /\ job' = [job EXCEPT !.lifecycle = "cancel_requested"]
    /\ UNCHANGED <<staged, stale, store, uploads, h, faults>>

RetentionEnds(e) ==
    /\ e \in staged \ stale
    /\ stale' = stale \cup {e}
    /\ UNCHANGED <<job, staged, store, uploads, h, faults>>

\* An ordinary upload reserves without a placement key, then commits or releases.
UploadReserve ==
    /\ uploads.open + uploads.done < MaxUploads
    /\ Fits(store)
    /\ store' = [store EXCEPT !.reserved = @ + 1]
    /\ uploads' = [uploads EXCEPT !.open = @ + 1]
    /\ UNCHANGED <<job, staged, stale, h, faults>>

UploadEnds ==
    /\ uploads.open > 0
    /\ \E n \in {0, 1} :
          /\ store' = [store EXCEPT !.reserved = @ - 1, !.committed = @ + n]
          /\ uploads' = [open |-> uploads.open - 1, done |-> uploads.done + n]
    /\ UNCHANGED <<job, staged, stale, h, faults>>

Crash(x) ==
    /\ h[x] # Idle
    /\ Return(x) /\ Fault
    /\ Nothing

Step(x) ==
    \/ Claim(x) \/ Load(x) \/ RetryOutput(x) \/ Use(x) \/ Expire(x)
    \/ CheckVisible(x) \/ ReserveHold(x) \/ PutContent(x) \/ CommitAsset(x)
    \/ Recheck(x) \/ ReleaseHold(x) \/ Record(x) \/ Rerecord(x)
    \/ MarkPurge(x) \/ DeleteStaged(x) \/ ClearPurge(x)
    \/ ForceCap(x) \/ ForceFailed(x) \/ PersistTerminal(x) \/ Cleanup(x) \/ Sweep(x)

Next ==
    \/ \E x \in Handlers : Step(x) \/ Crash(x)
    \/ \E e \in Entries : RetentionEnds(e)
    \/ Cancel \/ UploadReserve \/ UploadEnds

Spec == Init /\ [][Next]_vars

\* A worker runs on, and an orphaned job is delivered again.
FairSpec == Spec /\ \A x \in Workers : WF_vars(Step(x))

-----------------------------------------------------------------------------
(* Properties. *)

\* Every variable stays in its type.
TypeOK ==
    /\ job \in Jobs
    /\ staged \subseteq Entries /\ stale \subseteq Entries
    /\ store \in Stores
    /\ uploads \in [open : Nat, done : Nat]
    /\ h \in [Handlers -> HandlerStates]
    /\ faults \in 0..MaxFaults

\* An entry shown available has an Asset that is committed and has its bytes,
\* whichever of the four paths of placeOutputBytes recorded it.
AvailableIsStored ==
    \A e \in Entries : job.delivery[e] = "available" =>
        job.asset[e] /\ e \in store.assets /\ e \in store.content

\* A captured result is not lost: staged bytes go only when their retention ran
\* out or the row already names the Asset that holds them.
StagedUntilPlaced ==
    [][\A e \in staged \ staged' : e \in stale \/ (job.asset[e] /\ e \in store.content)]_vars

\* Retried, repeated and concurrent placements of an entry count once against the
\* Tenant's committed usage, and reserved usage is what open placement holds and open
\* uploads account for: no release is counted twice and none is forgotten.
UsageIsExact ==
    /\ store.committed = Cardinality(store.assets) + uploads.done
    /\ store.reserved = Cardinality(store.holds) + uploads.open

\* Committed and reserved usage together stay within the cap.
CapNeverOverrun == store.committed + store.reserved <= Cap

\* An open hold belongs to an output that has no Asset yet, so the next attempt,
\* which reserves under the same key, settles it.
NoStrandedHold == store.holds \cap store.assets = {}

\* Once a client can see an entry as available no worker takes that back, stale, taken over
\* or redelivered; only a retry that had found no result or no room for it before another
\* retry placed it does.
AvailableStays ==
    [][\A e \in Entries :
          job.delivery[e] = "available" /\ job'.delivery[e] # "available" =>
             \E x \in Clients : h[x].e = e /\ h[x].pc \in {"expire", "forceCap", "forceFailed"}]_vars

\* A job completes only when each of its entries is available or waits for
\* storage, whatever failed, was retried or was taken over on the way.
CompletesWhenSettled ==
    [][job.lifecycle = "running" /\ job'.lifecycle = "completed" =>
          \A e \in Entries : job.delivery[e] \in {"available", "capped"}]_vars

\* The placement loop ends the job, although it is crashed and taken over.
JobEnds == <>(job.lifecycle \in Ended)
=============================================================================
