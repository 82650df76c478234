----------------------------- MODULE RenderCreate -----------------------------
(***************************************************************************)
(* Creation of render jobs under one Idempotency-Key: create in            *)
(* application/render.go, the replay and job ledgers it writes             *)
(* (persistence/render_file.go, render.go), the process-local queue        *)
(* (jobs/runtime.go) and what a starting process repairs                   *)
(* (composition/runtime.go).  Several processes may share the ledgers.     *)
(*                                                                         *)
(* A store operation reloads and writes under the file lock, so it is one  *)
(* step; everything between two of them interleaves.  The replay ledger is *)
(* modelled record by record with what each process remembers of it; the   *)
(* job ledger, which works alike, by the last row of each job.  An append  *)
(* may fail with nothing written, after the record became durable (Sync),  *)
(* or half way through the record.  Prompts and occupancy live in services *)
(* of their own.  Execution is module RenderWorker, here one step.         *)
(***************************************************************************)
EXTENDS Naturals, FiniteSets, Sequences, SequencesExt

CONSTANTS Procs, Calls, Bodies, NoCall,
          Setups,       \* [procs, calls, body, kept, faults, crashes]: who takes part, the body of
                        \* each call, the ledgers whose append can fail after the record is durable,
                        \* a bound on failing operations and one on crashes
          MaxFaults, MaxCrashes

ASSUME CreateAssumption ==
    /\ NoCall \notin Calls /\ Bodies # {} /\ Procs # {}
    /\ MaxFaults \in Nat /\ MaxCrashes \in Nat
    /\ \A s \in Setups : /\ s.procs \subseteq Procs /\ s.calls \subseteq Calls
                         /\ s.body \in [Calls -> Bodies] /\ s.kept \subseteq {"replay", "jobs"}
                         /\ s.faults \in 0 .. MaxFaults /\ s.crashes \in 0 .. MaxCrashes

VARIABLES setup,      \* the setup of this behaviour
          ledger,     \* replay ledger: the complete records of the file
          torn,       \* ledgers that end in half a record
          view,       \* what each process remembers of the replay ledger, up to which record
          rows,       \* job ledger: the last row of each job; a job is named after its call
          prompts,    \* confidential prompt service: jobs that have one
          occupancy,  \* admission service: calls that hold a slot
          proc,       \* phase of each process, its startup work, its queue
          call,       \* progress of each call, its process and its job
          rendered,   \* jobs the Provider generated for
          faults, crashes

vars == <<setup, ledger, torn, view, rows, prompts, occupancy, proc, call, rendered, faults, crashes>>

stores == <<ledger, torn, view, faults>>
work == <<rows, prompts, occupancy, rendered>>

NoRecord == [state |-> "none", body |-> CHOOSE b \in Bodies : TRUE, job |-> NoCall]

Unread == [record |-> NoRecord, at |-> 0]

Halted == [phase |-> "down", todo |-> {}, claim |-> NoCall, sound |-> TRUE, queue |-> {}]

Init ==
    /\ setup \in Setups
    /\ ledger = <<>> /\ torn = {} /\ view = [p \in Procs |-> Unread]
    /\ rows = [j \in Calls |-> [state |-> "none", published |-> FALSE]]
    /\ prompts = {} /\ occupancy = {} /\ rendered = {}
    /\ proc = [p \in Procs |-> Halted]
    /\ call = [c \in Calls |-> [pc |-> "idle", proc |-> CHOOSE p \in Procs : TRUE, job |-> c]]
    /\ faults = 0 /\ crashes = 0

-----------------------------------------------------------------------------
(* Ledgers *)

\* How an operation may end: "refused" before it changed anything (the lock is taken, the
\* file unreadable), or its append "lost", "kept" though reported as failed, or "torn".
Outcomes(store, writes) ==
    IF store \in torn THEN {"refused"}
    ELSE {"ok"} \cup IF faults = setup.faults THEN {}
                     ELSE IF ~writes THEN {"refused"}
                     ELSE {"refused", "lost", "torn"} \cup IF store \in setup.kept THEN {"kept"} ELSE {}

Suffer(store, outcome) ==
    /\ faults' = IF outcome = "ok" \/ store \in torn THEN faults ELSE faults + 1
    /\ torn' = IF outcome = "torn" THEN torn \cup {store} ELSE torn

Fault ==
    /\ faults < setup.faults
    /\ faults' = faults + 1
    /\ UNCHANGED <<ledger, torn, view>>

\* The record is a claim of this body that nobody completed.
Pending(record, body) == record.state = "claimed" /\ record.body = body

\* The replay record once an entry of the ledger is applied to it.
Seed(record, entry) ==
    IF entry.state # "abandoned" THEN entry
    ELSE IF Pending(record, entry.body) THEN NoRecord ELSE record

Replayed(entries) == FoldLeft(Seed, NoRecord, entries)

\* What p remembers after it read what it had not read of the ledger.
Reloaded(p) ==
    IF view[p].at = 0 THEN Replayed(ledger)
    ELSE FoldLeft(Seed, view[p].record, SubSeq(ledger, view[p].at + 1, Len(ledger)))

\* Wrong: memory was changed for an append that failed, and the cursor stays.
KeptCursor(p, entries) == [record |-> FoldLeft(Seed, Reloaded(p), entries), at |-> Len(ledger)]

\* After a failed append nothing in memory is trusted.
AfterFailure(p, entries) == Unread

\* One operation of p on the replay store, which owes these entries.
Replay(p, entries, outcome) ==
    /\ Suffer("replay", outcome)
    /\ ledger' = IF outcome \in {"ok", "kept"} THEN ledger \o entries ELSE ledger
    /\ view' = [view EXCEPT ![p] =
           CASE outcome = "refused" -> @
             [] outcome = "ok" -> [record |-> FoldLeft(Seed, Reloaded(p), entries),
                                   at |-> Len(ledger) + Len(entries)]
             [] OTHER -> AfterFailure(p, entries)]

\* Wrong: takes a claim nobody completed for one that names a job.
UnfinishedIsTerminal(record, body) ==
    IF record.state = "none" THEN "claimed"
    ELSE IF record.body = body THEN "terminal" ELSE "conflict"

\* Wrong: the fingerprint is not compared.
AnyBody(record, body) ==
    IF record.state = "none" THEN "claimed"
    ELSE IF record.state = "terminal" THEN "terminal" ELSE "progress"

Decision(record, body) ==
    IF record.state = "none" THEN "claimed"
    ELSE IF record.body # body THEN "conflict"
    ELSE IF record.state = "terminal" THEN "terminal" ELSE "progress"

Entry(state, body, job) == <<[state |-> state, body |-> body, job |-> job]>>

ClaimEntries(record, body) ==
    IF Decision(record, body) = "claimed" THEN Entry("claimed", body, NoCall) ELSE <<>>

Completes(record, body, job) ==
    /\ record.state # "none" /\ record.body = body
    /\ record.state = "terminal" => record.job = job

CompleteEntries(record, body, job) ==
    IF Completes(record, body, job) THEN Entry("terminal", body, job) ELSE <<>>

AbandonEntries(record, body) ==
    IF Pending(record, body) THEN Entry("abandoned", body, NoCall) ELSE <<>>

\* One write of a job's row.
WriteRow(j, row, outcome) ==
    /\ Suffer("jobs", outcome)
    /\ rows' = IF outcome \in {"ok", "kept"} THEN [rows EXCEPT ![j] = row] ELSE rows
    /\ UNCHANGED <<ledger, view>>

NewRow == [state |-> "queued", published |-> FALSE]

MarkQueuePublished(j, outcome) == WriteRow(j, [rows[j] EXCEPT !.published = TRUE], outcome)

-----------------------------------------------------------------------------
(* Calls *)

Serving == {p \in setup.procs : proc[p].phase \in {"ready", "rearm", "running", "notready"}}

RollsBack == {"delete", "release", "abandon"}

At(c, pc) == call[c].pc = pc

Go(c, pc) == call' = [call EXCEPT ![c].pc = pc]

\* The call is answered; where it ran no longer matters.
Answer(c, pc) == call' = [call EXCEPT ![c].pc = pc, ![c].proc = CHOOSE p \in Procs : TRUE]

\* The checks before the claim change nothing; a call they refuse never starts.
Claim(c) ==
    /\ At(c, "idle") /\ c \in setup.calls
    /\ \E p \in Serving :
        LET record == Reloaded(p)
            entries == ClaimEntries(record, setup.body[c])
            decision == Decision(record, setup.body[c])
        IN  \E outcome \in Outcomes("replay", entries # <<>>) :
              /\ Replay(p, entries, outcome)
              /\ IF outcome # "ok" \/ decision \in {"progress", "conflict"} THEN Answer(c, "failed")
                 ELSE call' = [call EXCEPT ![c] =
                          IF decision = "claimed" THEN [pc |-> "admit", proc |-> p, job |-> c]
                          ELSE [pc |-> "load", proc |-> p, job |-> record.job]]
    /\ UNCHANGED <<setup, work, proc, crashes>>

\* Admission takes a slot or refuses.
Admit(c) ==
    /\ At(c, "admit")
    /\ \/ occupancy' = occupancy \cup {c} /\ Go(c, "select")
       \/ UNCHANGED occupancy /\ Go(c, "abandon")
    /\ UNCHANGED <<setup, stores, rows, prompts, proc, rendered, crashes>>

\* Routing reads policy and accounts as they are now: one of them is usable or none is.
SelectAccount(c) ==
    /\ At(c, "select")
    /\ Go(c, "gates") \/ Go(c, "release")
    /\ UNCHANGED <<setup, stores, work, proc, crashes>>

\* Mask, credential and identifier are in order and the prompt is deposited, or one is refused.
Gates(c) ==
    /\ At(c, "gates")
    /\ \/ prompts' = prompts \cup {c} /\ Go(c, "create")
       \/ UNCHANGED prompts /\ Go(c, "release")
    /\ UNCHANGED <<setup, stores, rows, occupancy, proc, rendered, crashes>>

CreateRow(c) ==
    /\ At(c, "create")
    /\ \E outcome \in Outcomes("jobs", TRUE) :
          /\ WriteRow(c, NewRow, outcome)
          /\ Go(c, IF outcome = "ok" THEN "complete" ELSE "delete")
    /\ UNCHANGED <<setup, prompts, occupancy, proc, rendered, crashes>>

DeletePrompt(c) ==
    /\ At(c, "delete") /\ Go(c, "release")
    /\ \/ prompts' = prompts \ {c} /\ UNCHANGED stores
       \/ Fault /\ UNCHANGED prompts
    /\ UNCHANGED <<setup, rows, occupancy, proc, rendered, crashes>>

Release(c) ==
    /\ At(c, "release") /\ Go(c, "abandon")
    /\ \/ occupancy' = occupancy \ {c} /\ UNCHANGED stores
       \/ Fault /\ UNCHANGED occupancy
    /\ UNCHANGED <<setup, rows, prompts, proc, rendered, crashes>>

Abandon(c) ==
    /\ At(c, "abandon") /\ Answer(c, "rolledback")
    /\ LET p == call[c].proc
           entries == AbandonEntries(Reloaded(p), setup.body[c])
       IN  \E outcome \in Outcomes("replay", entries # <<>>) : Replay(p, entries, outcome)
    /\ UNCHANGED <<setup, work, proc, crashes>>

\* Wrong: a failed completion is rolled back like the failures before it.
GivesBack(c) ==
    /\ At(c, "complete")
    /\ LET p == call[c].proc
           entries == CompleteEntries(Reloaded(p), setup.body[c], c)
       IN  \E outcome \in Outcomes("replay", entries # <<>>) :
             /\ Replay(p, entries, outcome)
             /\ Go(c, IF outcome = "ok" /\ entries # <<>> THEN "enqueue" ELSE "delete")
    /\ UNCHANGED <<setup, work, proc, crashes>>

\* A failed completion gives nothing back: the job may be durable.
Complete(c) ==
    /\ At(c, "complete")
    /\ LET p == call[c].proc
           entries == CompleteEntries(Reloaded(p), setup.body[c], c)
       IN  \E outcome \in Outcomes("replay", entries # <<>>) :
             /\ Replay(p, entries, outcome)
             /\ IF outcome = "ok" /\ entries # <<>> THEN Go(c, "enqueue") ELSE Answer(c, "failed")
    /\ UNCHANGED <<setup, work, proc, crashes>>

\* A repeat of a completed request reads the job it names.
Load(c) ==
    /\ At(c, "load")
    /\ \E outcome \in Outcomes("jobs", FALSE) :
          /\ Suffer("jobs", outcome)
          /\ IF outcome # "ok" THEN Answer(c, "failed")
             ELSE IF rows[call[c].job].published THEN Answer(c, "told") ELSE Go(c, "enqueue")
    /\ UNCHANGED <<setup, ledger, view, work, proc, crashes>>

Enqueue(c) ==
    /\ At(c, "enqueue")
    /\ \/ /\ proc' = [proc EXCEPT ![call[c].proc].queue = @ \cup {call[c].job}]
          /\ Go(c, "mark") /\ UNCHANGED stores
       \/ Fault /\ Answer(c, "failed") /\ UNCHANGED proc
    /\ UNCHANGED <<setup, work, crashes>>

Publish(c) ==
    /\ At(c, "mark")
    /\ \E outcome \in Outcomes("jobs", TRUE) :
          /\ MarkQueuePublished(call[c].job, outcome)
          /\ IF outcome = "ok" THEN Go(c, "refresh") ELSE Answer(c, "failed")
    /\ UNCHANGED <<setup, prompts, occupancy, proc, rendered, crashes>>

\* The replay record is completed once more; its error is dropped.
Refresh(c) ==
    /\ At(c, "refresh") /\ Answer(c, "told")
    /\ LET p == call[c].proc
           entries == CompleteEntries(Reloaded(p), setup.body[c], call[c].job)
       IN  \E outcome \in Outcomes("replay", entries # <<>>) : Replay(p, entries, outcome)
    /\ UNCHANGED <<setup, work, proc, crashes>>

Create(c) ==
    \/ Admit(c) \/ SelectAccount(c) \/ Gates(c) \/ CreateRow(c) \/ Complete(c)
    \/ DeletePrompt(c) \/ Release(c) \/ Abandon(c)
    \/ Load(c) \/ Enqueue(c) \/ Publish(c) \/ Refresh(c)

-----------------------------------------------------------------------------
(* Processes *)

In(p, phase) == p \in setup.procs /\ proc[p].phase = phase

Becomes(p, next) == proc' = [proc EXCEPT ![p] = next]

\* Memory, queue and the calls in flight go with the process.
Exit(p) ==
    /\ Becomes(p, Halted)
    /\ view' = [view EXCEPT ![p] = Unread]
    /\ call' = [c \in Calls |->
           IF call[c].proc = p /\ call[c].pc \notin {"idle", "told", "failed", "rolledback"}
           THEN [pc |-> IF call[c].pc \in RollsBack THEN "rolledback" ELSE "failed",
                 proc |-> CHOOSE q \in Procs : TRUE, job |-> call[c].job]
           ELSE call[c]]

Crash(p) ==
    /\ p \in setup.procs /\ proc[p].phase # "down"
    /\ crashes < setup.crashes /\ crashes' = crashes + 1
    /\ Exit(p)
    /\ UNCHANGED <<setup, ledger, torn, work, faults>>

\* Wrong: a job already published is not armed again.
UnpublishedOnly == {[job |-> j, published |-> FALSE] :
                       j \in {i \in Calls : rows[i].state = "queued" /\ ~rows[i].published}}

Candidates == {[job |-> j, published |-> rows[j].published] :
                  j \in {i \in Calls : rows[i].state = "queued"}}

\* p enters a phase of its startup with the candidates it lists.
Enter(p, phase, sound) ==
    /\ \E outcome \in Outcomes("jobs", FALSE) :
          /\ Suffer("jobs", outcome)
          /\ Becomes(p, [proc[p] EXCEPT !.phase = phase, !.sound = sound /\ outcome = "ok",
                             !.todo = IF outcome = "ok" THEN Candidates ELSE {}])
    /\ UNCHANGED <<setup, ledger, view, work, call, crashes>>

\* Restore needs both ledgers whole; a failure is remembered and startup goes on.
Start(p) == In(p, "down") /\ Enter(p, "reconcile", torn = {})

Fails(p) == [proc[p] EXCEPT !.todo = {}, !.claim = NoCall, !.sound = FALSE]

ReconcileClaim(p) ==
    /\ In(p, "reconcile") /\ proc[p].claim = NoCall
    /\ \E job \in proc[p].todo :
        LET j == job.job
            record == Reloaded(p)
            entries == ClaimEntries(record, setup.body[j])
            decision == Decision(record, setup.body[j])
        IN  \E outcome \in Outcomes("replay", entries # <<>>) :
              /\ Replay(p, entries, outcome)
              /\ Becomes(p,
                   IF outcome = "ok" /\ decision \in {"claimed", "progress"}
                   THEN [proc[p] EXCEPT !.todo = @ \ {job}, !.claim = j]
                   ELSE IF outcome = "ok" /\ decision = "terminal" /\ record.job = j
                   THEN [proc[p] EXCEPT !.todo = @ \ {job}]
                   ELSE Fails(p))
    /\ UNCHANGED <<setup, work, call, crashes>>

ReconcileComplete(p) ==
    /\ In(p, "reconcile") /\ proc[p].claim # NoCall
    /\ LET j == proc[p].claim
           entries == CompleteEntries(Reloaded(p), setup.body[j], j)
       IN  \E outcome \in Outcomes("replay", entries # <<>>) :
             /\ Replay(p, entries, outcome)
             /\ Becomes(p, IF outcome = "ok" /\ entries # <<>> THEN [proc[p] EXCEPT !.claim = NoCall]
                           ELSE Fails(p))
    /\ UNCHANGED <<setup, work, call, crashes>>

\* Recovery runs even when reconciliation failed.
Reconciled(p) ==
    /\ In(p, "reconcile") /\ proc[p].todo = {} /\ proc[p].claim = NoCall
    /\ Enter(p, "recover", proc[p].sound)

\* ensureQueuePublished for one candidate; after an error the others still get their turn.
Recover(p) ==
    /\ In(p, "recover") \/ In(p, "rearm")
    /\ \E job \in proc[p].todo :
        LET armed == [proc[p] EXCEPT !.todo = @ \ {job}, !.queue = @ \cup {job.job}]
        IN  \/ /\ job.published
               /\ Becomes(p, armed) /\ UNCHANGED <<stores, rows>>
            \/ /\ ~job.published
               /\ \E outcome \in Outcomes("jobs", TRUE) :
                     /\ MarkQueuePublished(job.job, outcome)
                     /\ Becomes(p, [armed EXCEPT !.sound = @ /\ outcome = "ok"])
    /\ UNCHANGED <<setup, prompts, occupancy, rendered, call, crashes>>

\* The process serves requests; Ready opens or stays closed.
Recovered(p) ==
    /\ In(p, "recover") /\ proc[p].todo = {}
    /\ Becomes(p, [proc[p] EXCEPT !.phase = IF proc[p].sound THEN "ready" ELSE "notready"])
    /\ UNCHANGED <<setup, stores, work, call, crashes>>

\* RunWorkers arms the queue once more, next to the first requests.
RunWorkers(p) == In(p, "ready") /\ Enter(p, "rearm", TRUE)

\* RunWorkers consumes the queue, or returns an error and the process ends.
Rearmed(p) ==
    /\ In(p, "rearm") /\ proc[p].todo = {}
    /\ \/ /\ proc[p].sound
          /\ Becomes(p, [proc[p] EXCEPT !.phase = "running"]) /\ UNCHANGED <<view, call>>
       \/ ~proc[p].sound /\ Exit(p)
    /\ UNCHANGED <<setup, ledger, torn, work, faults, crashes>>

Startup(p) ==
    \/ Start(p) \/ ReconcileClaim(p) \/ ReconcileComplete(p) \/ Reconciled(p)
    \/ Recover(p) \/ Recovered(p) \/ RunWorkers(p) \/ Rearmed(p)

\* A job without its prompt ends without a Provider call, a finished one is dropped.
Execute(p) ==
    /\ In(p, "running") /\ "jobs" \notin torn
    /\ \E j \in proc[p].queue :
        /\ proc' = [proc EXCEPT ![p].queue = @ \ {j}]
        /\ rendered' = IF rows[j].state = "queued" /\ j \in prompts THEN rendered \cup {j} ELSE rendered
        /\ rows' = [rows EXCEPT ![j].state = "done"]
        /\ prompts' = prompts \ {j}
        /\ occupancy' = occupancy \ {j}
    /\ UNCHANGED <<setup, stores, call, crashes>>

Next ==
    \/ \E c \in Calls : Claim(c) \/ Create(c)
    \/ \E p \in Procs : Startup(p) \/ Execute(p) \/ Crash(p)

\* Handlers run on, a process that ended is started again, its startup and its consumer run
\* on.  No behaviour returns to a state it left, so what is fair to one of them is to all.
Progress ==
    \/ \E c \in Calls : Create(c)
    \/ \E p \in Procs : Startup(p) \/ Execute(p)

Spec == Init /\ [][Next]_vars /\ WF_vars(Progress)

-----------------------------------------------------------------------------
(* Properties *)

Records == {r \in [state : {"none", "claimed", "terminal", "abandoned"},
                   body : Bodies, job : Calls \cup {NoCall}] :
               r.state = "terminal" <=> r.job # NoCall}

\* Types of the state, and that a replay record names a job exactly when it is terminal.
TypeOK ==
    /\ setup \in Setups
    /\ ledger \in Seq(Records) /\ torn \subseteq {"replay", "jobs"}
    /\ \A p \in Procs : view[p].record \in Records /\ view[p].at \in 0 .. Len(ledger)
    /\ rows \in [Calls -> [state : {"none", "queued", "done"}, published : BOOLEAN]]
    /\ prompts \subseteq Calls /\ occupancy \subseteq Calls /\ rendered \subseteq Calls
    /\ proc \in [Procs -> [phase : {"down", "reconcile", "recover", "ready", "rearm", "running",
                                     "notready"},
                           todo : SUBSET [job : Calls, published : BOOLEAN],
                           claim : Calls \cup {NoCall}, sound : BOOLEAN, queue : SUBSET Calls]]
    /\ call \in [Calls -> [pc : {"idle", "admit", "select", "gates", "create", "complete", "load",
                                 "enqueue", "mark", "refresh", "told", "failed", "rolledback"} \cup RollsBack,
                           proc : Procs, job : Calls]]
    /\ faults \in 0 .. MaxFaults /\ crashes \in 0 .. MaxCrashes

Told == {c \in Calls : At(c, "told")}

RolledBack(j) == call[j].pc \in RollsBack \cup {"rolledback"}

\* Every accepted request of the key names the same job, one with a durable row that was made
\* for the body of that request; until the job is done its prompt and its occupancy are kept,
\* whichever call, retry or restart published it, unless the call that made it rolled it back.
AcknowledgedJob ==
    \A c \in Told :
        LET j == call[c].job
        IN  /\ \A d \in Told : call[d].job = j
            /\ setup.body[c] = setup.body[j]
            /\ rows[j].state # "none"
            /\ rows[j].state = "queued" /\ ~RolledBack(j) => j \in prompts /\ j \in occupancy

\* The requests of one key make the Provider generate at most once.
OneRenderPerKey == Cardinality(rendered) <= 1

\* So they do, wherever a process ends, an operation fails or another process repairs the
\* ledgers meanwhile, if a job row that was reported as failed is not durable after all.
OneRenderUnlessKept == "jobs" \notin setup.kept => OneRenderPerKey

\* What a process remembers of the replay ledger is what the records it has read say: no claim,
\* completion or tombstone that failed to reach the file decides a later request.
ViewIsDurable ==
    \A p \in Procs : view[p].at > 0 => view[p].record = Replayed(SubSeq(ledger, 1, view[p].at))

\* An accepted job is carried out although queues are lost with their process: from any state
\* one is reached in which every job a client was told of is done, unless a ledger is torn or
\* a process could not restore its state and says so by not being ready.
AcknowledgedRuns ==
    []<>(\/ \A c \in Told : rows[call[c].job].state = "done"
         \/ torn # {} \/ \E p \in Procs : proc[p].phase = "notready")
=============================================================================
