------------------------- MODULE DerivedGenerations -------------------------
(***************************************************************************)
(* The derived tables of the research market as immutable generations:     *)
(* source writers that invalidate the inputs in their own transaction, the *)
(* one continuation worker that computes a private stage unit by unit,     *)
(* seals it and moves the head pointer to it by compare-and-swap, the      *)
(* operator, the readers, and restarts of the process                      *)
(* (bulk_derived_staging.py, generation_repository.py, generation_host.py, *)
(* bulk_staging_runtime.py, bulk_staging_host.py).                         *)
(*                                                                         *)
(* A fence is the part of the main database and of the process that        *)
(* derived rows depend on: the metric inputs, the epoch every source       *)
(* writer renews, and the external part (aliases, code).  A row is         *)
(* abstracted to the fence it was computed under.                          *)
(***************************************************************************)
EXTENDS Naturals, FiniteSets

CONSTANTS
    Readers,      \* threads that open saved readers
    Capacity,     \* generations the private directory may hold
    Batches,      \* batches of metric rows in a stage
    Windows,      \* lookup windows in a stage
    MaxWrites,    \* bound: source writes
    MaxExternal,  \* bound: changes of the external part and of component files
    MaxRestarts,  \* bound: generations queued by conflicts
    MaxMoves,     \* bound: operator moves of the head and pauses
    MaxFaults     \* bound: crashes, failed seals, commits without an answer

BoundsAssumption ==
    /\ Capacity \in Nat \ {0} /\ Batches \in Nat /\ Windows \in Nat \ {0}
    /\ {MaxWrites, MaxExternal, MaxRestarts, MaxMoves, MaxFaults} \subseteq Nat

VARIABLES
    src,        \* current fence of the inputs
    pending,    \* the pending receipt: generation and whether published
    head,       \* the head pointer
    rollback,   \* generation of the retained previous head
    stored,     \* saved operator pause, saved status
    stage,      \* the private files, by generation
    worker,     \* the continuation thread
    paused, uncertain,   \* flags of the runtime
    pins,       \* source and component files: "held" as adopted, "changed" under
                \* the process, or "unrestored" by a process that found them so
    reader,     \* the saved readers
    used        \* bounds: what was consumed of them, and the last identifiers

vars == <<src, pending, head, rollback, stored, stage, worker, paused,
          uncertain, pins, reader, used>>

----------------------------------------------------------------------------
Gens == 1..(1 + MaxWrites + MaxRestarts)
NoGen == 0
Fence == [metric : Nat, epoch : Nat, external : Nat]
NoFence == [metric |-> 0, epoch |-> 0, external |-> 0]
NoHead == [kind |-> "none", token |-> 0, gen |-> NoGen, fence |-> NoFence]
NoStage == [there |-> FALSE, fence |-> NoFence, phase |-> "metrics", done |-> 0,
            metric |-> {}, lookup |-> {}, readonly |-> FALSE, sealed |-> FALSE]
Idle == [at |-> "idle", gen |-> NoGen, fence |-> NoFence, head |-> NoHead]
Outside == [at |-> "out", head |-> NoHead, status |-> "none", gen |-> NoGen,
            fence |-> NoFence]

\* metric_fence: the part of a fence the metric rows depend on.
MetricFence(f) == <<f.metric, f.external>>

Unpublished == pending.gen # NoGen /\ ~pending.published
Files == {g \in Gens : stage[g].there}
Complete(g) == stage[g].phase = "ready"
Spend(what) == used' = [used EXCEPT ![what] = @ + 1]

----------------------------------------------------------------------------
\* The state right after the explicit adoption, which queues a generation.
Init ==
    /\ src = [metric |-> 1, epoch |-> 1, external |-> 0]
    /\ pending = [gen |-> 1, published |-> FALSE]
    /\ head = NoHead /\ rollback = NoGen
    /\ stored = [operator |-> FALSE, status |-> FALSE, uncertain |-> FALSE]
    /\ stage = [g \in Gens |-> NoStage]
    /\ worker = Idle /\ paused = FALSE /\ uncertain = FALSE /\ pins = "held"
    /\ reader = [r \in Readers |-> Outside]
    /\ used = [writes |-> 0, external |-> 0, restarts |-> 0, moves |-> 0,
               faults |-> 0, gen |-> 1, token |-> 0]

----------------------------------------------------------------------------
(* Source writers.                                                         *)

\* A cash-only change keeps the unfinished generation; any other takes a new one.
Queued(cashOnly, next) ==
    IF cashOnly /\ Unpublished THEN pending ELSE [gen |-> next, published |-> FALSE]

Invalidate(cashOnly) ==
    /\ used.writes < MaxWrites
    /\ src' = [src EXCEPT !.epoch = used.writes + 2,
                          !.metric = IF cashOnly THEN @ ELSE used.writes + 2]
    /\ pending' = Queued(cashOnly, used.gen + 1)
    /\ used' = [used EXCEPT !.writes = @ + 1,
                            !.gen = IF pending'.gen = @ + 1 THEN @ + 1 ELSE @]

SourceWrite ==
    /\ \E cashOnly \in BOOLEAN : Invalidate(cashOnly)
    /\ UNCHANGED <<head, rollback, stored, stage, worker, paused, uncertain, pins, reader>>

\* The collection aliases are loaded lazily.
ExternalChange ==
    /\ used.external < MaxExternal
    /\ src' = [src EXCEPT !.external = @ + 1]
    /\ Spend("external")
    /\ UNCHANGED <<pending, head, rollback, stored, stage, worker, paused, uncertain, pins, reader>>

\* The running source or a component file is replaced.  From then on no fence can
\* be read: every step is deferred until an operator adopts anew.
ComponentChange ==
    /\ pins = "held" /\ used.external < MaxExternal
    /\ pins' = "changed"
    /\ Spend("external")
    /\ UNCHANGED <<src, pending, head, rollback, stored, stage, worker, paused, uncertain, reader>>

----------------------------------------------------------------------------
(* The worker.  A step that fails returns to the loop, which saves its     *)
(* status when the writer lock is free.                                    *)

SaveStatus(uncertainNow) ==
    stored' \in {stored, [stored EXCEPT !.status = paused, !.uncertain = uncertainNow]}

FenceRead == pins = "held"
Admitted == ~paused /\ ~uncertain /\ FenceRead
At(place) == worker.at = place
\* What was read of the source is not kept from one step to the next.
Goes(place) == worker' = [Idle EXCEPT !.at = place, !.gen = worker.gen]
ToLoop == worker' = Idle /\ SaveStatus(uncertain)

\* What every fenced source snapshot asserts of the stage it works for.
InputsHold == /\ Unpublished /\ pending.gen = worker.gen
              /\ src = stage[worker.gen].fence

Look ==
    /\ At("idle") /\ Admitted /\ Unpublished
    /\ worker' = [at |-> "open", gen |-> pending.gen, fence |-> src, head |-> head]
    /\ UNCHANGED <<src, pending, head, rollback, stored, stage, paused, uncertain, pins, reader, used>>

\* A complete stage goes on to be sealed, a sealed one to be published.
NextPlace(g) == IF stage[g].sealed THEN "head" ELSE IF Complete(g) THEN "seal" ELSE "build"

Resume ==
    /\ At("open") /\ stage[worker.gen].there
    /\ stage[worker.gen].fence = worker.fence
    /\ Goes(NextPlace(worker.gen))
    /\ UNCHANGED <<src, pending, head, rollback, stored, stage, paused, uncertain, pins, reader, used>>

\* Sealed under other inputs, or other metric inputs: never reused.
Incompatible(s) == s.fence # worker.fence
                   /\ (s.sealed \/ MetricFence(s.fence) # MetricFence(worker.fence))

OpenConflict ==
    /\ At("open") /\ stage[worker.gen].there /\ Incompatible(stage[worker.gen])
    /\ Goes("conflict")
    /\ UNCHANGED <<src, pending, head, rollback, stored, stage, paused, uncertain, pins, reader, used>>

Retargetable(s) == /\ s.there /\ s.fence # worker.fence /\ ~Incompatible(s)

Retargeted_LookupKept(s) == [s EXCEPT !.fence = worker.fence]

\* A cash-only change keeps the metric rows and drops the lookups.
Retargeted(s) ==
    [s EXCEPT !.fence = worker.fence, !.lookup = {},
              !.phase = IF @ = "metrics" THEN @ ELSE "lookup",
              !.done = IF s.phase = "metrics" THEN @ ELSE 0]

Retarget ==
    /\ At("open") /\ Retargetable(stage[worker.gen]) /\ ~stage[worker.gen].readonly
    /\ stage' = [stage EXCEPT ![worker.gen] = Retargeted(@)]
    /\ Goes("build")
    /\ UNCHANGED <<src, pending, head, rollback, stored, paused, uncertain, pins, reader, used>>

\* The file of an unfinished seal is read-only already: the write is refused.
RetargetRefused ==
    /\ At("open") /\ Retargetable(stage[worker.gen]) /\ stage[worker.gen].readonly
    /\ ToLoop
    /\ UNCHANGED <<src, pending, head, rollback, stage, paused, uncertain, pins, reader, used>>

Reusable_AnyInputs == worker.head.kind \in {"active", "retained"} /\ Complete(worker.head.gen)

\* The metric rows of the head may be copied when their inputs are the same.
Reusable == /\ worker.head.kind \in {"active", "retained"}
            /\ MetricFence(worker.head.fence) = MetricFence(worker.fence)
            /\ Complete(worker.head.gen)

NewStage ==
    IF Reusable
    THEN [NoStage EXCEPT !.there = TRUE, !.fence = worker.fence, !.phase = "lookup",
                         !.metric = stage[worker.head.gen].metric]
    ELSE [NoStage EXCEPT !.there = TRUE, !.fence = worker.fence]

Create ==
    /\ At("open") /\ ~stage[worker.gen].there
    /\ Cardinality(Files) < Capacity
    /\ stage' = [stage EXCEPT ![worker.gen] = NewStage]
    /\ Goes("build")
    /\ UNCHANGED <<src, pending, head, rollback, stored, paused, uncertain, pins, reader, used>>

DirectoryFull ==
    /\ At("open") /\ ~stage[worker.gen].there
    /\ Cardinality(Files) >= Capacity
    /\ ToLoop
    /\ UNCHANGED <<src, pending, head, rollback, stage, paused, uncertain, pins, reader, used>>

\* A unit reads its source rows in fenced snapshots ...
UnitReads ==
    /\ At("build") /\ Admitted
    /\ worker' = IF InputsHold THEN [worker EXCEPT !.at = "reading", !.fence = src]
               ELSE [Idle EXCEPT !.at = "conflict"]
    /\ UNCHANGED <<src, pending, head, rollback, stored, stage, paused, uncertain, pins, reader, used>>

\* ... and commits rows and cursor together after a fresh look at the fence.
UnitDone(s) ==
    CASE s.phase = "metrics" /\ s.done < Batches ->
           [s EXCEPT !.metric = @ \cup {MetricFence(worker.fence)}, !.done = @ + 1]
      [] s.phase = "metrics" /\ s.done >= Batches -> [s EXCEPT !.phase = "lookup", !.done = 0]
      [] OTHER ->
           [s EXCEPT !.lookup = @ \cup {worker.fence}, !.done = @ + 1,
                     !.phase = IF s.done + 1 = Windows THEN "ready" ELSE "lookup"]

FreshCheck == InputsHold

UnitCommits ==
    /\ At("reading") /\ FenceRead /\ FreshCheck
    /\ stage' = [stage EXCEPT ![worker.gen] = UnitDone(@)]
    /\ Goes(IF stage'[worker.gen].phase = "ready" THEN "seal" ELSE "build")
    /\ UNCHANGED <<src, pending, head, rollback, stored, paused, uncertain, pins, reader, used>>

UnitConflicts ==
    /\ At("reading") /\ FenceRead /\ ~FreshCheck
    /\ Goes("conflict")
    /\ UNCHANGED <<src, pending, head, rollback, stored, stage, paused, uncertain, pins, reader, used>>

\* The cycle's time or unit count is spent: a closed unit boundary.
CycleEnds ==
    /\ At("build") /\ ToLoop
    /\ UNCHANGED <<src, pending, head, rollback, stage, paused, uncertain, pins, reader, used>>

\* Every admission refuses while the runtime is paused, and every look at the fence
\* once a component file has changed.
Deferred ==
    /\ \/ worker.at \in {"build", "seal", "head"} /\ ~Admitted
       \/ worker.at \in {"reading", "publish"} /\ ~FenceRead
    /\ ToLoop
    /\ UNCHANGED <<src, pending, head, rollback, stage, paused, uncertain, pins, reader, used>>

\* An explicit source task is active, or the disk or the memory has reached its
\* floor: the admission of a step refuses, or the probe inside a unit does.
Refused ==
    /\ worker.at \in {"open", "build", "reading", "seal", "head", "publish"}
    /\ ToLoop
    /\ UNCHANGED <<src, pending, head, rollback, stage, paused, uncertain, pins, reader, used>>

SealStarts ==
    /\ At("seal") /\ Admitted
    /\ stage' = [stage EXCEPT ![worker.gen].readonly = TRUE]
    /\ Goes("sealing")
    /\ UNCHANGED <<src, pending, head, rollback, stored, paused, uncertain, pins, reader, used>>

SealEnds ==
    /\ At("sealing")
    /\ stage' = [stage EXCEPT ![worker.gen].sealed = TRUE]
    /\ Goes("head")
    /\ UNCHANGED <<src, pending, head, rollback, stored, paused, uncertain, pins, reader, used>>

\* The deadline of the seal passes, or parity fails, after the file was closed.
SealFails ==
    /\ At("sealing") /\ used.faults < MaxFaults
    /\ Spend("faults") /\ ToLoop
    /\ UNCHANGED <<src, pending, head, rollback, stage, paused, uncertain, pins, reader>>

ExpectHead ==
    /\ At("head") /\ Admitted
    /\ worker' = [worker EXCEPT !.at = "publish", !.head = head]
    /\ UNCHANGED <<src, pending, head, rollback, stored, stage, paused, uncertain, pins, reader, used>>

\* Pending, fence and head are compared in the publishing transaction.
SwapHolds == InputsHold /\ head = worker.head

Swap ==
    /\ head' = [kind |-> "active", token |-> used.token + 1, gen |-> worker.gen,
                fence |-> stage[worker.gen].fence]
    /\ rollback' = IF head.kind = "active" THEN head.gen ELSE rollback
    /\ pending' = [pending EXCEPT !.published = TRUE]

Publish ==
    /\ At("publish") /\ FenceRead /\ SwapHolds /\ Swap
    /\ Spend("token") /\ ToLoop
    /\ UNCHANGED <<src, stage, paused, uncertain, pins, reader>>

PublishConflicts ==
    /\ At("publish") /\ FenceRead /\ ~SwapHolds
    /\ Goes("conflict")
    /\ UNCHANGED <<src, pending, head, rollback, stored, stage, paused, uncertain, pins, reader, used>>

\* The writer lock is taken by another writer, or the commit surely failed.
PublishDeferred ==
    /\ At("publish") /\ ToLoop
    /\ UNCHANGED <<src, pending, head, rollback, stage, paused, uncertain, pins, reader, used>>

\* The commit gave no answer and the head cannot be read: it happened or not.
PublishUncertain ==
    /\ At("publish") /\ FenceRead /\ SwapHolds /\ used.faults < MaxFaults
    /\ \/ Swap
       \/ UNCHANGED <<head, rollback, pending>>
    /\ uncertain' = TRUE
    /\ worker' = Idle /\ SaveStatus(TRUE)
    /\ used' = [used EXCEPT !.faults = @ + 1, !.token = @ + 1]
    /\ UNCHANGED <<src, stage, paused, pins, reader>>

Restarts_MetricOnly == /\ Unpublished /\ stage[pending.gen].there
                       /\ MetricFence(stage[pending.gen].fence) # MetricFence(src)

\* _restart_conflicting_stage: a stage under other inputs is left, a new one queued.
Restarts == /\ Unpublished /\ stage[pending.gen].there
            /\ stage[pending.gen].fence # src

Restart ==
    /\ At("conflict") /\ FenceRead /\ Restarts /\ used.restarts < MaxRestarts
    /\ pending' = [gen |-> used.gen + 1, published |-> FALSE]
    /\ used' = [used EXCEPT !.restarts = @ + 1, !.gen = @ + 1]
    /\ ToLoop
    /\ UNCHANGED <<src, head, rollback, stage, paused, uncertain, pins, reader>>

\* Nothing to requeue, the fence cannot be read, or the writer lock is busy.
NoRestart ==
    /\ At("conflict") /\ ToLoop
    /\ UNCHANGED <<src, pending, head, rollback, stage, paused, uncertain, pins, reader, used>>

----------------------------------------------------------------------------
(* The operator.                                                           *)

Pause(value) ==
    /\ paused # value /\ (~value => ~uncertain) /\ pins # "unrestored"
    /\ used.moves < MaxMoves
    /\ paused' = value /\ stored' = [stored EXCEPT !.operator = value]
    /\ Spend("moves")
    /\ UNCHANGED <<src, pending, head, rollback, stage, worker, uncertain, pins, reader>>

\* A new adoption replaces a paused one, waits for the closed unit boundary, takes
\* the files as they are and invalidates all inputs.
Adopt ==
    /\ At("idle") /\ paused /\ ~uncertain
    /\ Invalidate(FALSE)
    /\ paused' = FALSE /\ pins' = "held" /\ stored' = [stored EXCEPT !.operator = FALSE]
    /\ UNCHANGED <<head, rollback, stage, worker, uncertain, reader>>

HeadMove == Admitted /\ used.moves < MaxMoves
            /\ used' = [used EXCEPT !.moves = @ + 1, !.token = @ + 1]

Retained == IF head.kind = "active" THEN head.gen ELSE rollback

Deactivate ==
    /\ HeadMove /\ head.kind \in {"active", "retained"}
    /\ rollback' = Retained
    /\ head' = [head EXCEPT !.kind = "disabled", !.token = used.token + 1]
    /\ UNCHANGED <<src, pending, stored, stage, worker, paused, uncertain, pins, reader>>

RestoreSaved ==
    /\ HeadMove
    /\ \E g \in Gens : /\ stage[g].sealed
                       /\ head' = [kind |-> "retained", token |-> used.token + 1,
                                   gen |-> g, fence |-> stage[g].fence]
    /\ rollback' = Retained
    /\ UNCHANGED <<src, pending, stored, stage, worker, paused, uncertain, pins, reader>>

----------------------------------------------------------------------------
(* Readers.  The content of the head is validated outside the snapshot in  *)
(* which the head is then read again.                                      *)

Probe(r) ==
    /\ reader[r].at = "out" /\ Admitted
    /\ reader' = [reader EXCEPT ![r] = [Outside EXCEPT !.at = "probed", !.head = head]]
    /\ UNCHANGED <<src, pending, head, rollback, stored, stage, worker, paused, uncertain, pins, used>>

Status ==
    CASE head.kind = "none" -> "legacy"
      [] head.kind = "disabled" -> "canonical"
      [] head.kind = "retained" -> "retained"
      [] head.kind = "active" /\ head.fence # src -> "canonical"
      [] OTHER -> "current"

\* The status of an active head needs the fence.
Unreadable == head.kind = "active" /\ ~FenceRead

Select(r) ==
    /\ reader[r].at = "probed" /\ ~Unreadable
    /\ \/ Status \in {"legacy", "canonical"}
       \/ head = reader[r].head
    /\ reader' = [reader EXCEPT ![r] =
         [at |-> "in", head |-> NoHead, status |-> Status, fence |-> src,
          gen |-> IF Status \in {"current", "retained"} THEN head.gen ELSE NoGen]]
    /\ UNCHANGED <<src, pending, head, rollback, stored, stage, worker, paused, uncertain, pins, used>>

Leave(r) ==
    /\ \/ reader[r].at = "in"
       \/ reader[r].at = "probed" /\ (Unreadable \/ (Status \notin {"legacy", "canonical"}
                                                    /\ head # reader[r].head))
    /\ reader' = [reader EXCEPT ![r] = Outside]
    /\ UNCHANGED <<src, pending, head, rollback, stored, stage, worker, paused, uncertain, pins, used>>

----------------------------------------------------------------------------
\* The process ends and starts again; the stage's open unit is rolled back.  What
\* was adopted is not restored when the files have changed.
Crash ==
    /\ used.faults < MaxFaults
    /\ worker' = Idle
    /\ reader' = [r \in Readers |-> Outside]
    /\ pins' = IF FenceRead THEN "held" ELSE "unrestored"
    /\ paused' = (stored.operator \/ stored.status \/ ~FenceRead)
    /\ uncertain' = (stored.uncertain /\ FenceRead)
    /\ Spend("faults")
    /\ UNCHANGED <<src, pending, head, rollback, stored, stage>>

WorkerStep ==
    \/ Look \/ Resume \/ OpenConflict \/ Retarget \/ RetargetRefused \/ Create
    \/ DirectoryFull \/ UnitReads \/ UnitCommits \/ UnitConflicts \/ Deferred
    \/ SealStarts \/ SealEnds \/ ExpectHead \/ Publish \/ PublishConflicts
    \/ Restart \/ NoRestart

Next ==
    \/ SourceWrite \/ ExternalChange \/ ComponentChange
    \/ WorkerStep \/ CycleEnds \/ Refused \/ SealFails \/ PublishDeferred \/ PublishUncertain
    \/ Pause(TRUE) \/ Pause(FALSE) \/ Adopt \/ Deactivate \/ RestoreSaved
    \/ \E r \in Readers : Probe(r) \/ Select(r) \/ Leave(r)
    \/ Crash

Spec == Init /\ [][Next]_vars

\* The thread keeps running; a unit, a requeue and a publication are not for ever
\* kept from the writer lock or cut by the end of the cycle.
Fairness == WF_vars(WorkerStep) /\ SF_vars(UnitReads) /\ SF_vars(Publish) /\ SF_vars(Restart)
FairSpec == Spec /\ Fairness
----------------------------------------------------------------------------
TypeOK ==
    /\ src \in Fence /\ paused \in BOOLEAN /\ uncertain \in BOOLEAN
    /\ pins \in {"held", "changed", "unrestored"}
    /\ pending.gen \in Gens /\ pending.published \in BOOLEAN
    /\ head.gen \in Gens \cup {NoGen} /\ rollback \in Gens \cup {NoGen}
    /\ worker.gen \in Gens \cup {NoGen}
    /\ \A g \in Gens : /\ stage[g].phase \in {"metrics", "lookup", "ready"}
                       /\ stage[g].metric \subseteq (Nat \X Nat)
                       /\ stage[g].lookup \subseteq Fence

\* Every row of a sealed file was computed under the inputs its seal names.
SealTrue ==
    \A g \in Gens : stage[g].sealed =>
        /\ Complete(g) /\ stage[g].lookup = {stage[g].fence}
        /\ stage[g].metric \subseteq {MetricFence(stage[g].fence)}

\* The head and the retained head name sealed files.
HeadsSealed ==
    \A g \in {head.gen, rollback} \ {NoGen} : stage[g].sealed

\* A pending receipt that says published hides no later write of the sources.
NothingHidden ==
    pending.published => stage[pending.gen].fence.epoch = src.epoch

\* Seals name the inputs of their rows, the heads name sealed files, and a
\* published receipt hides no source change: bulk_derived_staging.py run_unit,
\* create_or_resume and invalidate_inputs, generation_repository.py publish.
GenerationsInv == TypeOK /\ SealTrue /\ HeadsSealed /\ NothingHidden

\* A reader told "current" holds, until it closes, rows that were all computed
\* from exactly the inputs of its own snapshot, whatever was written, published
\* or rolled back between its probe and its snapshot (Repository.reader).
CurrentIsTrue ==
    \A r \in Readers : reader[r].status = "current" =>
        LET s == stage[reader[r].gen]
        IN  /\ s.sealed /\ s.lookup = {reader[r].fence}
            /\ s.metric \subseteq {MetricFence(reader[r].fence)}

\* Where the code itself stops: no room in the directory, or a file that was
\* closed for a seal that failed and whose inputs then changed.
Full == /\ Cardinality(Files) >= Capacity /\ pending.gen \notin Files
Wedged == LET s == stage[pending.gen]
          IN  s.there /\ s.readonly /\ ~s.sealed /\ s.fence # src
\* Bound: conflicts beyond MaxRestarts are not modelled.
Bounded == used.restarts = MaxRestarts /\ Restarts
Stopped == paused \/ uncertain \/ ~FenceRead \/ Full \/ Wedged \/ Bounded

\* A queued generation is published: Runtime._run_loop never forgets a pending
\* receipt across units, conflicts and restarts.  Except when the runtime stays paused
\* or uncertain, a changed component file is not adopted, the directory stays full or
\* a failed seal has closed the file for good; or when admission refuses again and
\* again for ever, as it does while a source task never ends.
PendingServed == []<>~Unpublished \/ <>[]Stopped \/ []<><<Refused>>_vars
=============================================================================
