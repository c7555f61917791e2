---------------------------- MODULE LanesProofs ----------------------------
(***************************************************************************)
(* Proofs about two background lanes of the server: the generations of     *)
(* derived rows and the acquisition of cash prices.                        *)
(***************************************************************************)
EXTENDS MCLanes, FiniteSetTheorems, WellFoundedInduction, TLAPS

(***************************************************************************)
(* The generations.  What a seal says of its file holds because a stage,   *)
(* sealed or not, never has a row of other inputs than its own; what a     *)
(* head says of a file holds because a sealed file is not written again.   *)
(***************************************************************************)
Heads == [kind : {"none", "active", "retained", "disabled"}, token : Nat,
          gen : Derived!Gens \cup {Derived!NoGen}, fence : Derived!Fence]
Stages == [there : BOOLEAN, fence : Derived!Fence, phase : {"metrics", "lookup", "ready"}, done : Nat,
           metric : SUBSET (Nat \X Nat), lookup : SUBSET Derived!Fence, readonly : BOOLEAN, sealed : BOOLEAN]
Places == {"idle", "open", "build", "reading", "conflict", "seal", "sealing", "head", "publish"}
Threads == [at : Places, gen : Derived!Gens \cup {Derived!NoGen}, fence : Derived!Fence, head : Heads]
Opened == [at : {"out", "probed", "in"}, head : Heads,
           status : {"none", "legacy", "canonical", "retained", "current"},
           gen : Derived!Gens \cup {Derived!NoGen}, fence : Derived!Fence]
Counts == [writes : Nat, external : Nat, restarts : Nat, moves : Nat, faults : Nat, gen : Nat, token : Nat]
Pins == {"held", "changed", "unrestored"}

DerivedTyped ==
    /\ src \in Derived!Fence /\ pending \in [gen : Derived!Gens, published : BOOLEAN]
    /\ head \in Heads /\ rollback \in Derived!Gens \cup {Derived!NoGen}
    /\ stored \in [operator : BOOLEAN, status : BOOLEAN, uncertain : BOOLEAN]
    /\ stage \in [Derived!Gens -> Stages] /\ continuation \in Threads
    /\ paused \in BOOLEAN /\ uncertain \in BOOLEAN /\ pins \in Pins /\ reader \in [Readers -> Opened]
    /\ used \in Counts
    /\ used.writes <= MaxWrites /\ used.restarts <= MaxRestarts /\ used.gen <= 1 + used.writes + used.restarts

\* A stage has rows of its own inputs only, all of them once it is complete.
StageTrue(s) ==
    /\ s.metric \subseteq {Derived!MetricFence(s.fence)} /\ s.lookup \subseteq {s.fence}
    /\ s.phase = "ready" => s.lookup = {s.fence}
    /\ s.sealed => s.phase = "ready" /\ s.there
\* A head names a sealed file and its inputs.
HeadTrue(h) ==
    IF h.kind = "none" THEN h.gen = Derived!NoGen
    ELSE h.gen \in Derived!Gens /\ stage[h.gen].sealed /\ stage[h.gen].fence = h.fence
\* What the worker knows of the stage it is at.
WorkerTrue(w) ==
    /\ w.at \notin {"idle", "conflict"} => w.gen \in Derived!Gens
    /\ w.at = "open" => HeadTrue(w.head)
    /\ w.at \in {"build", "reading"} => ~stage[w.gen].sealed /\ stage[w.gen].there
    /\ w.at = "reading" => w.fence = stage[w.gen].fence
    /\ w.at \in {"seal", "sealing"} => stage[w.gen].phase = "ready" /\ stage[w.gen].there
    /\ w.at \in {"head", "publish"} => stage[w.gen].sealed
PendingTrue == pending.published => stage[pending.gen].sealed /\ stage[pending.gen].fence.epoch = src.epoch
ReaderTrue(r) ==
    r.status = "current" => r.gen \in Derived!Gens /\ stage[r.gen].sealed /\ stage[r.gen].fence = r.fence
DerivedKept ==
    /\ DerivedTyped
    /\ \A g \in Derived!Gens : StageTrue(stage[g])
    /\ HeadTrue(head) /\ (rollback # Derived!NoGen => stage[rollback].sealed)
    /\ WorkerTrue(continuation) /\ PendingTrue
    /\ \A r \in Readers : ReaderTrue(reader[r])

LEMMA BoundsAre ==
    /\ Capacity \in Nat \ {0} /\ Batches \in Nat /\ Windows \in Nat \ {0}
    /\ MaxWrites \in Nat /\ MaxExternal \in Nat /\ MaxRestarts \in Nat /\ MaxHeadMoves \in Nat /\ MaxFaults \in Nat
BY LanesAssumption DEF Derived!BoundsAssumption

LEMMA GensAre == \A g \in Derived!Gens : g \in Nat /\ g # Derived!NoGen
BY BoundsAre DEF Derived!Gens, Derived!NoGen

\* No sealed file is written again.
Unwritten == \A g \in Derived!Gens : stage[g].sealed => stage'[g].sealed /\ stage'[g].fence = stage[g].fence

LEMMA StillTrue ==
    ASSUME DerivedKept, Unwritten
    PROVE  /\ (rollback # Derived!NoGen => stage'[rollback].sealed)
           /\ \A h \in Heads : HeadTrue(h) => (h.kind = "none" => h.gen = Derived!NoGen)
                 /\ (h.kind # "none" => h.gen \in Derived!Gens /\ stage'[h.gen].sealed /\ stage'[h.gen].fence = h.fence)
           /\ pending.published => stage'[pending.gen].sealed /\ stage'[pending.gen].fence = stage[pending.gen].fence
           /\ \A r \in Readers : reader[r].status = "current" =>
                 reader[r].gen \in Derived!Gens /\ stage'[reader[r].gen].sealed /\ stage'[reader[r].gen].fence = reader[r].fence
BY DEF DerivedKept, DerivedTyped, Unwritten, HeadTrue, PendingTrue, ReaderTrue

\* The worker goes on: what it writes is its own stage's.
LEMMA WorkerGoesOn ==
    ASSUME DerivedKept, UNCHANGED <<src, pending, head, rollback, reader>>, DerivedTyped', Unwritten,
           \A g \in Derived!Gens : StageTrue(stage'[g]), WorkerTrue(continuation)'
    PROVE  DerivedKept'
<1>1. HeadTrue(head)' /\ (rollback # Derived!NoGen => stage[rollback].sealed)'
  BY StillTrue DEF DerivedKept, DerivedTyped, HeadTrue
<1>2. PendingTrue'
  BY StillTrue DEF DerivedKept, PendingTrue
<1>3. \A r \in Readers : ReaderTrue(reader[r])'
  BY StillTrue DEF ReaderTrue
<1> QED
  BY <1>1, <1>2, <1>3 DEF DerivedKept

LEMMA IdleTyped ==
    /\ Derived!Idle \in Threads /\ Derived!NoHead \in Heads /\ Derived!Outside \in Opened /\ Derived!NoStage \in Stages
    /\ Derived!NoFence \in Derived!Fence
BY DEF Derived!Idle, Threads, Places, Derived!NoHead, Heads, Derived!Outside, Opened, Derived!NoStage, Stages,
       Derived!NoFence, Derived!Fence, Derived!NoGen

LEMMA GoesFacts ==
    ASSUME DerivedTyped, NEW place \in Places, Derived!Goes(place)
    PROVE  /\ continuation' \in Threads /\ continuation'.at = place /\ continuation'.gen = continuation.gen
BY IdleTyped DEF Derived!Goes, DerivedTyped, Threads, Derived!Idle

LEMMA ToLoopFacts ==
    ASSUME DerivedTyped, Derived!ToLoop
    PROVE  /\ continuation' \in Threads /\ continuation'.at = "idle"
           /\ stored' \in [operator : BOOLEAN, status : BOOLEAN, uncertain : BOOLEAN]
BY IdleTyped DEF Derived!ToLoop, Derived!SaveStatus, DerivedTyped, Derived!Idle

\* A step of the worker that writes no stage.
LEMMA WorkerKept ==
    ASSUME DerivedKept, UNCHANGED <<src, pending, head, rollback, reader, stage, paused, uncertain, pins, used>>,
           continuation' \in Threads, stored' \in [operator : BOOLEAN, status : BOOLEAN, uncertain : BOOLEAN],
           WorkerTrue(continuation')
    PROVE  DerivedKept'
<1>1. DerivedTyped'
  BY DEF DerivedKept, DerivedTyped
<1>2. Unwritten /\ \A g \in Derived!Gens : StageTrue(stage'[g])
  BY DEF DerivedKept, Unwritten
<1>3. WorkerTrue(continuation)'
  BY DEF WorkerTrue, HeadTrue
<1> QED
  BY <1>1, <1>2, <1>3, WorkerGoesOn

\* A step of the worker that writes its stage.
LEMMA StageKept ==
    ASSUME DerivedKept, UNCHANGED <<src, pending, head, rollback, reader, paused, uncertain, pins, used, stored>>,
           NEW g \in Derived!Gens, NEW s \in Stages, stage' = [stage EXCEPT ![g] = s], StageTrue(s),
           stage[g].sealed => s.sealed /\ s.fence = stage[g].fence,
           continuation' \in Threads, continuation'.gen = g,
           \/ continuation'.at = "build" /\ ~s.sealed /\ s.there
           \/ continuation'.at \in {"seal", "sealing"} /\ s.phase = "ready" /\ s.there
           \/ continuation'.at = "head" /\ s.sealed
    PROVE  DerivedKept'
<1>1. stage' \in [Derived!Gens -> Stages] /\ stage'[g] = s /\ \A h \in Derived!Gens \ {g} : stage'[h] = stage[h]
  BY DEF DerivedKept, DerivedTyped
<1>2. DerivedTyped'
  BY <1>1 DEF DerivedKept, DerivedTyped
<1>3. Unwritten /\ \A h \in Derived!Gens : StageTrue(stage'[h])
  BY <1>1 DEF DerivedKept, Unwritten
<1>4. WorkerTrue(continuation)'
  BY <1>1 DEF WorkerTrue
<1> QED
  BY <1>2, <1>3, <1>4, WorkerGoesOn

LEMMA LookKept ==
    ASSUME DerivedKept, Derived!Look
    PROVE  DerivedKept'
<1>1. continuation' = [at |-> "open", gen |-> pending.gen, fence |-> src, head |-> head]
  BY DEF Derived!Look
<1>2. continuation' \in Threads /\ WorkerTrue(continuation')
  BY <1>1 DEF DerivedKept, DerivedTyped, Threads, Places, WorkerTrue
<1> QED
  BY <1>2, WorkerKept DEF Derived!Look, DerivedKept, DerivedTyped

LEMMA AtGen ==
    ASSUME DerivedKept, continuation.at \notin {"idle", "conflict"}
    PROVE  /\ continuation.gen \in Derived!Gens /\ stage[continuation.gen] \in Stages
           /\ StageTrue(stage[continuation.gen]) /\ continuation.fence \in Derived!Fence
BY DEF DerivedKept, WorkerTrue, DerivedTyped, Threads

LEMMA ResumeKept ==
    ASSUME DerivedKept, Derived!Resume
    PROVE  DerivedKept'
<1> DEFINE s == stage[continuation.gen]
           place == Derived!NextPlace(continuation.gen)
<1>1. continuation.gen \in Derived!Gens /\ s \in Stages /\ s.there /\ StageTrue(s)
  BY AtGen DEF Derived!Resume, Derived!At
<1>2. place \in {"head", "seal", "build"} /\ (place = "head" => s.sealed) /\ (place = "seal" => s.phase = "ready")
      /\ (place = "build" => ~s.sealed)
  BY DEF Derived!NextPlace, Derived!Complete
<1>3. continuation' \in Threads /\ continuation'.at = place /\ continuation'.gen = continuation.gen
  BY <1>2, GoesFacts DEF Derived!Resume, DerivedKept, Places
<1>4. WorkerTrue(continuation')
  BY <1>1, <1>2, <1>3 DEF WorkerTrue
<1> QED
  BY <1>3, <1>4, WorkerKept DEF Derived!Resume, DerivedKept, DerivedTyped

LEMMA ConflictKept ==
    ASSUME DerivedKept, Derived!OpenConflict \/ Derived!UnitConflicts \/ Derived!PublishConflicts
    PROVE  DerivedKept'
<1>1. Derived!Goes("conflict") /\ UNCHANGED <<src, pending, head, rollback, stored, stage, paused, uncertain, pins, reader, used>>
  BY DEF Derived!OpenConflict, Derived!UnitConflicts, Derived!PublishConflicts
<1>2. continuation' \in Threads /\ continuation'.at = "conflict"
  BY <1>1, GoesFacts DEF DerivedKept, Places
<1>3. WorkerTrue(continuation')
  BY <1>2 DEF WorkerTrue
<1> QED
  BY <1>1, <1>2, <1>3, WorkerKept DEF DerivedKept, DerivedTyped

LEMMA LoopKept ==
    ASSUME DerivedKept, \/ Derived!RetargetRefused \/ Derived!DirectoryFull \/ Derived!CycleEnds \/ Derived!Deferred
                        \/ Derived!Refused \/ Derived!PublishDeferred \/ Derived!NoRestart
    PROVE  DerivedKept'
<1>1. Derived!ToLoop /\ UNCHANGED <<src, pending, head, rollback, stage, paused, uncertain, pins, reader, used>>
  BY DEF Derived!RetargetRefused, Derived!DirectoryFull, Derived!CycleEnds, Derived!Deferred, Derived!Refused,
         Derived!PublishDeferred, Derived!NoRestart
<1>2. WorkerTrue(continuation')
  BY <1>1, ToLoopFacts DEF WorkerTrue, DerivedKept
<1> QED
  BY <1>1, <1>2, ToLoopFacts, WorkerKept DEF DerivedKept

LEMMA RetargetKept ==
    ASSUME DerivedKept, Derived!Retarget
    PROVE  DerivedKept'
<1> DEFINE g == continuation.gen
           s == stage[g]
           t == Derived!Retargeted(s)
<1>1. g \in Derived!Gens /\ s \in Stages /\ StageTrue(s) /\ continuation.fence \in Derived!Fence
  BY AtGen DEF Derived!Retarget, Derived!At
<1>2. s.there /\ ~s.sealed /\ Derived!MetricFence(s.fence) = Derived!MetricFence(continuation.fence)
  BY DEF Derived!Retarget, Derived!Retargetable, Derived!Incompatible
<1>3. stage' = [stage EXCEPT ![g] = t] /\ Derived!Goes("build")
      /\ UNCHANGED <<src, pending, head, rollback, stored, paused, uncertain, pins, reader, used>>
  BY DEF Derived!Retarget
<1>4. /\ t \in Stages /\ t.there = s.there /\ t.sealed = s.sealed /\ t.fence = continuation.fence /\ t.lookup = {}
      /\ t.metric = s.metric /\ t.phase # "ready"
  BY <1>1 DEF Derived!Retargeted, Stages
<1>5. continuation' \in Threads /\ continuation'.at = "build" /\ continuation'.gen = g
  BY <1>3, GoesFacts DEF DerivedKept, Places
<1> HIDE DEF g, s, t
<1>6. StageTrue(t)
  BY <1>1, <1>2, <1>4 DEF StageTrue
<1>7. ~stage[g].sealed
  BY <1>2 DEF s
<1> QED
  BY <1>1, <1>2, <1>3, <1>4, <1>5, <1>6, <1>7, StageKept

LEMMA CreateKept ==
    ASSUME DerivedKept, Derived!Create
    PROVE  DerivedKept'
<1> DEFINE g == continuation.gen
           t == Derived!NewStage
<1>1. g \in Derived!Gens /\ StageTrue(stage[g]) /\ continuation.fence \in Derived!Fence /\ ~stage[g].there
      /\ HeadTrue(continuation.head)
  BY AtGen DEF Derived!Create, Derived!At, DerivedKept, WorkerTrue
<1>2. stage' = [stage EXCEPT ![g] = t] /\ Derived!Goes("build")
      /\ UNCHANGED <<src, pending, head, rollback, stored, paused, uncertain, pins, reader, used>>
  BY DEF Derived!Create
<1>3. t \in Stages /\ t.there /\ ~t.sealed /\ StageTrue(t)
  <2>1. CASE Derived!Reusable
    <3> DEFINE h == stage[continuation.head.gen]
    <3>1. continuation.head.gen \in Derived!Gens /\ h.fence = continuation.head.fence
      BY <1>1, <2>1 DEF Derived!Reusable, HeadTrue
    <3>2. h \in Stages /\ StageTrue(h)
      BY <3>1 DEF DerivedKept, DerivedTyped
    <3>3. Derived!MetricFence(h.fence) = Derived!MetricFence(continuation.fence)
      BY <2>1, <3>1 DEF Derived!Reusable
    <3>4. t = [Derived!NoStage EXCEPT !.there = TRUE, !.fence = continuation.fence, !.phase = "lookup",
                                      !.metric = h.metric]
      BY <2>1 DEF Derived!NewStage
    <3> HIDE DEF h, t
    <3>5. t = [there |-> TRUE, fence |-> continuation.fence, phase |-> "lookup", done |-> 0,
               metric |-> h.metric, lookup |-> {}, readonly |-> FALSE, sealed |-> FALSE]
      BY <3>4 DEF Derived!NoStage
    <3>6. h.metric \subseteq {Derived!MetricFence(continuation.fence)} /\ h.metric \in SUBSET (Nat \X Nat)
      BY <3>2, <3>3 DEF StageTrue, Stages
    <3> QED
      BY <1>1, <3>5, <3>6 DEF Stages, StageTrue
  <2>2. CASE ~Derived!Reusable
    <3>1. t = [Derived!NoStage EXCEPT !.there = TRUE, !.fence = continuation.fence]
      BY <2>2 DEF Derived!NewStage
    <3> HIDE DEF t
    <3>2. t = [there |-> TRUE, fence |-> continuation.fence, phase |-> "metrics", done |-> 0,
               metric |-> {}, lookup |-> {}, readonly |-> FALSE, sealed |-> FALSE]
      BY <3>1 DEF Derived!NoStage
    <3> QED
      BY <1>1, <3>2 DEF Stages, StageTrue
  <2> QED
    BY <2>1, <2>2
<1>4. continuation' \in Threads /\ continuation'.at = "build" /\ continuation'.gen = g
  BY <1>2, GoesFacts DEF DerivedKept, Places
<1>5. ~stage[g].sealed
  BY <1>1 DEF StageTrue
<1> HIDE DEF g, t
<1> QED
  BY <1>1, <1>2, <1>3, <1>4, <1>5, StageKept

LEMMA ReadsKept ==
    ASSUME DerivedKept, Derived!UnitReads
    PROVE  DerivedKept'
<1>1. UNCHANGED <<src, pending, head, rollback, stored, stage, paused, uncertain, pins, reader, used>>
  BY DEF Derived!UnitReads
<1>2. CASE Derived!InputsHold
  <2>1. continuation' = [continuation EXCEPT !.at = "reading", !.fence = src] /\ src = stage[continuation.gen].fence
        /\ continuation.at = "build"
    BY <1>2 DEF Derived!UnitReads, Derived!InputsHold, Derived!At
  <2>2. /\ continuation' \in Threads /\ continuation'.at = "reading" /\ continuation'.fence = src
        /\ continuation'.gen = continuation.gen
    BY <2>1 DEF DerivedKept, DerivedTyped, Threads, Places
  <2>3. WorkerTrue(continuation')
    BY <2>1, <2>2 DEF DerivedKept, WorkerTrue
  <2> QED
    BY <1>1, <2>2, <2>3, WorkerKept DEF DerivedKept, DerivedTyped
<1>3. CASE ~Derived!InputsHold
  <2>1. continuation' = [Derived!Idle EXCEPT !.at = "conflict"]
    BY <1>3 DEF Derived!UnitReads
  <2>2. continuation' \in Threads /\ continuation'.at = "conflict"
    BY <2>1, IdleTyped DEF Threads, Places, Derived!Idle
  <2>3. WorkerTrue(continuation')
    BY <2>2 DEF WorkerTrue
  <2> QED
    BY <1>1, <2>2, <2>3, WorkerKept DEF DerivedKept, DerivedTyped
<1> QED
  BY <1>2, <1>3

LEMMA CommitsKept ==
    ASSUME DerivedKept, Derived!UnitCommits
    PROVE  DerivedKept'
<1> DEFINE g == continuation.gen
           s == stage[g]
           t == Derived!UnitDone(s)
           place == IF t.phase = "ready" THEN "seal" ELSE "build"
<1>1. g \in Derived!Gens /\ s \in Stages /\ StageTrue(s) /\ continuation.fence \in Derived!Fence
      /\ s.there /\ ~s.sealed /\ continuation.fence = s.fence
  BY AtGen DEF Derived!UnitCommits, Derived!At, DerivedKept, WorkerTrue
<1>2. stage' = [stage EXCEPT ![g] = t]
      /\ UNCHANGED <<src, pending, head, rollback, stored, paused, uncertain, pins, reader, used>>
  BY DEF Derived!UnitCommits
<1>3. stage'[g] = t
  BY <1>1, <1>2 DEF DerivedKept, DerivedTyped
<1>4. Derived!Goes(place)
  BY <1>3 DEF Derived!UnitCommits
<1>5. t \in Stages /\ t.there /\ ~t.sealed /\ StageTrue(t)
  <2>1. Derived!MetricFence(s.fence) \in Nat \X Nat
    BY <1>1 DEF Derived!MetricFence, Stages, Derived!Fence
  <2>0. s.done < Batches <=> ~(s.done >= Batches)
    BY <1>1, BoundsAre DEF Stages
  <2>2. CASE s.phase = "metrics" /\ s.done < Batches
    <3>1. t = [s EXCEPT !.metric = @ \cup {Derived!MetricFence(continuation.fence)}, !.done = @ + 1]
      BY <2>0, <2>2 DEF Derived!UnitDone
    <3> HIDE DEF t, s
    <3>2. /\ t.metric = s.metric \cup {Derived!MetricFence(s.fence)} /\ t.done = s.done + 1 /\ t.there = s.there
          /\ t.fence = s.fence /\ t.phase = s.phase /\ t.lookup = s.lookup /\ t.sealed = s.sealed
      BY <1>1, <3>1 DEF Stages
    <3>3. t.metric \in SUBSET (Nat \X Nat) /\ t.done \in Nat
      BY <1>1, <2>1, <3>2 DEF Stages
    <3>4. t \in Stages
      BY <1>1, <3>1, <3>2, <3>3 DEF Stages
    <3> QED
      BY <1>1, <2>2, <3>2, <3>4 DEF StageTrue
  <2>3. CASE s.phase = "metrics" /\ s.done >= Batches
    <3>1. t = [s EXCEPT !.phase = "lookup", !.done = 0]
      BY <1>1, <2>3, <2>0 DEF Derived!UnitDone
    <3> HIDE DEF t, s
    <3> QED
      BY <1>1, <3>1 DEF Stages, StageTrue
  <2>4. CASE s.phase # "metrics"
    <3> DEFINE phase == IF s.done + 1 = Windows THEN "ready" ELSE "lookup"
    <3>1. t = [s EXCEPT !.lookup = @ \cup {continuation.fence}, !.done = @ + 1, !.phase = phase]
      BY <2>4 DEF Derived!UnitDone
    <3>2. phase \in {"lookup", "ready"}
      OBVIOUS
    <3> HIDE DEF t, s, phase
    <3>3. /\ t.lookup = s.lookup \cup {s.fence} /\ t.done = s.done + 1 /\ t.there = s.there
          /\ t.fence = s.fence /\ t.phase = phase /\ t.metric = s.metric /\ t.sealed = s.sealed
      BY <1>1, <3>1 DEF Stages
    <3>4. t.lookup = {s.fence} /\ t.lookup \in SUBSET Derived!Fence /\ t.done \in Nat
      BY <1>1, <3>3 DEF Stages, StageTrue
    <3>5. t \in Stages
      BY <1>1, <3>1, <3>2, <3>3, <3>4 DEF Stages
    <3> QED
      BY <1>1, <3>3, <3>4, <3>5 DEF StageTrue
  <2> QED
    BY <2>0, <2>2, <2>3, <2>4
<1>6. continuation' \in Threads /\ continuation'.at = place /\ continuation'.gen = g
  BY <1>4, GoesFacts DEF DerivedKept, Places
<1>7. ~stage[g].sealed
  BY <1>1
<1> HIDE DEF g, t, s
<1> QED
  BY <1>1, <1>2, <1>5, <1>6, <1>7, StageKept

LEMMA SealStartsKept ==
    ASSUME DerivedKept, Derived!SealStarts
    PROVE  DerivedKept'
<1> DEFINE g == continuation.gen
           s == stage[g]
           t == [s EXCEPT !.readonly = TRUE]
<1>1. g \in Derived!Gens /\ s \in Stages /\ StageTrue(s) /\ s.phase = "ready" /\ s.there
  BY AtGen DEF Derived!SealStarts, Derived!At, DerivedKept, WorkerTrue
<1>2. stage' = [stage EXCEPT ![g] = t] /\ Derived!Goes("sealing")
      /\ UNCHANGED <<src, pending, head, rollback, stored, paused, uncertain, pins, reader, used>>
  BY DEF Derived!SealStarts
<1>3. continuation' \in Threads /\ continuation'.at = "sealing" /\ continuation'.gen = g
  BY <1>2, GoesFacts DEF DerivedKept, Places
<1>4. t \in Stages /\ t.sealed = s.sealed /\ t.fence = s.fence /\ t.phase = "ready" /\ t.there /\ StageTrue(t)
  BY <1>1 DEF Stages, StageTrue
<1>5. stage[g].sealed => t.sealed /\ t.fence = stage[g].fence
  BY <1>4
<1> HIDE DEF g, t, s
<1> QED
  BY <1>1, <1>2, <1>3, <1>4, <1>5, StageKept

LEMMA SealEndsKept ==
    ASSUME DerivedKept, Derived!SealEnds
    PROVE  DerivedKept'
<1> DEFINE g == continuation.gen
           s == stage[g]
           t == [s EXCEPT !.sealed = TRUE]
<1>1. g \in Derived!Gens /\ s \in Stages /\ StageTrue(s) /\ s.phase = "ready" /\ s.there
  BY AtGen DEF Derived!SealEnds, Derived!At, DerivedKept, WorkerTrue
<1>2. stage' = [stage EXCEPT ![g] = t] /\ Derived!Goes("head")
      /\ UNCHANGED <<src, pending, head, rollback, stored, paused, uncertain, pins, reader, used>>
  BY DEF Derived!SealEnds
<1>3. continuation' \in Threads /\ continuation'.at = "head" /\ continuation'.gen = g
  BY <1>2, GoesFacts DEF DerivedKept, Places
<1>4. t \in Stages /\ t.sealed /\ t.fence = s.fence /\ t.phase = "ready" /\ t.there /\ StageTrue(t)
  BY <1>1 DEF Stages, StageTrue
<1>5. stage[g].sealed => t.sealed /\ t.fence = stage[g].fence
  BY <1>4
<1> HIDE DEF g, t, s
<1> QED
  BY <1>1, <1>2, <1>3, <1>4, <1>5, StageKept

LEMMA ExpectKept ==
    ASSUME DerivedKept, Derived!ExpectHead
    PROVE  DerivedKept'
<1>1. continuation' = [continuation EXCEPT !.at = "publish", !.head = head] /\ continuation.at = "head"
  BY DEF Derived!ExpectHead, Derived!At
<1>2. continuation' \in Threads /\ continuation'.at = "publish" /\ continuation'.gen = continuation.gen
  BY <1>1 DEF DerivedKept, DerivedTyped, Threads, Places
<1>3. WorkerTrue(continuation')
  BY <1>1, <1>2 DEF DerivedKept, WorkerTrue
<1> QED
  BY <1>2, <1>3, WorkerKept DEF Derived!ExpectHead, DerivedKept, DerivedTyped

\* A step that writes no stage.
LEMMA QuietKept ==
    ASSUME DerivedKept, UNCHANGED stage, DerivedTyped', HeadTrue(head'),
           rollback' # Derived!NoGen => stage[rollback'].sealed, WorkerTrue(continuation'), PendingTrue',
           \A r \in Readers : ReaderTrue(reader'[r])
    PROVE  DerivedKept'
<1>1. HeadTrue(head)' /\ WorkerTrue(continuation)' /\ \A r \in Readers : ReaderTrue(reader[r])'
  BY DEF HeadTrue, WorkerTrue, ReaderTrue
<1>2. \A g \in Derived!Gens : StageTrue(stage[g])'
  BY DEF DerivedKept
<1> QED
  BY <1>1, <1>2 DEF DerivedKept

LEMMA SpendTyped ==
    ASSUME DerivedTyped, NEW what \in {"external", "moves", "faults", "token"}, Derived!Spend(what)
    PROVE  /\ used' \in Counts
           /\ used'.writes = used.writes /\ used'.restarts = used.restarts /\ used'.gen = used.gen
BY DEF DerivedTyped, Derived!Spend, Counts

LEMMA CountsTyped ==
    ASSUME DerivedTyped
    PROVE  /\ LET u == [used EXCEPT !.faults = @ + 1, !.token = @ + 1]
              IN  /\ u \in Counts
                  /\ u.writes = used.writes /\ u.restarts = used.restarts /\ u.gen = used.gen
           /\ LET u == [used EXCEPT !.moves = @ + 1, !.token = @ + 1]
              IN  /\ u \in Counts
                  /\ u.writes = used.writes /\ u.restarts = used.restarts /\ u.gen = used.gen
           /\ LET u == [used EXCEPT !.restarts = @ + 1, !.gen = @ + 1]
              IN  /\ u \in Counts
                  /\ u.writes = used.writes /\ u.restarts = used.restarts + 1 /\ u.gen = used.gen + 1
<1> DEFINE f == [used EXCEPT !.faults = @ + 1]
           m == [used EXCEPT !.moves = @ + 1]
           t == [used EXCEPT !.restarts = @ + 1]
<1>1. used \in Counts
  BY DEF DerivedTyped
<1> USE DEF Counts
<1>2. /\ f \in Counts /\ f.writes = used.writes /\ f.restarts = used.restarts /\ f.gen = used.gen
      /\ f.token = used.token
  BY <1>1
<1>3. /\ m \in Counts /\ m.writes = used.writes /\ m.restarts = used.restarts /\ m.gen = used.gen
      /\ m.token = used.token
  BY <1>1
<1>4. /\ t \in Counts /\ t.writes = used.writes /\ t.restarts = used.restarts + 1
      /\ t.gen = used.gen
  BY <1>1
<1>5. /\ [used EXCEPT !.faults = @ + 1, !.token = @ + 1] = [f EXCEPT !.token = @ + 1]
      /\ [used EXCEPT !.moves = @ + 1, !.token = @ + 1] = [m EXCEPT !.token = @ + 1]
      /\ [used EXCEPT !.restarts = @ + 1, !.gen = @ + 1] = [t EXCEPT !.gen = @ + 1]
  BY <1>1
<1> HIDE DEF f, m, t
<1> QED
  BY <1>1, <1>2, <1>3, <1>4, <1>5

LEMMA SealFailsKept ==
    ASSUME DerivedKept, Derived!SealFails
    PROVE  DerivedKept'
<1>1. Derived!ToLoop /\ Derived!Spend("faults")
      /\ UNCHANGED <<src, pending, head, rollback, stage, paused, uncertain, pins, reader>>
  BY DEF Derived!SealFails
<1>2. DerivedTyped'
  BY <1>1, ToLoopFacts, SpendTyped DEF DerivedKept, DerivedTyped
<1>3. WorkerTrue(continuation')
  BY <1>1, ToLoopFacts DEF WorkerTrue, DerivedKept
<1> QED
  BY <1>1, <1>2, <1>3, QuietKept DEF DerivedKept, PendingTrue

\* What the publishing transaction writes.
LEMMA SwapFacts ==
    ASSUME DerivedKept, Derived!At("publish"), Derived!SwapHolds, Derived!Swap, UNCHANGED <<src, stage>>
    PROVE  /\ head' \in Heads /\ HeadTrue(head') /\ pending' \in [gen : Derived!Gens, published : BOOLEAN]
           /\ rollback' \in Derived!Gens \cup {Derived!NoGen}
           /\ rollback' # Derived!NoGen => stage[rollback'].sealed
           /\ PendingTrue'
<1>1. continuation.gen \in Derived!Gens /\ stage[continuation.gen] \in Stages /\ stage[continuation.gen].sealed
  BY AtGen DEF Derived!At, DerivedKept, WorkerTrue
<1>2. head' = [kind |-> "active", token |-> used.token + 1, gen |-> continuation.gen,
               fence |-> stage[continuation.gen].fence]
  BY DEF Derived!Swap
<1>3. head' \in Heads /\ HeadTrue(head')
  BY <1>1, <1>2, GensAre DEF Heads, HeadTrue, DerivedKept, DerivedTyped, Stages, Counts
<1>4. pending' = [pending EXCEPT !.published = TRUE] /\ pending.gen = continuation.gen
      /\ src = stage[continuation.gen].fence
  BY DEF Derived!Swap, Derived!SwapHolds, Derived!InputsHold
<1>5. pending' \in [gen : Derived!Gens, published : BOOLEAN] /\ pending'.gen = continuation.gen
  BY <1>4 DEF DerivedKept, DerivedTyped
<1>6. PendingTrue'
  BY <1>1, <1>4, <1>5 DEF PendingTrue
<1>7. rollback' = IF head.kind = "active" THEN head.gen ELSE rollback
  BY DEF Derived!Swap
<1>8. rollback' \in Derived!Gens \cup {Derived!NoGen} /\ (rollback' # Derived!NoGen => stage[rollback'].sealed)
  BY <1>7 DEF DerivedKept, DerivedTyped, HeadTrue, Heads
<1> QED
  BY <1>3, <1>5, <1>6, <1>8

LEMMA PublishKept ==
    ASSUME DerivedKept, Derived!Publish
    PROVE  DerivedKept'
<1>1. /\ Derived!At("publish") /\ Derived!SwapHolds /\ Derived!Swap /\ Derived!Spend("token") /\ Derived!ToLoop
      /\ UNCHANGED <<src, stage, paused, uncertain, pins, reader>>
  BY DEF Derived!Publish
<1>2. DerivedTyped'
  BY <1>1, SwapFacts, ToLoopFacts, SpendTyped DEF DerivedKept, DerivedTyped
<1>3. WorkerTrue(continuation')
  BY <1>1, ToLoopFacts DEF WorkerTrue, DerivedKept
<1> QED
  BY <1>1, <1>2, <1>3, SwapFacts, QuietKept DEF DerivedKept

LEMMA UncertainKept ==
    ASSUME DerivedKept, Derived!PublishUncertain
    PROVE  DerivedKept'
<1>1. /\ Derived!At("publish") /\ Derived!SwapHolds /\ (Derived!Swap \/ UNCHANGED <<head, rollback, pending>>)
      /\ uncertain' = TRUE /\ continuation' = Derived!Idle /\ Derived!SaveStatus(TRUE)
      /\ used' = [used EXCEPT !.faults = @ + 1, !.token = @ + 1]
      /\ UNCHANGED <<src, stage, paused, pins, reader>>
  BY DEF Derived!PublishUncertain
<1>2. /\ head' \in Heads /\ HeadTrue(head') /\ pending' \in [gen : Derived!Gens, published : BOOLEAN]
      /\ rollback' \in Derived!Gens \cup {Derived!NoGen}
      /\ rollback' # Derived!NoGen => stage[rollback'].sealed
      /\ PendingTrue'
  <2>1. CASE Derived!Swap
    BY <1>1, <2>1, SwapFacts
  <2>2. CASE UNCHANGED <<head, rollback, pending>>
    BY <1>1, <2>2 DEF DerivedKept, DerivedTyped, PendingTrue
  <2> QED
    BY <1>1, <2>1, <2>2
<1>3. /\ used' \in Counts
      /\ used'.writes = used.writes /\ used'.restarts = used.restarts /\ used'.gen = used.gen
  BY <1>1, CountsTyped DEF DerivedKept
<1>4. stored' \in [operator : BOOLEAN, status : BOOLEAN, uncertain : BOOLEAN]
  BY <1>1 DEF Derived!SaveStatus, DerivedKept, DerivedTyped
<1>5. DerivedTyped'
  BY <1>1, <1>2, <1>3, <1>4, IdleTyped DEF DerivedKept, DerivedTyped
<1>6. WorkerTrue(continuation')
  BY <1>1 DEF WorkerTrue, Derived!Idle
<1> QED
  BY <1>1, <1>2, <1>5, <1>6, QuietKept DEF DerivedKept

LEMMA RestartKept ==
    ASSUME DerivedKept, Derived!Restart
    PROVE  DerivedKept'
<1>1. /\ used.restarts < MaxRestarts /\ pending' = [gen |-> used.gen + 1, published |-> FALSE]
      /\ used' = [used EXCEPT !.restarts = @ + 1, !.gen = @ + 1] /\ Derived!ToLoop
      /\ UNCHANGED <<src, head, rollback, stage, paused, uncertain, pins, reader>>
  BY DEF Derived!Restart
<1>2. /\ used' \in Counts
      /\ used'.writes = used.writes /\ used'.restarts = used.restarts + 1 /\ used'.gen = used.gen + 1
  BY <1>1, CountsTyped DEF DerivedKept
<1>3. used.gen + 1 \in Derived!Gens
  <2>1. /\ used.gen \in Nat /\ used.writes \in Nat /\ used.restarts \in Nat /\ used.writes <= MaxWrites
        /\ used.gen <= 1 + used.writes + used.restarts
    BY DEF DerivedKept, DerivedTyped, Counts
  <2> QED
    BY <1>1, <2>1, BoundsAre DEF Derived!Gens
<1>4. DerivedTyped'
  BY <1>1, <1>2, <1>3, ToLoopFacts, BoundsAre DEF DerivedKept, DerivedTyped, Counts
<1>5. WorkerTrue(continuation')
  BY <1>1, ToLoopFacts DEF WorkerTrue, DerivedKept
<1>6. PendingTrue'
  BY <1>1 DEF PendingTrue
<1> QED
  BY <1>1, <1>4, <1>5, <1>6, QuietKept DEF DerivedKept

\* A source writer: the new epoch is no earlier seal's.
LEMMA InvalidateFacts ==
    ASSUME DerivedKept, NEW cashOnly \in BOOLEAN, Derived!Invalidate(cashOnly)
    PROVE  /\ src' \in Derived!Fence /\ pending' \in [gen : Derived!Gens, published : BOOLEAN] /\ ~pending'.published
           /\ used' \in Counts /\ used'.writes <= MaxWrites /\ used'.restarts <= MaxRestarts
           /\ used'.gen <= 1 + used'.writes + used'.restarts
<1>1. /\ used \in Counts /\ used.writes < MaxWrites /\ used.restarts <= MaxRestarts
      /\ used.gen <= 1 + used.writes + used.restarts
  BY DEF DerivedKept, DerivedTyped, Derived!Invalidate
<1>2. used.writes \in Nat /\ used.restarts \in Nat /\ used.gen \in Nat
  BY <1>1 DEF Counts
<1>3. src' \in Derived!Fence
  <2> DEFINE f == [src EXCEPT !.epoch = used.writes + 2]
             m == IF cashOnly THEN src.metric ELSE used.writes + 2
  <2>1. src \in Derived!Fence /\ m \in Nat
    BY <1>2 DEF DerivedKept, DerivedTyped, Derived!Fence
  <2>2. f \in Derived!Fence /\ f.metric = src.metric
    BY <1>2, <2>1 DEF Derived!Fence
  <2>3. src' = [f EXCEPT !.metric = m]
    BY <2>1 DEF Derived!Invalidate, Derived!Fence
  <2> HIDE DEF f, m
  <2> QED
    BY <2>1, <2>2, <2>3 DEF Derived!Fence
<1>4. pending' \in [gen : Derived!Gens, published : BOOLEAN] /\ ~pending'.published
  <2>1. used.gen + 1 \in Derived!Gens
    BY <1>1, <1>2, BoundsAre DEF Derived!Gens
  <2>2. pending' = IF cashOnly /\ Derived!Unpublished THEN pending ELSE [gen |-> used.gen + 1, published |-> FALSE]
    BY DEF Derived!Invalidate, Derived!Queued
  <2> QED
    BY <2>1, <2>2 DEF Derived!Unpublished, DerivedKept, DerivedTyped
<1>5. used' \in Counts /\ used'.writes = used.writes + 1 /\ used'.restarts = used.restarts /\ used'.gen <= used.gen + 1
  <2> DEFINE e == [used EXCEPT !.writes = @ + 1]
             n == IF pending'.gen = used.gen + 1 THEN used.gen + 1 ELSE used.gen
  <2>1. e \in Counts /\ e.writes = used.writes + 1 /\ e.restarts = used.restarts /\ e.gen = used.gen
    BY <1>1 DEF Counts
  <2>2. n \in Nat /\ n <= used.gen + 1
    BY <1>2
  <2>3. used' = [e EXCEPT !.gen = n]
    BY <1>1 DEF Derived!Invalidate, Counts
  <2> HIDE DEF e, n
  <2> QED
    BY <2>1, <2>2, <2>3 DEF Counts
<1>6. used'.writes <= MaxWrites /\ used'.restarts <= MaxRestarts /\ used'.gen <= 1 + used'.writes + used'.restarts
  <2>1. used'.gen \in Nat
    BY <1>5 DEF Counts
  <2> QED
    BY <1>1, <1>2, <1>5, <2>1, BoundsAre
<1> QED
  BY <1>3, <1>4, <1>5, <1>6

LEMMA SourceWriteKept ==
    ASSUME DerivedKept, Derived!SourceWrite
    PROVE  DerivedKept'
<1>1. PICK cashOnly \in BOOLEAN : Derived!Invalidate(cashOnly)
  BY DEF Derived!SourceWrite
<1>2. UNCHANGED <<head, rollback, stored, stage, continuation, paused, uncertain, pins, reader>>
  BY DEF Derived!SourceWrite
<1>3. DerivedTyped'
  BY <1>1, <1>2, InvalidateFacts DEF DerivedKept, DerivedTyped
<1>4. PendingTrue'
  BY <1>1, InvalidateFacts DEF PendingTrue
<1> QED
  BY <1>2, <1>3, <1>4, QuietKept DEF DerivedKept

LEMMA AdoptKept ==
    ASSUME DerivedKept, Derived!Adopt
    PROVE  DerivedKept'
<1> DEFINE f == FALSE
<1>1. f \in BOOLEAN /\ Derived!Invalidate(f)
  BY DEF Derived!Adopt
<1> HIDE DEF f
<1>2. UNCHANGED <<head, rollback, stage, continuation, uncertain, reader>> /\ paused' = FALSE /\ pins' = "held"
      /\ stored' = [stored EXCEPT !.operator = FALSE]
  BY DEF Derived!Adopt
<1>3. stored' \in [operator : BOOLEAN, status : BOOLEAN, uncertain : BOOLEAN]
  BY <1>2 DEF DerivedKept, DerivedTyped
<1>4. DerivedTyped'
  BY <1>1, <1>2, <1>3, InvalidateFacts DEF DerivedKept, DerivedTyped, Pins
<1>5. PendingTrue'
  BY <1>1, InvalidateFacts DEF PendingTrue
<1> QED
  BY <1>2, <1>4, <1>5, QuietKept DEF DerivedKept

LEMMA ExternalKept ==
    ASSUME DerivedKept, Derived!ExternalChange
    PROVE  DerivedKept'
<1>1. /\ src' = [src EXCEPT !.external = @ + 1] /\ Derived!Spend("external")
      /\ UNCHANGED <<pending, head, rollback, stored, stage, continuation, paused, uncertain, pins, reader>>
  BY DEF Derived!ExternalChange
<1>2. src' \in Derived!Fence /\ src'.epoch = src.epoch
  BY <1>1 DEF DerivedKept, DerivedTyped, Derived!Fence
<1>3. DerivedTyped'
  BY <1>1, <1>2, SpendTyped DEF DerivedKept, DerivedTyped
<1>4. PendingTrue'
  BY <1>1, <1>2 DEF PendingTrue, DerivedKept
<1> QED
  BY <1>1, <1>3, <1>4, QuietKept DEF DerivedKept

LEMMA ComponentKept ==
    ASSUME DerivedKept, Derived!ComponentChange
    PROVE  DerivedKept'
<1>1. /\ pins' = "changed" /\ Derived!Spend("external")
      /\ UNCHANGED <<src, pending, head, rollback, stored, stage, continuation, paused, uncertain, reader>>
  BY DEF Derived!ComponentChange
<1>2. DerivedTyped'
  BY <1>1, SpendTyped DEF DerivedKept, DerivedTyped, Pins
<1>3. PendingTrue'
  BY <1>1 DEF PendingTrue, DerivedKept
<1> QED
  BY <1>1, <1>2, <1>3, QuietKept DEF DerivedKept

LEMMA PauseKept ==
    ASSUME DerivedKept, NEW value \in BOOLEAN, Derived!Pause(value)
    PROVE  DerivedKept'
<1>1. /\ paused' = value /\ stored' = [stored EXCEPT !.operator = value] /\ Derived!Spend("moves")
      /\ UNCHANGED <<src, pending, head, rollback, stage, continuation, uncertain, pins, reader>>
  BY DEF Derived!Pause
<1>2. stored' \in [operator : BOOLEAN, status : BOOLEAN, uncertain : BOOLEAN]
  BY <1>1 DEF DerivedKept, DerivedTyped
<1>3. DerivedTyped'
  BY <1>1, <1>2, SpendTyped DEF DerivedKept, DerivedTyped
<1>4. PendingTrue'
  BY <1>1 DEF PendingTrue, DerivedKept
<1> QED
  BY <1>1, <1>3, <1>4, QuietKept DEF DerivedKept

\* An operator moves the head.
LEMMA MoveKept ==
    ASSUME DerivedKept, Derived!Deactivate \/ Derived!RestoreSaved
    PROVE  DerivedKept'
<1>1. /\ used' = [used EXCEPT !.moves = @ + 1, !.token = @ + 1] /\ rollback' = Derived!Retained
      /\ UNCHANGED <<src, pending, stored, stage, continuation, paused, uncertain, pins, reader>>
  BY DEF Derived!Deactivate, Derived!RestoreSaved, Derived!HeadMove
<1>2. used' \in Counts /\ used'.writes = used.writes /\ used'.restarts = used.restarts /\ used'.gen = used.gen
  BY <1>1, CountsTyped DEF DerivedKept
<1>3. rollback' \in Derived!Gens \cup {Derived!NoGen} /\ (rollback' # Derived!NoGen => stage[rollback'].sealed)
  BY <1>1 DEF DerivedKept, DerivedTyped, HeadTrue, Heads, Derived!Retained
<1>4. head' \in Heads /\ HeadTrue(head')
  <2>0. used.token + 1 \in Nat
    BY DEF DerivedKept, DerivedTyped, Counts
  <2>1. CASE Derived!Deactivate
    <3> DEFINE e == [head EXCEPT !.kind = "disabled"]
    <3>1. head' = [e EXCEPT !.token = used.token + 1] /\ head.kind # "none"
      BY <2>1 DEF Derived!Deactivate, DerivedKept, DerivedTyped, Heads
    <3>2. e \in Heads /\ e.kind = "disabled" /\ e.gen = head.gen /\ e.fence = head.fence
      BY DEF DerivedKept, DerivedTyped, Heads
    <3> HIDE DEF e
    <3>3. head' \in Heads /\ head'.kind = "disabled" /\ head'.gen = head.gen /\ head'.fence = head.fence
      BY <2>0, <3>1, <3>2 DEF Heads
    <3> QED
      BY <3>1, <3>3 DEF DerivedKept, HeadTrue
  <2>2. CASE Derived!RestoreSaved
    <3>1. PICK g \in Derived!Gens : stage[g].sealed
             /\ head' = [kind |-> "retained", token |-> used.token + 1, gen |-> g, fence |-> stage[g].fence]
      BY <2>2 DEF Derived!RestoreSaved
    <3>2. stage[g].fence \in Derived!Fence
      BY DEF DerivedKept, DerivedTyped, Stages
    <3> QED
      BY <2>0, <3>1, <3>2 DEF Heads, HeadTrue
  <2> QED
    BY <2>1, <2>2
<1>5. DerivedTyped'
  BY <1>1, <1>2, <1>3, <1>4 DEF DerivedKept, DerivedTyped
<1>6. PendingTrue'
  BY <1>1 DEF PendingTrue, DerivedKept
<1> QED
  BY <1>1, <1>3, <1>4, <1>5, <1>6, QuietKept DEF DerivedKept

\* A step of one reader.
LEMMA ReaderKept ==
    ASSUME DerivedKept, NEW r \in Readers, NEW o \in Opened, ReaderTrue(o), reader' = [reader EXCEPT ![r] = o],
           UNCHANGED <<src, pending, head, rollback, stored, stage, continuation, paused, uncertain, pins, used>>
    PROVE  DerivedKept'
<1>1. reader' \in [Readers -> Opened] /\ \A q \in Readers : ReaderTrue(reader'[q])
  BY DEF DerivedKept, DerivedTyped
<1>2. DerivedTyped' /\ PendingTrue'
  BY <1>1 DEF DerivedKept, DerivedTyped, PendingTrue
<1> QED
  BY <1>1, <1>2, QuietKept DEF DerivedKept

LEMMA ProbeKept ==
    ASSUME DerivedKept, NEW r \in Readers, Derived!Probe(r) \/ Derived!Leave(r)
    PROVE  DerivedKept'
<1>1. UNCHANGED <<src, pending, head, rollback, stored, stage, continuation, paused, uncertain, pins, used>>
  BY DEF Derived!Probe, Derived!Leave
<1>2. CASE Derived!Probe(r)
  <2> DEFINE e == [Derived!Outside EXCEPT !.at = "probed"]
             o == [Derived!Outside EXCEPT !.at = "probed", !.head = head]
  <2>1. e \in Opened /\ e.status = "none" /\ o = [e EXCEPT !.head = head] /\ head \in Heads
    BY IdleTyped DEF Opened, Derived!Outside, DerivedKept, DerivedTyped
  <2>2. reader' = [reader EXCEPT ![r] = o]
    BY <1>2 DEF Derived!Probe
  <2> HIDE DEF e, o
  <2>3. o \in Opened /\ ReaderTrue(o)
    BY <2>1 DEF Opened, ReaderTrue
  <2> QED
    BY <1>1, <2>2, <2>3, ReaderKept
<1>3. CASE Derived!Leave(r)
  <2>1. reader' = [reader EXCEPT ![r] = Derived!Outside]
    BY <1>3 DEF Derived!Leave
  <2>2. Derived!Outside \in Opened /\ ReaderTrue(Derived!Outside)
    BY IdleTyped DEF ReaderTrue, Derived!Outside
  <2> QED
    BY <1>1, <2>1, <2>2, ReaderKept
<1> QED
  BY <1>2, <1>3

LEMMA SelectKept ==
    ASSUME DerivedKept, NEW r \in Readers, Derived!Select(r)
    PROVE  DerivedKept'
<1> DEFINE status == Derived!Status
           gen == IF Derived!Status \in {"current", "retained"} THEN head.gen ELSE Derived!NoGen
           o == [at |-> "in", head |-> Derived!NoHead, status |-> status, fence |-> src, gen |-> gen]
<1>1. head \in Heads /\ HeadTrue(head) /\ src \in Derived!Fence
  BY DEF DerivedKept, DerivedTyped
<1>2. /\ status \in {"legacy", "canonical", "retained", "current"}
      /\ status = "current" => head.kind = "active" /\ head.fence = src
  BY <1>1 DEF Derived!Status, Heads
<1>3. gen \in Derived!Gens \cup {Derived!NoGen} /\ (status = "current" => gen = head.gen)
  BY <1>1 DEF Heads
<1>4. reader' = [reader EXCEPT ![r] = o]
      /\ UNCHANGED <<src, pending, head, rollback, stored, stage, continuation, paused, uncertain, pins, used>>
  BY DEF Derived!Select
<1> HIDE DEF status, gen
<1>5. o \in Opened
  BY <1>1, <1>2, <1>3, IdleTyped DEF Opened
<1>6. ReaderTrue(o)
  BY <1>1, <1>2, <1>3 DEF ReaderTrue, HeadTrue
<1> HIDE DEF o
<1> QED
  BY <1>4, <1>5, <1>6, ReaderKept

LEMMA CrashKept ==
    ASSUME DerivedKept, Derived!Crash
    PROVE  DerivedKept'
<1>1. /\ continuation' = Derived!Idle /\ reader' = [r \in Readers |-> Derived!Outside] /\ Derived!Spend("faults")
      /\ paused' = (stored.operator \/ stored.status \/ ~Derived!FenceRead)
      /\ uncertain' = (stored.uncertain /\ Derived!FenceRead)
      /\ pins' = IF Derived!FenceRead THEN "held" ELSE "unrestored"
      /\ UNCHANGED <<src, pending, head, rollback, stored, stage>>
  BY DEF Derived!Crash
<1>2. stored \in [operator : BOOLEAN, status : BOOLEAN, uncertain : BOOLEAN]
  BY DEF DerivedKept, DerivedTyped
<1>3. stored.operator \in BOOLEAN /\ stored.status \in BOOLEAN /\ stored.uncertain \in BOOLEAN
  BY <1>2
<1>0. pins' \in Pins
  BY <1>1 DEF Pins
<1> DEFINE p == stored.operator \/ stored.status \/ ~Derived!FenceRead
           u == stored.uncertain /\ Derived!FenceRead
<1>4. paused' \in BOOLEAN
  <2>1. paused' = p /\ p \in BOOLEAN
    BY <1>1, Zenon
  <2> HIDE DEF p
  <2> QED
    BY <2>1
<1>5. uncertain' \in BOOLEAN
  <2>1. uncertain' = u /\ u \in BOOLEAN
    BY <1>1, Zenon
  <2> HIDE DEF u
  <2> QED
    BY <2>1
<1> HIDE DEF p, u
<1>6. DerivedTyped'
  BY <1>0, <1>1, <1>4, <1>5, IdleTyped, SpendTyped DEF DerivedKept, DerivedTyped
<1>7. WorkerTrue(continuation')
  BY <1>1 DEF WorkerTrue, Derived!Idle
<1>8. PendingTrue' /\ \A r \in Readers : ReaderTrue(reader'[r])
  BY <1>1 DEF PendingTrue, DerivedKept, ReaderTrue, Derived!Outside
<1> QED
  BY <1>1, <1>6, <1>7, <1>8, QuietKept DEF DerivedKept

LEMMA DerivedStarts ==
    ASSUME Derived!Init
    PROVE  DerivedKept
<1>1. /\ src = [metric |-> 1, epoch |-> 1, external |-> 0] /\ pending = [gen |-> 1, published |-> FALSE]
      /\ head = Derived!NoHead /\ rollback = Derived!NoGen
      /\ stored = [operator |-> FALSE, status |-> FALSE, uncertain |-> FALSE]
      /\ stage = [g \in Derived!Gens |-> Derived!NoStage] /\ continuation = Derived!Idle
      /\ paused = FALSE /\ uncertain = FALSE /\ pins = "held" /\ reader = [r \in Readers |-> Derived!Outside]
      /\ used = [writes |-> 0, external |-> 0, restarts |-> 0, moves |-> 0, faults |-> 0, gen |-> 1, token |-> 0]
  BY DEF Derived!Init
<1>2. 1 \in Derived!Gens
  BY BoundsAre DEF Derived!Gens
<1>3. src \in Derived!Fence /\ pending \in [gen : Derived!Gens, published : BOOLEAN] /\ used \in Counts
      /\ used.writes = 0 /\ used.restarts = 0 /\ used.gen = 1
  BY <1>1, <1>2 DEF Derived!Fence, Counts
<1>4. stage \in [Derived!Gens -> Stages] /\ reader \in [Readers -> Opened]
  BY <1>1, IdleTyped
<1>5. DerivedTyped
  <2>1. stored \in [operator : BOOLEAN, status : BOOLEAN, uncertain : BOOLEAN] /\ paused \in BOOLEAN /\ uncertain \in BOOLEAN
        /\ pins \in Pins
    BY <1>1 DEF Pins
  <2>2. head \in Heads /\ rollback \in Derived!Gens \cup {Derived!NoGen} /\ continuation \in Threads
    BY <1>1, IdleTyped
  <2>3. used.writes <= MaxWrites /\ used.restarts <= MaxRestarts /\ used.gen <= 1 + used.writes + used.restarts
    BY <1>3, BoundsAre
  <2> QED
    BY <1>3, <1>4, <2>1, <2>2, <2>3 DEF DerivedTyped
<1>6. StageTrue(Derived!NoStage)
  BY DEF StageTrue, Derived!NoStage
<1>7. \A g \in Derived!Gens : StageTrue(stage[g])
  BY <1>1, <1>6
<1>8. HeadTrue(head) /\ WorkerTrue(continuation) /\ PendingTrue
  BY <1>1 DEF HeadTrue, Derived!NoHead, WorkerTrue, Derived!Idle, PendingTrue
<1>9. \A r \in Readers : ReaderTrue(reader[r])
  BY <1>1 DEF ReaderTrue, Derived!Outside
<1> QED
  BY <1>1, <1>5, <1>7, <1>8, <1>9 DEF DerivedKept

LEMMA DerivedSteps ==
    ASSUME DerivedKept, [Derived!Next]_Derived!vars
    PROVE  DerivedKept'
<1>1. CASE Derived!WorkerStep
  BY <1>1, LookKept, ResumeKept, ConflictKept, LoopKept, RetargetKept, CreateKept, ReadsKept, CommitsKept,
     SealStartsKept, SealEndsKept, ExpectKept, PublishKept, RestartKept DEF Derived!WorkerStep
<1>2. CASE Derived!CycleEnds \/ Derived!PublishDeferred \/ Derived!Refused
  BY <1>2, LoopKept
<1>3. CASE Derived!SealFails
  BY <1>3, SealFailsKept
<1>4. CASE Derived!PublishUncertain
  BY <1>4, UncertainKept
<1>5. CASE Derived!SourceWrite
  BY <1>5, SourceWriteKept
<1>6. CASE Derived!ExternalChange
  BY <1>6, ExternalKept
<1>13. CASE Derived!ComponentChange
  BY <1>13, ComponentKept
<1>7. CASE Derived!Pause(TRUE) \/ Derived!Pause(FALSE)
  <2>1. \E value \in BOOLEAN : Derived!Pause(value)
    BY <1>7
  <2> QED
    BY <2>1, PauseKept
<1>8. CASE Derived!Adopt
  BY <1>8, AdoptKept
<1>9. CASE Derived!Deactivate \/ Derived!RestoreSaved
  BY <1>9, MoveKept
<1>10. CASE \E r \in Readers : Derived!Probe(r) \/ Derived!Select(r) \/ Derived!Leave(r)
  BY <1>10, ProbeKept, SelectKept
<1>11. CASE Derived!Crash
  BY <1>11, CrashKept
<1>12. CASE UNCHANGED Derived!vars
  <2>1. UNCHANGED <<src, pending, head, rollback, stored, stage, continuation, paused, uncertain, pins, reader, used>>
    BY <1>12 DEF Derived!vars
  <2> QED
    BY <2>1, QuietKept DEF DerivedKept, DerivedTyped, PendingTrue
<1> QED
  BY <1>1, <1>2, <1>3, <1>4, <1>5, <1>6, <1>7, <1>8, <1>9, <1>10, <1>11, <1>12, <1>13 DEF Derived!Next

LEMMA DerivedHolds == Derived!Spec => []DerivedKept
BY DerivedStarts, DerivedSteps, PTL DEF Derived!Spec

LEMMA KeptTells ==
    ASSUME DerivedKept
    PROVE  GenerationsInv /\ CurrentIsTrue
<1>1. Derived!TypeOK
  BY DEF DerivedKept, DerivedTyped, Derived!TypeOK, Heads, Threads, Stages, Pins
<1>2. Derived!SealTrue
  BY DEF DerivedKept, StageTrue, Derived!SealTrue, Derived!Complete
<1>3. Derived!HeadsSealed
  BY DEF DerivedKept, HeadTrue, Derived!HeadsSealed
<1>4. Derived!NothingHidden
  BY DEF DerivedKept, PendingTrue, Derived!NothingHidden
<1>5. Derived!CurrentIsTrue
  BY DEF DerivedKept, DerivedTyped, ReaderTrue, StageTrue, Derived!CurrentIsTrue
<1> QED
  BY <1>1, <1>2, <1>3, <1>4, <1>5 DEF GenerationsInv, CurrentIsTrue, Derived!GenerationsInv

\* A seal names the inputs of every row of its file, the current head and the
\* retained one name sealed files, and a receipt that says published hides no
\* later source write, whatever the source writers, the continuation, the
\* operator and restarts do between each other's steps (run_unit,
\* create_or_resume, invalidate_inputs, generation_repository.publish).
THEOREM GenerationsHold == Derived!Spec => []GenerationsInv
BY DerivedHolds, KeptTells, PTL

\* A reader told "current" holds, until it closes, rows that were all computed
\* from the inputs of its own snapshot (Repository.reader).
THEOREM CurrentHolds == Derived!Spec => []CurrentIsTrue
BY DerivedHolds, KeptTells, PTL

(***************************************************************************)
(* The cash lane.  Silence is kept because an admission looks at the saved *)
(* record only, and the record covers every request that may be out: the   *)
(* worker that owns the record is as old as the record's job, and a worker *)
(* that lost it to a later admission has been out for an hour.             *)
(***************************************************************************)
Jobs == [id : Ids, folio : Folios, version : Versions, status : Statuses, age : 0 .. Uncertain,
         received : BOOLEAN]
Controls == [next : Left, owner : Owners \cup {None}, job : Jobs \cup {NoJob}]
CashThreads == [pc : {"off", "queued", "wire", "publish"}, id : Ids \cup {None}, folio : Folios \cup {None},
                version : Versions \cup {None}, age : 0 .. Uncertain]
Cadences == [pc : {"wait", "act"}, id : Ids \cup {None}, folio : Folios \cup {None}, next : 0 .. Admission]

CashTyped ==
    /\ control \in Controls /\ fetched \in Ids \cup {None} /\ self \in Owners
    /\ worker \in [Owners -> CashThreads] /\ cadence \in Cadences /\ holdings \in [Folios -> Versions]
    /\ quiet \in Left /\ moves \in 0 .. MaxMoves

\* The record follows the worker that owns it; any other worker is an hour old.
ThreadTrue(w, o) ==
    w.pc # "off" =>
       IF control.owner = o
       THEN /\ w.id = control.job.id /\ w.age = control.job.age
            /\ control.job.status = IF w.pc = "queued" THEN "queued" ELSE "fetching"
       ELSE w.age = Uncertain
\* An active job nobody works on any more.
Lost == control.job.status \in Active /\ worker[control.owner].pc = "off"
SilenceKept ==
    quiet <= control.next \/ (Lost /\ quiet <= Uncertain - control.job.age)
CashKept ==
    /\ CashTyped
    /\ \A o \in Owners : ThreadTrue(worker[o], o)
    /\ control.job.status \in Active => control.owner \in Owners
    /\ cadence.pc = "act" => cadence.id \in Ids /\ cadence.folio \in Folios
    /\ CaptureIsOwn
    /\ SilenceKept

LEMMA LaneBounds ==
    /\ Admission \in Nat /\ Uncertain \in Nat /\ MaxMoves \in Nat /\ RetryAfter \in SUBSET Nat
    /\ 0 < Admission /\ Admission <= Uncertain /\ (\A r \in RetryAfter : r >= Admission)
    /\ Owners \in SUBSET Nat /\ Ids \in SUBSET Nat /\ None \notin Folios /\ None \notin Ids /\ None \notin Owners
    /\ IsFiniteSet(Owners) /\ Owners # {} /\ IsFiniteSet(RetryAfter) /\ Versions # {}
    /\ IsFiniteSet(Ids) => Cardinality(Ids) > Cardinality(Owners) + 3
BY LanesAssumption DEF CashAssumption

LEMMA Larger ==
    ASSUME NEW a \in Nat, NEW b \in Nat
    PROVE  Max({a, b}) = IF a >= b THEN a ELSE b
BY DEF Max

LEMMA Smaller ==
    ASSUME NEW a \in Nat, NEW b \in Nat
    PROVE  Min({a, b}) = IF a <= b THEN a ELSE b
BY DEF Min

LEMMA DoubtIs ==
    ASSUME NEW age \in 0 .. Uncertain
    PROVE  Doubt(age) = Uncertain - age /\ Doubt(age) \in Nat
<1> DEFINE d == Uncertain - age
<1>1. d \in Nat /\ Doubt(age) = Max({d, 0})
  BY LaneBounds DEF Doubt
<1> HIDE DEF d
<1>2. Doubt(age) = d
  BY <1>1, Larger
<1> QED
  BY <1>1, <1>2 DEF d

\* The least and the greatest of a set, from the library's well-foundedness of
\* finite sets under inclusion.
LEMMA LeastOf ==
    ASSUME NEW S \in SUBSET Nat, S # {}
    PROVE  Min(S) \in S /\ \A k \in S : Min(S) <= k
<1> DEFINE T == {0 .. m : m \in S}
<1>1. T \subseteq FiniteSubsetsOf(Nat) /\ T # {}
  <2>1. \A m \in S : IsFiniteSet(0 .. m) /\ 0 .. m \in SUBSET Nat
    BY FS_Interval
  <2> QED
    BY <2>1 DEF FiniteSubsetsOf
<1>2. PICK x \in T : \A y \in T : <<y, x>> \notin StrictSubsetOrdering(Nat)
  <2> HIDE DEF T
  <2> QED
    BY <1>1, FS_StrictSubsetOrderingWellFounded, WFMin
<1>3. PICK m \in S : x = 0 .. m
  OBVIOUS
<1>4. ASSUME NEW k \in S, k < m PROVE FALSE
  <2>1. m \in 0 .. m /\ m \notin 0 .. k
    BY <1>4
  <2>2. 0 .. k \subseteq 0 .. m /\ 0 .. k # 0 .. m /\ 0 .. k \in SUBSET Nat /\ 0 .. m \in SUBSET Nat
    BY <2>1, <1>4
  <2>3. <<0 .. k, 0 .. m>> \in StrictSubsetOrdering(Nat)
    BY <2>2 DEF StrictSubsetOrdering
  <2> QED
    BY <2>3, <1>2, <1>3
<1>5. \A k \in S : m <= k
  BY <1>4
<1> QED
  BY <1>5 DEF Min

LEMMA GreatestOf ==
    ASSUME NEW S \in SUBSET Nat, S # {}, IsFiniteSet(S)
    PROVE  Max(S) \in S /\ \A k \in S : k <= Max(S)
<1> DEFINE Above(m) == {j \in S : j >= m}
           T == {Above(m) : m \in S}
<1>1. T \subseteq FiniteSubsetsOf(S) /\ T # {}
  <2>1. \A m \in S : Above(m) \in SUBSET S /\ IsFiniteSet(Above(m))
    BY FS_Subset
  <2> QED
    BY <2>1 DEF FiniteSubsetsOf
<1>2. PICK x \in T : \A y \in T : <<y, x>> \notin StrictSubsetOrdering(S)
  <2> HIDE DEF T
  <2> QED
    BY <1>1, FS_StrictSubsetOrderingWellFounded, WFMin
<1>3. PICK m \in S : x = Above(m)
  OBVIOUS
<1>4. ASSUME NEW k \in S, k > m PROVE FALSE
  <2>1. m \in Above(m) /\ m \notin Above(k)
    BY <1>4
  <2>2. Above(k) \subseteq Above(m)
    <3>1. ASSUME NEW j \in S, j >= k PROVE j >= m
      <4>1. k \in Nat /\ m \in Nat /\ j \in Nat /\ k > m
        BY <1>4
      <4> QED
        BY <3>1, <4>1
    <3> QED
      BY <3>1
  <2>3. Above(k) # Above(m) /\ Above(k) \in SUBSET S /\ Above(m) \in SUBSET S
    BY <2>1
  <2>4. <<Above(k), Above(m)>> \in StrictSubsetOrdering(S)
    BY <2>2, <2>3 DEF StrictSubsetOrdering
  <2> QED
    BY <2>4, <1>2, <1>3
<1>5. \A k \in S : m >= k
  BY <1>4
<1> QED
  BY <1>5 DEF Max

LEMMA LeftIs == \E m \in Nat : Left = 0 .. m /\ m >= Uncertain /\ \A r \in RetryAfter : r <= m
<1> DEFINE S == {Uncertain} \cup RetryAfter
<1>1. S \in SUBSET Nat /\ S # {} /\ IsFiniteSet(S)
  BY LaneBounds, FS_Singleton, FS_Union
<1> HIDE DEF S
<1>2. Max(S) \in S /\ \A k \in S : k <= Max(S)
  BY <1>1, GreatestOf
<1>3. Left = 0 .. Max(S)
  BY DEF Left, S
<1>4. Uncertain \in S /\ RetryAfter \subseteq S
  BY DEF S
<1> QED
  BY <1>1, <1>2, <1>3, <1>4

LEMMA FreshIs ==
    ASSUME CashTyped
    PROVE  FreshId \in Ids /\ FreshId # fetched
<1> DEFINE W == {worker[o].id : o \in Owners}
           F == {control.job.id, cadence.id, fetched} \cup W
           f == [o \in Owners |-> worker[o].id]
<1>1. IsFiniteSet(W) /\ Cardinality(W) <= Cardinality(Owners)
  <2>1. f \in Surjection(Owners, W)
    BY DEF Surjection
  <2> HIDE DEF f, W
  <2> QED
    BY <2>1, LaneBounds, FS_Surjection
<1> HIDE DEF W, f
<1>2. IsFiniteSet(F) /\ Cardinality(F) <= Cardinality(Owners) + 3
  <2>1. Cardinality(Owners) \in Nat /\ Cardinality(W) \in Nat
    BY <1>1, LaneBounds, FS_CardinalityType
  <2> DEFINE A == W \cup {control.job.id}
             B == A \cup {cadence.id}
  <2>2. ASSUME NEW S, NEW x, IsFiniteSet(S)
        PROVE  /\ IsFiniteSet(S \cup {x}) /\ Cardinality(S \cup {x}) \in Nat /\ Cardinality(S) \in Nat
               /\ Cardinality(S \cup {x}) <= Cardinality(S) + 1
    <3>1. Cardinality(S) \in Nat
      BY <2>2, FS_CardinalityType
    <3>2. /\ IsFiniteSet(S \cup {x})
          /\ Cardinality(S \cup {x}) = IF x \in S THEN Cardinality(S) ELSE Cardinality(S) + 1
      BY <2>2, FS_AddElement
    <3> QED
      BY ONLY <3>1, <3>2
  <2>3. IsFiniteSet(A) /\ Cardinality(A) \in Nat /\ Cardinality(A) <= Cardinality(W) + 1
    BY <1>1, <2>2
  <2> HIDE DEF A
  <2>4. IsFiniteSet(B) /\ Cardinality(B) \in Nat /\ Cardinality(B) <= Cardinality(A) + 1
    BY <2>2, <2>3
  <2> HIDE DEF B
  <2>5. IsFiniteSet(B \cup {fetched}) /\ Cardinality(B \cup {fetched}) \in Nat
        /\ Cardinality(B \cup {fetched}) <= Cardinality(B) + 1
    BY <2>2, <2>4
  <2>6. F = B \cup {fetched}
    BY DEF A, B
  <2> QED
    BY <1>1, <2>1, <2>3, <2>4, <2>5, <2>6
<1>3. FreshId = Min(Ids \ F)
  BY DEF FreshId, W
<1> HIDE DEF F
<1>4. ASSUME Ids \ F = {} PROVE FALSE
  <2>1. Ids \in SUBSET F
    BY <1>4
  <2>2. IsFiniteSet(Ids) /\ Cardinality(Ids) <= Cardinality(F)
    BY <2>1, <1>2, FS_Subset
  <2>3. Cardinality(Ids) \in Nat /\ Cardinality(F) \in Nat /\ Cardinality(Owners) \in Nat
    BY <2>2, <1>2, LaneBounds, FS_CardinalityType
  <2> QED
    BY <2>2, <2>3, <1>2, LaneBounds
<1>5. Ids \ F \in SUBSET Nat
  BY LaneBounds
<1>6. fetched \in F
  BY DEF F
<1> QED
  BY <1>3, <1>4, <1>5, <1>6, LeastOf

LEMMA Fields ==
    ASSUME CashTyped
    PROVE  /\ control.next \in Left /\ control.next \in Nat /\ control.job.age \in 0 .. Uncertain /\ control.job.age \in Nat
           /\ control.job \in Jobs \cup {NoJob} /\ control.owner \in Owners \cup {None} /\ quiet \in Nat
           /\ control.job.status \in Active \cup {"completed", "failed", "paused"} => control.job \in Jobs
           /\ \A o \in Owners : worker[o] \in CashThreads /\ worker[o].age \in 0 .. Uncertain /\ worker[o].age \in Nat
<1>1. PICK m \in Nat : Left = 0 .. m
  BY LeftIs
<1>2. NoJob.age = Uncertain /\ NoJob.status = "none"
  BY DEF NoJob
<1>3. \A j \in Jobs : j.age \in 0 .. Uncertain
  BY DEF Jobs
<1>4. control.next \in Left /\ control.job \in Jobs \cup {NoJob} /\ control.owner \in Owners \cup {None} /\ quiet \in Left
  BY DEF CashTyped, Controls
<1>5. control.job.age \in 0 .. Uncertain
  BY <1>2, <1>3, <1>4, LaneBounds
<1>6. \A o \in Owners : worker[o] \in CashThreads /\ worker[o].age \in 0 .. Uncertain
  BY DEF CashTyped, CashThreads
<1>7. control.job.status \in Active \cup {"completed", "failed", "paused"} => control.job \in Jobs
  BY <1>2, <1>4 DEF Active
<1> QED
  BY <1>1, <1>4, <1>5, <1>6, <1>7, LaneBounds

LEMMA OwnsIs ==
    ASSUME CashKept, NEW o \in Owners, worker[o].pc # "off"
    PROVE  /\ Owned(o) <=> control.owner = o
           /\ Owned(o) => /\ control.job.status \in Active /\ control.job \in Jobs /\ worker[o].age = control.job.age
                          /\ control.job.status = (IF worker[o].pc = "queued" THEN "queued" ELSE "fetching") /\ ~Lost
           /\ ~Owned(o) => worker[o].age = Uncertain
<1>1. ThreadTrue(worker[o], o)
  BY DEF CashKept
<1>2. CASE control.owner = o
  <2>1. Owned(o) /\ control.job.status \in {"queued", "fetching"} /\ worker[o].age = control.job.age
        /\ control.job.status = (IF worker[o].pc = "queued" THEN "queued" ELSE "fetching")
    BY <1>1, <1>2 DEF ThreadTrue, Owned
  <2> QED
    BY <1>2, <2>1, Fields DEF CashKept, Lost, Active
<1>3. CASE control.owner # o
  BY <1>1, <1>3 DEF ThreadTrue, Owned
<1> QED
  BY <1>2, <1>3

\* Nothing is out that the record does not tell of.
LEMMA AllSilent ==
    ASSUME CashKept, ~Running, EffectiveNext = 0
    PROVE  /\ quiet = 0 /\ control.next = 0
           /\ \A o \in Owners : worker[o].pc # "off" => worker[o].age = Uncertain
<1> DEFINE age == control.job.age
<1>1. Doubt(age) \in Nat /\ Doubt(age) = Uncertain - age /\ age \in Nat /\ age <= Uncertain /\ control.next \in Nat /\ quiet \in Nat
  BY DoubtIs, Fields, LaneBounds DEF CashKept
<1> HIDE DEF age
<1>2. CASE control.job.status \in Active
  <2>1. Interrupted
    BY <1>2 DEF Interrupted, Running
  <2>2. EffectiveNext = Max({control.next, Doubt(age)})
    BY <2>1 DEF EffectiveNext, age
  <2>3. control.next = 0 /\ Doubt(age) = 0
    BY <1>1, <2>2, Larger
  <2>4. age = Uncertain
    BY <1>1, <2>3, LaneBounds
  <2>5. \A o \in Owners : worker[o].pc # "off" => worker[o].age = Uncertain
    BY <2>4, OwnsIs DEF age
  <2>6. quiet = 0
    BY <1>1, <2>3, <2>4, LaneBounds DEF CashKept, SilenceKept, age
  <2> QED
    BY <2>3, <2>5, <2>6
<1>3. CASE control.job.status \notin Active
  <2>1. ~Interrupted /\ ~Lost
    BY <1>3 DEF Interrupted, Lost
  <2>2. control.next = 0
    BY <2>1 DEF EffectiveNext
  <2>3. quiet = 0
    BY <1>1, <2>1, <2>2 DEF CashKept, SilenceKept
  <2>4. \A o \in Owners : worker[o].pc # "off" => worker[o].age = Uncertain
    BY <1>3, OwnsIs
  <2> QED
    BY <2>2, <2>3, <2>4
<1> QED
  BY <1>2, <1>3

\* Admission: quiet before, and a record that its new worker follows.
LEMMA AdmittedKept ==
    ASSUME CashKept, NEW folio \in Folios, NEW id \in Ids, id # fetched, Admitted(folio, id),
           cadence' \in Cadences, cadence'.pc = "act" => cadence'.id \in Ids /\ cadence'.folio \in Folios,
           moves' \in 0 .. MaxMoves
    PROVE  CashKept'
<1> DEFINE job == [id |-> id, folio |-> folio, version |-> holdings[folio], status |-> "queued", age |-> 0,
                   received |-> FALSE]
           w == [pc |-> "queued", id |-> id, folio |-> folio, version |-> holdings[folio], age |-> 0]
<1>1. /\ ~Running /\ EffectiveNext = 0 /\ control' = [next |-> Admission, owner |-> self, job |-> job]
      /\ worker' = [worker EXCEPT ![self] = w] /\ quiet' = Max({quiet, Admission}) /\ UNCHANGED <<fetched, self, holdings>>
  BY DEF Admitted
<1>2. quiet = 0 /\ \A o \in Owners : worker[o].pc # "off" => worker[o].age = Uncertain
  BY <1>1, AllSilent
<1>3. holdings[folio] \in Versions /\ self \in Owners
  BY DEF CashKept, CashTyped
<1>4. job \in Jobs /\ w \in CashThreads
  BY <1>3, LaneBounds DEF Jobs, CashThreads, Statuses, Active
<1>5. job.status = "queued" /\ job.id = id /\ job.age = 0 /\ ~job.received /\ w.pc = "queued" /\ w.id = id /\ w.age = 0
  OBVIOUS
<1> HIDE DEF job, w
<1>6. Admission \in Left
  BY LeftIs, LaneBounds
<1>7. quiet' = Admission
  <2>1. Max({0, Admission}) = Admission
    BY LaneBounds, Larger
  <2> QED
    BY <1>1, <1>2, <2>1
<1>8. worker' \in [Owners -> CashThreads] /\ worker'[self] = w /\ \A o \in Owners \ {self} : worker'[o] = worker[o]
  BY <1>1, <1>3, <1>4 DEF CashKept, CashTyped
<1>9. control' \in Controls /\ control'.job = job /\ control'.owner = self /\ control'.next = Admission
  BY <1>1, <1>3, <1>4, <1>6 DEF Controls
<1>10. CashTyped'
  BY <1>1, <1>6, <1>7, <1>8, <1>9 DEF CashKept, CashTyped
<1>11. \A o \in Owners : ThreadTrue(worker[o], o)'
  BY <1>2, <1>5, <1>8, <1>9 DEF ThreadTrue
<1>12. SilenceKept'
  BY <1>7, <1>9, LaneBounds DEF SilenceKept
<1>13. control'.job.status = "queued" /\ control'.owner \in Owners
  BY <1>3, <1>5, <1>9
<1>14. CaptureIsOwn'
  BY <1>1, <1>5, <1>9 DEF CaptureIsOwn
<1> QED
  BY <1>10, <1>11, <1>12, <1>13, <1>14 DEF CashKept

LEMMA StartKept ==
    ASSUME CashKept, NEW folio \in Folios, Start(folio)
    PROVE  CashKept'
<1> DEFINE id == FreshId
<1>1. Costs /\ Admitted(folio, id) /\ UNCHANGED cadence
  BY DEF Start
<1>2. id \in Ids /\ id # fetched
  BY FreshIs DEF CashKept
<1> HIDE DEF id
<1>3. moves' \in 0 .. MaxMoves
  BY <1>1, LaneBounds DEF Costs, CashKept, CashTyped
<1> QED
  BY <1>1, <1>2, <1>3, AdmittedKept DEF CashKept, CashTyped

LEMMA CashResumeKept ==
    ASSUME CashKept, Resume
    PROVE  CashKept'
<1> DEFINE folio == control.job.folio
           id == control.job.id
<1>1. Costs /\ Admitted(folio, id) /\ UNCHANGED cadence /\ control.job # NoJob /\ control.job.status # "completed"
  BY DEF Resume
<1>2. id \in Ids /\ folio \in Folios
  BY <1>1, Fields DEF CashKept, Jobs
<1>4. id # fetched
  BY <1>1 DEF CashKept, CaptureIsOwn
<1> HIDE DEF id, folio
<1>3. moves' \in 0 .. MaxMoves
  BY <1>1, LaneBounds DEF Costs, CashKept, CashTyped
<1> QED
  BY <1>1, <1>2, <1>3, <1>4, AdmittedKept DEF CashKept, CashTyped

LEMMA StartFailsKept ==
    ASSUME CashKept, NEW folio \in Folios, StartFails(folio)
    PROVE  CashKept'
<1> DEFINE id == FreshId
           job == [id |-> id, folio |-> folio, version |-> holdings[folio], status |-> "failed", age |-> 0,
                   received |-> FALSE]
<1>1. /\ ~Running /\ EffectiveNext = 0 /\ control' = [next |-> Admission, owner |-> self, job |-> job] /\ Costs
      /\ UNCHANGED <<fetched, self, worker, cadence, holdings, quiet>>
  BY DEF StartFails
<1>2. quiet = 0 /\ \A o \in Owners : worker[o].pc # "off" => worker[o].age = Uncertain
  BY <1>1, AllSilent
<1>3. holdings[folio] \in Versions /\ self \in Owners /\ id \in Ids /\ id # fetched
  BY FreshIs DEF CashKept, CashTyped
<1> HIDE DEF id
<1>4. job \in Jobs /\ job.status = "failed" /\ job.id = id /\ ~job.received
  BY <1>3, LaneBounds DEF Jobs, Statuses, Active
<1> HIDE DEF job
<1>5. Admission \in Left
  BY LeftIs, LaneBounds
<1>6. control' \in Controls /\ control'.job = job /\ control'.owner = self /\ control'.next = Admission
  BY <1>1, <1>3, <1>4, <1>5 DEF Controls
<1>7. moves' \in 0 .. MaxMoves
  BY <1>1, LaneBounds DEF Costs, CashKept, CashTyped
<1>8. CashTyped'
  BY <1>1, <1>6, <1>7 DEF CashKept, CashTyped
<1>9. \A o \in Owners : ThreadTrue(worker[o], o)'
  BY <1>1, <1>2, <1>6 DEF ThreadTrue, Running
<1>10. SilenceKept'
  BY <1>1, <1>2, <1>6, LaneBounds DEF SilenceKept
<1>11. CaptureIsOwn'
  BY <1>1, <1>3, <1>4, <1>6 DEF CaptureIsOwn
<1> QED
  BY <1>1, <1>4, <1>6, <1>8, <1>9, <1>10, <1>11 DEF CashKept, Active

\* A worker ends: its place is empty, the others' are as they were.
LEMMA EndsFacts ==
    ASSUME CashTyped, NEW o \in Owners, Ends(o)
    PROVE  /\ worker' \in [Owners -> CashThreads] /\ worker'[o].pc = "off"
           /\ \A p \in Owners \ {o} : worker'[p] = worker[p]
<1>1. Idle \in CashThreads /\ Idle.pc = "off"
  BY LaneBounds DEF Idle, CashThreads
<1> QED
  BY <1>1 DEF Ends, CashTyped

\* The status of the record's job is written, and perhaps the next time.
LEMMA MarkedFacts ==
    ASSUME CashTyped, control.job \in Jobs, NEW status \in Statuses, NEW next \in Left
    PROVE  /\ Marked(status) \in Controls /\ Marked(status).owner = control.owner /\ Marked(status).next = control.next
           /\ Marked(status).job.status = status /\ Marked(status).job.age = control.job.age
           /\ Marked(status).job.id = control.job.id /\ Marked(status).job.folio = control.job.folio
           /\ Marked(status).job.received = control.job.received
           /\ LET c == [Marked(status) EXCEPT !.next = next]
              IN  /\ c \in Controls /\ c.owner = control.owner /\ c.next = next /\ c.job.status = status
                  /\ c.job.age = control.job.age /\ c.job.id = control.job.id /\ c.job.folio = control.job.folio
                  /\ c.job.received = control.job.received
<1> DEFINE job == [control.job EXCEPT !.status = status]
           c == [Marked(status) EXCEPT !.next = next]
<1>1. /\ job \in Jobs /\ job.status = status /\ job.age = control.job.age /\ job.id = control.job.id
      /\ job.folio = control.job.folio /\ job.received = control.job.received
  BY DEF Jobs
<1>2. control \in Controls /\ Marked(status) = [control EXCEPT !.job = job]
  BY DEF Marked, CashTyped, Controls
<1> HIDE DEF job
<1>3. Marked(status) \in Controls /\ Marked(status).owner = control.owner /\ Marked(status).next = control.next
      /\ Marked(status).job = job
  BY <1>1, <1>2 DEF Controls
<1>4. c \in Controls /\ c.owner = control.owner /\ c.next = next /\ c.job = job
  BY <1>3 DEF Controls
<1> QED
  BY <1>1, <1>3, <1>4

\* A job that received nothing still has received nothing, whatever becomes of it.
LEMMA SameCapture ==
    ASSUME CaptureIsOwn, control.job \in Jobs, control.job.status # "completed", control'.job.id = control.job.id,
           control'.job.received = control.job.received, fetched' = fetched
    PROVE  CaptureIsOwn'
<1>1. ~control.job.received /\ fetched # control.job.id
  <2>1. control.job # NoJob
    BY LaneBounds DEF Jobs, NoJob
  <2> QED
    BY <2>1 DEF CaptureIsOwn
<1> QED
  BY <1>1 DEF CaptureIsOwn

LEMMA MaxLeft ==
    ASSUME NEW a \in Left, NEW b \in Left
    PROVE  Max({a, b}) \in Left /\ a \in Nat /\ b \in Nat /\ Max({a, b}) = IF a >= b THEN a ELSE b
<1>1. a \in Nat /\ b \in Nat
  BY LeftIs
<1> QED
  BY <1>1, Larger

\* A worker that lost the record ends: it was out for an hour already.
LEMMA OtherEnds ==
    ASSUME CashKept, NEW o \in Owners, worker[o].pc # "off", ~Owned(o), Ends(o), CashTyped',
           UNCHANGED <<control, fetched, quiet, cadence>>
    PROVE  CashKept'
<1>1. control.owner # o
  BY OwnsIs
<1>2. worker'[o].pc = "off" /\ \A p \in Owners \ {o} : worker'[p] = worker[p]
  BY EndsFacts DEF CashKept
<1>3. \A p \in Owners : ThreadTrue(worker[p], p)'
  BY <1>2 DEF CashKept, ThreadTrue
<1>4. Lost => Lost'
  BY <1>1, <1>2 DEF Lost, CashKept
<1>5. SilenceKept'
  BY <1>4 DEF SilenceKept, CashKept
<1>6. CaptureIsOwn'
  BY DEF CashKept, CaptureIsOwn
<1> QED
  BY <1>3, <1>5, <1>6 DEF CashKept

\* The record's worker ends and says how.
LEMMA OwnEnds ==
    ASSUME CashKept, NEW o \in Owners, worker[o].pc # "off", Owned(o), Ends(o), CashTyped', UNCHANGED cadence,
           control'.owner = control.owner, control'.job.status \in Statuses \ Active,
           CaptureIsOwn',
           control'.next >= control.next, quiet' = quiet \/ quiet' <= control'.next
    PROVE  CashKept'
<1>1. control.owner = o /\ ~Lost
  BY OwnsIs
<1>2. worker'[o].pc = "off" /\ \A p \in Owners \ {o} : worker'[p] = worker[p]
  BY EndsFacts DEF CashKept
<1>3. \A p \in Owners : ThreadTrue(worker[p], p)'
  BY <1>1, <1>2 DEF CashKept, ThreadTrue
<1>4. control.next \in Nat /\ control'.next \in Nat /\ quiet \in Nat
  <2>1. PICK m \in Nat : Left = 0 .. m
    BY LeftIs
  <2> QED
    BY <2>1 DEF CashKept, CashTyped, Controls
<1>5. SilenceKept'
  BY <1>1, <1>4 DEF SilenceKept, CashKept
<1>6. control'.job.status \notin Active
  OBVIOUS
<1> QED
  BY <1>3, <1>5, <1>6 DEF CashKept

\* The worker ends, or the process it is in, and nothing is saved.
LEMMA LostEnds ==
    ASSUME CashKept, NEW o \in Owners, worker[o].pc # "off", Ends(o), CashTyped', UNCHANGED <<control, fetched, cadence>>,
           quiet' = Max({quiet, Doubt(worker[o].age)})
    PROVE  CashKept'
<1> DEFINE age == worker[o].age
           age0 == control.job.age
<1>1. Doubt(age) \in Nat /\ Doubt(age) = Uncertain - age /\ age \in Nat /\ age <= Uncertain /\ control.next \in Nat /\ quiet \in Nat
      /\ age0 \in Nat /\ age0 <= Uncertain
  BY DoubtIs, Fields, LaneBounds DEF CashKept
<1>2. quiet' = IF quiet >= Uncertain - age THEN quiet ELSE Uncertain - age
  BY <1>1, Larger
<1> HIDE DEF age, age0
<1>3. worker'[o].pc = "off" /\ \A p \in Owners \ {o} : worker'[p] = worker[p]
  BY EndsFacts DEF CashKept
<1>4. \A p \in Owners : ThreadTrue(worker[p], p)'
  BY <1>3 DEF CashKept, ThreadTrue
<1>5. SilenceKept'
  <2>1. CASE Owned(o)
    <3>1. control.owner = o /\ control.job.status \in Active /\ age = age0 /\ ~Lost
      BY <2>1, OwnsIs DEF age, age0
    <3>2. Lost'
      BY <3>1, <1>3 DEF Lost
    <3>3. quiet <= control.next
      BY <3>1 DEF CashKept, SilenceKept
    <3> QED
      BY <1>1, <1>2, <3>1, <3>2, <3>3 DEF SilenceKept, age0
  <2>2. CASE ~Owned(o)
    <3>1. control.owner # o /\ age = Uncertain
      BY <2>2, OwnsIs DEF age
    <3>2. Lost => Lost'
      BY <3>1, <1>3 DEF Lost, CashKept
    <3>3. quiet' = quiet
      BY <1>1, <1>2, <3>1, LaneBounds
    <3> QED
      BY <3>2, <3>3 DEF SilenceKept, CashKept
  <2> QED
    BY <2>1, <2>2
<1>6. CaptureIsOwn'
  BY DEF CashKept, CaptureIsOwn
<1> QED
  BY <1>4, <1>5, <1>6 DEF CashKept

LEMMA FailsKept ==
    ASSUME CashKept, NEW o \in Owners, worker[o].pc # "off", NEW status \in {"failed", "paused"},
           NEW retry \in {0} \cup RetryAfter, Fails(o, status, retry), UNCHANGED <<fetched, self, cadence, holdings>>
    PROVE  CashKept'
<1>1. Ends(o) /\ retry \in Left /\ 0 \in Left /\ control.next \in Left /\ quiet \in Left /\ status \in Statuses
  <2>1. PICK m \in Nat : Left = 0 .. m /\ \A r \in RetryAfter : r <= m
    BY LeftIs
  <2> QED
    BY <2>1, LaneBounds DEF Fails, CashKept, CashTyped, Controls, Statuses
<1>2. worker' \in [Owners -> CashThreads]
  BY <1>1, EndsFacts DEF CashKept
<1>3. CASE /\ Owned(o) /\ control' = [Marked(status) EXCEPT !.next = Max({@, retry})]
           /\ quiet' = Max({quiet, retry}) /\ UNCHANGED moves
  <2> DEFINE next == Max({control.next, retry})
  <2>1. next \in Left /\ control.next \in Nat /\ retry \in Nat /\ next = IF control.next >= retry THEN control.next ELSE retry
    BY <1>1, MaxLeft
  <2>2. quiet' \in Left /\ quiet \in Nat /\ quiet' = IF quiet >= retry THEN quiet ELSE retry
    BY <1>1, <1>3, MaxLeft
  <2>3. control.job \in Jobs
    BY <1>3, OwnsIs
  <2>4. Marked(status).next = control.next
    BY <1>1, <2>3, MarkedFacts DEF CashKept
  <2>5. control' = [Marked(status) EXCEPT !.next = next]
    BY <1>3, <2>4
  <2> HIDE DEF next
  <2>6. control' \in Controls /\ control'.owner = control.owner /\ control'.next = next /\ control'.job.status = status
        /\ control'.job.id = control.job.id /\ control'.job.received = control.job.received
    BY <1>1, <2>1, <2>3, <2>5, MarkedFacts DEF CashKept
  <2>7. CashTyped'
    BY <1>2, <1>3, <2>2, <2>6 DEF CashKept, CashTyped
  <2>8. control'.next >= control.next /\ (quiet' = quiet \/ quiet' <= control'.next)
    BY <2>1, <2>2, <2>6
  <2>9. control'.job.status \in Statuses \ Active
    BY <2>6 DEF Statuses, Active
  <2>10. control.job.status # "completed"
    BY <1>3, OwnsIs DEF Active
  <2>11. CaptureIsOwn'
    BY <2>3, <2>6, <2>10, SameCapture DEF CashKept
  <2> QED
    BY <1>1, <1>3, <2>6, <2>7, <2>8, <2>9, <2>11, OwnEnds
<1>4. CASE Owned(o) /\ Costs /\ UNCHANGED control /\ quiet' = Max({quiet, Doubt(control.job.age)})
  <2>1. worker[o].age = control.job.age
    BY <1>4, OwnsIs
  <2>2. Doubt(control.job.age) \in Left
    <3>1. Doubt(control.job.age) = Uncertain - control.job.age /\ Doubt(control.job.age) \in Nat
          /\ control.job.age \in Nat
      BY DoubtIs, Fields DEF CashKept
    <3> QED
      BY <3>1, LeftIs, LaneBounds
  <2>3. quiet' \in Left
    BY <1>1, <1>4, <2>2, MaxLeft
  <2>4. moves' \in 0 .. MaxMoves
    BY <1>4, LaneBounds DEF Costs, CashKept, CashTyped
  <2>5. CashTyped'
    BY <1>2, <1>4, <2>3, <2>4 DEF CashKept, CashTyped
  <2> QED
    BY <1>1, <1>4, <2>1, <2>5, LostEnds
<1>5. CASE ~Owned(o) /\ UNCHANGED <<control, quiet, moves>>
  <2>1. CashTyped'
    BY <1>2, <1>5 DEF CashKept, CashTyped
  <2> QED
    BY <1>1, <1>5, <2>1, OtherEnds
<1> QED
  BY <1>3, <1>4, <1>5 DEF Fails

LEMMA NothingKept ==
    ASSUME CashKept, NEW o \in Owners, Nothing(o)
    PROVE  CashKept'
<1>1. /\ worker[o].pc = "queued" /\ Owned(o) /\ control' = Marked("completed") /\ Ends(o)
      /\ UNCHANGED <<fetched, self, cadence, holdings, quiet, moves>>
  BY DEF Nothing
<1>2. control.job \in Jobs /\ "completed" \in Statuses \ Active
  BY <1>1, OwnsIs DEF Statuses, Active
<1> DEFINE status == "completed"
<1>3. status \in Statuses /\ control' = Marked(status)
  BY <1>1, <1>2
<1> HIDE DEF status
<1>4. control.next \in Left
  BY DEF CashKept, CashTyped, Controls
<1>5. control' \in Controls /\ control'.owner = control.owner /\ control'.next = control.next /\ control'.job.status = status
      /\ control'.job.id = control.job.id /\ control'.job.received = control.job.received
  BY <1>2, <1>3, <1>4, MarkedFacts DEF CashKept
<1>6. CashTyped'
  BY <1>1, <1>5, EndsFacts DEF CashKept, CashTyped
<1>7. control'.next >= control.next
  BY <1>5, Fields DEF CashKept
<1>8. control'.job.status \in Statuses \ Active
  BY <1>2, <1>5 DEF status
<1>9. control.job.status # "completed"
  BY <1>1, OwnsIs DEF Active
<1>10. CaptureIsOwn'
  BY <1>1, <1>2, <1>5, <1>9, SameCapture DEF CashKept
<1> QED
  BY <1>1, <1>5, <1>6, <1>7, <1>8, <1>10, OwnEnds

LEMMA GoesOnFacts ==
    ASSUME CashTyped, NEW o \in Owners, NEW pc \in {"wire", "publish"}, GoesOn(o, pc)
    PROVE  /\ worker' \in [Owners -> CashThreads] /\ worker'[o].pc = pc /\ worker'[o].id = worker[o].id
           /\ worker'[o].age = worker[o].age /\ \A p \in Owners \ {o} : worker'[p] = worker[p]
<1> DEFINE w == [worker[o] EXCEPT !.pc = pc]
<1>1. w \in CashThreads /\ w.pc = pc /\ w.id = worker[o].id /\ w.age = worker[o].age
  BY DEF CashTyped, CashThreads
<1>2. worker' = [worker EXCEPT ![o] = w]
  BY DEF GoesOn
<1> HIDE DEF w
<1> QED
  BY <1>1, <1>2 DEF CashTyped

LEMMA FetchKept ==
    ASSUME CashKept, NEW o \in Owners, Fetch(o)
    PROVE  CashKept'
<1>1. worker[o].pc = "queued" /\ UNCHANGED <<fetched, self, cadence, holdings, quiet, moves>>
  BY DEF Fetch
<1>2. CASE Owned(o) /\ control' = Marked("fetching") /\ GoesOn(o, "wire")
  <2> DEFINE status == "fetching"
             pc == "wire"
  <2>1. control' = Marked(status) /\ status \in Statuses /\ status \in Active /\ GoesOn(o, pc) /\ pc \in {"wire", "publish"}
    BY <1>2 DEF Statuses, Active
  <2>2. control.job \in Jobs /\ control.owner = o /\ ~Lost /\ ThreadTrue(worker[o], o) /\ control.next \in Left
    BY <1>1, <1>2, OwnsIs DEF CashKept, CashTyped, Controls
  <2> HIDE DEF status, pc
  <2>3. /\ control' \in Controls /\ control'.owner = control.owner /\ control'.next = control.next
        /\ control'.job.status = status /\ control'.job.age = control.job.age /\ control'.job.id = control.job.id
        /\ control'.job.received = control.job.received
    BY <2>1, <2>2, MarkedFacts DEF CashKept
  <2>4. /\ worker' \in [Owners -> CashThreads] /\ worker'[o].pc = pc /\ worker'[o].id = worker[o].id
        /\ worker'[o].age = worker[o].age /\ \A p \in Owners \ {o} : worker'[p] = worker[p]
    BY <2>1, GoesOnFacts DEF CashKept
  <2>5. CashTyped'
    BY <1>1, <2>3, <2>4 DEF CashKept, CashTyped
  <2>6. \A p \in Owners : ThreadTrue(worker[p], p)'
    <3>1. ThreadTrue(worker[o], o)'
      BY <1>1, <2>2, <2>3, <2>4 DEF ThreadTrue, status, pc
    <3>2. \A p \in Owners \ {o} : ThreadTrue(worker[p], p)'
      BY <2>2, <2>3, <2>4 DEF CashKept, ThreadTrue
    <3> QED
      BY <3>1, <3>2
  <2>7. SilenceKept'
    BY <1>1, <2>2, <2>3 DEF CashKept, SilenceKept
  <2>8. control.job.status # "completed"
    BY <1>1, <1>2, OwnsIs DEF Active
  <2>9. CaptureIsOwn'
    BY <1>1, <2>2, <2>3, <2>8, SameCapture DEF CashKept
  <2> QED
    BY <1>1, <2>2, <2>3, <2>5, <2>6, <2>7, <2>9 DEF CashKept, status
<1>3. CASE ~Owned(o) /\ Ends(o) /\ UNCHANGED control
  <2>1. CashTyped'
    BY <1>1, <1>3, EndsFacts DEF CashKept, CashTyped
  <2> QED
    BY <1>1, <1>3, <2>1, OtherEnds
<1> QED
  BY <1>2, <1>3 DEF Fetch

LEMMA FetchFailsKept ==
    ASSUME CashKept, NEW o \in Owners, FetchFails(o)
    PROVE  CashKept'
<1> DEFINE status == "failed"
           retry == 0
<1>1. worker[o].pc # "off" /\ Fails(o, status, retry) /\ UNCHANGED <<fetched, self, cadence, holdings>>
      /\ status \in {"failed", "paused"} /\ retry \in {0} \cup RetryAfter
  BY DEF FetchFails
<1> HIDE DEF status, retry
<1> QED
  BY <1>1, FailsKept

LEMMA AnswerKept ==
    ASSUME CashKept, NEW o \in Owners, Answer(o)
    PROVE  CashKept'
<1>1. worker[o].pc = "wire" /\ UNCHANGED <<fetched, self, cadence, holdings>>
  BY DEF Answer
<1>2. CASE GoesOn(o, "publish") /\ UNCHANGED <<control, quiet, moves>>
  <2> DEFINE pc == "publish"
  <2>1. GoesOn(o, pc) /\ pc \in {"wire", "publish"}
    BY <1>2
  <2> HIDE DEF pc
  <2>2. /\ worker' \in [Owners -> CashThreads] /\ worker'[o].pc = pc /\ worker'[o].id = worker[o].id
        /\ worker'[o].age = worker[o].age /\ \A p \in Owners \ {o} : worker'[p] = worker[p]
    BY <2>1, GoesOnFacts DEF CashKept
  <2>3. CashTyped'
    BY <1>1, <1>2, <2>2 DEF CashKept, CashTyped
  <2>4. \A p \in Owners : ThreadTrue(worker[p], p)'
    BY <1>1, <1>2, <2>2 DEF CashKept, ThreadTrue, pc
  <2>5. Lost => Lost'
    BY <1>1, <1>2, <2>2 DEF Lost, CashKept
  <2>6. SilenceKept'
    BY <1>2, <2>5 DEF CashKept, SilenceKept
  <2>7. CaptureIsOwn'
    BY <1>1, <1>2 DEF CashKept, CaptureIsOwn
  <2> QED
    BY <1>1, <1>2, <2>3, <2>4, <2>6, <2>7 DEF CashKept
<1>3. CASE Fails(o, "failed", 0) \/ \E retry \in RetryAfter : Fails(o, "paused", retry)
  <2>1. \E status \in {"failed", "paused"} : \E retry \in {0} \cup RetryAfter : Fails(o, status, retry)
    BY <1>3
  <2> QED
    BY <1>1, <2>1, FailsKept
<1> QED
  BY <1>2, <1>3 DEF Answer

LEMMA CashPublishKept ==
    ASSUME CashKept, NEW o \in Owners, Publish(o)
    PROVE  CashKept'
<1>1. worker[o].pc = "publish" /\ UNCHANGED <<self, cadence, holdings>>
  BY DEF Publish
<1>2. CASE /\ Owned(o) /\ control' = [Marked("completed") EXCEPT !.next = Max({@, Admission}), !.job.received = TRUE]
           /\ fetched' = worker[o].id /\ quiet' = Max({quiet, Admission}) /\ Ends(o) /\ UNCHANGED moves
  <2> DEFINE status == "completed"
             next == Max({control.next, Admission})
             c == [Marked(status) EXCEPT !.next = next]
             yes == TRUE
             job == [c.job EXCEPT !.received = yes]
  <2>1. status \in Statuses /\ status \notin Active
    BY DEF Statuses, Active
  <2>2. control.next \in Left /\ quiet \in Left /\ Admission \in Left
    BY LeftIs, LaneBounds DEF CashKept, CashTyped, Controls
  <2>3. next \in Left /\ control.next \in Nat /\ next = IF control.next >= Admission THEN control.next ELSE Admission
    BY <2>2, MaxLeft
  <2>4. quiet' \in Left /\ quiet \in Nat /\ quiet' = IF quiet >= Admission THEN quiet ELSE Admission
    BY <1>2, <2>2, MaxLeft
  <2>5. control.job \in Jobs /\ worker[o].id = control.job.id
    BY <1>1, <1>2, OwnsIs DEF Owned
  <2> HIDE DEF next
  <2>6. Marked(status).next = control.next
    BY <2>1, <2>2, <2>5, MarkedFacts DEF CashKept
  <2>7. control' = [c EXCEPT !.job.received = yes]
    BY <1>2, <2>6 DEF next
  <2> HIDE DEF status
  <2>12. /\ c \in Controls /\ c.owner = control.owner /\ c.next = next /\ c.job.status = status
         /\ c.job.id = control.job.id /\ c.job \in Jobs
    <3>1. /\ c \in Controls /\ c.owner = control.owner /\ c.next = next /\ c.job.status = status
          /\ c.job.id = control.job.id
      BY <2>1, <2>3, <2>5, MarkedFacts DEF CashKept
    <3>2. c.job.status # NoJob.status
      BY <3>1 DEF NoJob, status
    <3> HIDE DEF c
    <3> QED
      BY <3>1, <3>2 DEF Controls
  <2>13. yes \in BOOLEAN /\ yes
    OBVIOUS
  <2> HIDE DEF c, yes
  <2>14. job \in Jobs /\ job.status = status /\ job.id = control.job.id /\ job.received = yes
    BY <2>12, <2>13 DEF Jobs
  <2>15. control' = [c EXCEPT !.job = job]
    BY <2>7, <2>12 DEF Controls
  <2> HIDE DEF job
  <2>8. /\ control' \in Controls /\ control'.owner = control.owner /\ control'.next = next /\ control'.job.status = status
        /\ control'.job.id = control.job.id /\ control'.job \in Jobs /\ control'.job.received
    BY <2>12, <2>13, <2>14, <2>15 DEF Controls
  <2>9. fetched' = control'.job.id /\ fetched' \in Ids
    BY <1>2, <2>5, <2>8 DEF Jobs
  <2>16. CaptureIsOwn'
    <3>1. control'.job # NoJob
      BY <2>8, LaneBounds DEF Jobs, NoJob
    <3> QED
      BY <2>8, <2>9, <3>1 DEF CaptureIsOwn, status
  <2>10. CashTyped'
    BY <1>1, <1>2, <2>4, <2>8, <2>9, EndsFacts DEF CashKept, CashTyped
  <2>11. control'.next >= control.next /\ (quiet' = quiet \/ quiet' <= control'.next)
    BY <2>3, <2>4, <2>8, LaneBounds
  <2> QED
    BY <1>1, <1>2, <2>1, <2>8, <2>10, <2>11, <2>16, OwnEnds
<1>3. CASE Fails(o, "failed", 0) /\ UNCHANGED fetched
  <2>1. \E status \in {"failed", "paused"} : \E retry \in {0} \cup RetryAfter : Fails(o, status, retry)
    BY <1>3
  <2> QED
    BY <1>1, <1>3, <2>1, FailsKept
<1> QED
  BY <1>2, <1>3 DEF Publish

\* A step of the cadence alone, or of what is around the lane.
LEMMA AroundKept ==
    ASSUME CashKept, UNCHANGED <<control, fetched, worker, quiet>>, self' \in Owners, cadence' \in Cadences,
           cadence'.pc = "act" => cadence'.id \in Ids /\ cadence'.folio \in Folios,
           holdings' \in [Folios -> Versions], moves' \in 0 .. MaxMoves
    PROVE  CashKept'
<1>1. CashTyped'
  BY DEF CashKept, CashTyped
<1>2. (\A o \in Owners : ThreadTrue(worker[o], o)') /\ SilenceKept' /\ CaptureIsOwn'
  BY DEF CashKept, ThreadTrue, SilenceKept, Lost, CaptureIsOwn
<1> QED
  BY <1>1, <1>2 DEF CashKept

LEMMA CadenceKept ==
    ASSUME CashKept, Poll \/ ActFails \/ (\E folio \in Folios : Import(folio)) \/ Restart
    PROVE  CashKept'
<1>1. CashTyped /\ None \in Ids \cup {None} /\ None \in Folios \cup {None} /\ 1 \in 0 .. Admission /\ Admission \in 0 .. Admission
  BY LaneBounds DEF CashKept
<1>2. CASE Poll
  <2>1. control.job \in Jobs /\ UNCHANGED <<control, fetched, self, worker, holdings, quiet, moves>>
        /\ cadence' = [pc |-> "act", id |-> control.job.id, folio |-> control.job.folio, next |-> Admission]
    BY <1>1, <1>2, Fields DEF Poll
  <2>2. cadence' \in Cadences /\ cadence'.id \in Ids /\ cadence'.folio \in Folios
    BY <1>1, <2>1 DEF Cadences, Jobs
  <2> QED
    BY <1>1, <2>1, <2>2, AroundKept DEF CashTyped
<1>3. CASE ActFails
  <2>1. /\ UNCHANGED <<control, fetched, self, worker, holdings, quiet>> /\ moves' \in 0 .. MaxMoves
        /\ cadence' = [pc |-> "wait", id |-> None, folio |-> None, next |-> 1]
    BY <1>1, <1>3, LaneBounds DEF ActFails, Costs, CashTyped
  <2>2. cadence' \in Cadences /\ cadence'.pc = "wait"
    BY <1>1, <2>1 DEF Cadences
  <2> QED
    BY <1>1, <2>1, <2>2, AroundKept DEF CashTyped
<1>4. CASE \E folio \in Folios : Import(folio)
  <2>1. UNCHANGED <<control, fetched, self, worker, cadence, quiet>> /\ moves' \in 0 .. MaxMoves
    BY <1>1, <1>4, LaneBounds DEF Import, Costs, CashTyped
  <2>2. holdings' \in [Folios -> Versions]
    BY <1>1, <1>4 DEF Import, CashTyped
  <2> QED
    BY <1>1, <2>1, <2>2, AroundKept DEF CashTyped, CashKept
<1>5. CASE Restart
  <2>1. /\ UNCHANGED <<control, fetched, worker, holdings, quiet>> /\ moves' \in 0 .. MaxMoves /\ self' \in Owners
        /\ cadence' = [pc |-> "wait", id |-> None, folio |-> None, next |-> 1]
    BY <1>1, <1>5, LaneBounds DEF Restart, Costs, CashTyped
  <2>2. cadence' \in Cadences /\ cadence'.pc = "wait"
    BY <1>1, <2>1 DEF Cadences
  <2> QED
    BY <1>1, <2>1, <2>2, AroundKept DEF CashTyped
<1> QED
  BY <1>2, <1>3, <1>4, <1>5

LEMMA ActKept ==
    ASSUME CashKept, Act
    PROVE  CashKept'
<1>1. /\ cadence.pc = "act" /\ cadence' = [cadence EXCEPT !.pc = "wait", !.id = None, !.folio = None] /\ UNCHANGED moves
  BY DEF Act
<1>2. cadence' \in Cadences /\ cadence'.pc = "wait"
  <2> DEFINE c == [cadence EXCEPT !.pc = "wait", !.id = None]
  <2>1. c \in Cadences /\ c.pc = "wait"
    BY DEF CashKept, CashTyped, Cadences
  <2>2. cadence' = [c EXCEPT !.folio = None]
    BY <1>1 DEF CashKept, CashTyped, Cadences
  <2> HIDE DEF c
  <2> QED
    BY <2>1, <2>2 DEF Cadences
<1>3. CASE Unswitched /\ Admitted(cadence.folio, FreshId)
  <2> DEFINE folio == cadence.folio
             id == FreshId
  <2>1. folio \in Folios /\ id \in Ids /\ id # fetched /\ Admitted(folio, id)
    BY <1>1, <1>3, FreshIs DEF CashKept
  <2> HIDE DEF folio, id
  <2> QED
    BY <1>1, <1>2, <2>1, AdmittedKept DEF CashKept, CashTyped
<1>4. CASE UNCHANGED <<control, fetched, self, worker, holdings, quiet>>
  BY <1>1, <1>2, <1>4, AroundKept DEF CashKept, CashTyped
<1> QED
  BY <1>3, <1>4 DEF Act

LEMMA DiesKept ==
    ASSUME CashKept, NEW o \in Owners, Dies(o)
    PROVE  CashKept'
<1>1. /\ worker[o].pc # "off" /\ Ends(o) /\ quiet' = Max({quiet, Doubt(worker[o].age)})
      /\ UNCHANGED <<control, fetched, self, cadence, holdings, moves>>
  BY DEF Dies
<1>2. Doubt(worker[o].age) \in Left
  <2>1. worker[o].age \in 0 .. Uncertain /\ worker[o].age \in Nat
    BY Fields DEF CashKept
  <2>2. Doubt(worker[o].age) = Uncertain - worker[o].age /\ Doubt(worker[o].age) \in Nat
    BY <2>1, DoubtIs
  <2> QED
    BY <2>1, <2>2, LeftIs, LaneBounds
<1>3. quiet' \in Left
  BY <1>1, <1>2, MaxLeft DEF CashKept, CashTyped
<1>4. CashTyped'
  BY <1>1, <1>3, EndsFacts DEF CashKept, CashTyped
<1> QED
  BY <1>1, <1>4, LostEnds

LEMMA OlderIs ==
    ASSUME NEW age \in 0 .. Uncertain
    PROVE  /\ Min({age + 1, Uncertain}) \in 0 .. Uncertain
           /\ Min({age + 1, Uncertain}) = IF age = Uncertain THEN Uncertain ELSE age + 1
<1>1. age \in Nat /\ age + 1 \in Nat /\ age <= Uncertain /\ Uncertain \in Nat
  BY LaneBounds
<1> DEFINE n == age + 1
<1>2. n \in Nat
  BY <1>1
<1> HIDE DEF n
<1>3. Min({n, Uncertain}) = IF n <= Uncertain THEN n ELSE Uncertain
  BY <1>1, <1>2, Smaller
<1> QED
  BY <1>1, <1>3 DEF n

LEMMA TickKept ==
    ASSUME CashKept, Tick
    PROVE  CashKept'
<1> DEFINE age == Min({control.job.age + 1, Uncertain})
           next == Down(control.next)
           job == [control.job EXCEPT !.age = age]
           aged(o) == Min({worker[o].age + 1, Uncertain})
<1>1. /\ control' = [control EXCEPT !.next = Down(@), !.job.age = Min({@ + 1, Uncertain})]
      /\ worker' = [o \in Owners |-> IF worker[o].pc = "off" THEN Idle
                                     ELSE [worker[o] EXCEPT !.age = Min({@ + 1, Uncertain})]]
      /\ cadence' = [cadence EXCEPT !.next = Down(@)] /\ quiet' = Down(quiet)
      /\ UNCHANGED <<fetched, self, holdings, moves>>
  BY DEF Tick
<1>2. CashTyped
  BY DEF CashKept
<1>3. age \in 0 .. Uncertain /\ age = (IF control.job.age = Uncertain THEN Uncertain ELSE control.job.age + 1)
  BY <1>2, Fields, OlderIs
<1>4. \A o \in Owners : aged(o) \in 0 .. Uncertain /\ aged(o) = (IF worker[o].age = Uncertain THEN Uncertain ELSE worker[o].age + 1)
  BY <1>2, Fields, OlderIs
<1> HIDE DEF age, aged
<1>5. /\ job \in Jobs \cup {NoJob} /\ job.age = age /\ job.id = control.job.id /\ job.status = control.job.status
      /\ job.received = control.job.received /\ (job = NoJob <=> control.job = NoJob)
  <2>1. CASE control.job = NoJob
    <3>1. control.job.age = Uncertain /\ age = Uncertain
      BY <1>3, <2>1 DEF NoJob
    <3>2. job = NoJob
      BY <2>1, <3>1 DEF NoJob
    <3> QED
      BY <2>1, <3>1, <3>2
  <2>2. CASE control.job \in Jobs
    <3>1. job \in Jobs /\ job.age = age /\ job.id = control.job.id /\ job.status = control.job.status
          /\ job.received = control.job.received
      BY <1>3, <2>2 DEF Jobs
    <3>2. NoJob \notin Jobs
      BY LaneBounds DEF Jobs, NoJob
    <3> QED
      BY <2>2, <3>1, <3>2
  <2> QED
    BY <1>2, <2>1, <2>2, Fields
<1>6. next \in Left /\ quiet' \in Left /\ next \in Nat /\ quiet' \in Nat /\ control.next \in Nat /\ quiet \in Nat
      /\ next = (IF control.next > 0 THEN control.next - 1 ELSE 0) /\ quiet' = (IF quiet > 0 THEN quiet - 1 ELSE 0)
  <2>1. PICK m \in Nat : Left = 0 .. m
    BY LeftIs
  <2>2. control.next \in 0 .. m /\ quiet \in 0 .. m
    BY <1>2, <2>1 DEF CashTyped, Controls
  <2> QED
    BY <1>1, <2>1, <2>2 DEF Down
<1>7. control' \in Controls /\ control'.next = next /\ control'.job = job /\ control'.owner = control.owner
  <2> DEFINE c == [control EXCEPT !.next = next]
  <2> HIDE DEF next, job
  <2>1. c \in Controls /\ c.owner = control.owner /\ c.job = control.job /\ c.next = next
    BY <1>2, <1>6 DEF CashTyped, Controls
  <2>2. control' = [c EXCEPT !.job = job]
    BY <1>1, <1>2 DEF CashTyped, Controls, next, job, age
  <2> HIDE DEF c
  <2> QED
    BY <1>5, <2>1, <2>2 DEF Controls
<1>8. /\ worker' \in [Owners -> CashThreads]
      /\ \A o \in Owners : /\ worker'[o].pc = worker[o].pc
                           /\ worker[o].pc # "off" => worker'[o].id = worker[o].id /\ worker'[o].age = aged(o)
  <2>1. Idle \in CashThreads /\ Idle.pc = "off"
    BY LaneBounds DEF Idle, CashThreads
  <2>2. \A o \in Owners : LET w == [worker[o] EXCEPT !.age = aged(o)]
                          IN  w \in CashThreads /\ w.pc = worker[o].pc /\ w.id = worker[o].id /\ w.age = aged(o)
    BY <1>2, <1>4 DEF CashTyped, CashThreads
  <2>3. worker' = [o \in Owners |-> IF worker[o].pc = "off" THEN Idle ELSE [worker[o] EXCEPT !.age = aged(o)]]
    BY <1>1 DEF aged
  <2> QED
    BY <2>1, <2>2, <2>3
<1>9. cadence' \in Cadences /\ cadence'.pc = cadence.pc /\ cadence'.id = cadence.id /\ cadence'.folio = cadence.folio
  <2>1. cadence.next \in 0 .. Admission
    BY <1>2 DEF CashTyped, Cadences
  <2>2. Down(cadence.next) \in 0 .. Admission
    BY <2>1, LaneBounds DEF Down
  <2> QED
    BY <1>1, <1>2, <2>2 DEF CashTyped, Cadences
<1> HIDE DEF next, job
<1>10. CashTyped'
  BY <1>1, <1>2, <1>6, <1>7, <1>8, <1>9 DEF CashTyped
<1>11. \A o \in Owners : ThreadTrue(worker[o], o)'
  BY <1>3, <1>4, <1>5, <1>7, <1>8 DEF CashKept, ThreadTrue
<1>12. SilenceKept'
  <2>1. CASE quiet <= control.next
    BY <1>6, <1>7, <2>1 DEF SilenceKept
  <2>2. CASE Lost /\ quiet <= Uncertain - control.job.age
    <3>1. Lost'
      BY <1>5, <1>7, <1>8, <2>2 DEF Lost, CashKept
    <3>2. control.job.age \in Nat /\ Uncertain \in Nat /\ control.job.age <= Uncertain
      BY <1>2, Fields, LaneBounds
    <3>3. quiet' <= Uncertain - age
      BY <1>3, <1>6, <2>2, <3>2
    <3> QED
      BY <1>5, <1>7, <3>1, <3>3 DEF SilenceKept
  <2> QED
    BY <2>1, <2>2 DEF CashKept, SilenceKept
<1>13. CaptureIsOwn'
  BY <1>1, <1>5, <1>7 DEF CashKept, CaptureIsOwn
<1> QED
  BY <1>1, <1>5, <1>7, <1>9, <1>10, <1>11, <1>12, <1>13 DEF CashKept

LEMMA CashStarts ==
    ASSUME Init
    PROVE  CashKept
<1>1. /\ control = [next |-> 0, owner |-> None, job |-> NoJob] /\ fetched = None /\ self = Min(Owners)
      /\ worker = [o \in Owners |-> Idle] /\ cadence = [pc |-> "wait", id |-> None, folio |-> None, next |-> 0]
      /\ holdings \in [Folios -> {CHOOSE v \in Versions : TRUE}] /\ quiet = 0 /\ moves = 0
  BY DEF Init
<1>2. self \in Owners /\ 0 \in Left /\ 0 \in 0 .. Admission /\ 0 \in 0 .. MaxMoves
  BY <1>1, LeastOf, LeftIs, LaneBounds
<1>3. holdings \in [Folios -> Versions]
  BY <1>1, LaneBounds
<1>4. Idle \in CashThreads /\ Idle.pc = "off"
  BY LaneBounds DEF Idle, CashThreads
<1>5. control \in Controls /\ cadence \in Cadences
  BY <1>1, <1>2 DEF Controls, Cadences
<1>6. CashTyped
  BY <1>1, <1>2, <1>3, <1>4, <1>5 DEF CashTyped
<1>7. control.job.status = "none" /\ cadence.pc = "wait"
  BY <1>1 DEF NoJob
<1>8. \A o \in Owners : ThreadTrue(worker[o], o)
  BY <1>1, <1>4 DEF ThreadTrue
<1>9. SilenceKept
  BY <1>1 DEF SilenceKept
<1>10. CaptureIsOwn
  BY <1>1 DEF CaptureIsOwn, NoJob
<1> QED
  BY <1>6, <1>7, <1>8, <1>9, <1>10 DEF CashKept, Active

LEMMA CashGoes ==
    ASSUME CashKept, [Next]_vars
    PROVE  CashKept'
<1>1. CASE \E folio \in Folios : Start(folio) \/ StartFails(folio) \/ Import(folio)
  BY <1>1, StartKept, StartFailsKept, CadenceKept
<1>2. CASE Resume \/ Restart \/ Tick
  BY <1>2, CashResumeKept, CadenceKept, TickKept
<1>3. CASE \E o \in Owners : WorkerStep(o) \/ Dies(o)
  BY <1>3, NothingKept, FetchKept, FetchFailsKept, AnswerKept, CashPublishKept, DiesKept DEF WorkerStep
<1>4. CASE CadenceStep \/ ActFails
  BY <1>4, CadenceKept, ActKept DEF CadenceStep
<1>5. CASE UNCHANGED vars
  BY <1>5, AroundKept DEF vars, CashKept, CashTyped
<1> QED
  BY <1>1, <1>2, <1>3, <1>4, <1>5 DEF Next

LEMMA CashStays == Spec => []CashKept
BY CashStarts, CashGoes, PTL DEF Spec

LEMMA CashTells ==
    ASSUME CashKept
    PROVE  CashInv
<1>1. TypeOK
  <2>1. CashTyped /\ control.job \in Jobs \cup {NoJob}
    BY Fields DEF CashKept
  <2>2. control.next \in Left /\ control.owner \in Owners \cup {None} /\ fetched \in Ids \cup {None} /\ self \in Owners
        /\ quiet \in Left /\ moves \in 0 .. MaxMoves /\ holdings \in [Folios -> Versions]
    BY <2>1 DEF CashTyped, Controls
  <2>3. control.job = NoJob \/ /\ control.job.id \in Ids /\ control.job.folio \in Folios
                               /\ control.job.version \in Versions /\ control.job.status \in Statuses
                               /\ control.job.age \in 0 .. Uncertain /\ control.job.received \in BOOLEAN
    BY <2>1 DEF Jobs
  <2>4. \A o \in Owners : worker[o].pc \in {"off", "queued", "wire", "publish"}
    BY <2>1 DEF CashTyped, CashThreads
  <2>5. cadence.pc \in {"wait", "act"} /\ cadence.id \in Ids \cup {None} /\ cadence.next \in 0 .. Admission
    BY <2>1 DEF CashTyped, Cadences
  <2> QED
    BY <2>2, <2>3, <2>4, <2>5 DEF TypeOK
<1>2. \A o \in Owners : worker[o].pc \in {"wire", "publish"} /\ Owned(o) => control.job.status = "fetching"
  BY OwnsIs
<1> QED
  BY <1>1, <1>2 DEF CashInv, CashKept

\* The saved job has received a capture exactly if the last successful fetch is
\* its own, and the saved record follows the worker that owns it, for any number
\* of instances whose workers run on after a restart (CompactCash._owned, _run).
THEOREM CashHolds == Spec => []CashInv
BY CashStays, CashTells, PTL

LEMMA AdmitsOne ==
    ASSUME CashKept, [Next]_vars, NEW o \in Owners, Admits(o)
    PROVE  \E folio, id : Admitted(folio, id)
<1>1. CASE \E folio \in Folios : Start(folio) \/ StartFails(folio) \/ Import(folio)
  BY <1>1 DEF Start, StartFails, Import, Admits
<1>2. CASE Resume \/ Restart \/ Tick
  <2>1. CASE Resume
    BY <2>1 DEF Resume
  <2>2. CASE Restart
    BY <2>2 DEF Restart, Admits
  <2>3. CASE Tick
    <3>1. worker' = [p \in Owners |-> IF worker[p].pc = "off" THEN Idle
                                      ELSE [worker[p] EXCEPT !.age = Min({@ + 1, Uncertain})]]
      BY <2>3 DEF Tick
    <3> QED
      BY <3>1 DEF Admits, Idle
  <2> QED
    BY <1>2, <2>1, <2>2, <2>3
<1>3. CASE \E p \in Owners : WorkerStep(p) \/ Dies(p)
  <2>1. PICK p \in Owners : WorkerStep(p) \/ Dies(p)
    BY <1>3
  <2>2. worker[p].pc # "off" /\ (Ends(p) \/ GoesOn(p, "wire") \/ GoesOn(p, "publish"))
    BY <2>1 DEF WorkerStep, Dies, Nothing, Fetch, FetchFails, Answer, Publish, Fails
  <2>3. p # o
    BY <2>2 DEF Admits
  <2>4. worker'[o] = worker[o]
    BY <2>2, <2>3 DEF Ends, GoesOn, CashKept, CashTyped
  <2> QED
    BY <2>4 DEF Admits
<1>4. CASE CadenceStep \/ ActFails
  BY <1>4 DEF CadenceStep, Poll, Act, ActFails, Admits
<1>5. CASE UNCHANGED vars
  BY <1>5 DEF vars, Admits
<1> QED
  BY <1>1, <1>2, <1>3, <1>4, <1>5 DEF Next

LEMMA CadenceRepeats ==
    ASSUME CashKept, [Next]_vars, cadence.pc = "act", cadence'.pc = "wait", control'.job.id # control.job.id
    PROVE  control'.job.folio = control.job.folio
<1>1. CASE \E folio \in Folios : Start(folio) \/ StartFails(folio) \/ Import(folio)
  BY <1>1 DEF Start, StartFails, Import
<1>2. CASE Resume \/ Restart
  BY <1>2 DEF Resume, Restart
<1>3. CASE Tick
  <2>1. cadence' = [cadence EXCEPT !.next = Down(@)]
    BY <1>3 DEF Tick
  <2> QED
    BY <2>1 DEF CashKept, CashTyped, Cadences
<1>4. CASE \E p \in Owners : WorkerStep(p) \/ Dies(p)
  BY <1>4 DEF WorkerStep, Dies, Nothing, Fetch, FetchFails, Answer, Publish, Fails
<1>5. CASE Act
  <2>1. Unswitched /\ Admitted(cadence.folio, FreshId)
    BY <1>5 DEF Act
  <2>2. control.job.folio = cadence.folio
    BY <2>1 DEF Unswitched
  <2>3. control'.job.folio = cadence.folio
    BY <2>1 DEF Admitted
  <2> QED
    BY <2>2, <2>3
<1>6. CASE Poll \/ ActFails
  BY <1>6 DEF Poll, ActFails
<1>7. CASE UNCHANGED vars
  BY <1>7 DEF vars
<1> QED
  BY <1>1, <1>2, <1>3, <1>4, <1>5, <1>6, <1>7 DEF Next, CadenceStep

\* A request is admitted only after the silence that the one before it demands:
\* its interval, its 429, an hour if its outcome was lost or its worker may
\* still be at it; and the cadence repeats the portfolio that was asked for
\* last (action, _effective, _retry_deadline, CashCadence.tick).
THEOREM CashStepsHold == Spec => CashSteps
<1>1. CashKept /\ [Next]_vars => [CashStep]_vars
  <2>1. ASSUME CashKept, [Next]_vars PROVE CashStep
    <3>1. \A o \in Owners : Admits(o) =>
             quiet = 0 /\ \A p \in Owners : worker[p].pc # "off" => worker[p].age = Uncertain
      BY <2>1, AdmitsOne, AllSilent DEF Admitted
    <3> QED
      BY <2>1, <3>1, CadenceRepeats DEF CashStep
  <2> QED
    BY <2>1
<1>2. Spec => [][CashStep]_vars
  BY <1>1, CashStays, PTL DEF Spec
<1> QED
  BY <1>2 DEF CashSteps
=============================================================================
