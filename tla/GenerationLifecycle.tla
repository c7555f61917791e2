------------------------ MODULE GenerationLifecycle ------------------------
(***************************************************************************)
(* What becomes of sealed generations: the roles that protect a file, the  *)
(* reverse archives ("capsules") from which a removed generation can be    *)
(* rebuilt, the plan of what may be retired, its retirement under the      *)
(* writer lock, the recovery under a new identifier, and the readers that  *)
(* pin a file (generation_lifecycle.py, and pin_reader, release_unused and *)
(* close of generation_repository.py).  The publications that move the     *)
(* roles are those of DerivedGenerations, one step each here.              *)
(***************************************************************************)
EXTENDS Naturals, FiniteSets

CONSTANTS
    Gens,           \* generation identifiers, a set of numbers
    Readers,
    MaxGenerations, \* sealed files the directory may hold
    MaxMoves        \* bound: changes of the saved roles

BoundsAssumption ==
    Gens \subseteq Nat \ {0} /\ MaxGenerations \in Nat \ {0} /\ MaxMoves \in Nat

VARIABLES
    roles,     \* head, rollback and pending as saved, with their version
    files,     \* sealed generation files
    verified,  \* capsules <<source, target>> whose receipt says they reconstruct
    retired,   \* generations whose file a retirement removed
    archiver,  \* the capture under way
    operator,  \* the retirement or recovery under way
    writer,    \* TRUE while the retirement holds the main writer
    reader

vars == <<roles, files, verified, retired, archiver, operator, writer, reader>>
----------------------------------------------------------------------------
NoGen == 0
NoCapture == [at |-> "idle", edge |-> <<NoGen, NoGen>>]
NoOperation == [at |-> "idle", version |-> 0, items |-> {}, file |-> NoGen]
Outside == [at |-> "out", gen |-> NoGen]

Init ==
    /\ roles = [version |-> 0, head |-> NoGen, kind |-> "none", rollback |-> NoGen,
                previous |-> NoGen, pending |-> NoGen]
    /\ files = {} /\ verified = {} /\ retired = {}
    /\ archiver = NoCapture /\ operator = NoOperation /\ writer = FALSE
    /\ reader = [r \in Readers |-> Outside]

\* A new identifier never was one of a file: here the least free number.
Free == Gens \ (files \cup retired \cup {roles.pending, roles.head, roles.rollback}
                \cup operator.items)
Fresh == {g \in Free : \A h \in Free : g <= h}
Pinned == {reader[r].gen : r \in {q \in Readers : reader[q].at = "in"}}
CapturePins == IF archiver.at = "idle" THEN {} ELSE {archiver.edge[1]}
HeadServes == roles.kind \in {"active", "retained"}

\* The head (a disabled one keeps its previous head), the rollback, the pending
\* generation, the head's predecessor while there is no rollback, and every pin.
Protected ==
    ({roles.head, roles.rollback, roles.pending,
      IF HeadServes /\ roles.rollback = NoGen THEN roles.previous ELSE NoGen} \ {NoGen})
    \cup Pinned \cup CapturePins

\* Generations a rebuild may start from.
Roots == {roles.rollback, IF HeadServes THEN roles.head ELSE NoGen} \ {NoGen}

\* What chains of these capsules lead to from these generations.
Chain(edges, from) ==
    LET reach[n \in 0..Cardinality(edges)] ==
          IF n = 0 THEN from
          ELSE LET known == reach[n - 1]
               IN  known \cup {e[2] : e \in {d \in edges : d[1] \in known}}
    IN  reach[Cardinality(edges)]

\* Capsules with a receipt, verified or not.
Usable_Unverified ==
    verified \cup (IF archiver.at = "verify" THEN {archiver.edge} ELSE {})

\* The capsules that count in the rebuild graph.
Usable == verified

Rebuildable == Chain(Usable, Roots) \ Roots

----------------------------------------------------------------------------
(* Changes of the saved roles: each a transaction under the writer lock.   *)

Move(new) ==
    /\ ~writer /\ roles.version < MaxMoves
    /\ roles' = [new EXCEPT !.version = roles.version + 1]
    /\ UNCHANGED <<verified, retired, archiver, operator, writer, reader>>

\* A source write queues a new generation; the file of an older one stays.
Queue == /\ \E g \in Fresh : Move([roles EXCEPT !.pending = g])
         /\ UNCHANGED files

Room == Cardinality(files) < MaxGenerations

\* The pending generation is sealed (no role changes) ...
Seal ==
    /\ roles.pending # NoGen /\ roles.pending \notin files /\ Room
    /\ files' = files \cup {roles.pending}
    /\ UNCHANGED <<roles, verified, retired, archiver, operator, writer, reader>>

PreviousAfter == IF HeadServes THEN roles.head ELSE NoGen
RollbackAfter == IF roles.kind = "active" THEN roles.head ELSE roles.rollback

\* ... and becomes the head; the pending receipt keeps naming it.
Publish ==
    /\ roles.pending \in files /\ roles.pending # roles.head
    /\ Move([roles EXCEPT !.head = roles.pending, !.kind = "active",
                          !.rollback = RollbackAfter, !.previous = PreviousAfter])
    /\ UNCHANGED files

Deactivate == /\ HeadServes
              /\ Move([roles EXCEPT !.kind = "disabled", !.rollback = RollbackAfter])
              /\ UNCHANGED files

RestoreSaved == /\ \E g \in files : Move([roles EXCEPT !.head = g, !.kind = "retained",
                                                       !.rollback = RollbackAfter,
                                                       !.previous = PreviousAfter])
                /\ UNCHANGED files

----------------------------------------------------------------------------
(* The continuation worker archives one obsolete sealed file at a time.    *)

\* prepare_candidates: no capsule chain leads to the file yet.
Choose ==
    /\ archiver.at = "idle" /\ HeadServes
    /\ \E g \in files \ Protected :
         /\ g \notin Chain(Usable, Roots)
         /\ archiver' = [at |-> "write", edge |-> <<roles.head, g>>]
    /\ UNCHANGED <<roles, files, verified, retired, operator, writer, reader>>

\* The capsule and its receipt are written whole; a file gone meanwhile ends it.
Write ==
    /\ archiver.at = "write"
    /\ archiver' = IF {archiver.edge[1], archiver.edge[2]} \subseteq files
                   THEN [archiver EXCEPT !.at = "verify"] ELSE NoCapture
    /\ UNCHANGED <<roles, files, verified, retired, operator, writer, reader>>

\* Only a full reconstruction from the source makes it count.
Verify ==
    /\ archiver.at = "verify"
    /\ verified' = IF archiver.edge[1] \in files THEN verified \cup {archiver.edge} ELSE verified
    /\ archiver' = NoCapture
    /\ UNCHANGED <<roles, files, retired, operator, writer, reader>>

----------------------------------------------------------------------------
(* The operator plans, retires and recovers.                               *)

Eligible == (files \ Protected) \cap Rebuildable

Plan ==
    /\ operator.at = "idle" /\ Eligible # {}
    /\ operator' = [NoOperation EXCEPT !.at = "ticket", !.version = roles.version,
                                        !.items = Eligible]
    /\ UNCHANGED <<roles, files, verified, retired, archiver, writer, reader>>

\* retire plans again, streams every chain, takes the writer and compares roles.
Confirmed == roles.version = operator.version /\ operator.items \subseteq Eligible

Confirm ==
    /\ operator.at = "ticket"
    /\ IF Confirmed
       THEN writer' = TRUE /\ operator' = [operator EXCEPT !.at = "retire"]
       ELSE writer' = FALSE /\ operator' = NoOperation
    /\ UNCHANGED <<roles, files, verified, retired, archiver, reader>>

\* A receipt is written while no reader has the file ...
Receipt ==
    /\ operator.at = "retire"
    /\ \E g \in operator.items \cap files :
         operator' = IF g \in Protected THEN [operator EXCEPT !.at = "end"]
                     ELSE [operator EXCEPT !.at = "unlink", !.file = g]
    /\ UNCHANGED <<roles, files, verified, retired, archiver, writer, reader>>

Unpinned(g) == g \notin Pinned \cup CapturePins

\* ... and the pins are compared again with the removal.
Unlink ==
    /\ operator.at = "unlink"
    /\ IF Unpinned(operator.file)
       THEN /\ files' = files \ {operator.file} /\ retired' = retired \cup {operator.file}
            /\ operator' = [operator EXCEPT !.at = "retire", !.file = NoGen]
       ELSE operator' = [operator EXCEPT !.at = "end"] /\ UNCHANGED <<files, retired>>
    /\ UNCHANGED <<roles, verified, archiver, writer, reader>>

RetireEnds ==
    /\ writer
    /\ \/ operator.at = "end"
       \/ operator.at = "retire" /\ operator.items \cap files = {}
    /\ writer' = FALSE /\ operator' = NoOperation
    /\ UNCHANGED <<roles, files, verified, retired, archiver, reader>>

\* A retired generation is rebuilt under a new identifier ...
Recover ==
    /\ operator.at = "idle" /\ Room
    /\ \E g \in retired \cap Rebuildable, new \in Fresh :
         /\ files' = files \cup {new}
         /\ operator' = [NoOperation EXCEPT !.at = "capture", !.items = {g, new}]
    /\ UNCHANGED <<roles, verified, retired, archiver, writer, reader>>

\* ... and becomes a possible root of its own.
RecoverEnds ==
    /\ operator.at = "capture"
    /\ \E new \in operator.items \cap files, g \in operator.items \ files :
         verified' = verified \cup {<<new, g>>}
    /\ operator' = NoOperation
    /\ UNCHANGED <<roles, files, retired, archiver, writer, reader>>

----------------------------------------------------------------------------
(* Readers: the head of a snapshot, then the pin and the attached file.    *)

Select(r) ==
    /\ reader[r].at = "out" /\ HeadServes
    /\ reader' = [reader EXCEPT ![r] = [at |-> "selected", gen |-> roles.head]]
    /\ UNCHANGED <<roles, files, verified, retired, archiver, operator, writer>>

\* The file is pinned and attached, if it is still there.
Attach(r) ==
    /\ reader[r].at = "selected"
    /\ reader' = [reader EXCEPT ![r] = IF reader[r].gen \in files
                                       THEN [@ EXCEPT !.at = "in"] ELSE Outside]
    /\ UNCHANGED <<roles, files, verified, retired, archiver, operator, writer>>

Close(r) ==
    /\ reader[r].at = "in"
    /\ reader' = [reader EXCEPT ![r] = Outside]
    /\ UNCHANGED <<roles, files, verified, retired, archiver, operator, writer>>

\* The process ends; an open transaction is gone with it.
Crash ==
    /\ archiver' = NoCapture /\ operator' = NoOperation /\ writer' = FALSE
    /\ reader' = [r \in Readers |-> Outside]
    /\ UNCHANGED <<roles, files, verified, retired>>

Archive == Choose \/ Write \/ Verify

Next ==
    \/ Queue \/ Seal \/ Publish \/ Deactivate \/ RestoreSaved
    \/ Archive
    \/ Plan \/ Confirm \/ Receipt \/ Unlink \/ RetireEnds \/ Recover \/ RecoverEnds
    \/ \E r \in Readers : Select(r) \/ Attach(r) \/ Close(r)
    \/ Crash

Spec == Init /\ [][Next]_vars
----------------------------------------------------------------------------
TypeOK ==
    /\ roles.head \in Gens \cup {NoGen} /\ roles.rollback \in Gens \cup {NoGen}
    /\ files \subseteq Gens /\ retired \subseteq Gens
    /\ verified \subseteq Gens \X Gens

\* The files of the head, of the rollback and of every attached reader stay,
\* whatever plan an operator computed before they took those roles.
RolesKept ==
    /\ ({roles.head, roles.rollback} \ {NoGen}) \subseteq files
    /\ \A r \in Readers : reader[r].at = "in" => reader[r].gen \in files

\* A retirement loses nothing: a chain of verified capsules leads to every
\* retired generation from a file that is there, whatever was published,
\* rolled back or retired after it (Lifecycle.retire, "reversible").
Recoverable == retired \subseteq Chain(verified, files)

\* Lifecycle.retire and recover, pin_reader: files in use stay and retired ones
\* can be rebuilt.
LifecycleInv == TypeOK /\ RolesKept /\ Recoverable
=============================================================================
