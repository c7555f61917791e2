-------------------------- MODULE CatalogMigration --------------------------
(***************************************************************************)
(* The additive migration to the catalog registry: catalog_migrate.py,     *)
(* catalog_migration_guard.py and the batches of catalog_store.py.  A run  *)
(* commits batches - catalog rows, price streams, then the verification of *)
(* both - while the server keeps writing; every batch has a receipt in the *)
(* database and one beside it, written as pending before the commit and as *)
(* committed after it.  A run may end anywhere and another one resume.     *)
(*                                                                         *)
(* Modelled is the current-only mode over one catalog table and one price  *)
(* table, a key to a batch.  A batch is one transaction and holds the      *)
(* writer's lock, so it takes effect at its commit.                        *)
(***************************************************************************)
EXTENDS Integers, Sequences, FiniteSets, FiniteSetsExt

CONSTANTS
    Keys,                 \* names of catalog rows and of price streams
    Versions,             \* contents of a catalog row, 1 the first
    Runs,                 \* invocations of the migration
    None,
    MaxReceipts,          \* candidates ever prepared
    MaxMoves              \* writes of the server, runs that end within a batch

MigrationAssumption ==
    /\ Keys \subseteq Nat \ {0} /\ IsFiniteSet(Keys)
    /\ 1 \in Versions /\ MaxReceipts \in Nat /\ MaxMoves \in Nat
    /\ None \notin Versions \cup Keys \cup Runs /\ None \notin {"listing", "reference"}

VARIABLES
    names, rows,          \* what the catalog table says of each key; the keys of the price table
    db,                   \* registry, progress, receipts and the counters of the proof
    files,                \* receipts beside the database
    run, trans,           \* what each run does; the transaction of the one that holds the lock
    made,                 \* candidates so far
    steady,               \* history: keys of names and of rows that did not change since the pass began
    moves

vars == <<names, rows, db, files, run, trans, made, steady, moves>>

Ids == 1 .. MaxReceipts
Meta == 1
Register == 2
VerifyMeta == 3
Verify == 4
Complete == 5
NoTrans == [run |-> None, id |-> 0, fresh |-> FALSE, db |-> None]

TypeOK ==
    /\ names \in [Keys -> Versions \cup {None}] /\ rows \subseteq Keys
    /\ db.chain \in Seq(Ids) /\ db.stage \in Meta .. Complete /\ db.cursor \in Keys \cup {0}
    /\ db.restart \cup db.done \subseteq {Meta, Register}
    /\ db.meta \in [Keys -> Versions \cup {None}] /\ db.listing \subseteq Keys
    /\ db.owner \in [Keys -> {"listing", "reference", None}]
    /\ {db.enrolled, db.taken, db.stable, db.moved, db.touched} \subseteq BOOLEAN /\ db.items \subseteq Keys
    /\ files.pending \cup files.committed \subseteq Ids
    /\ run \in [Runs -> [pc : {"off", "pending", "commit", "next"}, no : 0 .. MaxReceipts]]
    /\ trans.run \in Runs \cup {None} /\ made \in 0 .. MaxReceipts /\ moves \in 0 .. MaxMoves

Init ==
    /\ names \in [Keys -> {1, None}] /\ rows \in SUBSET Keys
    /\ db = [chain |-> <<>>, stage |-> Meta, cursor |-> 0, restart |-> {Register}, done |-> {},
             meta |-> [k \in Keys |-> None], listing |-> {}, owner |-> [k \in Keys |-> None],
             enrolled |-> FALSE, taken |-> FALSE, stable |-> FALSE, moved |-> FALSE,
             items |-> {}, touched |-> FALSE]
    /\ files = [pending |-> {}, committed |-> {}]
    /\ run = [p \in Runs |-> [pc |-> "off", no |-> 0]]
    /\ trans = NoTrans /\ made = 0 /\ moves = 0
    /\ steady = [names |-> {}, rows |-> {}]

Named == {k \in Keys : names[k] # None}
HeadOf(chain) == chain[Len(chain)]
OnFile(id) == id \in files.pending \cup files.committed

(* What the operator asks of a run, before its first batch.                *)

Reverify(d) == [d EXCEPT !.stage = VerifyMeta, !.cursor = 0, !.taken = FALSE, !.stable = FALSE, !.moved = FALSE]
NewPass_Continued(d) == [Reverify(d) EXCEPT !.stage = Meta, !.restart = {Register}]
NewPass(d) == [Reverify(d) EXCEPT !.stage = Meta, !.restart = {Meta, Register}]
Enrol(d) == IF d.stage >= VerifyMeta THEN [Reverify(d) EXCEPT !.enrolled = TRUE] ELSE [d EXCEPT !.enrolled = TRUE]
Planned(option, d) ==
    CASE option = "resume" -> d
      [] option = "reverify" -> Reverify(d)
      [] option = "pass" -> NewPass(d)
      [] option = "enrol" -> Enrol(d)
MayAsk(option, d) ==
    /\ option \in {"reverify", "pass"} => d.stage >= VerifyMeta
    /\ option = "enrol" => ~d.enrolled

(* The batches.                                                            *)

Rest(S, cursor) == {k \in S : k > cursor}
\* The row or stream the batch reads, if any is left.
Page(S, cursor) == IF Rest(S, cursor) = {} THEN {} ELSE {Min(Rest(S, cursor))}
\* Progress after a batch of its stage; the batch's own items come on top.
Went(d, page, done) ==
    [d EXCEPT !.items = {}, !.touched = FALSE, !.cursor = IF done \/ page = {} THEN 0 ELSE Max(page),
              !.stage = IF done THEN @ + 1 ELSE @,
              !.restart = @ \ {d.stage},
              !.done = IF d.stage \in {Meta, Register} THEN (@ \ {d.stage}) \cup (IF done THEN {d.stage} ELSE {}) ELSE @]

\* A pass that is complete and not to be restarted is not walked again.
Walked(d) == d.stage \in d.done /\ d.cursor = 0 /\ d.stage \notin d.restart

MetaBatch(d) ==
    IF Walked(d) THEN Went(d, {}, TRUE)
    ELSE LET page == Page(Named, d.cursor) IN
         [Went(d, page, Cardinality(Rest(Named, d.cursor)) <= 1) EXCEPT !.items = page,
            !.meta = [k \in Keys |-> IF k \in page THEN names[k] ELSE @[k]],
            !.listing = @ \cup page, !.moved = d.moved \/ page # {}]

\* An exact listing adopts a stream that nobody owns; else a reference is made for it.
Owner(d, k) == IF d.owner[k] # None THEN d.owner[k] ELSE IF k \in d.listing THEN "listing" ELSE "reference"
RegisterBatch(d) ==
    IF Walked(d) THEN Went(d, {}, TRUE)
    ELSE LET page == Page(rows, d.cursor) IN
         [Went(d, page, page = {}) EXCEPT !.items = {k \in page : Owner(d, k) = "listing"},
            !.owner = [k \in Keys |-> IF k \in page THEN Owner(d, k) ELSE @[k]],
            !.moved = d.moved \/ \E k \in page : d.owner[k] = None]

\* The counters when verification began are those now.
Stable(d) == d.enrolled /\ (~d.taken \/ (d.stable /\ ~d.moved))
Witnessed(d) == [d EXCEPT !.taken = d.enrolled, !.stable = Stable(d), !.moved = d.enrolled /\ d.taken /\ @]
\* A page that lacks parity fails the batch.
Parity(d) ==
    IF d.stage = VerifyMeta THEN \A k \in Page(Named, d.cursor) : d.meta[k] = names[k]
    ELSE \A k \in Page(rows, d.cursor) : d.owner[k] # None
VerifyBatch(d) ==
    IF d.stage = VerifyMeta
      THEN Witnessed(Went(d, Page(Named, d.cursor), Cardinality(Rest(Named, d.cursor)) <= 1))
      ELSE Witnessed(Went(d, Page(rows, d.cursor), Page(rows, d.cursor) = {}))

Batch(d) ==
    CASE d.stage = Meta -> MetaBatch(d)
      [] d.stage = Register -> RegisterBatch(d)
      [] OTHER -> VerifyBatch(d)

(* apply_batches.                                                          *)

\* The transaction up to its commit: the candidate's pending receipt is on file before.
Filed(id) == [files EXCEPT !.pending = @ \cup {id}]
Prepare(p, d, fresh, promoted) ==
    /\ trans = NoTrans /\ made < MaxReceipts
    /\ d.stage < Complete /\ (d.stage >= VerifyMeta => Parity(d))
    /\ made' = made + 1
    /\ trans' = [run |-> p, id |-> made', fresh |-> fresh,
                 db |-> [Batch(d) EXCEPT !.chain = Append(@, made')]]
    /\ run' = [run EXCEPT ![p] = [pc |-> "pending", no |-> Len(d.chain) + 1]]
    /\ files' = [Filed(made') EXCEPT !.committed = @ \cup promoted]
    /\ UNCHANGED <<names, rows, db, steady, moves>>

\* A run starts from the receipt the operator kept, which is the head and on file, if the items of
\* its batch are still as it left them; the head's committed receipt is made up for if it is missing.
Begin(p, option) ==
    /\ run[p].pc = "off" /\ MayAsk(option, db)
    /\ db.chain # <<>> => OnFile(HeadOf(db.chain)) /\ ~db.touched
    /\ Prepare(p, Planned(option, db), option = "pass" \/ db.chain = <<>>,
               IF db.chain = <<>> THEN {} ELSE {HeadOf(db.chain)})

\* Later batches go on from what the run remembers: a receipt of that number must not be there yet.
Continue(p) == run[p].pc = "next" /\ run[p].no = Len(db.chain) /\ Prepare(p, db, FALSE, {})

Commit(p) ==
    /\ trans.run = p
    /\ db' = trans.db
    /\ steady' = IF trans.fresh THEN [names |-> Named, rows |-> rows] ELSE steady
    /\ trans' = NoTrans
    /\ run' = [run EXCEPT ![p].pc = "commit"]
    /\ UNCHANGED <<names, rows, files, made, moves>>

FileCommitted(p) ==
    /\ run[p].pc = "commit"
    /\ files' = [files EXCEPT !.committed = @ \cup {db.chain[run[p].no]}]
    /\ run' = [run EXCEPT ![p].pc = "next"]
    /\ UNCHANGED <<names, rows, db, trans, made, steady, moves>>

\* Out of budget, refused, killed, or done: what was not committed is rolled back.
End(p) ==
    /\ run[p].pc # "off"
    /\ run' = [run EXCEPT ![p] = [pc |-> "off", no |-> 0]]
    /\ trans' = IF trans.run = p THEN NoTrans ELSE trans
    /\ moves < MaxMoves \/ run[p].pc = "next"
    /\ moves' = IF run[p].pc = "next" THEN moves ELSE moves + 1
    /\ UNCHANGED <<names, rows, db, files, made, steady>>

\* A pending receipt is promoted on the evidence of the database only.
Promotable_OnFile(id) == id \in files.pending
Promotable(id) == id \in files.pending /\ \E i \in DOMAIN db.chain : db.chain[i] = id
Reconcile(id) ==
    /\ Promotable(id)
    /\ files' = [files EXCEPT !.committed = @ \cup {id}]
    /\ UNCHANGED <<names, rows, db, run, trans, made, steady, moves>>

(* The server writes when no batch holds the lock; triggers count it.      *)

\* The registry takes writes from the first batch on; one to an item of the head's batch is found on resuming.
Counted(d) == [d EXCEPT !.moved = @ \/ (d.enrolled /\ d.taken)]
Touched(d, k) == [Counted(d) EXCEPT !.touched = @ \/ k \in d.items]
ServerName(k, v) ==
    /\ trans = NoTrans /\ moves < MaxMoves /\ names[k] # v
    /\ names' = [names EXCEPT ![k] = v]
    /\ \/ db' = Counted(db)
       \/ /\ v # None /\ db.chain # <<>>
          /\ db' = [Touched(db, k) EXCEPT !.meta[k] = v, !.listing = @ \cup {k}]
    /\ steady' = [steady EXCEPT !.names = @ \ {k}]
    /\ moves' = moves + 1
    /\ UNCHANGED <<rows, files, run, trans, made>>
ServerRow(k) ==
    /\ trans = NoTrans /\ moves < MaxMoves
    /\ rows' = IF k \in rows THEN rows \ {k} ELSE rows \cup {k}
    /\ \/ db' = Counted(db)
       \/ k \notin rows /\ k \in db.listing /\ db.owner[k] = None
          /\ db' = [Touched(db, k) EXCEPT !.owner[k] = "listing"]
    /\ steady' = [steady EXCEPT !.rows = @ \ {k}]
    /\ moves' = moves + 1
    /\ UNCHANGED <<names, files, run, trans, made>>

Next ==
    \/ \E p \in Runs : \/ \E option \in {"resume", "reverify", "pass", "enrol"} : Begin(p, option)
                       \/ Continue(p) \/ Commit(p) \/ FileCommitted(p) \/ End(p)
    \/ \E id \in Ids : Reconcile(id)
    \/ \E k \in Keys : ServerRow(k) \/ (\E v \in Versions \cup {None} : ServerName(k, v))

Spec == Init /\ [][Next]_vars

----------------------------------------------------------------------------
(* MigrationInv: however the runs end and overlap, every batch of the      *)
(* database has a receipt beside it, a receipt says committed only of a    *)
(* batch that is, and only the latest may still lack that: no run loses    *)
(* the chain a later one resumes from (write_external_receipt,             *)
(* apply_batches, load_checkpoint, reconcile_pending_receipt).             *)
MigrationInv ==
    /\ TypeOK
    /\ \A i \in DOMAIN db.chain :
         /\ OnFile(db.chain[i])
         /\ i < Len(db.chain) => db.chain[i] \in files.committed
    /\ files.committed \subseteq {db.chain[i] : i \in DOMAIN db.chain}

\* current_readiness: snapshotComplete.
Coherent == db.stage = Complete /\ db.taken /\ db.stable /\ ~db.moved

(* ReportsTrue: past its stages a pass has registered every row and stream *)
(* that stayed as it was since the pass began, and the report of a complete*)
(* snapshot holds of all of them, although the server went on writing      *)
(* (restart markers, proof counters, verify_current_batch).                *)
ReportsTrue ==
    /\ db.stage > Meta => \A k \in steady.names : db.meta[k] = names[k]
    /\ db.stage > Register => \A k \in steady.rows : db.owner[k] # None
    /\ Coherent => /\ \A k \in Named : db.meta[k] = names[k]
                   /\ \A k \in rows : db.owner[k] # None
=============================================================================
