--------------------------- MODULE IndexMigration ---------------------------
(***************************************************************************)
(* catalog_index_migrate.py: adds one index to the lookup table beside the *)
(* server.  A planning run reads the table and tells a hash of what it     *)
(* found; a run that applies takes the writer's lock, finds the same again *)
(* or refuses, and keeps a receipt outside the database: written before    *)
(* the index is created, again before the commit, and last with the        *)
(* outcome.  It may be interrupted after any statement, or die.            *)
(*                                                                         *)
(* An index is created within the transaction and appears at its commit.   *)
(***************************************************************************)
EXTENDS Integers

CONSTANTS
    Runs,         \* invocations with --apply
    Receipts,     \* receipt files an operator may name
    Shapes,       \* schema, other indexes and row bounds of the table, all that a plan is bound to
    None,
    MaxMoves      \* failures, deaths and writes of others

IndexAssumption == MaxMoves \in Nat /\ None \notin Runs \cup Shapes \cup {"exact", "other", "committed"}

VARIABLES
    shape, index,   \* the table, and what bears the index's name: None, "exact" or "other"
    lock,           \* the run whose transaction is open
    receipt,        \* the receipt files
    run,            \* an invocation, with the plan whose hash it is given
    made,           \* history: what the table was when a run's index was committed
    moves

vars == <<shape, index, lock, receipt, run, made, moves>>

Off == [pc |-> "off", plan |-> None, doc |-> None, written |-> FALSE, tried |-> FALSE,
        confirmed |-> FALSE, undone |-> FALSE, left |-> FALSE, status |-> "starting"]
NoFile == [run |-> None, status |-> None]

TypeOK ==
    /\ shape \in Shapes /\ index \in {None, "exact", "other"} /\ lock \in Runs \cup {None}
    /\ \A f \in Receipts : receipt[f].run \in Runs \cup {None}
    /\ moves \in 0 .. MaxMoves
    /\ made \in [Runs -> Shapes \cup {None}]
    /\ \A r \in Runs : run[r].pc \in {"off", "told", "lock", "check", "receipt", "create", "filed", "commit",
                                      "close", "record", "done", "dead"}

Init ==
    /\ shape \in Shapes /\ index \in {None, "exact", "other"} /\ lock = None
    /\ receipt = [f \in Receipts |-> NoFile]
    /\ run = [r \in Runs |-> Off] /\ made = [r \in Runs |-> None] /\ moves = 0

Move == moves < MaxMoves /\ moves' = moves + 1
At(r, pc) == run[r].pc = pc
Then(r, s) == run' = [run EXCEPT ![r] = s]
Free(f) == receipt[f] = NoFile

\* Without --apply: one read transaction; a name taken by something else is refused.
Plan(r, f) ==
    /\ At(r, "off") /\ Free(f) /\ index # "other"
    /\ Then(r, [Off EXCEPT !.pc = "told", !.plan = [receipt |-> f, shape |-> shape, index |-> index]])
    /\ UNCHANGED <<shape, index, lock, receipt, made, moves>>

\* qualify: an existing receipt is refused.
Begin(r) ==
    /\ At(r, "told") /\ Free(run[r].plan.receipt) /\ Then(r, [run[r] EXCEPT !.pc = "lock"])
    /\ UNCHANGED <<shape, index, lock, receipt, made, moves>>

\* An exception, with what the statement may have done already.
Failed(s) ==
    [s EXCEPT !.pc = "close",
              !.status = IF s.tried /\ ~s.confirmed THEN "commit_outcome_requires_inspection" ELSE "refused"]

\* Budgets, verification, the disk or the operator stop a run anywhere.
Refuse(r) ==
    /\ Move /\ run[r].pc \in {"lock", "check", "create", "filed", "commit"}
    /\ \E tried \in {FALSE, At(r, "commit")} : Then(r, Failed([run[r] EXCEPT !.tried = tried]))
    /\ UNCHANGED <<shape, index, lock, receipt, made>>

\* BEGIN IMMEDIATE does not wait.
Lock(r) ==
    /\ At(r, "lock")
    /\ IF lock = None THEN lock' = r /\ Then(r, [run[r] EXCEPT !.pc = "check"])
       ELSE lock' = lock /\ Then(r, Failed(run[r]))
    /\ UNCHANGED <<shape, index, receipt, made, moves>>

\* The plan made anew under the lock is the one that was expected.
Expected(plan) == index # "other" /\ plan.shape = shape /\ plan.index = index
Check(r) ==
    LET s == run[r] IN
    /\ At(r, "check")
    /\ IF ~Expected(s.plan) THEN lock' = lock /\ Then(r, Failed(s))
       ELSE IF index = "exact"
         THEN lock' = None /\ Then(r, [s EXCEPT !.pc = "close", !.status = "already_present_verified"])
       ELSE lock' = lock /\ Then(r, [s EXCEPT !.pc = "receipt", !.doc = "pending_before_ddl"])
    /\ UNCHANGED <<shape, index, receipt, made, moves>>

\* durable_receipt: a new one only where there is none, an update by way of a file
\* that stays when it fails and is in the way of the next.
Filed(r, status) == [receipt EXCEPT ![run[r].plan.receipt] = [run |-> r, status |-> status]]
File(r) ==
    LET s == run[r] IN
    /\ At(r, "receipt")
    /\ IF Free(s.plan.receipt)
         THEN \/ /\ receipt' = Filed(r, s.doc)
                 /\ Then(r, [s EXCEPT !.pc = "create", !.written = TRUE]) /\ UNCHANGED moves
              \/ /\ Move /\ receipt' \in {receipt, Filed(r, "partial"), Filed(r, s.doc)} /\ Then(r, Failed(s))
         ELSE Then(r, Failed(s)) /\ UNCHANGED <<receipt, moves>>
    /\ UNCHANGED <<shape, index, lock, made>>

Create(r) ==
    /\ At(r, "create") /\ Then(r, [run[r] EXCEPT !.pc = "filed", !.doc = "pending_commit"])
    /\ UNCHANGED <<shape, index, lock, receipt, made, moves>>

FilePending(r) ==
    LET s == run[r] IN
    /\ At(r, "filed")
    /\ \/ receipt' = Filed(r, s.doc) /\ Then(r, [s EXCEPT !.pc = "commit"]) /\ UNCHANGED moves
       \/ /\ Move /\ receipt' \in {receipt, Filed(r, s.doc)}
          /\ \E left \in BOOLEAN : Then(r, Failed([s EXCEPT !.left = left]))
    /\ UNCHANGED <<shape, index, lock, made>>

Committed(r) == index' = "exact" /\ lock' = None /\ made' = [made EXCEPT ![r] = shape]
\* The commit fails, or is done without the run's knowing, or before all of it is noted.
Commit(r) ==
    LET s == [run[r] EXCEPT !.tried = TRUE] IN
    /\ At(r, "commit")
    /\ \/ /\ Committed(r) /\ UNCHANGED moves
          /\ Then(r, [s EXCEPT !.pc = "close", !.confirmed = TRUE, !.status = "applied", !.doc = "committed"])
       \/ /\ Committed(r) /\ Move
          /\ \E confirmed \in BOOLEAN : Then(r, Failed([s EXCEPT !.confirmed = confirmed]))
       \/ /\ lock' = None /\ Move /\ Then(r, Failed(s)) /\ UNCHANGED <<index, made>>
    /\ UNCHANGED <<shape, receipt>>

\* The transaction still open is rolled back, and the connection closed.
RolledBack(s) == [s EXCEPT !.undone = TRUE, !.status = IF s.confirmed THEN @ ELSE "rolled_back"]
Unknown(s) == [s EXCEPT !.status = IF s.confirmed THEN @ ELSE "outcome_requires_inspection"]
Close(r) ==
    LET s == [run[r] EXCEPT !.pc = "record"] IN
    /\ At(r, "close")
    /\ \/ /\ lock' = (IF lock = r THEN None ELSE lock) /\ UNCHANGED moves
          /\ Then(r, IF lock = r THEN RolledBack(s) ELSE s)
       \/ /\ lock = r /\ Move /\ lock' \in {None, lock}
          /\ Then(r, [s EXCEPT !.status = "outcome_requires_inspection"])
       \/ /\ Move /\ lock' = (IF lock = r THEN None ELSE lock)
          /\ Then(r, Unknown(IF lock = r THEN RolledBack(s) ELSE s))
    /\ UNCHANGED <<shape, index, receipt, made>>

\* What the receipt says in the end.
Final_Unconfirmed(s) == IF s.confirmed THEN s.doc ELSE "rolled_back"
Final(s) == IF s.undone /\ ~s.confirmed THEN "rolled_back" ELSE s.doc
Unrecorded(s) == [s EXCEPT !.status = IF s.confirmed THEN "committed_receipt_update_failed"
                                      ELSE "receipt_update_failed_inspect_pending"]
\* The outcome is recorded and reported, and the process ends.
Record(r) ==
    LET s == [run[r] EXCEPT !.pc = "done"] IN
    /\ At(r, "record") /\ lock' = IF lock = r THEN None ELSE lock
    /\ \/ ~s.written /\ Then(r, s) /\ UNCHANGED <<receipt, moves>>
       \/ s.written /\ ~s.left /\ receipt' = Filed(r, Final(s)) /\ Then(r, s) /\ UNCHANGED moves
       \/ s.written /\ ~s.left /\ Move /\ receipt' \in {receipt, Filed(r, Final(s))} /\ Then(r, Unrecorded(s))
       \/ s.written /\ s.left /\ Then(r, Unrecorded(s)) /\ UNCHANGED <<receipt, moves>>
    /\ UNCHANGED <<shape, index, made>>

\* The process dies; the database forgets what was not committed.
Die(r) ==
    /\ Move /\ run[r].pc \notin {"off", "told", "done", "dead"} /\ Then(r, [run[r] EXCEPT !.pc = "dead"])
    /\ lock' = IF lock = r THEN None ELSE lock
    /\ UNCHANGED <<shape, index, receipt, made>>

\* The server's rows and schema, or an index of that name that is not the approved one.
Others ==
    /\ Move /\ lock = None
    /\ \/ shape' \in Shapes \ {shape} /\ index' = index
       \/ index = None /\ index' = "other" /\ shape' = shape
    /\ UNCHANGED <<lock, receipt, run, made>>

Next ==
    \/ \E r \in Runs : \/ \E f \in Receipts : Plan(r, f)
                       \/ Begin(r) \/ Refuse(r) \/ Lock(r) \/ Check(r) \/ File(r) \/ Create(r) \/ FilePending(r)
                       \/ Commit(r) \/ Close(r) \/ Record(r) \/ Die(r)
    \/ Others

Spec == Init /\ [][Next]_vars
----------------------------------------------------------------------------
(* Accounted: wherever a run failed, was interrupted or died, an index it  *)
(* committed has its receipt, which says that it is or may be there, and   *)
(* no receipt says committed of a run whose index is not there, or rolled  *)
(* back of one whose index is (durable_receipt before and after the commit)*)
Accounted ==
    /\ \A r \in Runs : made[r] # None =>
         receipt[run[r].plan.receipt] \in [run : {r}, status : {"pending_commit", "committed"}]
    /\ \A f \in Receipts : receipt[f].status = "committed" => made[receipt[f].run] # None

(* Reported: a report of success is of a commit; one of a rollback, or of  *)
(* a refusal without a confirmed commit, is of a run that changed nothing  *)
(* (the report's status in run).                                           *)
Reported ==
    \A r \in Runs : At(r, "done") =>
      /\ run[r].confirmed => made[r] # None
      /\ run[r].status \in {"applied", "committed_receipt_update_failed"} => made[r] # None
      /\ run[r].status = "rolled_back" => made[r] = None
      /\ run[r].status = "refused" /\ ~run[r].confirmed => made[r] = None

(* AsPlanned: whoever wrote between plan and commit, an index is committed *)
(* only on the table the expected plan was made of, and only one is.       *)
AsPlanned ==
    /\ \A r \in Runs : made[r] # None => made[r] = run[r].plan.shape /\ index = "exact"
    /\ \A r, s \in Runs : made[r] # None /\ made[s] # None => r = s

IndexInv == TypeOK /\ Accounted /\ Reported /\ AsPlanned
=============================================================================
