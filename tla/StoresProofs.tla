---------------------------- MODULE StoresProofs ----------------------------
(***************************************************************************)
(* What the server's stores keep, for any number of runs, receipts, keys,  *)
(* sources, syncs and generations: first the added index, then the registry *)
(* while it is migrated, then the rows of the market, and last the sealed  *)
(* generations and their capsules.                                         *)
(***************************************************************************)
EXTENDS MCStores, FiniteSetTheorems, WellFoundedInduction, TLAPS

-----------------------------------------------------------------------------
(* catalog_index_migrate.py.  A run that committed is told apart from every*)
(* other by its receipt: only the run that wrote a receipt touches it.     *)

Pcs == {"off", "told", "lock", "check", "receipt", "create", "filed", "commit",
        "close", "record", "done", "dead"}
Plans == [receipt : Papers, shape : Shapes, index : {None, "exact", "other"}]
Outcomes == {"partial", "pending_before_ddl", "pending_commit", "committed", "rolled_back"}
Reports == {"starting", "refused", "already_present_verified", "applied", "rolled_back",
            "commit_outcome_requires_inspection", "outcome_requires_inspection",
            "committed_receipt_update_failed", "receipt_update_failed_inspect_pending"}
Docs == {None, "pending_before_ddl", "pending_commit", "committed"}
IndexRuns == [pc : Pcs, plan : Plans \cup {None}, doc : Docs, written : BOOLEAN, tried : BOOLEAN,
              confirmed : BOOLEAN, undone : BOOLEAN, left : BOOLEAN, status : Reports]
IndexPapers == [run : Runs \cup {None}, status : Outcomes \cup {None}]

IndexTyped ==
    /\ shape \in Shapes /\ index \in {None, "exact", "other"} /\ holder \in Runs \cup {None}
    /\ applied \in [Runs -> IndexRuns] /\ papers \in [Papers -> IndexPapers]
    /\ created \in [Runs -> Shapes \cup {None}] /\ indexMoves \in 0 .. IndexMoves

Before == {"off", "told", "lock", "check", "receipt"}
Planned_At == {"receipt", "create", "filed", "commit"}
Holding == {"check"} \cup Planned_At

\* A run before it creates the index, one whose transaction is open, and one whose commit was done.
Fresh(r) ==
    applied[r].pc \in Before =>
        ~applied[r].written /\ ~applied[r].confirmed /\ ~applied[r].undone
        /\ created[r] = None /\ applied[r].status = "starting"
Open(r) ==
    /\ applied[r].pc \in Holding => holder = r
    /\ holder = r => applied[r].pc \in Holding \cup {"close", "record"} /\ created[r] = None
    /\ applied[r].pc \in Planned_At => shape = applied[r].plan.shape /\ index = None /\ ~applied[r].confirmed
    /\ applied[r].pc \in {"create", "filed", "commit"} => applied[r].written /\ ~applied[r].undone /\ created[r] = None
    /\ applied[r].pc = "receipt" => applied[r].doc = "pending_before_ddl"
    /\ applied[r].pc \in {"filed", "commit"} => applied[r].doc = "pending_commit"
    /\ applied[r].pc = "commit" => papers[applied[r].plan.receipt].status = "pending_commit"
Filing(r) ==
    /\ applied[r].pc # "off" => applied[r].plan \in Plans
    /\ applied[r].written => /\ applied[r].pc # "off" /\ papers[applied[r].plan.receipt].run = r
                             /\ applied[r].doc \in {"pending_before_ddl", "pending_commit", "committed"}
    /\ created[r] = None => /\ applied[r].doc # "committed" /\ ~applied[r].confirmed
                            /\ applied[r].status \notin {"applied", "committed_receipt_update_failed"}
Done(r) ==
    created[r] # None =>
        /\ applied[r].pc \in {"close", "record", "done", "dead"}
        /\ applied[r].written /\ ~applied[r].undone /\ applied[r].doc \in {"pending_commit", "committed"}
        /\ papers[applied[r].plan.receipt].status \in {"pending_commit", "committed"}
        /\ created[r] = applied[r].plan.shape /\ index = "exact"
        /\ applied[r].status # "rolled_back"
        /\ applied[r].status = "refused" => applied[r].confirmed
RunKept(r) == Fresh(r) /\ Open(r) /\ Filing(r) /\ Done(r)

PapersTrue ==
    \A f \in Papers : papers[f].status = "committed" => papers[f].run \in Runs /\ created[papers[f].run] # None
OneIndex == \A r, s \in Runs : created[r] # None /\ created[s] # None => r = s

IndexKept == IndexTyped /\ (\A r \in Runs : RunKept(r)) /\ PapersTrue /\ OneIndex

\* What a step of one run may do to what all of them share.
Writes(r, w) ==
    /\ applied[r].pc # "off" /\ (applied[r].written \/ papers[applied[r].plan.receipt] = Indexed!NoFile)
    /\ papers' = [papers EXCEPT ![applied[r].plan.receipt] = [run |-> r, status |-> w]]
    /\ w = "committed" => created'[r] # None
Commits(r) ==
    holder = r /\ index = None /\ index' = "exact" /\ created' = [created EXCEPT ![r] = shape]
Alone(r) ==
    /\ shape' = shape /\ applied' \in [Runs -> IndexRuns] /\ indexMoves' \in 0 .. IndexMoves
    /\ \A q \in Runs \ {r} : applied'[q] = applied[q]
    /\ holder' = holder \/ {holder, holder'} \subseteq {r, None}
    /\ papers' = papers \/ \E w \in Outcomes : Writes(r, w)
    /\ (created' = created /\ index' = index) \/ Commits(r)

USE StoresAssumption DEF StoresAssumption, Indexed!IndexAssumption

LEMMA NoneApart ==
    /\ None \notin Runs /\ None \notin Shapes
    /\ None # "exact" /\ None # "other" /\ None # "committed"
OBVIOUS

LEMMA OthersKept ==
    ASSUME IndexKept, NEW r \in Runs, Alone(r), NEW q \in Runs, q # r
    PROVE  RunKept(q)'
<1>0. RunKept(q) /\ applied'[q] = applied[q] /\ shape' = shape /\ r # None /\ q # None
  BY DEF IndexKept, Alone
<1>1. holder = q <=> holder' = q
  BY <1>0 DEF Alone
<1>2. applied[q].written => papers'[applied[q].plan.receipt] = papers[applied[q].plan.receipt]
  <2>1. CASE papers' = papers
    BY <2>1
  <2>2. ASSUME NEW w \in Outcomes, Writes(r, w), applied[q].written
        PROVE  papers'[applied[q].plan.receipt] = papers[applied[q].plan.receipt]
    <3>1. papers[applied[q].plan.receipt].run = q /\ applied[q].plan \in Plans /\ applied[r].plan \in Plans
      BY <2>2, <1>0 DEF IndexKept, RunKept, Filing, Writes
    <3>2. applied[q].plan.receipt # applied[r].plan.receipt
      BY <3>1, <2>2, <1>0 DEF Writes, Indexed!NoFile, IndexKept, RunKept, Filing
    <3> QED
      BY <3>1, <3>2, <2>2 DEF Writes, Plans, IndexKept, IndexTyped
  <2> QED
    BY <2>1, <2>2 DEF Alone
<1>3. created'[q] = created[q]
  BY DEF Alone, Commits, IndexKept, IndexTyped
<1>4. index' = index \/ (holder = r /\ index = None /\ created[q] = None)
  BY <1>0 DEF Alone, Commits, RunKept, Done
<1>5. applied[q].pc \in {"create", "filed", "commit"} => applied[q].written
  BY <1>0 DEF RunKept, Open
<1>6. Fresh(q)'
  BY <1>0, <1>3 DEF RunKept, Fresh
<1>7. Open(q)'
  BY <1>0, <1>1, <1>2, <1>3, <1>4, <1>5 DEF RunKept, Open, Holding, Planned_At
<1>8. Filing(q)' /\ Done(q)'
  BY <1>0, <1>2, <1>3, <1>4 DEF RunKept, Filing, Done
<1> QED
  BY <1>6, <1>7, <1>8 DEF RunKept

\* So only the run itself is left to look at.
LEMMA AloneKept ==
    ASSUME IndexKept, NEW r \in Runs, Alone(r), RunKept(r)'
    PROVE  IndexKept'
<1>0. r # None /\ IndexTyped
  BY DEF IndexKept
<1>1. IndexTyped'
  <2>1. papers' \in [Papers -> IndexPapers]
    <3>1. ASSUME NEW w \in Outcomes, Writes(r, w) PROVE papers' \in [Papers -> IndexPapers]
      <4>1. [run |-> r, status |-> w] \in IndexPapers
        BY DEF IndexPapers
      <4> QED
        BY <4>1, <3>1, <1>0 DEF Writes, IndexTyped
    <3> QED
      BY <3>1, <1>0 DEF Alone, IndexTyped
  <2>2. created' \in [Runs -> Shapes \cup {None}]
    BY <1>0 DEF Alone, Commits, IndexTyped
  <2> QED
    BY <2>1, <2>2, <1>0 DEF Alone, Commits, IndexTyped
<1>2. \A q \in Runs : RunKept(q)'
  BY OthersKept
<1>3. \A q \in Runs : created[q] # None => created'[q] # None
  BY <1>0 DEF Alone, Commits, IndexTyped
<1>4. PapersTrue'
  <2>1. CASE papers' = papers
    BY <2>1, <1>3 DEF IndexKept, PapersTrue
  <2>2. ASSUME NEW w \in Outcomes, Writes(r, w) PROVE PapersTrue'
    <3>1. applied[r].plan \in Plans
      BY <2>2 DEF Writes, IndexKept, RunKept, Filing
    <3>2. \A f \in Papers : papers'[f] = IF f = applied[r].plan.receipt THEN [run |-> r, status |-> w] ELSE papers[f]
      BY <2>2, <1>0 DEF Writes, IndexTyped
    <3> QED
      BY <3>2, <2>2, <1>3 DEF Writes, IndexKept, PapersTrue
  <2> QED
    BY <2>1, <2>2 DEF Alone
<1>5. OneIndex'
  <2>1. CASE created' = created
    BY <2>1 DEF IndexKept, OneIndex
  <2>2. CASE Commits(r)
    <3>1. \A q \in Runs : created[q] = None
      BY <2>2, NoneApart DEF Commits, IndexKept, RunKept, Done
    <3> QED
      BY <3>1, <2>2, <1>0 DEF Commits, OneIndex, IndexTyped
  <2> QED
    BY <2>1, <2>2 DEF Alone
<1> QED
  BY <1>1, <1>2, <1>4, <1>5 DEF IndexKept

\* A step that leaves the run in a new state of its own.
LEMMA ThenOne ==
    ASSUME IndexTyped, NEW r \in Runs, NEW t \in IndexRuns, Indexed!Then(r, t)
    PROVE  /\ applied' \in [Runs -> IndexRuns] /\ applied'[r] = t
           /\ \A q \in Runs \ {r} : applied'[q] = applied[q]
BY DEF IndexTyped, Indexed!Then

LEMMA MovesTyped ==
    ASSUME IndexTyped, indexMoves' = indexMoves \/ Indexed!Move
    PROVE  indexMoves' \in 0 .. IndexMoves
BY DEF IndexTyped, Indexed!Move

\* A failing run closes, and says whether the commit it tried is in doubt.
LEMMA FailedFields ==
    ASSUME NEW s \in IndexRuns
    PROVE  LET t == Indexed!Failed(s) IN
           /\ t \in IndexRuns /\ t.pc = "close" /\ t.plan = s.plan /\ t.doc = s.doc
           /\ t.written = s.written /\ t.confirmed = s.confirmed /\ t.undone = s.undone
           /\ t.status \in {"commit_outcome_requires_inspection", "refused"}
           /\ t.status = "refused" /\ s.tried => s.confirmed
BY DEF IndexRuns, Indexed!Failed, Pcs, Reports

LEMMA RunFacts ==
    ASSUME IndexKept, NEW r \in Runs
    PROVE  IndexTyped /\ RunKept(r) /\ applied[r] \in IndexRuns /\ r # None
BY DEF IndexKept, IndexTyped

\* A run that ends in another way than by its commit, with no index created.
LEMMA FailsKept ==
    ASSUME IndexKept, NEW r \in Runs, NEW t \in IndexRuns, t.plan = applied[r].plan,
           applied[r].pc # "off", created[r] = None, created' = created, index' = index,
           t.pc \in {"close", "record", "done", "dead"}, t.written = applied[r].written,
           t.doc = applied[r].doc, ~t.confirmed,
           t.status \notin {"applied", "committed_receipt_update_failed"},
           Indexed!Then(r, t), shape' = shape, papers' = papers, indexMoves' = indexMoves \/ Indexed!Move,
           holder' = holder \/ {holder, holder'} \subseteq {r, None},
           t.pc \in {"done", "dead"} => holder' # r
    PROVE  IndexKept'
<1>1. IndexTyped /\ RunKept(r)
  BY RunFacts
<1>2. applied' \in [Runs -> IndexRuns] /\ applied'[r] = t /\ \A q \in Runs \ {r} : applied'[q] = applied[q]
  BY <1>1, ThenOne
<1>3. Alone(r)
  BY <1>1, <1>2, MovesTyped DEF Alone
<1>4. RunKept(r)'
  BY <1>1, <1>2 DEF RunKept, Fresh, Open, Filing, Done, Before, Holding, Planned_At
<1> QED
  BY <1>3, <1>4, AloneKept

LEMMA PlanKept ==
    ASSUME IndexKept, NEW r \in Runs, NEW f \in Papers, Indexed!Plan(r, f)
    PROVE  IndexKept'
<1> DEFINE t == [Indexed!Off EXCEPT !.pc = "told", !.plan = [receipt |-> f, shape |-> shape, index |-> index]]
<1>1. IndexTyped /\ RunKept(r) /\ r # None /\ applied[r].pc = "off"
  BY RunFacts DEF Indexed!Plan, Indexed!At
<1>2. t.plan \in Plans
  BY <1>1 DEF Plans, IndexTyped, Indexed!Off
<1>3. /\ t \in IndexRuns /\ t.pc = "told" /\ ~t.written /\ ~t.confirmed /\ ~t.undone
      /\ t.status = "starting" /\ t.doc = None
  BY <1>2 DEF IndexRuns, Indexed!Off, Pcs, Docs, Reports
<1>4. Indexed!Then(r, t) /\ UNCHANGED <<shape, index, holder, papers, created, indexMoves>>
  BY DEF Indexed!Plan
<1> HIDE DEF t
<1>5. applied' \in [Runs -> IndexRuns] /\ applied'[r] = t /\ \A q \in Runs \ {r} : applied'[q] = applied[q]
  BY <1>1, <1>3, <1>4, ThenOne
<1>6. Alone(r)
  BY <1>1, <1>4, <1>5 DEF Alone, IndexTyped
<1>7. RunKept(r)'
  BY <1>1, <1>2, <1>3, <1>4, <1>5, NoneApart DEF RunKept, Fresh, Open, Filing, Done, Before, Holding, Planned_At
<1> QED
  BY <1>6, <1>7, AloneKept

LEMMA BeginKept ==
    ASSUME IndexKept, NEW r \in Runs, Indexed!Begin(r)
    PROVE  IndexKept'
<1> DEFINE t == [applied[r] EXCEPT !.pc = "lock"]
<1>1. IndexTyped /\ RunKept(r) /\ r # None /\ applied[r].pc = "told" /\ applied[r] \in IndexRuns
  BY RunFacts DEF Indexed!Begin, Indexed!At
<1>2. /\ t \in IndexRuns /\ t.pc = "lock" /\ t.written = applied[r].written /\ t.confirmed = applied[r].confirmed
      /\ t.undone = applied[r].undone /\ t.status = applied[r].status /\ t.doc = applied[r].doc
      /\ t.plan = applied[r].plan
  BY <1>1 DEF IndexRuns, Pcs
<1>3. Indexed!Then(r, t) /\ UNCHANGED <<shape, index, holder, papers, created, indexMoves>>
  BY DEF Indexed!Begin
<1> HIDE DEF t
<1>4. applied' \in [Runs -> IndexRuns] /\ applied'[r] = t /\ \A q \in Runs \ {r} : applied'[q] = applied[q]
  BY <1>1, <1>2, <1>3, ThenOne
<1>5. Alone(r)
  BY <1>1, <1>3, <1>4 DEF Alone, IndexTyped
<1>6. RunKept(r)'
  BY <1>1, <1>2, <1>3, <1>4 DEF RunKept, Fresh, Open, Filing, Done, Before, Holding, Planned_At
<1> QED
  BY <1>5, <1>6, AloneKept

LEMMA RefuseKept ==
    ASSUME IndexKept, NEW r \in Runs, Indexed!Refuse(r)
    PROVE  IndexKept'
<1>1. IndexTyped /\ RunKept(r) /\ r # None /\ applied[r] \in IndexRuns
  BY RunFacts
<1>2. /\ applied[r].pc \in {"lock", "check", "create", "filed", "commit"}
      /\ UNCHANGED <<shape, index, holder, papers, created>> /\ Indexed!Move
  BY DEF Indexed!Refuse
<1>3. PICK tried \in {FALSE, Indexed!At(r, "commit")} :
        Indexed!Then(r, Indexed!Failed([applied[r] EXCEPT !.tried = tried]))
  BY DEF Indexed!Refuse
<1> DEFINE s == [applied[r] EXCEPT !.tried = tried]
           t == Indexed!Failed(s)
<1>4. tried \in BOOLEAN
  BY <1>3 DEF Indexed!At
<1>5. s \in IndexRuns /\ s.plan = applied[r].plan /\ s.written = applied[r].written
      /\ s.confirmed = applied[r].confirmed /\ s.doc = applied[r].doc
  BY <1>1, <1>4 DEF IndexRuns
<1> HIDE DEF s
<1>6. /\ t \in IndexRuns /\ t.pc = "close" /\ t.plan = s.plan /\ t.doc = s.doc /\ t.written = s.written
      /\ t.confirmed = s.confirmed /\ t.status \in {"commit_outcome_requires_inspection", "refused"}
  BY <1>5, FailedFields
<1>7. Indexed!Then(r, t)
  BY <1>3 DEF s
<1> HIDE DEF t
<1>8. created[r] = None
  BY <1>1, <1>2 DEF RunKept, Done
<1>9. applied[r].doc # "committed" /\ ~applied[r].confirmed
  BY <1>1, <1>8 DEF RunKept, Filing
<1> QED
  BY <1>2, <1>5, <1>6, <1>7, <1>8, <1>9, FailsKept

LEMMA LockKept ==
    ASSUME IndexKept, NEW r \in Runs, Indexed!Lock(r)
    PROVE  IndexKept'
<1>1. IndexTyped /\ RunKept(r) /\ r # None /\ applied[r] \in IndexRuns /\ applied[r].pc = "lock"
  BY RunFacts DEF Indexed!Lock, Indexed!At
<1>2. UNCHANGED <<shape, index, papers, created, indexMoves>>
  BY DEF Indexed!Lock
<1>3. created[r] = None /\ applied[r].doc # "committed" /\ ~applied[r].confirmed
  BY <1>1 DEF RunKept, Done, Filing
<1>4. CASE holder = None
  <2> DEFINE t == [applied[r] EXCEPT !.pc = "check"]
  <2>1. /\ t \in IndexRuns /\ t.pc = "check" /\ t.written = applied[r].written /\ t.undone = applied[r].undone
        /\ t.confirmed = applied[r].confirmed /\ t.status = applied[r].status /\ t.doc = applied[r].doc
        /\ t.plan = applied[r].plan
    BY <1>1 DEF IndexRuns, Pcs
  <2>2. Indexed!Then(r, t) /\ holder' = r
    BY <1>4 DEF Indexed!Lock
  <2> HIDE DEF t
  <2>3. applied' \in [Runs -> IndexRuns] /\ applied'[r] = t /\ \A q \in Runs \ {r} : applied'[q] = applied[q]
    BY <1>1, <2>1, <2>2, ThenOne
  <2>4. Alone(r)
    BY <1>1, <1>2, <1>4, <2>2, <2>3 DEF Alone, IndexTyped
  <2>5. RunKept(r)'
    BY <1>1, <1>2, <1>3, <2>1, <2>2, <2>3 DEF RunKept, Fresh, Open, Filing, Done, Before, Holding, Planned_At
  <2> QED
    BY <2>4, <2>5, AloneKept
<1>5. CASE holder # None
  <2> DEFINE t == Indexed!Failed(applied[r])
  <2>1. /\ t \in IndexRuns /\ t.pc = "close" /\ t.plan = applied[r].plan /\ t.doc = applied[r].doc
        /\ t.written = applied[r].written /\ t.confirmed = applied[r].confirmed
        /\ t.status \in {"commit_outcome_requires_inspection", "refused"}
    BY <1>1, FailedFields
  <2>2. Indexed!Then(r, t) /\ holder' = holder
    BY <1>5 DEF Indexed!Lock
  <2> HIDE DEF t
  <2> QED
    BY <1>1, <1>2, <1>3, <2>1, <2>2, FailsKept
<1> QED
  BY <1>4, <1>5

LEMMA CheckKept ==
    ASSUME IndexKept, NEW r \in Runs, Indexed!Check(r)
    PROVE  IndexKept'
<1>1. IndexTyped /\ RunKept(r) /\ r # None /\ applied[r] \in IndexRuns /\ applied[r].pc = "check"
  BY RunFacts DEF Indexed!Check, Indexed!At
<1>2. UNCHANGED <<shape, papers, created, index, indexMoves>>
  BY DEF Indexed!Check
<1>3. /\ created[r] = None /\ applied[r].doc # "committed" /\ ~applied[r].confirmed /\ ~applied[r].written
      /\ holder = r /\ ~applied[r].undone /\ applied[r].status = "starting" /\ applied[r].plan \in Plans
  BY <1>1 DEF RunKept, Filing, Fresh, Open, Before, Holding
<1>4. CASE ~Indexed!Expected(applied[r].plan)
  <2> DEFINE t == Indexed!Failed(applied[r])
  <2>1. /\ t \in IndexRuns /\ t.pc = "close" /\ t.plan = applied[r].plan /\ t.doc = applied[r].doc
        /\ t.written = applied[r].written /\ t.confirmed = applied[r].confirmed
        /\ t.status \in {"commit_outcome_requires_inspection", "refused"}
    BY <1>1, FailedFields
  <2>2. Indexed!Then(r, t) /\ holder' = holder
    BY <1>4 DEF Indexed!Check
  <2> HIDE DEF t
  <2> QED
    BY <1>1, <1>2, <1>3, <2>1, <2>2, FailsKept
<1>5. CASE Indexed!Expected(applied[r].plan) /\ index = "exact"
  <2> DEFINE t == [applied[r] EXCEPT !.pc = "close", !.status = "already_present_verified"]
  <2>1. /\ t \in IndexRuns /\ t.pc = "close" /\ t.plan = applied[r].plan /\ t.doc = applied[r].doc
        /\ t.written = applied[r].written /\ t.confirmed = applied[r].confirmed
        /\ t.status = "already_present_verified"
    BY <1>1 DEF IndexRuns, Pcs, Reports
  <2>2. Indexed!Then(r, t) /\ holder' = None
    BY <1>5 DEF Indexed!Check
  <2> HIDE DEF t
  <2> QED
    BY <1>1, <1>2, <1>3, <2>1, <2>2, FailsKept
<1>6. CASE Indexed!Expected(applied[r].plan) /\ index # "exact"
  <2> DEFINE t == [applied[r] EXCEPT !.pc = "receipt", !.doc = "pending_before_ddl"]
  <2>1. /\ t \in IndexRuns /\ t.pc = "receipt" /\ t.plan = applied[r].plan /\ t.doc = "pending_before_ddl"
        /\ t.written = applied[r].written /\ t.confirmed = applied[r].confirmed
        /\ t.undone = applied[r].undone /\ t.status = applied[r].status
    BY <1>1 DEF IndexRuns, Pcs, Docs
  <2>2. Indexed!Then(r, t) /\ holder' = holder
    BY <1>6 DEF Indexed!Check
  <2>3. applied[r].plan.shape = shape /\ index = None
    BY <1>6, <1>1 DEF Indexed!Expected, IndexTyped
  <2> HIDE DEF t
  <2>4. applied' \in [Runs -> IndexRuns] /\ applied'[r] = t /\ \A q \in Runs \ {r} : applied'[q] = applied[q]
    BY <1>1, <2>1, <2>2, ThenOne
  <2>5. Alone(r)
    BY <1>1, <1>2, <2>2, <2>4 DEF Alone, IndexTyped
  <2>6. RunKept(r)'
    BY <1>1, <1>2, <1>3, <2>1, <2>2, <2>3, <2>4
    DEF RunKept, Fresh, Open, Filing, Done, Before, Holding, Planned_At
  <2> QED
    BY <2>5, <2>6, AloneKept
<1> QED
  BY <1>4, <1>5, <1>6

LEMMA CreateKept ==
    ASSUME IndexKept, NEW r \in Runs, Indexed!Create(r)
    PROVE  IndexKept'
<1> DEFINE t == [applied[r] EXCEPT !.pc = "filed", !.doc = "pending_commit"]
<1>1. IndexTyped /\ RunKept(r) /\ r # None /\ applied[r] \in IndexRuns /\ applied[r].pc = "create"
  BY RunFacts DEF Indexed!Create, Indexed!At
<1>2. UNCHANGED <<shape, index, holder, papers, created, indexMoves>> /\ Indexed!Then(r, t)
  BY DEF Indexed!Create
<1>3. /\ t \in IndexRuns /\ t.pc = "filed" /\ t.plan = applied[r].plan /\ t.doc = "pending_commit"
      /\ t.written = applied[r].written /\ t.confirmed = applied[r].confirmed
      /\ t.undone = applied[r].undone /\ t.status = applied[r].status
  BY <1>1 DEF IndexRuns, Pcs, Docs
<1> HIDE DEF t
<1>4. applied' \in [Runs -> IndexRuns] /\ applied'[r] = t /\ \A q \in Runs \ {r} : applied'[q] = applied[q]
  BY <1>1, <1>2, <1>3, ThenOne
<1>5. Alone(r)
  BY <1>1, <1>2, <1>4 DEF Alone, IndexTyped
<1>6. RunKept(r)'
  BY <1>1, <1>2, <1>3, <1>4 DEF RunKept, Fresh, Open, Filing, Done, Before, Holding, Planned_At
<1> QED
  BY <1>5, <1>6, AloneKept

\* A receipt a run writes, while its transaction is open or after its outcome.
LEMMA FiledWrites ==
    ASSUME IndexTyped, NEW r \in Runs, NEW w \in Outcomes, applied[r].plan \in Plans, applied[r].pc # "off",
           applied[r].written \/ Indexed!Free(applied[r].plan.receipt),
           w = "committed" => created'[r] # None, papers' = Indexed!Filed(r, w)
    PROVE  Writes(r, w) /\ papers'[applied[r].plan.receipt] = [run |-> r, status |-> w]
BY DEF Writes, Indexed!Filed, Indexed!Free, IndexTyped, Plans

\* A run that fails with its receipt perhaps written, and nothing committed.
LEMMA FailsFiled ==
    ASSUME IndexKept, NEW r \in Runs, NEW t \in IndexRuns, NEW w \in Outcomes \ {"committed"},
           applied[r].pc \in {"receipt", "filed"}, t.plan = applied[r].plan, t.pc = "close",
           t.written = applied[r].written, t.doc = applied[r].doc, t.confirmed = applied[r].confirmed,
           t.status \in {"commit_outcome_requires_inspection", "refused"},
           applied[r].written \/ Indexed!Free(applied[r].plan.receipt),
           Indexed!Then(r, t), papers' = papers \/ papers' = Indexed!Filed(r, w),
           UNCHANGED <<shape, index, holder, created>>, indexMoves' = indexMoves \/ Indexed!Move
    PROVE  IndexKept'
<1>1. IndexTyped /\ RunKept(r) /\ r # None
  BY RunFacts
<1>2. /\ created[r] = None /\ applied[r].plan \in Plans /\ applied[r].doc # "committed" /\ ~applied[r].confirmed
      /\ applied[r].written => papers[applied[r].plan.receipt].run = r
  BY <1>1 DEF RunKept, Done, Filing
<1>3. applied' \in [Runs -> IndexRuns] /\ applied'[r] = t /\ \A q \in Runs \ {r} : applied'[q] = applied[q]
  BY <1>1, ThenOne
<1>4. papers' = papers \/ (Writes(r, w) /\ papers'[applied[r].plan.receipt] = [run |-> r, status |-> w])
  BY <1>1, <1>2, FiledWrites
<1>5. Alone(r)
  BY <1>1, <1>3, <1>4, MovesTyped DEF Alone
<1>6. t.written => papers'[t.plan.receipt].run = r
  BY <1>2, <1>4
<1>7. RunKept(r)'
  BY <1>1, <1>2, <1>3, <1>6 DEF RunKept, Fresh, Open, Filing, Done, Before, Holding, Planned_At
<1> QED
  BY <1>5, <1>7, AloneKept

LEMMA FileKept ==
    ASSUME IndexKept, NEW r \in Runs, Indexed!File(r)
    PROVE  IndexKept'
<1>1. IndexTyped /\ RunKept(r) /\ r # None /\ applied[r] \in IndexRuns /\ applied[r].pc = "receipt"
  BY RunFacts DEF Indexed!File, Indexed!At
<1>2. UNCHANGED <<shape, index, holder, created>>
  BY DEF Indexed!File
<1>3. /\ created[r] = None /\ applied[r].doc # "committed" /\ ~applied[r].confirmed /\ ~applied[r].undone
      /\ applied[r].plan \in Plans /\ holder = r /\ shape = applied[r].plan.shape /\ index = None
  BY <1>1 DEF RunKept, Filing, Fresh, Open, Before, Holding, Planned_At
<1> DEFINE e == Indexed!Failed(applied[r])
<1>4. /\ e \in IndexRuns /\ e.pc = "close" /\ e.plan = applied[r].plan /\ e.doc = applied[r].doc
      /\ e.written = applied[r].written /\ e.confirmed = applied[r].confirmed
      /\ e.status \in {"commit_outcome_requires_inspection", "refused"}
  BY <1>1, FailedFields
<1>5. applied[r].doc \in Docs
  BY <1>1 DEF IndexRuns
<1>6. CASE ~Indexed!Free(applied[r].plan.receipt)
  <2>1. Indexed!Then(r, e) /\ papers' = papers /\ indexMoves' = indexMoves
    BY <1>6 DEF Indexed!File
  <2> HIDE DEF e
  <2> QED
    BY <1>1, <1>2, <1>3, <1>4, <2>1, FailsKept
<1>7. CASE Indexed!Free(applied[r].plan.receipt)
  <2>1. applied[r].doc = "pending_before_ddl" =>
          IndexKept' \/ (papers' = Indexed!Filed(r, "pending_before_ddl")
                         /\ Indexed!Then(r, [applied[r] EXCEPT !.pc = "create", !.written = TRUE])
                         /\ indexMoves' = indexMoves)
    <3>1. ASSUME Indexed!Then(r, e), Indexed!Move, applied[r].doc = "pending_before_ddl",
                 papers' \in {papers, Indexed!Filed(r, "partial"), Indexed!Filed(r, applied[r].doc)}
          PROVE  IndexKept'
      <4> HIDE DEF e
      <4>1. "partial" \in Outcomes \ {"committed"} /\ "pending_before_ddl" \in Outcomes \ {"committed"}
        BY DEF Outcomes
      <4> QED
        BY <1>1, <1>2, <1>4, <1>7, <3>1, <4>1, FailsFiled
    <3> QED
      BY <3>1, <1>7 DEF Indexed!File
  <2>2. ASSUME papers' = Indexed!Filed(r, "pending_before_ddl"), indexMoves' = indexMoves,
               Indexed!Then(r, [applied[r] EXCEPT !.pc = "create", !.written = TRUE])
        PROVE  IndexKept'
    <3> DEFINE t == [applied[r] EXCEPT !.pc = "create", !.written = TRUE]
    <3>1. /\ t \in IndexRuns /\ t.pc = "create" /\ t.plan = applied[r].plan /\ t.doc = applied[r].doc
          /\ t.written /\ t.confirmed = applied[r].confirmed
          /\ t.undone = applied[r].undone /\ t.status = applied[r].status
      BY <1>1 DEF IndexRuns, Pcs
    <3>2. Indexed!Then(r, t)
      BY <2>2
    <3> HIDE DEF t
    <3>3. applied' \in [Runs -> IndexRuns] /\ applied'[r] = t /\ \A q \in Runs \ {r} : applied'[q] = applied[q]
      BY <1>1, <3>1, <3>2, ThenOne
    <3>4. "pending_before_ddl" \in Outcomes
      BY DEF Outcomes
    <3>5. /\ Writes(r, "pending_before_ddl")
          /\ papers'[applied[r].plan.receipt] = [run |-> r, status |-> "pending_before_ddl"]
      BY <1>1, <1>3, <1>7, <2>2, <3>4, FiledWrites
    <3>6. Alone(r)
      BY <1>1, <1>2, <2>2, <3>3, <3>4, <3>5 DEF Alone, IndexTyped
    <3>7. RunKept(r)'
      BY <1>1, <1>2, <1>3, <3>1, <3>3, <3>5
      DEF RunKept, Fresh, Open, Filing, Done, Before, Holding, Planned_At
    <3> QED
      BY <3>6, <3>7, AloneKept
  <2>3. applied[r].doc = "pending_before_ddl"
    BY <1>1 DEF RunKept, Open
  <2> QED
    BY <2>1, <2>2, <2>3
<1> QED
  BY <1>6, <1>7

LEMMA FilePendingKept ==
    ASSUME IndexKept, NEW r \in Runs, Indexed!FilePending(r)
    PROVE  IndexKept'
<1>1. IndexTyped /\ RunKept(r) /\ r # None /\ applied[r] \in IndexRuns /\ applied[r].pc = "filed"
  BY RunFacts DEF Indexed!FilePending, Indexed!At
<1>2. UNCHANGED <<shape, index, holder, created>>
  BY DEF Indexed!FilePending
<1>3. /\ created[r] = None /\ applied[r].doc = "pending_commit" /\ ~applied[r].confirmed /\ ~applied[r].undone
      /\ applied[r].plan \in Plans /\ holder = r /\ shape = applied[r].plan.shape /\ index = None
      /\ applied[r].written
  BY <1>1 DEF RunKept, Filing, Open, Holding, Planned_At
<1>4. "pending_commit" \in Outcomes \ {"committed"}
  BY DEF Outcomes
<1>5. ASSUME papers' = Indexed!Filed(r, "pending_commit"), indexMoves' = indexMoves,
             Indexed!Then(r, [applied[r] EXCEPT !.pc = "commit"])
      PROVE  IndexKept'
  <2> DEFINE t == [applied[r] EXCEPT !.pc = "commit"]
  <2>1. /\ t \in IndexRuns /\ t.pc = "commit" /\ t.plan = applied[r].plan /\ t.doc = applied[r].doc
        /\ t.written = applied[r].written /\ t.confirmed = applied[r].confirmed
        /\ t.undone = applied[r].undone /\ t.status = applied[r].status
    BY <1>1 DEF IndexRuns, Pcs
  <2>2. Indexed!Then(r, t)
    BY <1>5
  <2> HIDE DEF t
  <2>3. applied' \in [Runs -> IndexRuns] /\ applied'[r] = t /\ \A q \in Runs \ {r} : applied'[q] = applied[q]
    BY <1>1, <2>1, <2>2, ThenOne
  <2>4. Writes(r, "pending_commit") /\ papers'[applied[r].plan.receipt] = [run |-> r, status |-> "pending_commit"]
    BY <1>1, <1>3, <1>4, <1>5, FiledWrites
  <2>5. Alone(r)
    BY <1>1, <1>2, <1>4, <1>5, <2>3, <2>4 DEF Alone, IndexTyped
  <2>6. papers'[applied'[r].plan.receipt].run = r /\ papers'[applied'[r].plan.receipt].status = "pending_commit"
    BY <2>1, <2>3, <2>4
  <2>7. RunKept(r)'
    BY <1>1, <1>2, <1>3, <2>1, <2>3, <2>6
    DEF RunKept, Fresh, Open, Filing, Done, Before, Holding, Planned_At
  <2> QED
    BY <2>5, <2>7, AloneKept
<1>6. ASSUME Indexed!Move, papers' \in {papers, Indexed!Filed(r, "pending_commit")}, NEW left \in BOOLEAN,
             Indexed!Then(r, Indexed!Failed([applied[r] EXCEPT !.left = left]))
      PROVE  IndexKept'
  <2> DEFINE s == [applied[r] EXCEPT !.left = left]
             e == Indexed!Failed(s)
  <2>1. s \in IndexRuns /\ s.plan = applied[r].plan /\ s.doc = applied[r].doc
        /\ s.written = applied[r].written /\ s.confirmed = applied[r].confirmed
    BY <1>1 DEF IndexRuns
  <2>2. Indexed!Then(r, e)
    BY <1>6
  <2> HIDE DEF s
  <2>3. /\ e \in IndexRuns /\ e.pc = "close" /\ e.plan = s.plan /\ e.doc = s.doc
        /\ e.written = s.written /\ e.confirmed = s.confirmed
        /\ e.status \in {"commit_outcome_requires_inspection", "refused"}
    BY <2>1, FailedFields
  <2> HIDE DEF e
  <2> QED
    BY <1>1, <1>2, <1>3, <1>4, <1>6, <2>1, <2>2, <2>3, FailsFiled
<1> QED
  BY <1>3, <1>5, <1>6 DEF Indexed!FilePending

\* The commit: done and known, done and not known, or refused by the database.
LEMMA CommitKept ==
    ASSUME IndexKept, NEW r \in Runs, Indexed!Commit(r)
    PROVE  IndexKept'
<1>1. IndexTyped /\ RunKept(r) /\ r # None /\ applied[r] \in IndexRuns /\ applied[r].pc = "commit"
  BY RunFacts DEF Indexed!Commit, Indexed!At
<1>2. /\ created[r] = None /\ applied[r].doc = "pending_commit" /\ ~applied[r].confirmed /\ ~applied[r].undone
      /\ applied[r].plan \in Plans /\ holder = r /\ shape = applied[r].plan.shape /\ index = None
      /\ applied[r].written /\ papers[applied[r].plan.receipt].run = r
      /\ papers[applied[r].plan.receipt].status = "pending_commit"
  BY <1>1 DEF RunKept, Filing, Open, Holding, Planned_At
<1>3. UNCHANGED <<shape, papers>>
  BY DEF Indexed!Commit
<1> DEFINE s == [applied[r] EXCEPT !.tried = TRUE]
<1>4. /\ s \in IndexRuns /\ s.plan = applied[r].plan /\ s.doc = applied[r].doc /\ s.tried
      /\ s.written = applied[r].written /\ s.confirmed = applied[r].confirmed /\ s.undone = applied[r].undone
  BY <1>1 DEF IndexRuns
<1>5. ASSUME Indexed!Committed(r), NEW t \in IndexRuns, Indexed!Then(r, t), t.pc = "close", t.plan = applied[r].plan,
             t.written, ~t.undone, t.doc \in {"pending_commit", "committed"}, t.status # "rolled_back",
             t.status = "refused" => t.confirmed, indexMoves' = indexMoves \/ Indexed!Move
      PROVE  IndexKept'
  <2>1. applied' \in [Runs -> IndexRuns] /\ applied'[r] = t /\ \A q \in Runs \ {r} : applied'[q] = applied[q]
    BY <1>1, <1>5, ThenOne
  <2>2. Commits(r) /\ holder' = None
    BY <1>2, <1>5 DEF Indexed!Committed, Commits
  <2>3. created'[r] = shape /\ shape # None
    BY <2>2, <1>1, NoneApart DEF Commits, IndexTyped
  <2>4. Alone(r)
    BY <1>1, <1>2, <1>3, <1>5, <2>1, <2>2, MovesTyped DEF Alone
  <2>5. RunKept(r)'
    BY <1>1, <1>2, <1>3, <1>5, <2>1, <2>2, <2>3
    DEF RunKept, Fresh, Open, Filing, Done, Before, Holding, Planned_At, Commits
  <2> QED
    BY <2>4, <2>5, AloneKept
<1>6. ASSUME Indexed!Committed(r), indexMoves' = indexMoves,
             Indexed!Then(r, [s EXCEPT !.pc = "close", !.confirmed = TRUE, !.status = "applied", !.doc = "committed"])
      PROVE  IndexKept'
  <2> DEFINE t == [s EXCEPT !.pc = "close", !.confirmed = TRUE, !.status = "applied", !.doc = "committed"]
  <2> HIDE DEF s
  <2>1. /\ t \in IndexRuns /\ t.pc = "close" /\ t.plan = s.plan /\ t.doc = "committed" /\ t.status = "applied"
        /\ t.written = s.written /\ t.undone = s.undone
    BY <1>4 DEF IndexRuns, Pcs, Docs, Reports
  <2>2. Indexed!Then(r, t)
    BY <1>6
  <2> HIDE DEF t
  <2> QED
    BY <1>2, <1>4, <1>5, <1>6, <2>1, <2>2
<1>7. ASSUME Indexed!Committed(r), Indexed!Move, NEW confirmed \in BOOLEAN,
             Indexed!Then(r, Indexed!Failed([s EXCEPT !.confirmed = confirmed]))
      PROVE  IndexKept'
  <2> HIDE DEF s
  <2> DEFINE u == [s EXCEPT !.confirmed = confirmed]
             t == Indexed!Failed(u)
  <2>1. /\ u \in IndexRuns /\ u.plan = s.plan /\ u.doc = s.doc /\ u.tried /\ u.written = s.written
        /\ u.undone = s.undone
    BY <1>4 DEF IndexRuns
  <2>2. Indexed!Then(r, t)
    BY <1>7
  <2> HIDE DEF u
  <2>3. /\ t \in IndexRuns /\ t.pc = "close" /\ t.plan = u.plan /\ t.doc = u.doc
        /\ t.written = u.written /\ t.undone = u.undone /\ t.confirmed = u.confirmed
        /\ t.status \in {"commit_outcome_requires_inspection", "refused"}
        /\ t.status = "refused" /\ u.tried => u.confirmed
    BY <2>1, FailedFields
  <2> HIDE DEF t
  <2> QED
    BY <1>2, <1>4, <1>5, <1>7, <2>1, <2>2, <2>3
<1>8. ASSUME holder' = None, Indexed!Move, Indexed!Then(r, Indexed!Failed(s)), UNCHANGED <<index, created>>
      PROVE  IndexKept'
  <2> HIDE DEF s
  <2> DEFINE t == Indexed!Failed(s)
  <2>1. /\ t \in IndexRuns /\ t.pc = "close" /\ t.plan = s.plan /\ t.doc = s.doc
        /\ t.written = s.written /\ t.confirmed = s.confirmed
        /\ t.status \in {"commit_outcome_requires_inspection", "refused"}
    BY <1>4, FailedFields
  <2>2. Indexed!Then(r, t)
    BY <1>8
  <2> HIDE DEF t
  <2> QED
    BY <1>1, <1>2, <1>3, <1>4, <1>8, <2>1, <2>2, FailsKept
<1> QED
  BY <1>6, <1>7, <1>8 DEF Indexed!Commit

\* A run that closes, records or dies: it changes its own state and its own receipt.
LEMMA EndingKept ==
    ASSUME IndexKept, NEW r \in Runs, NEW t \in IndexRuns, NEW w \in Outcomes, Indexed!Then(r, t),
           applied[r].pc # "off", t.pc \in {"record", "done", "dead"},
           t.plan = applied[r].plan, t.doc = applied[r].doc, t.written = applied[r].written,
           t.confirmed = applied[r].confirmed, UNCHANGED <<shape, index, created>>,
           indexMoves' = indexMoves \/ Indexed!Move,
           holder' = holder \/ (holder = r /\ holder' = None), t.pc \in {"done", "dead"} => holder' # r,
           papers' = papers \/ (applied[r].written /\ papers' = Indexed!Filed(r, w)),
           created[r] = None => w # "committed" /\ t.status \notin {"applied", "committed_receipt_update_failed"},
           created[r] # None =>
             /\ w \in {"pending_commit", "committed"}
             /\ ~t.undone /\ t.status # "rolled_back" /\ (t.status = "refused" => t.confirmed)
    PROVE  IndexKept'
<1>1. IndexTyped /\ RunKept(r) /\ r # None /\ applied[r].plan \in Plans
  BY RunFacts DEF RunKept, Filing
<1>2. applied' \in [Runs -> IndexRuns] /\ applied'[r] = t /\ \A q \in Runs \ {r} : applied'[q] = applied[q]
  BY <1>1, ThenOne
<1>3. papers' = papers \/ (Writes(r, w) /\ papers'[applied[r].plan.receipt] = [run |-> r, status |-> w])
  BY <1>1, FiledWrites
<1>4. Alone(r)
  BY <1>1, <1>2, <1>3, MovesTyped DEF Alone
<1>5. /\ applied[r].written => papers'[applied'[r].plan.receipt].run = r
      /\ created[r] # None => papers'[applied'[r].plan.receipt].status \in {"pending_commit", "committed"}
  BY <1>1, <1>2, <1>3 DEF RunKept, Filing, Done
<1>6. Fresh(r)' /\ Open(r)'
  BY <1>1, <1>2 DEF RunKept, Fresh, Open, Before, Holding, Planned_At
<1>7. Filing(r)'
  BY <1>1, <1>2, <1>5 DEF RunKept, Filing
<1>8. Done(r)'
  BY <1>1, <1>2, <1>5 DEF RunKept, Done
<1> QED
  BY <1>4, <1>6, <1>7, <1>8, AloneKept DEF RunKept

\* What closing makes of a run, whether it could roll back or knows of it.
LEMMA ClosedFields ==
    ASSUME NEW s \in IndexRuns,
           NEW t \in {s, Indexed!RolledBack(s), [s EXCEPT !.status = "outcome_requires_inspection"],
                      Indexed!Unknown(s), Indexed!Unknown(Indexed!RolledBack(s))}
    PROVE  /\ t \in IndexRuns /\ t.pc = s.pc /\ t.plan = s.plan /\ t.doc = s.doc /\ t.written = s.written
           /\ t.confirmed = s.confirmed /\ t.status \in {s.status, "rolled_back", "outcome_requires_inspection"}
<1>1. s \in IndexRuns => Indexed!RolledBack(s) \in IndexRuns /\ Indexed!Unknown(s) \in IndexRuns
      /\ [s EXCEPT !.status = "outcome_requires_inspection"] \in IndexRuns
  BY DEF IndexRuns, Reports, Indexed!RolledBack, Indexed!Unknown
<1> DEFINE u == Indexed!RolledBack(s)
<1>2. /\ u \in IndexRuns /\ u.pc = s.pc /\ u.plan = s.plan /\ u.doc = s.doc /\ u.written = s.written
      /\ u.confirmed = s.confirmed /\ u.status \in {s.status, "rolled_back"}
  BY <1>1 DEF IndexRuns, Indexed!RolledBack
<1> HIDE DEF u
<1>3. t \in {s, u, [s EXCEPT !.status = "outcome_requires_inspection"], Indexed!Unknown(s), Indexed!Unknown(u)}
  BY DEF u
<1>4. ASSUME NEW v \in IndexRuns, v.status \in {s.status, "rolled_back"}
      PROVE  LET w == Indexed!Unknown(v) IN
             /\ w \in IndexRuns /\ w.pc = v.pc /\ w.plan = v.plan /\ w.doc = v.doc /\ w.written = v.written
             /\ w.confirmed = v.confirmed /\ w.status \in {s.status, "rolled_back", "outcome_requires_inspection"}
  BY <1>4 DEF IndexRuns, Reports, Indexed!Unknown
<1>5. CASE t = Indexed!Unknown(s)
  BY <1>4, <1>5
<1>6. CASE t = Indexed!Unknown(u)
  BY <1>2, <1>4, <1>6
<1>7. CASE t \in {s, u}
  BY <1>2, <1>7
<1>8. CASE t = [s EXCEPT !.status = "outcome_requires_inspection"]
  BY <1>1, <1>8 DEF IndexRuns
<1> QED
  BY <1>3, <1>5, <1>6, <1>7, <1>8

LEMMA CloseKept ==
    ASSUME IndexKept, NEW r \in Runs, Indexed!Close(r)
    PROVE  IndexKept'
<1>1. IndexTyped /\ RunKept(r) /\ r # None /\ applied[r] \in IndexRuns /\ applied[r].pc = "close"
  BY RunFacts DEF Indexed!Close, Indexed!At
<1>2. UNCHANGED <<shape, index, created, papers>>
  BY DEF Indexed!Close
<1> DEFINE s == [applied[r] EXCEPT !.pc = "record"]
<1>3. /\ s \in IndexRuns /\ s.pc = "record" /\ s.plan = applied[r].plan /\ s.doc = applied[r].doc
      /\ s.written = applied[r].written /\ s.confirmed = applied[r].confirmed /\ s.undone = applied[r].undone
      /\ s.status = applied[r].status
  BY <1>1 DEF IndexRuns, Pcs
<1>4. /\ created[r] = None => s.status \notin {"applied", "committed_receipt_update_failed"} /\ ~s.confirmed
      /\ created[r] # None => ~s.undone /\ s.status # "rolled_back" /\ (s.status = "refused" => s.confirmed)
      /\ holder = r => created[r] = None
  BY <1>1, <1>3 DEF RunKept, Filing, Done, Open
<1> HIDE DEF s
<1>5. "pending_commit" \in Outcomes
  BY DEF Outcomes
<1>6. ASSUME NEW t \in {s, Indexed!RolledBack(s), [s EXCEPT !.status = "outcome_requires_inspection"],
                      Indexed!Unknown(s), Indexed!Unknown(Indexed!RolledBack(s))},
             Indexed!Then(r, t), indexMoves' = indexMoves \/ Indexed!Move,
             holder' = holder \/ (holder = r /\ holder' = None),
             created[r] # None => t.undone = s.undone /\ t.status \in {s.status, "outcome_requires_inspection"}
      PROVE  IndexKept'
  <2>1. /\ t \in IndexRuns /\ t.pc = s.pc /\ t.plan = s.plan /\ t.doc = s.doc /\ t.written = s.written
        /\ t.confirmed = s.confirmed /\ t.status \in {s.status, "rolled_back", "outcome_requires_inspection"}
    BY <1>3, <1>6, ClosedFields
  <2> QED
    BY <1>1, <1>2, <1>3, <1>4, <1>5, <1>6, <2>1, EndingKept
<1>7. CASE /\ holder' = IF holder = r THEN None ELSE holder
           /\ indexMoves' = indexMoves /\ Indexed!Then(r, IF holder = r THEN Indexed!RolledBack(s) ELSE s)
  BY <1>4, <1>6, <1>7
<1>8. CASE /\ holder = r /\ Indexed!Move /\ holder' \in {None, holder}
           /\ Indexed!Then(r, [s EXCEPT !.status = "outcome_requires_inspection"])
  BY <1>4, <1>6, <1>8
<1>9. ASSUME Indexed!Move, holder' = IF holder = r THEN None ELSE holder,
             Indexed!Then(r, Indexed!Unknown(IF holder = r THEN Indexed!RolledBack(s) ELSE s))
      PROVE  IndexKept'
  <2>1. CASE holder = r
    BY <1>4, <1>6, <1>9, <2>1
  <2>2. CASE holder # r
    <3>1. Indexed!Unknown(s).undone = s.undone /\ Indexed!Unknown(s).status \in {s.status, "outcome_requires_inspection"}
      BY <1>3 DEF Indexed!Unknown, IndexRuns
    <3> QED
      BY <1>6, <1>9, <2>2, <3>1
  <2> QED
    BY <2>1, <2>2
<1> QED
  BY <1>7, <1>8, <1>9 DEF Indexed!Close, s

LEMMA RecordKept ==
    ASSUME IndexKept, NEW r \in Runs, Indexed!Record(r)
    PROVE  IndexKept'
<1>1. IndexTyped /\ RunKept(r) /\ r # None /\ applied[r] \in IndexRuns /\ applied[r].pc = "record"
  BY RunFacts DEF Indexed!Record, Indexed!At
<1>2. UNCHANGED <<shape, index, created>> /\ holder' = IF holder = r THEN None ELSE holder
  BY DEF Indexed!Record
<1> DEFINE s == [applied[r] EXCEPT !.pc = "done"]
           w == IF s.written THEN Indexed!Final(s) ELSE "partial"
<1>3. /\ s \in IndexRuns /\ s.pc = "done" /\ s.plan = applied[r].plan /\ s.doc = applied[r].doc
      /\ s.written = applied[r].written /\ s.confirmed = applied[r].confirmed /\ s.undone = applied[r].undone
      /\ s.status = applied[r].status
  BY <1>1 DEF IndexRuns, Pcs
<1>4. /\ created[r] = None => s.status \notin {"applied", "committed_receipt_update_failed"} /\ ~s.confirmed
                              /\ s.doc # "committed"
      /\ created[r] # None => /\ ~s.undone /\ s.status # "rolled_back" /\ (s.status = "refused" => s.confirmed)
                              /\ s.doc \in {"pending_commit", "committed"} /\ s.written
      /\ s.written => s.doc \in {"pending_before_ddl", "pending_commit", "committed"}
  BY <1>1, <1>3 DEF RunKept, Filing, Done
<1> HIDE DEF s
<1>5. /\ w \in Outcomes
      /\ created[r] = None => w # "committed"
      /\ created[r] # None => w \in {"pending_commit", "committed"}
  BY <1>4 DEF Outcomes, Indexed!Final
<1>6. \/ Indexed!Then(r, s) \/ Indexed!Then(r, Indexed!Unrecorded(s))
  BY DEF Indexed!Record, s
<1>7. /\ indexMoves' = indexMoves \/ Indexed!Move
      /\ papers' = papers \/ (applied[r].written /\ papers' = Indexed!Filed(r, w))
  BY <1>3 DEF Indexed!Record, s
<1>8. ASSUME NEW t \in {s, Indexed!Unrecorded(s)} PROVE
      /\ t \in IndexRuns /\ t.pc = s.pc /\ t.plan = s.plan /\ t.doc = s.doc /\ t.written = s.written
      /\ t.confirmed = s.confirmed /\ t.undone = s.undone
      /\ t.status = s.status \/ (s.confirmed /\ t.status = "committed_receipt_update_failed")
         \/ t.status = "receipt_update_failed_inspect_pending"
  BY <1>3, <1>8 DEF IndexRuns, Reports, Indexed!Unrecorded
<1> HIDE DEF w
<1>9. ASSUME NEW t \in {s, Indexed!Unrecorded(s)}, Indexed!Then(r, t) PROVE IndexKept'
  BY <1>1, <1>2, <1>3, <1>4, <1>5, <1>7, <1>8, <1>9, EndingKept
<1> QED
  BY <1>6, <1>9

LEMMA DieKept ==
    ASSUME IndexKept, NEW r \in Runs, Indexed!Die(r)
    PROVE  IndexKept'
<1>1. IndexTyped /\ RunKept(r) /\ r # None /\ applied[r] \in IndexRuns /\ applied[r].pc # "off"
  BY RunFacts DEF Indexed!Die
<1> DEFINE t == [applied[r] EXCEPT !.pc = "dead"]
<1>2. /\ UNCHANGED <<shape, index, created, papers>> /\ holder' = IF holder = r THEN None ELSE holder
      /\ Indexed!Then(r, t) /\ Indexed!Move
  BY DEF Indexed!Die
<1>3. /\ t \in IndexRuns /\ t.pc = "dead" /\ t.plan = applied[r].plan /\ t.doc = applied[r].doc
      /\ t.written = applied[r].written /\ t.confirmed = applied[r].confirmed /\ t.undone = applied[r].undone
      /\ t.status = applied[r].status
  BY <1>1 DEF IndexRuns, Pcs
<1>4. /\ created[r] = None => t.status \notin {"applied", "committed_receipt_update_failed"}
      /\ created[r] # None => ~t.undone /\ t.status # "rolled_back" /\ (t.status = "refused" => t.confirmed)
  BY <1>1, <1>3 DEF RunKept, Filing, Done
<1> HIDE DEF t
<1>5. "pending_commit" \in Outcomes
  BY DEF Outcomes
<1> QED
  BY <1>1, <1>2, <1>3, <1>4, <1>5, EndingKept

\* Others write only while no run holds the lock.
LEMMA OthersWriteKept ==
    ASSUME IndexKept, Indexed!Others
    PROVE  IndexKept'
<1>1. IndexTyped /\ holder = None /\ UNCHANGED <<holder, papers, applied, created>> /\ Indexed!Move
  BY DEF IndexKept, Indexed!Others
<1>2. shape' \in Shapes /\ index' \in {None, "exact", "other"} /\ (index' = index \/ index = None)
  BY <1>1 DEF Indexed!Others, IndexTyped
<1>3. IndexTyped'
  BY <1>1, <1>2, MovesTyped DEF IndexTyped
<1>4. ASSUME NEW r \in Runs PROVE RunKept(r)'
  <2>1. RunKept(r) /\ r # None
    BY DEF IndexKept
  <2>2. applied[r].pc \notin Planned_At \cup Holding
    BY <2>1, <1>1 DEF RunKept, Open, Holding
  <2> QED
    BY <2>1, <2>2, <1>1, <1>2, NoneApart DEF RunKept, Fresh, Open, Filing, Done, Holding
<1>5. PapersTrue' /\ OneIndex'
  BY <1>1 DEF IndexKept, PapersTrue, OneIndex
<1> QED
  BY <1>3, <1>4, <1>5 DEF IndexKept

LEMMA IndexInit == Indexed!Init => IndexKept
<1> SUFFICES ASSUME Indexed!Init PROVE IndexKept
  OBVIOUS
<1>1. /\ Indexed!Off \in IndexRuns /\ Indexed!Off.pc = "off" /\ ~Indexed!Off.written /\ ~Indexed!Off.confirmed
      /\ ~Indexed!Off.undone /\ Indexed!Off.status = "starting" /\ Indexed!Off.doc = None
  BY DEF Indexed!Off, IndexRuns, Pcs, Docs, Reports
<1>2. Indexed!NoFile \in IndexPapers /\ Indexed!NoFile.status # "committed"
  BY NoneApart DEF Indexed!NoFile, IndexPapers
<1>3. IndexTyped
  BY <1>1, <1>2 DEF Indexed!Init, IndexTyped
<1>4. ASSUME NEW r \in Runs PROVE RunKept(r)
  BY <1>1, NoneApart DEF Indexed!Init, RunKept, Fresh, Open, Filing, Done, Holding, Planned_At
<1>5. PapersTrue /\ OneIndex
  BY <1>2 DEF Indexed!Init, PapersTrue, OneIndex
<1> QED
  BY <1>3, <1>4, <1>5 DEF IndexKept

LEMMA IndexStep == IndexKept /\ [Indexed!Next]_(Indexed!vars) => IndexKept'
<1> SUFFICES ASSUME IndexKept, [Indexed!Next]_(Indexed!vars) PROVE IndexKept'
  OBVIOUS
<1>1. CASE UNCHANGED Indexed!vars
  BY <1>1 DEF Indexed!vars, IndexKept, IndexTyped, RunKept, Fresh, Open, Filing, Done, PapersTrue, OneIndex
<1>2. ASSUME NEW r \in Runs, NEW f \in Papers, Indexed!Plan(r, f) PROVE IndexKept'
  BY <1>2, PlanKept
<1>3. ASSUME NEW r \in Runs,
             Indexed!Begin(r) \/ Indexed!Refuse(r) \/ Indexed!Lock(r) \/ Indexed!Check(r) \/ Indexed!File(r)
               \/ Indexed!Create(r)
      PROVE  IndexKept'
  BY <1>3, BeginKept, RefuseKept, LockKept, CheckKept, FileKept, CreateKept
<1>4. ASSUME NEW r \in Runs,
             Indexed!FilePending(r) \/ Indexed!Commit(r) \/ Indexed!Close(r) \/ Indexed!Record(r) \/ Indexed!Die(r)
      PROVE  IndexKept'
  BY <1>4, FilePendingKept, CommitKept, CloseKept, RecordKept, DieKept
<1> QED
  BY <1>1, <1>2, <1>3, <1>4, OthersWriteKept DEF Indexed!Next

LEMMA IndexTold == IndexKept => IndexInv
<1> SUFFICES ASSUME IndexKept PROVE IndexInv
  OBVIOUS
<1>1. IndexTyped /\ \A r \in Runs : RunKept(r)
  BY DEF IndexKept
<1>2. Indexed!TypeOK
  BY <1>1 DEF IndexTyped, IndexRuns, IndexPapers, Pcs, Indexed!TypeOK
<1>3. Indexed!Accounted
  <2>1. ASSUME NEW r \in Runs, created[r] # None
        PROVE  papers[applied[r].plan.receipt] \in [run : {r}, status : {"pending_commit", "committed"}]
    <3>1. /\ applied[r].plan \in Plans /\ papers[applied[r].plan.receipt].run = r
          /\ papers[applied[r].plan.receipt].status \in {"pending_commit", "committed"}
      BY <1>1, <2>1 DEF RunKept, Filing, Done
    <3>2. papers[applied[r].plan.receipt] \in IndexPapers
      BY <1>1, <3>1 DEF IndexTyped, Plans
    <3> QED
      BY <3>1, <3>2 DEF IndexPapers
  <2> QED
    BY <2>1 DEF Indexed!Accounted, IndexKept, PapersTrue
<1>4. Indexed!Reported
  BY <1>1 DEF Indexed!Reported, RunKept, Filing, Done
<1>5. Indexed!AsPlanned
  BY <1>1 DEF Indexed!AsPlanned, RunKept, Done, IndexKept, OneIndex
<1> QED
  BY <1>2, <1>3, <1>4, <1>5 DEF IndexInv, Indexed!IndexInv

(* Wherever runs fail, are interrupted or die, receipts and reports tell    *)
(* whether the index was committed, and it is only committed on the table   *)
(* the expected plan was made of (catalog_index_migrate.run).               *)
THEOREM IndexAccounted == Indexed!Spec => []IndexInv
<1>1. Indexed!Init => IndexKept
  BY IndexInit
<1>2. IndexKept /\ [Indexed!Next]_(Indexed!vars) => IndexKept'
  BY IndexStep
<1>3. IndexKept => IndexInv
  BY IndexTold
<1> QED
  BY <1>1, <1>2, <1>3, PTL DEF Indexed!Spec

-----------------------------------------------------------------------------
(* catalog_migrate.py and catalog_store.py: the registry.                  *)

Dbs == [chain : Seq(Ids), stage : Meta .. Complete, cursor : Keys \cup {0},
        restart : SUBSET {Meta, Register}, done : SUBSET {Meta, Register},
        meta : [Keys -> Versions \cup {None}], listing : SUBSET Keys,
        owner : [Keys -> {"listing", "reference", None}],
        enrolled : BOOLEAN, taken : BOOLEAN, stable : BOOLEAN, moved : BOOLEAN,
        items : SUBSET Keys, touched : BOOLEAN]
States == [pc : {"off", "pending", "commit", "next"}, no : 0 .. MaxReceipts]
Transactions == [run : Runs, id : Ids, fresh : BOOLEAN, db : Dbs]

RegistryTyped ==
    /\ names \in [Keys -> Versions \cup {None}] /\ rows \in SUBSET Keys /\ db \in Dbs
    /\ files \in [pending : SUBSET Ids, committed : SUBSET Ids] /\ run \in [Runs -> States]
    /\ trans \in Transactions \cup {NoTrans} /\ made \in 0 .. MaxReceipts /\ moves \in 0 .. MaxMoves
    /\ steady \in [names : SUBSET Named, rows : SUBSET rows]

\* Every batch has its receipt, before the head a committed one; so has the head once another
\* batch is under way, whose own receipt is pending.
Committed(chain) == \A i \in DOMAIN chain : chain[i] \in files.committed
ChainKept ==
    /\ \A i \in DOMAIN db.chain : OnFile(db.chain[i]) /\ (i < Len(db.chain) => db.chain[i] \in files.committed)
    /\ \A id \in files.committed : \E i \in DOMAIN db.chain : db.chain[i] = id
    /\ Len(db.chain) <= made
    /\ trans # NoTrans =>
         /\ trans.db.chain = Append(db.chain, trans.id) /\ trans.id \in files.pending /\ Committed(db.chain)
         /\ Len(db.chain) < made
         /\ run[trans.run].pc = "pending" /\ run[trans.run].no = Len(db.chain) + 1
    /\ \A p \in Runs : /\ run[p].pc \in {"commit", "next"} => run[p].no \in 1 .. Len(db.chain)
                       /\ run[p].pc = "next" => db.chain[run[p].no] \in files.committed

\* What progress tells of the rows and streams that stayed as they were, of all of them once the
\* proof's counters stood still, and when the counters were last taken.
Registered(d, kept) ==
    /\ d.stage = Meta => /\ Meta \in d.restart \/ Meta \notin d.done
                         /\ Register \in d.restart
                         /\ \A k \in kept.names : k <= d.cursor => d.meta[k] = names[k]
    /\ d.stage > Meta => \A k \in kept.names : d.meta[k] = names[k]
    /\ d.stage = Register => /\ (d.cursor = 0 /\ Register \in d.restart) \/ Register \notin d.done
                             /\ \A k \in kept.rows : k <= d.cursor => d.owner[k] # None
    /\ d.stage > Register => \A k \in kept.rows : d.owner[k] # None
Counters(d) ==
    /\ d.taken => d.enrolled /\ d.stage >= VerifyMeta
    /\ d.stage > VerifyMeta \/ (d.stage = VerifyMeta /\ d.cursor # 0) => d.taken = d.enrolled
Verified(d) ==
    d.taken /\ d.stable /\ ~d.moved =>
      /\ d.stage = VerifyMeta => \A k \in Named : k <= d.cursor => d.meta[k] = names[k]
      /\ d.stage > VerifyMeta => \A k \in Named : d.meta[k] = names[k]
      /\ d.stage = Verify => \A k \in rows : k <= d.cursor => d.owner[k] # None
      /\ d.stage = Complete => \A k \in rows : d.owner[k] # None
Sound(d, kept) == Registered(d, kept) /\ Counters(d) /\ Verified(d)

All == [names |-> Named, rows |-> rows]
ProgressKept ==
    /\ Sound(db, steady)
    /\ db.chain = <<>> => db.stage = Meta /\ db.cursor = 0
    /\ trans # NoTrans => Sound(trans.db, IF trans.fresh THEN All ELSE steady)

RegistryKept == RegistryTyped /\ ChainKept /\ ProgressKept

HIDE StoresAssumption DEF StoresAssumption, Indexed!IndexAssumption
USE DEF Meta, Register, VerifyMeta, Verify, Complete

LEMMA KeysAre == Keys \subseteq Nat \ {0} /\ IsFiniteSet(Keys) /\ MaxReceipts \in Nat /\ MaxMoves \in Nat
BY StoresAssumption DEF StoresAssumption, MigrationAssumption

LEMMA Positive == \A k \in Keys : k \in Nat /\ ~(k <= 0)
BY KeysAre

LEMMA NoneIsNot == None \notin Versions /\ None \notin Keys /\ None \notin Runs
                   /\ None # "listing" /\ None # "reference"
BY StoresAssumption DEF StoresAssumption, MigrationAssumption

\* A set of numbers has a least one: else its initial segments were not well founded.
LEMMA Least ==
    ASSUME NEW S \in SUBSET Nat, S # {}
    PROVE  \E m \in S : \A k \in S : m <= k
<1> DEFINE T == {0 .. m : m \in S}
<1>1. T \subseteq FiniteSubsetsOf(Nat) /\ T # {}
  <2>1. \A m \in S : IsFiniteSet(0 .. m) /\ 0 .. m \in SUBSET Nat
    BY FS_Interval
  <2> QED
    BY <2>1 DEF FiniteSubsetsOf
<1>2. PICK x \in T : \A y \in T : <<y, x>> \notin StrictSubsetOrdering(Nat)
  <2> HIDE DEF T
  <2> QED
    BY <1>1, FS_StrictSubsetOrderingWellFounded, WFMin
<1>3. PICK m \in S : x = 0 .. m
  OBVIOUS
<1>4. ASSUME NEW k \in S, k < m PROVE FALSE
  <2>1. m \in 0 .. m /\ m \notin 0 .. k
    BY <1>4
  <2>2. 0 .. k \subseteq 0 .. m /\ 0 .. k # 0 .. m /\ 0 .. k \in SUBSET Nat /\ 0 .. m \in SUBSET Nat
    BY <2>1, <1>4
  <2>3. <<0 .. k, 0 .. m>> \in StrictSubsetOrdering(Nat)
    BY <2>2 DEF StrictSubsetOrdering
  <2> QED
    BY <2>3, <1>2, <1>3
<1> QED
  BY <1>4

\* A page is the first key behind the cursor, or none is left; a last page has all that is.
IsPage(page, S, cursor) ==
    /\ page \in SUBSET S /\ (page = {} => \A k \in S : k <= cursor)
    /\ page # {} => /\ page = {Max(page)} /\ Max(page) \in S
                    /\ \A k \in S : k <= Max(page) => k <= cursor \/ k \in page
    /\ Cardinality(Rest(S, cursor)) <= 1 => \A k \in S : k <= cursor \/ k \in page
LEMMA PageFacts ==
    ASSUME NEW S \in SUBSET Keys, NEW cursor \in Keys \cup {0}
    PROVE  IsPage(Page(S, cursor), S, cursor)
<1> DEFINE R == Rest(S, cursor)
<1>1. R \in SUBSET Nat /\ R \subseteq S /\ \A k \in S : k \in R <=> k > cursor
  BY KeysAre DEF Rest
<1>2. cursor \in Nat /\ \A k \in S : k \in Nat
  BY KeysAre
<1>3. CASE R = {}
  <2>1. Page(S, cursor) = {}
    BY <1>3 DEF Page
  <2> QED
    BY <1>1, <1>2, <1>3, <2>1 DEF IsPage
<1>4. CASE R # {}
  <2>1. PICK m \in R : \A k \in R : m <= k
    <3> HIDE DEF R
    <3> QED
      BY <1>1, <1>4, Least
  <2>2. Min(R) \in R /\ \A k \in R : Min(R) <= k
    BY <2>1 DEF Min
  <2> DEFINE n == Min(R)
  <2> HIDE DEF n
  <2>3. n \in R /\ \A k \in R : n <= k
    BY <2>2 DEF n
  <2>4. Page(S, cursor) = {n}
    BY <1>4 DEF Page, n
  <2>5. Max({n}) = n
    BY <1>1, <2>3 DEF Max
  <2>6. \A k \in S : k <= n => k <= cursor \/ k = n
    BY <1>1, <1>2, <2>3
  <2>7. ASSUME Cardinality(R) <= 1 PROVE R = {n}
    <3>1. IsFiniteSet(R)
      BY <1>1, KeysAre, FS_Subset
    <3>2. Cardinality(R) \in Nat /\ (Cardinality(R) = 0 <=> R = {})
      BY <3>1, FS_CardinalityType, FS_EmptySet
    <3>3. Cardinality(R) = 1
      BY <3>2, <2>7, <1>4
    <3> QED
      BY <3>1, <3>3, <2>3, FS_Singleton
  <2>8. Cardinality(R) <= 1 => \A k \in S : k <= cursor \/ k \in {n}
    BY <2>7, <1>1, <1>2
  <2> QED
    BY <1>1, <2>3, <2>4, <2>5, <2>6, <2>8 DEF IsPage
<1> QED
  BY <1>3, <1>4

\* Each field of the registry can be set to a value of its kind.
LEMMA DbUpdates ==
    ASSUME NEW d \in Dbs
    PROVE  /\ \A v \in Keys \cup {0} : [d EXCEPT !.cursor = v] \in Dbs
           /\ \A v \in Meta .. Complete : [d EXCEPT !.stage = v] \in Dbs
           /\ \A v \in SUBSET {Meta, Register} : [d EXCEPT !.restart = v] \in Dbs /\ [d EXCEPT !.done = v] \in Dbs
           /\ \A v \in SUBSET Keys : [d EXCEPT !.items = v] \in Dbs /\ [d EXCEPT !.listing = v] \in Dbs
           /\ \A v \in [Keys -> Versions \cup {None}] : [d EXCEPT !.meta = v] \in Dbs
           /\ \A v \in [Keys -> {"listing", "reference", None}] : [d EXCEPT !.owner = v] \in Dbs
           /\ \A v \in BOOLEAN : [d EXCEPT !.enrolled = v] \in Dbs /\ [d EXCEPT !.taken = v] \in Dbs
           /\ \A v \in BOOLEAN : [d EXCEPT !.stable = v] \in Dbs /\ [d EXCEPT !.moved = v] \in Dbs
           /\ \A v \in BOOLEAN : [d EXCEPT !.touched = v] \in Dbs
           /\ \A v \in Seq(Ids) : [d EXCEPT !.chain = v] \in Dbs
BY DEF Dbs

\* What a batch does to progress, whatever it reads.
IsAfter(t, d, page, done) ==
    /\ t \in Dbs /\ t.chain = d.chain /\ t.meta = d.meta /\ t.owner = d.owner /\ t.listing = d.listing
    /\ t.enrolled = d.enrolled /\ t.taken = d.taken /\ t.stable = d.stable /\ t.moved = d.moved
    /\ t.cursor = (IF done \/ page = {} THEN 0 ELSE Max(page))
    /\ t.stage = (IF done THEN d.stage + 1 ELSE d.stage)
    /\ t.restart = d.restart \ {d.stage}
    /\ t.done = IF d.stage \in {Meta, Register}
                  THEN (d.done \ {d.stage}) \cup (IF done THEN {d.stage} ELSE {}) ELSE d.done
LEMMA WentFields ==
    ASSUME NEW d \in Dbs, d.stage < Complete, NEW page \in SUBSET Keys, NEW done \in BOOLEAN,
           page # {} => Max(page) \in Keys
    PROVE  IsAfter(Went(d, page, done), d, page, done)
<1> DEFINE t == Went(d, page, done)
           cursor == IF done \/ page = {} THEN 0 ELSE Max(page)
           stage == IF done THEN d.stage + 1 ELSE d.stage
           restart == d.restart \ {d.stage}
           finished == IF d.stage \in {Meta, Register}
                         THEN (d.done \ {d.stage}) \cup (IF done THEN {d.stage} ELSE {}) ELSE d.done
<1>1. cursor \in Keys \cup {0} /\ stage \in Meta .. Complete
  BY DEF Dbs
<1>2. restart \in SUBSET {Meta, Register} /\ finished \in SUBSET {Meta, Register}
  BY DEF Dbs
<1>3. t = [d EXCEPT !.items = {}, !.touched = FALSE, !.cursor = cursor, !.stage = stage,
                                      !.restart = restart, !.done = finished]
  BY DEF Went, Dbs
<1> HIDE DEF cursor, stage, restart, finished
<1>4. /\ t.chain = d.chain /\ t.meta = d.meta /\ t.owner = d.owner /\ t.listing = d.listing
      /\ t.enrolled = d.enrolled /\ t.taken = d.taken /\ t.stable = d.stable /\ t.moved = d.moved
      /\ t.cursor = cursor /\ t.stage = stage /\ t.restart = restart /\ t.done = finished
  BY <1>3 DEF Dbs
<1>5. t \in Dbs
  <2> DEFINE e1 == [d EXCEPT !.items = {}, !.touched = FALSE]
             e2 == [e1 EXCEPT !.cursor = cursor]
             e3 == [e2 EXCEPT !.stage = stage]
             e4 == [e3 EXCEPT !.restart = restart]
             e5 == [e4 EXCEPT !.done = finished]
  <2>1. t = e5
    BY <1>3 DEF Dbs
  <2>2. e1 \in Dbs
    BY DEF Dbs
  <2> HIDE DEF e1
  <2>3. e2 \in Dbs
    BY <1>1, <2>2, DbUpdates
  <2> HIDE DEF e2
  <2>4. e3 \in Dbs
    BY <1>1, <2>3, DbUpdates
  <2> HIDE DEF e3
  <2>5. e4 \in Dbs
    BY <1>2, <2>4, DbUpdates
  <2> HIDE DEF e4
  <2>6. e5 \in Dbs
    BY <1>2, <2>5, DbUpdates
  <2> QED
    BY <2>1, <2>6
<1> QED
  BY <1>4, <1>5 DEF cursor, stage, restart, finished, IsAfter

\* What the three kinds of batch make of the registry.
LEMMA MetaFields ==
    ASSUME RegistryTyped, NEW d \in Dbs, d.stage = Meta, ~Walked(d)
    PROVE  LET t == MetaBatch(d)
               page == Page(Named, d.cursor)
               done == Cardinality(Rest(Named, d.cursor)) <= 1
           IN
           /\ t \in Dbs /\ t.chain = d.chain /\ t.owner = d.owner /\ t.enrolled = d.enrolled /\ t.taken = d.taken
           /\ t.cursor = (IF done \/ page = {} THEN 0 ELSE Max(page))
           /\ t.stage = (IF done THEN Register ELSE Meta) /\ t.restart = d.restart \ {Meta}
           /\ ~done => Meta \notin t.done
           /\ \A k \in Keys : t.meta[k] = IF k \in page THEN names[k] ELSE d.meta[k]
<1> DEFINE page == Page(Named, d.cursor)
           done == Cardinality(Rest(Named, d.cursor)) <= 1
           w == Went(d, page, done)
           meta == [k \in Keys |-> IF k \in page THEN names[k] ELSE w.meta[k]]
           moved == d.moved \/ page # {}
<1>1. Named \in SUBSET Keys /\ d.cursor \in Keys \cup {0}
  BY DEF Named, Dbs
<1>2. page \in SUBSET Keys /\ (page # {} => Max(page) \in Keys)
  <2>1. IsPage(page, Named, d.cursor)
    BY <1>1, PageFacts
  <2> QED
    BY <1>1, <2>1 DEF IsPage
<1>3. done \in BOOLEAN
  OBVIOUS
<1>4. MetaBatch(d) = [w EXCEPT !.items = page, !.meta = meta, !.listing = w.listing \cup page, !.moved = moved]
  BY DEF MetaBatch, Dbs
<1> HIDE DEF page, done
<1>5. /\ w \in Dbs /\ w.chain = d.chain /\ w.meta = d.meta /\ w.owner = d.owner /\ w.listing = d.listing
      /\ w.enrolled = d.enrolled /\ w.taken = d.taken /\ w.stable = d.stable /\ w.moved = d.moved
      /\ w.cursor = (IF done \/ page = {} THEN 0 ELSE Max(page))
      /\ w.stage = (IF done THEN d.stage + 1 ELSE d.stage)
      /\ w.restart = d.restart \ {d.stage}
      /\ w.done = IF d.stage \in {Meta, Register}
                    THEN (d.done \ {d.stage}) \cup (IF done THEN {d.stage} ELSE {}) ELSE d.done
  <2>1. IsAfter(w, d, page, done)
    BY <1>2, <1>3, WentFields
  <2> HIDE DEF w
  <2> QED
    BY <2>1 DEF IsAfter
<1> HIDE DEF w
<1>6. meta \in [Keys -> Versions \cup {None}] /\ w.listing \cup page \in SUBSET Keys
  BY <1>2, <1>5 DEF RegistryTyped, Dbs
<1>7. moved \in BOOLEAN
  BY DEF Dbs
<1> HIDE DEF moved
<1>8. \A k \in Keys : meta[k] = IF k \in page THEN names[k] ELSE d.meta[k]
  BY <1>5
<1> HIDE DEF meta
<1> DEFINE e1 == [w EXCEPT !.items = page]
           e2 == [e1 EXCEPT !.meta = meta]
           e3 == [e2 EXCEPT !.listing = w.listing \cup page]
           e4 == [e3 EXCEPT !.moved = moved]
<1>9. MetaBatch(d) = e4
  BY <1>4
<1>10. /\ e4.chain = w.chain /\ e4.owner = w.owner /\ e4.enrolled = w.enrolled /\ e4.taken = w.taken
       /\ e4.cursor = w.cursor /\ e4.stage = w.stage /\ e4.restart = w.restart /\ e4.done = w.done
       /\ e4.meta = meta
  BY <1>5 DEF Dbs
<1>11. e1 \in Dbs
  BY <1>2, <1>5, DbUpdates
<1> HIDE DEF e1
<1>12. e2 \in Dbs
  BY <1>6, <1>11, DbUpdates
<1> HIDE DEF e2
<1>13. e3 \in Dbs
  BY <1>6, <1>12, DbUpdates
<1> HIDE DEF e3
<1>14. e4 \in Dbs
  BY <1>7, <1>13, DbUpdates
<1> HIDE DEF e4
<1>15. w.stage = (IF done THEN Register ELSE Meta) /\ w.restart = d.restart \ {Meta} /\ (~done => Meta \notin w.done)
  BY <1>5
<1> QED
  BY <1>5, <1>8, <1>9, <1>10, <1>14, <1>15 DEF page, done

LEMMA RegisterFields ==
    ASSUME RegistryTyped, NEW d \in Dbs, d.stage = Register, ~Walked(d)
    PROVE  LET t == RegisterBatch(d)
               page == Page(rows, d.cursor)
           IN
           /\ t \in Dbs /\ t.chain = d.chain /\ t.meta = d.meta /\ t.enrolled = d.enrolled /\ t.taken = d.taken
           /\ t.cursor = (IF page = {} THEN 0 ELSE Max(page))
           /\ t.stage = (IF page = {} THEN VerifyMeta ELSE Register)
           /\ page # {} => Register \notin t.done
           /\ \A k \in Keys : d.owner[k] # None \/ k \in page => t.owner[k] # None
<1> DEFINE page == Page(rows, d.cursor)
           w == Went(d, page, page = {})
           owner == [k \in Keys |-> IF k \in page THEN Owner(d, k) ELSE w.owner[k]]
           moved == d.moved \/ \E k \in page : d.owner[k] = None
           items == {k \in page : Owner(d, k) = "listing"}
<1>1. rows \in SUBSET Keys /\ d.cursor \in Keys \cup {0}
  BY DEF RegistryTyped, Dbs
<1>2. page \in SUBSET Keys /\ (page # {} => Max(page) \in Keys) /\ items \in SUBSET Keys
  <2>1. IsPage(page, rows, d.cursor)
    BY <1>1, PageFacts
  <2> HIDE DEF page
  <2> QED
    BY <1>1, <2>1 DEF IsPage
<1>3. RegisterBatch(d) = [w EXCEPT !.items = items, !.owner = owner, !.moved = moved]
  BY DEF RegisterBatch, Dbs
<1> HIDE DEF page, items
<1>4. /\ w \in Dbs /\ w.chain = d.chain /\ w.meta = d.meta /\ w.owner = d.owner
      /\ w.enrolled = d.enrolled /\ w.taken = d.taken
      /\ w.cursor = (IF page = {} THEN 0 ELSE Max(page))
      /\ w.stage = (IF page = {} THEN d.stage + 1 ELSE d.stage)
      /\ w.done = IF d.stage \in {Meta, Register}
                    THEN (d.done \ {d.stage}) \cup (IF page = {} THEN {d.stage} ELSE {}) ELSE d.done
  <2> DEFINE done == page = {}
  <2>1. done \in BOOLEAN /\ d.stage < Complete
    OBVIOUS
  <2>2. IsAfter(w, d, page, done)
    <3> HIDE DEF done, w
    <3>1. \A e \in BOOLEAN : IsAfter(Went(d, page, e), d, page, e)
      BY <1>2, <2>1, WentFields
    <3> QED
      BY <2>1, <3>1 DEF w, done
  <2> HIDE DEF w
  <2> QED
    BY <2>2 DEF IsAfter
<1> HIDE DEF w
<1>5. \A k \in Keys : Owner(d, k) \in {"listing", "reference", None} /\ Owner(d, k) # None
  BY NoneIsNot DEF Owner, Dbs
<1>6. owner \in [Keys -> {"listing", "reference", None}]
  BY <1>2, <1>4, <1>5 DEF Dbs
<1>7. moved \in BOOLEAN
  BY DEF Dbs
<1> HIDE DEF moved
<1>8. \A k \in Keys : d.owner[k] # None \/ k \in page => owner[k] # None
  BY <1>4, <1>5
<1> HIDE DEF owner
<1> DEFINE e1 == [w EXCEPT !.items = items]
           e2 == [e1 EXCEPT !.owner = owner]
           e3 == [e2 EXCEPT !.moved = moved]
<1>9. RegisterBatch(d) = e3
  BY <1>3
<1>10. /\ e3.chain = w.chain /\ e3.meta = w.meta /\ e3.enrolled = w.enrolled /\ e3.taken = w.taken
       /\ e3.cursor = w.cursor /\ e3.stage = w.stage /\ e3.done = w.done /\ e3.owner = owner
  BY <1>4 DEF Dbs
<1>11. e1 \in Dbs
  BY <1>2, <1>4, DbUpdates
<1> HIDE DEF e1
<1>12. e2 \in Dbs
  BY <1>6, <1>11, DbUpdates
<1> HIDE DEF e2
<1>13. e3 \in Dbs
  BY <1>7, <1>12, DbUpdates
<1> HIDE DEF e3
<1>14. w.stage = (IF page = {} THEN VerifyMeta ELSE Register) /\ (page # {} => Register \notin w.done)
  BY <1>4
<1> QED
  BY <1>4, <1>8, <1>9, <1>10, <1>13, <1>14 DEF page

LEMMA VerifyFields ==
    ASSUME RegistryTyped, NEW d \in Dbs, d.stage \in {VerifyMeta, Verify}
    PROVE  LET t == VerifyBatch(d)
               S == IF d.stage = VerifyMeta THEN Named ELSE rows
               page == Page(S, d.cursor)
               done == IF d.stage = VerifyMeta THEN Cardinality(Rest(Named, d.cursor)) <= 1 ELSE page = {}
           IN
           /\ t \in Dbs /\ t.chain = d.chain /\ t.meta = d.meta /\ t.owner = d.owner /\ t.enrolled = d.enrolled
           /\ t.cursor = (IF done \/ page = {} THEN 0 ELSE Max(page))
           /\ t.stage = (IF done THEN d.stage + 1 ELSE d.stage)
           /\ t.taken = d.enrolled /\ t.stable = Stable(d) /\ t.moved = (d.enrolled /\ d.taken /\ d.moved)
<1> DEFINE S == IF d.stage = VerifyMeta THEN Named ELSE rows
           page == Page(S, d.cursor)
           done == IF d.stage = VerifyMeta THEN Cardinality(Rest(Named, d.cursor)) <= 1 ELSE page = {}
           w == Went(d, page, done)
<1>1. S \in SUBSET Keys /\ d.cursor \in Keys \cup {0}
  BY DEF Named, Dbs, RegistryTyped
<1>2. page \in SUBSET Keys /\ (page # {} => Max(page) \in Keys)
  <2> HIDE DEF S
  <2>1. IsPage(page, S, d.cursor)
    BY <1>1, PageFacts
  <2> HIDE DEF page
  <2> QED
    BY <1>1, <2>1 DEF IsPage
<1>3. done \in BOOLEAN
  <2>1. (Cardinality(Rest(Named, d.cursor)) <= 1) \in BOOLEAN /\ (page = {}) \in BOOLEAN
    OBVIOUS
  <2> QED
    BY <2>1
<1>4. VerifyBatch(d) = Witnessed(w)
  <2>1. CASE d.stage = VerifyMeta
    BY <2>1 DEF VerifyBatch
  <2>2. CASE d.stage # VerifyMeta
    BY <2>2 DEF VerifyBatch
  <2> QED
    BY <2>1, <2>2
<1> HIDE DEF page, done
<1>5. /\ w \in Dbs /\ w.chain = d.chain /\ w.meta = d.meta /\ w.owner = d.owner
      /\ w.enrolled = d.enrolled /\ w.taken = d.taken /\ w.stable = d.stable /\ w.moved = d.moved
      /\ w.cursor = (IF done \/ page = {} THEN 0 ELSE Max(page))
      /\ w.stage = (IF done THEN d.stage + 1 ELSE d.stage)
  <2>1. IsAfter(w, d, page, done)
    BY <1>2, <1>3, WentFields
  <2> HIDE DEF w
  <2> QED
    BY <2>1 DEF IsAfter
<1> HIDE DEF w
<1>6. Stable(w) = Stable(d)
  BY <1>5 DEF Stable
<1>7. Stable(w) \in BOOLEAN /\ (d.enrolled /\ d.taken /\ d.moved) \in BOOLEAN /\ w.enrolled \in BOOLEAN
  BY <1>5 DEF Stable, Dbs
<1> DEFINE moved == d.enrolled /\ d.taken /\ d.moved
           stable == Stable(w)
           e1 == [w EXCEPT !.taken = w.enrolled]
           e2 == [e1 EXCEPT !.stable = stable]
           e3 == [e2 EXCEPT !.moved = moved]
<1>8. Witnessed(w) = e3
  BY <1>5 DEF Witnessed, Dbs
<1> HIDE DEF moved, stable
<1>9. /\ e3.chain = w.chain /\ e3.meta = w.meta /\ e3.owner = w.owner /\ e3.enrolled = w.enrolled
      /\ e3.cursor = w.cursor /\ e3.stage = w.stage
      /\ e3.taken = w.enrolled /\ e3.stable = stable /\ e3.moved = moved
  BY <1>5 DEF Dbs
<1>10. e1 \in Dbs
  BY <1>5, <1>7, DbUpdates
<1> HIDE DEF e1
<1>11. e2 \in Dbs
  BY <1>7, <1>10, DbUpdates DEF stable
<1> HIDE DEF e2
<1>12. e3 \in Dbs
  BY <1>7, <1>11, DbUpdates DEF moved
<1> HIDE DEF e3
<1> QED
  BY <1>4, <1>5, <1>6, <1>8, <1>9, <1>12 DEF page, done, moved, stable

\* A batch keeps what progress tells.
LEMMA MetaSound ==
    ASSUME RegistryTyped, NEW d \in Dbs, d.stage = Meta, NEW kept, kept.names \in SUBSET Named,
           kept.rows \in SUBSET rows, Sound(d, kept)
    PROVE  MetaBatch(d) \in Dbs /\ MetaBatch(d).chain = d.chain /\ Sound(MetaBatch(d), kept)
<1> DEFINE t == MetaBatch(d)
           page == Page(Named, d.cursor)
           done == Cardinality(Rest(Named, d.cursor)) <= 1
<1>1. ~Walked(d) /\ Register \in d.restart /\ ~d.taken /\ \A k \in kept.names : k <= d.cursor => d.meta[k] = names[k]
  BY DEF Sound, Registered, Counters, Walked
<1>2. /\ t \in Dbs /\ t.chain = d.chain /\ t.owner = d.owner /\ t.enrolled = d.enrolled /\ t.taken = d.taken
      /\ t.cursor = (IF done \/ page = {} THEN 0 ELSE Max(page))
      /\ t.stage = (IF done THEN Register ELSE Meta) /\ t.restart = d.restart \ {Meta}
      /\ ~done => Meta \notin t.done
      /\ \A k \in Keys : t.meta[k] = IF k \in page THEN names[k] ELSE d.meta[k]
  BY <1>1, MetaFields
<1>3. IsPage(page, Named, d.cursor) /\ Named \in SUBSET Keys
  BY PageFacts DEF Named, Dbs
<1>4. done = (Cardinality(Rest(Named, d.cursor)) <= 1)
  OBVIOUS
<1> HIDE DEF t, page, done
<1>5. page = {} => done \/ \A k \in Named : k <= d.cursor
  BY <1>3 DEF IsPage
<1>6. \A k \in Named : (done \/ k <= t.cursor) => k <= d.cursor \/ k \in page
  BY <1>2, <1>3, <1>4 DEF IsPage
<1>7. \A k \in kept.names : (done \/ k <= t.cursor) => t.meta[k] = names[k]
  BY <1>1, <1>2, <1>3, <1>6
<1>8. Registered(t, kept)
  <2>1. CASE done
    <3>1. \A k \in Keys : k \in Nat /\ ~(k <= 0)
      BY Positive
    <3>2. \A k \in kept.rows : ~(k <= 0)
      BY <3>1 DEF RegistryTyped
    <3>3. t.stage = Register /\ t.cursor = 0 /\ Register \in t.restart
      BY <1>1, <1>2, <2>1
    <3> QED
      BY <1>7, <2>1, <3>2, <3>3 DEF Registered
  <2>2. CASE ~done
    BY <1>1, <1>2, <1>7, <2>2 DEF Registered
  <2> QED
    BY <2>1, <2>2
<1>9. Counters(t) /\ Verified(t)
  BY <1>1, <1>2 DEF Counters, Verified
<1> QED
  BY <1>2, <1>8, <1>9 DEF Sound, t

LEMMA RegisterSound ==
    ASSUME RegistryTyped, NEW d \in Dbs, d.stage = Register, NEW kept, kept.names \in SUBSET Named,
           kept.rows \in SUBSET rows, Sound(d, kept)
    PROVE  RegisterBatch(d) \in Dbs /\ RegisterBatch(d).chain = d.chain /\ Sound(RegisterBatch(d), kept)
<1> DEFINE t == RegisterBatch(d)
           page == Page(rows, d.cursor)
<1>1. /\ ~Walked(d) /\ ~d.taken /\ \A k \in kept.names : d.meta[k] = names[k]
      /\ \A k \in kept.rows : k <= d.cursor => d.owner[k] # None
  BY DEF Sound, Registered, Counters, Walked
<1>2. /\ t \in Dbs /\ t.chain = d.chain /\ t.meta = d.meta /\ t.enrolled = d.enrolled /\ t.taken = d.taken
      /\ t.cursor = (IF page = {} THEN 0 ELSE Max(page))
      /\ t.stage = (IF page = {} THEN VerifyMeta ELSE Register)
      /\ page # {} => Register \notin t.done
      /\ \A k \in Keys : d.owner[k] # None \/ k \in page => t.owner[k] # None
  BY <1>1, RegisterFields
<1>3. IsPage(page, rows, d.cursor) /\ rows \in SUBSET Keys
  BY PageFacts DEF RegistryTyped, Dbs
<1> HIDE DEF t, page
<1>4. \A k \in rows : (page = {} \/ k <= t.cursor) => k <= d.cursor \/ k \in page
  BY <1>2, <1>3 DEF IsPage
<1>5. \A k \in kept.rows : (page = {} \/ k <= t.cursor) => t.owner[k] # None
  BY <1>1, <1>2, <1>3, <1>4
<1>6. Registered(t, kept)
  <2>1. CASE page = {}
    BY <1>1, <1>2, <1>5, <2>1 DEF Registered
  <2>2. CASE page # {}
    BY <1>1, <1>2, <1>5, <2>2 DEF Registered
  <2> QED
    BY <2>1, <2>2
<1>7. Counters(t) /\ Verified(t)
  BY <1>1, <1>2 DEF Counters, Verified
<1> QED
  BY <1>2, <1>6, <1>7 DEF Sound, t

LEMMA VerifySound ==
    ASSUME RegistryTyped, NEW d \in Dbs, d.stage \in {VerifyMeta, Verify}, Parity(d), NEW kept,
           kept.names \in SUBSET Named, kept.rows \in SUBSET rows, Sound(d, kept)
    PROVE  VerifyBatch(d) \in Dbs /\ VerifyBatch(d).chain = d.chain /\ Sound(VerifyBatch(d), kept)
<1> DEFINE t == VerifyBatch(d)
           S == IF d.stage = VerifyMeta THEN Named ELSE rows
           page == Page(S, d.cursor)
           done == IF d.stage = VerifyMeta THEN Cardinality(Rest(Named, d.cursor)) <= 1 ELSE page = {}
<1>1. /\ \A k \in kept.names : d.meta[k] = names[k]
      /\ \A k \in kept.rows : d.owner[k] # None
  BY DEF Sound, Registered
<1>2. /\ t \in Dbs /\ t.chain = d.chain /\ t.meta = d.meta /\ t.owner = d.owner /\ t.enrolled = d.enrolled
      /\ t.cursor = (IF done \/ page = {} THEN 0 ELSE Max(page))
      /\ t.stage = (IF done THEN d.stage + 1 ELSE d.stage)
      /\ t.taken = d.enrolled /\ t.stable = Stable(d) /\ t.moved = (d.enrolled /\ d.taken /\ d.moved)
  BY VerifyFields
<1>3. S \in SUBSET Keys /\ d.cursor \in Keys \cup {0}
  BY DEF Named, Dbs, RegistryTyped
<1>4. IsPage(page, S, d.cursor)
  <2> HIDE DEF S
  <2> QED
    BY <1>3, PageFacts
<1>5. \A k \in S : (done \/ k <= t.cursor) => k <= d.cursor \/ k \in page
  <2>1. done => Cardinality(Rest(S, d.cursor)) <= 1 \/ page = {}
    OBVIOUS
  <2> HIDE DEF page, done, S
  <2> QED
    BY <1>2, <1>4, <2>1 DEF IsPage
<1>6. page = {} /\ ~done => d.stage = VerifyMeta
  OBVIOUS
<1>7. /\ d.stage = VerifyMeta => S = Named /\ \A k \in page : d.meta[k] = names[k]
      /\ d.stage = Verify => S = rows /\ \A k \in page : d.owner[k] # None
  BY DEF Parity
<1>8. done \in BOOLEAN
  <2>1. (Cardinality(Rest(Named, d.cursor)) <= 1) \in BOOLEAN /\ (page = {}) \in BOOLEAN
    OBVIOUS
  <2> QED
    BY <2>1
<1> HIDE DEF t, page, done, S
<1>9. Registered(t, kept)
  BY <1>1, <1>2, <1>8 DEF Registered
<1>10. Counters(t)
  BY <1>2, <1>8 DEF Counters
<1>11. ASSUME t.taken, t.stable, ~t.moved PROVE Verified(t)
  <2>1. d.enrolled /\ (~d.taken \/ (d.stable /\ ~d.moved))
    BY <1>2, <1>11 DEF Stable
  <2>2. ~d.taken => d.stage = VerifyMeta /\ d.cursor = 0
    <3>1. d.stage > VerifyMeta \/ (d.stage = VerifyMeta /\ d.cursor # 0) => d.taken = d.enrolled
      BY DEF Sound, Counters
    <3>2. d.stage = Verify => d.stage > VerifyMeta
      OBVIOUS
    <3> QED
      BY <2>1, <3>1, <3>2
  <2>3. CASE d.stage = VerifyMeta
    <3>0. \A k \in Keys : k \in Nat /\ ~(k <= 0)
      BY Positive
    <3>1. \A k \in Named : k <= d.cursor => d.meta[k] = names[k]
      <4>1. CASE d.taken
        BY <2>1, <2>3, <4>1 DEF Sound, Verified
      <4>2. CASE ~d.taken
        BY <2>2, <3>0, <4>2 DEF Named
      <4> QED
        BY <4>1, <4>2
    <3>2. \A k \in Named : (done \/ k <= t.cursor) => t.meta[k] = names[k]
      BY <1>2, <1>5, <1>7, <2>3, <3>1
    <3>3. t.stage = Verify => done /\ t.cursor = 0
      BY <1>2, <1>8, <2>3
    <3>4. \A k \in rows : ~(k <= 0)
      BY <3>0 DEF RegistryTyped
    <3> QED
      BY <1>2, <1>8, <2>3, <3>2, <3>3, <3>4 DEF Verified
  <2>4. CASE d.stage = Verify
    <3>1. /\ \A k \in Named : d.meta[k] = names[k]
          /\ \A k \in rows : k <= d.cursor => d.owner[k] # None
      BY <2>1, <2>2, <2>4 DEF Sound, Verified
    <3>2. \A k \in rows : (done \/ k <= t.cursor) => t.owner[k] # None
      BY <1>2, <1>5, <1>7, <2>4, <3>1
    <3> QED
      BY <1>2, <1>8, <2>4, <3>1, <3>2 DEF Verified
  <2> QED
    BY <2>3, <2>4
<1>12. Verified(t)
  BY <1>11 DEF Verified
<1> QED
  BY <1>2, <1>9, <1>10, <1>12 DEF Sound, t

LEMMA BatchSound ==
    ASSUME RegistryTyped, NEW d \in Dbs, d.stage < Complete, d.stage >= VerifyMeta => Parity(d), NEW kept,
           kept.names \in SUBSET Named, kept.rows \in SUBSET rows, Sound(d, kept)
    PROVE  Batch(d) \in Dbs /\ Batch(d).chain = d.chain /\ Sound(Batch(d), kept)
<1>1. d.stage \in {Meta, Register, VerifyMeta, Verify}
  BY DEF Dbs
<1>2. CASE d.stage = Meta
  BY <1>2, MetaSound DEF Batch
<1>3. CASE d.stage = Register
  BY <1>3, RegisterSound DEF Batch
<1>4. CASE d.stage \in {VerifyMeta, Verify}
  BY <1>4, VerifySound DEF Batch
<1> QED
  BY <1>1, <1>2, <1>3, <1>4

\* What the operator may ask for keeps it too; a new pass starts over.
LEMMA PlannedSound ==
    ASSUME RegistryTyped, Sound(db, steady), db.chain = <<>> => db.stage = Meta /\ db.cursor = 0,
           NEW option \in {"resume", "reverify", "pass", "enrol"}, MayAsk(option, db)
    PROVE  /\ Planned(option, db) \in Dbs /\ Planned(option, db).chain = db.chain
           /\ Sound(Planned(option, db), IF option = "pass" \/ db.chain = <<>> THEN All ELSE steady)
<1> DEFINE kept == IF option = "pass" \/ db.chain = <<>> THEN All ELSE steady
<1>1. db \in Dbs /\ Named \in SUBSET Keys /\ rows \in SUBSET Keys
  BY DEF RegistryTyped, Named
<1>2. \A k \in Keys : k \in Nat /\ ~(k <= 0)
  BY Positive
<1>3. kept.names \in SUBSET Named /\ kept.rows \in SUBSET rows
  BY DEF RegistryTyped, All
<1>4. ASSUME NEW r, r = Reverify(db)
      PROVE  /\ r \in Dbs /\ r.chain = db.chain /\ r.stage = VerifyMeta /\ r.cursor = 0 /\ ~r.taken
             /\ r.restart = db.restart /\ r.done = db.done /\ r.meta = db.meta /\ r.owner = db.owner
  <2> DEFINE e1 == [db EXCEPT !.stage = VerifyMeta]
             e2 == [e1 EXCEPT !.cursor = 0]
             e3 == [e2 EXCEPT !.taken = FALSE]
             e4 == [e3 EXCEPT !.stable = FALSE]
             e5 == [e4 EXCEPT !.moved = FALSE]
  <2>1. r = e5
    BY <1>4 DEF Reverify
  <2>2. /\ e5.chain = db.chain /\ e5.stage = VerifyMeta /\ e5.cursor = 0 /\ e5.taken = FALSE
        /\ e5.restart = db.restart /\ e5.done = db.done /\ e5.meta = db.meta /\ e5.owner = db.owner
    BY <1>1 DEF Dbs
  <2>3. VerifyMeta \in Meta .. Complete /\ 0 \in Keys \cup {0} /\ FALSE \in BOOLEAN
    OBVIOUS
  <2>4. e1 \in Dbs
    BY <1>1, <2>3, DbUpdates
  <2> HIDE DEF e1
  <2>5. e2 \in Dbs
    BY <2>3, <2>4, DbUpdates
  <2> HIDE DEF e2
  <2>6. e3 \in Dbs
    BY <2>3, <2>5, DbUpdates
  <2> HIDE DEF e3
  <2>7. e4 \in Dbs
    BY <2>3, <2>6, DbUpdates
  <2> HIDE DEF e4
  <2>8. e5 \in Dbs
    BY <2>3, <2>7, DbUpdates
  <2> HIDE DEF e5
  <2> QED
    BY <2>1, <2>2, <2>8
<1>5. db.chain = <<>> => Sound(db, kept)
  <2>1. CASE db.chain = <<>>
    <3>1. \A k \in kept.names : ~(k <= db.cursor)
      BY <1>1, <1>2, <1>3, <2>1
    <3> HIDE DEF kept
    <3> QED
      BY <2>1, <3>1 DEF Sound, Registered, Counters, Verified
  <2> QED
    BY <2>1
<1>6. CASE option = "resume"
  BY <1>1, <1>5, <1>6 DEF Planned
<1>7. CASE option = "reverify"
  <2>1. db.stage >= VerifyMeta /\ db.chain # <<>>
    BY <1>7 DEF MayAsk
  <2>2. Sound(Reverify(db), steady)
    <3> DEFINE r == Reverify(db)
    <3>1. /\ r.stage = VerifyMeta /\ r.cursor = 0 /\ ~r.taken /\ r.meta = db.meta /\ r.owner = db.owner
      BY <1>4
    <3> HIDE DEF r
    <3>2. db.stage > Meta /\ db.stage > Register
      BY <1>1, <2>1 DEF Dbs
    <3>3. Sound(r, steady)
      BY <3>1, <3>2 DEF Sound, Registered, Counters, Verified
    <3> QED
      BY <3>3 DEF r
  <2> QED
    BY <1>4, <1>7, <2>1, <2>2 DEF Planned
<1>8. CASE option = "pass"
  <2> DEFINE r == Reverify(db)
             t == [r EXCEPT !.stage = Meta, !.restart = {Meta, Register}]
  <2>1. Planned(option, db) = t
    BY <1>8 DEF Planned, NewPass
  <2>2. /\ r \in Dbs /\ r.chain = db.chain /\ r.cursor = 0 /\ ~r.taken
    BY <1>4
  <2> HIDE DEF r
  <2>3. /\ t \in Dbs /\ t.chain = db.chain /\ t.stage = Meta /\ t.cursor = 0 /\ ~t.taken
        /\ t.restart = {Meta, Register}
    <3>0. Meta \in Meta .. Complete
      OBVIOUS
    <3>1. [r EXCEPT !.stage = Meta] \in Dbs
      BY <2>2, <3>0, DbUpdates
    <3>2. [[r EXCEPT !.stage = Meta] EXCEPT !.restart = {Meta, Register}] \in Dbs
      BY <3>1, DbUpdates
    <3> QED
      BY <2>2, <3>2 DEF Dbs
  <2> HIDE DEF t
  <2>4. \A k \in Named : ~(k <= t.cursor)
    BY <1>1, <1>2, <2>3
  <2>5. Sound(t, All)
    BY <2>3, <2>4 DEF Sound, Registered, Counters, Verified, All
  <2> QED
    BY <1>8, <2>1, <2>3, <2>5
<1>9. CASE option = "enrol" /\ db.stage >= VerifyMeta
  <2> DEFINE r == Reverify(db)
             t == [r EXCEPT !.enrolled = TRUE]
  <2>1. Planned(option, db) = t /\ db.chain # <<>>
    BY <1>9 DEF Planned, Enrol
  <2>2. /\ r \in Dbs /\ r.chain = db.chain /\ r.stage = VerifyMeta /\ r.cursor = 0 /\ ~r.taken
        /\ r.meta = db.meta /\ r.owner = db.owner
    BY <1>4
  <2> HIDE DEF r
  <2>3. /\ t \in Dbs /\ t.chain = db.chain /\ t.stage = VerifyMeta /\ t.cursor = 0 /\ ~t.taken
        /\ t.meta = db.meta /\ t.owner = db.owner
    BY <2>2 DEF Dbs
  <2> HIDE DEF t
  <2>4. db.stage > Meta /\ db.stage > Register
    BY <1>1, <1>9 DEF Dbs
  <2>5. Sound(t, steady)
    BY <2>3, <2>4 DEF Sound, Registered, Counters, Verified
  <2> QED
    BY <1>9, <2>1, <2>3, <2>5
<1>10. CASE option = "enrol" /\ ~(db.stage >= VerifyMeta)
  <2> DEFINE t == [db EXCEPT !.enrolled = TRUE]
  <2>1. Planned(option, db) = t
    BY <1>10 DEF Planned, Enrol
  <2>2. /\ t \in Dbs /\ t.chain = db.chain /\ t.stage = db.stage /\ t.cursor = db.cursor /\ t.taken = db.taken
        /\ t.meta = db.meta /\ t.owner = db.owner /\ t.restart = db.restart /\ t.done = db.done
    BY <1>1 DEF Dbs
  <2>3. Sound(db, kept)
    BY <1>5, <1>10
  <2> HIDE DEF t, kept
  <2>4. ~t.taken /\ t.stage \in {Meta, Register}
    BY <1>1, <1>10, <2>2 DEF Sound, Counters, Dbs
  <2>5. Sound(t, kept)
    BY <2>2, <2>3, <2>4 DEF Sound, Registered, Counters, Verified
  <2> QED
    BY <2>1, <2>2, <2>5 DEF kept
<1> QED
  BY <1>6, <1>7, <1>8, <1>9, <1>10

\* A write of the server leaves what progress tells of the keys it does not touch, and is counted.
LEMMA WriteSound ==
    ASSUME RegistryTyped, Sound(db, steady), db'.stage = db.stage, db'.cursor = db.cursor,
           db'.restart = db.restart, db'.done = db.done, db'.enrolled = db.enrolled, db'.taken = db.taken,
           db.taken => db'.moved,
           NEW k \in Keys,
           \A j \in Keys \ {k} : db'.meta[j] = db.meta[j] /\ names'[j] = names[j],
           \A j \in Keys : db.owner[j] # None => db'.owner[j] # None,
           \/ steady'.names = steady.names \ {k} /\ steady'.rows = steady.rows
           \/ steady'.names = steady.names /\ steady'.rows = steady.rows \ {k} /\ names' = names /\ db'.meta = db.meta
    PROVE  Sound(db, steady)'
<1>1. steady.names \in SUBSET Keys /\ steady.rows \in SUBSET Keys
  BY DEF RegistryTyped, Named
<1>2. \A j \in steady'.names : j \in steady.names /\ db'.meta[j] = db.meta[j] /\ names'[j] = names[j]
  BY <1>1
<1>3. \A j \in steady'.rows : j \in steady.rows /\ (db.owner[j] # None => db'.owner[j] # None)
  BY <1>1
<1>4. Registered(db, steady)'
  BY <1>2, <1>3 DEF Sound, Registered
<1>5. Counters(db)'
  BY DEF Sound, Counters
<1>6. Verified(db)'
  BY DEF Verified
<1> QED
  BY <1>4, <1>5, <1>6 DEF Sound

LEMMA NoTransIsNot == \A t \in Transactions : t.run # None /\ t # NoTrans
BY NoneIsNot DEF Transactions, NoTrans

\* A batch begins: its receipt is pending, and so is the run.
LEMMA BatchPrepared ==
    ASSUME RegistryKept, NEW p \in Runs, NEW d \in Dbs, d.chain = db.chain, NEW fresh \in BOOLEAN, NEW promoted,
           Prepare(p, d, fresh, promoted), Sound(d, IF fresh THEN All ELSE steady),
           \A id \in promoted : \E i \in DOMAIN db.chain : db.chain[i] = id,
           \A i \in DOMAIN db.chain : db.chain[i] \in files.committed \cup promoted
    PROVE  RegistryKept'
<1> DEFINE kept == IF fresh THEN All ELSE steady
           b == Batch(d)
           t == [b EXCEPT !.chain = Append(b.chain, made')]
<1>1. RegistryTyped /\ ChainKept /\ ProgressKept
  BY DEF RegistryKept
<1>2. /\ trans = NoTrans /\ made' = made + 1 /\ made' \in Ids /\ made' \in 0 .. MaxReceipts
      /\ d.stage < Complete /\ (d.stage >= VerifyMeta => Parity(d))
      /\ UNCHANGED <<names, rows, db, steady, moves>>
  BY <1>1, KeysAre DEF Prepare, Ids, RegistryTyped
<1>3. kept.names \in SUBSET Named /\ kept.rows \in SUBSET rows
  BY <1>1 DEF RegistryTyped, All
<1>4. b \in Dbs /\ b.chain = db.chain /\ Sound(b, kept)
  <2> HIDE DEF kept, b
  <2>1. Sound(d, kept)
    BY DEF kept
  <2> QED
    BY <1>1, <1>2, <1>3, <2>1, BatchSound DEF b
<1>5. trans' = [run |-> p, id |-> made', fresh |-> fresh, db |-> t]
  BY DEF Prepare
<1>6. run' = [run EXCEPT ![p] = [pc |-> "pending", no |-> Len(db.chain) + 1]]
  BY DEF Prepare
<1>7. files' = [pending |-> files.pending \cup {made'}, committed |-> files.committed \cup promoted]
  BY <1>1 DEF Prepare, Filed, RegistryTyped
<1> HIDE DEF kept, b
<1>8. db.chain \in Seq(Ids) /\ Append(b.chain, made') \in Seq(Ids)
  BY <1>1, <1>2, <1>4 DEF RegistryTyped, Dbs
<1>9. t \in Dbs
  BY <1>4, <1>8, DbUpdates
<1>10. /\ t.chain = Append(db.chain, made')
       /\ t.stage = b.stage /\ t.cursor = b.cursor /\ t.restart = b.restart /\ t.done = b.done /\ t.meta = b.meta
       /\ t.owner = b.owner /\ t.enrolled = b.enrolled /\ t.taken = b.taken /\ t.stable = b.stable
       /\ t.moved = b.moved
  BY <1>4 DEF Dbs
<1> HIDE DEF t
<1>11. Sound(t, kept)
  BY <1>4, <1>10 DEF Sound, Registered, Counters, Verified
<1>12. Len(db.chain) \in Nat /\ DOMAIN db.chain = 1 .. Len(db.chain) /\ Len(db.chain) <= made
  BY <1>1, <1>8 DEF ChainKept
<1>13. [pc |-> "pending", no |-> Len(db.chain) + 1] \in States
  BY <1>1, <1>2, <1>12, KeysAre DEF States, RegistryTyped
<1>14. run' \in [Runs -> States] /\ run'[p] = [pc |-> "pending", no |-> Len(db.chain) + 1]
       /\ \A q \in Runs \ {p} : run'[q] = run[q]
  BY <1>1, <1>6, <1>13 DEF RegistryTyped
<1>15. trans' \in Transactions /\ trans' # NoTrans
  <2>1. trans' \in Transactions
    BY <1>2, <1>5, <1>9 DEF Transactions
  <2> QED
    BY <2>1, NoTransIsNot
<1>16. promoted \in SUBSET Ids
  BY <1>8, <1>12
<1>17. files' \in [pending : SUBSET Ids, committed : SUBSET Ids]
  BY <1>1, <1>2, <1>7, <1>16 DEF RegistryTyped
<1>18. RegistryTyped'
  BY <1>1, <1>2, <1>14, <1>15, <1>17 DEF RegistryTyped, Named
<1>19. files'.committed = files.committed \cup promoted /\ files'.pending = files.pending \cup {made'}
  BY <1>7
<1>20. trans'.run = p /\ trans'.id = made' /\ trans'.fresh = fresh /\ trans'.db = t
  BY <1>5
<1>21. ChainKept'
  <2>1. (\A i \in DOMAIN db.chain : OnFile(db.chain[i]) /\ db.chain[i] \in files.committed)'
    BY <1>2, <1>19 DEF OnFile
  <2>2. \A id \in files'.committed : \E i \in DOMAIN db'.chain : db'.chain[i] = id
    BY <1>1, <1>2, <1>19 DEF ChainKept
  <2>3. Len(db'.chain) <= made' /\ Len(db'.chain) < made'
    BY <1>1, <1>2, <1>12 DEF RegistryTyped
  <2>4. /\ trans'.db.chain = Append(db'.chain, trans'.id) /\ trans'.id \in files'.pending /\ Committed(db.chain)'
        /\ run'[trans'.run].pc = "pending" /\ run'[trans'.run].no = Len(db'.chain) + 1
    BY <1>2, <1>10, <1>14, <1>19, <1>20, <2>1 DEF Committed
  <2>5. \A q \in Runs : /\ run'[q].pc \in {"commit", "next"} => run'[q].no \in 1 .. Len(db'.chain)
                        /\ run'[q].pc = "next" => db'.chain[run'[q].no] \in files'.committed
    BY <1>1, <1>2, <1>14, <1>19 DEF ChainKept
  <2> QED
    BY <2>1, <2>2, <2>3, <2>4, <2>5 DEF ChainKept
<1>22. ProgressKept'
  <2>1. Sound(db, steady)' /\ (db'.chain = <<>> => db'.stage = Meta /\ db'.cursor = 0)
    BY <1>1, <1>2 DEF ProgressKept, Sound, Registered, Counters, Verified, Named
  <2>2. Sound(trans.db, IF trans.fresh THEN All ELSE steady)'
    BY <1>2, <1>11, <1>20 DEF kept, Sound, Registered, Counters, Verified, Named, All
  <2> QED
    BY <2>1, <2>2 DEF ProgressKept
<1> QED
  BY <1>18, <1>21, <1>22 DEF RegistryKept

LEMMA BatchBegins ==
    ASSUME RegistryKept, NEW p \in Runs, NEW option \in {"resume", "reverify", "pass", "enrol"}, Begin(p, option)
    PROVE  RegistryKept'
<1> DEFINE d == Planned(option, db)
           fresh == option = "pass" \/ db.chain = <<>>
           promoted == IF db.chain = <<>> THEN {} ELSE {HeadOf(db.chain)}
<1>1. RegistryTyped /\ ChainKept /\ ProgressKept
  BY DEF RegistryKept
<1>2. MayAsk(option, db) /\ Prepare(p, d, fresh, promoted)
  BY DEF Begin
<1>3. d \in Dbs /\ d.chain = db.chain /\ Sound(d, IF fresh THEN All ELSE steady)
  BY <1>1, <1>2, PlannedSound DEF ProgressKept
<1>4. db.chain \in Seq(Ids)
  BY <1>1 DEF RegistryTyped, Dbs
<1>5. \A id \in promoted : \E i \in DOMAIN db.chain : db.chain[i] = id
  BY <1>4 DEF HeadOf
<1>6. \A i \in DOMAIN db.chain : db.chain[i] \in files.committed \cup promoted
  <2>1. \A i \in DOMAIN db.chain : i < Len(db.chain) \/ (i = Len(db.chain) /\ db.chain # <<>>)
    BY <1>4
  <2> QED
    BY <1>1, <2>1 DEF ChainKept, HeadOf
<1>7. fresh \in BOOLEAN
  <2>1. (option = "pass") \in BOOLEAN /\ (db.chain = <<>>) \in BOOLEAN
    OBVIOUS
  <2> QED
    BY <2>1
<1> HIDE DEF d, fresh, promoted
<1> QED
  BY <1>2, <1>3, <1>5, <1>6, <1>7, BatchPrepared

LEMMA BatchContinues ==
    ASSUME RegistryKept, NEW p \in Runs, Continue(p)
    PROVE  RegistryKept'
<1>1. RegistryTyped /\ ChainKept /\ ProgressKept
  BY DEF RegistryKept
<1>2. run[p].pc = "next" /\ run[p].no = Len(db.chain) /\ Prepare(p, db, FALSE, {})
  BY DEF Continue
<1>3. db \in Dbs /\ db.chain \in Seq(Ids) /\ Sound(db, steady)
  BY <1>1 DEF RegistryTyped, Dbs, ProgressKept
<1>4. \A i \in DOMAIN db.chain : db.chain[i] \in files.committed \cup {}
  <2>1. \A i \in DOMAIN db.chain : i < Len(db.chain) \/ i = run[p].no
    BY <1>2, <1>3
  <2> QED
    BY <1>1, <1>2, <2>1 DEF ChainKept
<1>5. Sound(db, IF FALSE THEN All ELSE steady)
  BY <1>3
<1> DEFINE no == FALSE
           none == {}
<1>6. /\ no \in BOOLEAN /\ Prepare(p, db, no, none) /\ Sound(db, IF no THEN All ELSE steady)
      /\ \A id \in none : \E i \in DOMAIN db.chain : db.chain[i] = id
      /\ \A i \in DOMAIN db.chain : db.chain[i] \in files.committed \cup none
  BY <1>2, <1>4, <1>5
<1> HIDE DEF no, none
<1> QED
  BY <1>3, <1>6, BatchPrepared

LEMMA BatchCommits ==
    ASSUME RegistryKept, NEW p \in Runs, Commit(p)
    PROVE  RegistryKept'
<1>1. RegistryTyped /\ ChainKept /\ ProgressKept
  BY DEF RegistryKept
<1>2. /\ trans.run = p /\ db' = trans.db /\ trans' = NoTrans /\ UNCHANGED <<names, rows, files, made, moves>>
      /\ steady' = IF trans.fresh THEN [names |-> Named, rows |-> rows] ELSE steady
      /\ run' = [run EXCEPT ![p].pc = "commit"]
  BY DEF Commit
<1>3. trans # NoTrans
  BY <1>2, NoneIsNot DEF NoTrans
<1>4. trans \in Transactions /\ trans.db \in Dbs /\ trans.fresh \in BOOLEAN /\ trans.id \in Ids
  BY <1>1, <1>3 DEF RegistryTyped, Transactions
<1>5. /\ db'.chain = Append(db.chain, trans.id) /\ trans.id \in files.pending /\ Committed(db.chain)
      /\ Len(db.chain) < made /\ run[p].pc = "pending" /\ run[p].no = Len(db.chain) + 1
  BY <1>1, <1>2, <1>3 DEF ChainKept
<1>6. db.chain \in Seq(Ids) /\ made \in Nat
  BY <1>1 DEF RegistryTyped, Dbs
<1>7. Len(db.chain) \in Nat /\ DOMAIN db.chain = 1 .. Len(db.chain) /\ Len(db'.chain) = Len(db.chain) + 1
      /\ DOMAIN db'.chain = 1 .. Len(db.chain) + 1
      /\ \A i \in 1 .. Len(db.chain) : db'.chain[i] = db.chain[i]
      /\ db'.chain[Len(db.chain) + 1] = trans.id
  BY <1>4, <1>5, <1>6
<1>8. /\ run' \in [Runs -> States] /\ run'[p].pc = "commit" /\ run'[p].no = Len(db.chain) + 1
      /\ \A q \in Runs \ {p} : run'[q] = run[q]
  BY <1>1, <1>2, <1>5 DEF RegistryTyped, States
<1>9. steady' \in [names : SUBSET Named, rows : SUBSET rows]
  BY <1>1, <1>2, <1>4 DEF RegistryTyped
<1>10. RegistryTyped'
  BY <1>1, <1>2, <1>4, <1>8, <1>9 DEF RegistryTyped, Named
<1>11. ChainKept'
  <2>1. (\A i \in DOMAIN db.chain : OnFile(db.chain[i]) /\ (i < Len(db.chain) => db.chain[i] \in files.committed))'
    <3>1. \A i \in 1 .. Len(db.chain) : db'.chain[i] \in files.committed
      BY <1>5, <1>7 DEF Committed
    <3>2. \A i \in DOMAIN db'.chain : i \in 1 .. Len(db.chain) \/ i = Len(db.chain) + 1
      BY <1>7
    <3> QED
      BY <1>2, <1>5, <1>7, <3>1, <3>2 DEF OnFile
  <2>2. \A id \in files'.committed : \E i \in DOMAIN db'.chain : db'.chain[i] = id
    <3>1. \A i \in DOMAIN db.chain : i \in DOMAIN db'.chain /\ db'.chain[i] = db.chain[i]
      BY <1>7
    <3> QED
      BY <1>1, <1>2, <3>1 DEF ChainKept
  <2>3. Len(db'.chain) <= made'
    BY <1>2, <1>5, <1>6, <1>7
  <2>4. \A q \in Runs : /\ run'[q].pc \in {"commit", "next"} => run'[q].no \in 1 .. Len(db'.chain)
                        /\ run'[q].pc = "next" => db'.chain[run'[q].no] \in files'.committed
    <3> SUFFICES ASSUME NEW q \in Runs
                 PROVE  /\ run'[q].pc \in {"commit", "next"} => run'[q].no \in 1 .. Len(db'.chain)
                        /\ run'[q].pc = "next" => db'.chain[run'[q].no] \in files'.committed
      OBVIOUS
    <3>1. CASE q = p
      BY <1>7, <1>8, <3>1
    <3>2. CASE q # p
      <4>1. run'[q] = run[q]
        BY <1>8, <3>2
      <4>2. /\ run[q].pc \in {"commit", "next"} => run[q].no \in 1 .. Len(db.chain)
            /\ run[q].pc = "next" => db.chain[run[q].no] \in files.committed
        BY <1>1 DEF ChainKept
      <4>3. run[q].pc = "next" => db'.chain[run[q].no] = db.chain[run[q].no]
        BY <1>7, <4>2
      <4>4. 1 .. Len(db.chain) \subseteq 1 .. Len(db'.chain)
        BY <1>7
      <4>5. run[q].pc = "next" => db'.chain[run[q].no] \in files.committed
        BY <4>2, <4>3
      <4>6. files'.committed = files.committed
        BY <1>2
      <4> QED
        BY <4>1, <4>2, <4>4, <4>5, <4>6
    <3> QED
      BY <3>1, <3>2
  <2>5. ~(trans' # NoTrans)
    BY <1>2
  <2> QED
    BY <2>1, <2>2, <2>3, <2>4, <2>5 DEF ChainKept
<1>12. ProgressKept'
  <2>1. Sound(trans.db, steady')
    BY <1>1, <1>2, <1>3 DEF ProgressKept, All
  <2>2. Sound(db, steady)'
    BY <1>2, <2>1 DEF Sound, Registered, Counters, Verified, Named
  <2>3. db'.chain # <<>>
    BY <1>7, <1>5, <1>6
  <2> QED
    BY <1>2, <2>2, <2>3 DEF ProgressKept
<1> QED
  BY <1>10, <1>11, <1>12 DEF RegistryKept

\* Receipts and runs change without the registry: what is kept of them, as one step.
LEMMA SameRegistry ==
    ASSUME RegistryKept, UNCHANGED <<names, rows, db, made, steady>>,
           moves' \in 0 .. MaxMoves, trans' = trans \/ trans' = NoTrans,
           run' \in [Runs -> States], trans' # NoTrans => run'[trans.run] = run[trans.run],
           \A p \in Runs : run'[p] = run[p] \/ run'[p].pc = "off"
                           \/ (run[p].pc = "commit" /\ run'[p].no = run[p].no
                               /\ db.chain[run[p].no] \in files'.committed),
           files' \in [pending : SUBSET Ids, committed : SUBSET Ids],
           files'.pending = files.pending, files.committed \subseteq files'.committed,
           \A id \in files'.committed : \E i \in DOMAIN db.chain : db.chain[i] = id
    PROVE  RegistryKept'
<1>1. RegistryTyped /\ ChainKept /\ ProgressKept
  BY DEF RegistryKept
<1>2. RegistryTyped'
  BY <1>1 DEF RegistryTyped, Named
<1>3. ChainKept'
  <2>1. (\A i \in DOMAIN db.chain : OnFile(db.chain[i]) /\ (i < Len(db.chain) => db.chain[i] \in files.committed))'
    BY <1>1 DEF ChainKept, OnFile
  <2>2. Committed(db.chain) => Committed(db.chain)'
    BY DEF Committed
  <2>3. Len(db'.chain) <= made' /\ (trans' # NoTrans =>
         /\ trans'.db.chain = Append(db'.chain, trans'.id) /\ trans'.id \in files'.pending /\ Committed(db.chain)'
         /\ Len(db'.chain) < made'
         /\ run'[trans'.run].pc = "pending" /\ run'[trans'.run].no = Len(db'.chain) + 1)
    BY <1>1, <2>2 DEF ChainKept
  <2>4. \A p \in Runs : /\ run'[p].pc \in {"commit", "next"} => run'[p].no \in 1 .. Len(db'.chain)
                        /\ run'[p].pc = "next" => db'.chain[run'[p].no] \in files'.committed
    <3> SUFFICES ASSUME NEW p \in Runs
                 PROVE  /\ run'[p].pc \in {"commit", "next"} => run'[p].no \in 1 .. Len(db'.chain)
                        /\ run'[p].pc = "next" => db'.chain[run'[p].no] \in files'.committed
      OBVIOUS
    <3>1. /\ run[p].pc \in {"commit", "next"} => run[p].no \in 1 .. Len(db.chain)
          /\ run[p].pc = "next" => db.chain[run[p].no] \in files.committed
      BY <1>1 DEF ChainKept
    <3>2. CASE run'[p] = run[p]
      BY <3>1, <3>2
    <3>3. CASE run'[p].pc = "off"
      BY <3>3
    <3>4. CASE run[p].pc = "commit" /\ run'[p].no = run[p].no /\ db.chain[run[p].no] \in files'.committed
      BY <3>1, <3>4
    <3> QED
      BY <3>2, <3>3, <3>4
  <2>5. \A id \in files'.committed : \E i \in DOMAIN db'.chain : db'.chain[i] = id
    OBVIOUS
  <2> QED
    BY <2>1, <2>3, <2>4, <2>5 DEF ChainKept
<1>4. ProgressKept'
  BY <1>1 DEF ProgressKept, Sound, Registered, Counters, Verified, Named, All
<1> QED
  BY <1>2, <1>3, <1>4 DEF RegistryKept

LEMMA ReceiptFiled ==
    ASSUME RegistryKept, NEW p \in Runs, FileCommitted(p)
    PROVE  RegistryKept'
<1> DEFINE id == db.chain[run[p].no]
<1>1. RegistryTyped /\ ChainKept
  BY DEF RegistryKept
<1>2. run[p].pc = "commit" /\ UNCHANGED <<names, rows, db, trans, made, steady, moves>>
  BY DEF FileCommitted
<1>3. db.chain \in Seq(Ids) /\ run[p].no \in DOMAIN db.chain
  BY <1>1, <1>2 DEF RegistryTyped, Dbs, ChainKept
<1>4. id \in Ids
  BY <1>3
<1>5. /\ files' \in [pending : SUBSET Ids, committed : SUBSET Ids]
      /\ files'.pending = files.pending /\ files'.committed = files.committed \cup {id}
  BY <1>1, <1>4 DEF FileCommitted, RegistryTyped
<1>6. /\ run' \in [Runs -> States] /\ run'[p].no = run[p].no
      /\ \A q \in Runs : q # p => run'[q] = run[q]
  BY <1>1 DEF FileCommitted, RegistryTyped, States
<1>7. trans' # NoTrans => trans.run # p
  BY <1>1, <1>2 DEF ChainKept
<1>8. trans' # NoTrans => trans.run \in Runs
  BY <1>1, <1>2 DEF RegistryTyped, Transactions
<1>9. \A j \in files'.committed : \E i \in DOMAIN db.chain : db.chain[i] = j
  BY <1>1, <1>3, <1>5 DEF ChainKept
<1>10. moves' \in 0 .. MaxMoves
  BY <1>1, <1>2 DEF RegistryTyped
<1>11. db.chain[run[p].no] \in files'.committed /\ files.committed \subseteq files'.committed
  BY <1>5
<1> QED
  BY <1>2, <1>5, <1>6, <1>7, <1>8, <1>9, <1>10, <1>11, SameRegistry

LEMMA RunEnds ==
    ASSUME RegistryKept, NEW p \in Runs, End(p)
    PROVE  RegistryKept'
<1>1. RegistryTyped /\ ChainKept
  BY DEF RegistryKept
<1>2. UNCHANGED <<names, rows, db, files, made, steady>>
  BY DEF End
<1>3. moves' \in 0 .. MaxMoves
  BY <1>1, KeysAre DEF End, RegistryTyped
<1>4. [pc |-> "off", no |-> 0] \in States
  BY KeysAre DEF States
<1>5. run' \in [Runs -> States] /\ run'[p].pc = "off" /\ \A q \in Runs : q # p => run'[q] = run[q]
  BY <1>1, <1>4 DEF End, RegistryTyped
<1>6. trans' = trans \/ trans' = NoTrans
  BY DEF End
<1>7. trans' # NoTrans => trans.run # p
  BY DEF End
<1>8. trans' # NoTrans => trans.run \in Runs
  BY <1>1, <1>6 DEF RegistryTyped, Transactions
<1>9. /\ files' \in [pending : SUBSET Ids, committed : SUBSET Ids]
      /\ \A j \in files'.committed : \E i \in DOMAIN db.chain : db.chain[i] = j
  BY <1>1, <1>2 DEF RegistryTyped, ChainKept
<1> QED
  BY <1>2, <1>3, <1>5, <1>6, <1>7, <1>8, <1>9, SameRegistry

LEMMA ReceiptReconciled ==
    ASSUME RegistryKept, NEW id \in Ids, Reconcile(id)
    PROVE  RegistryKept'
<1>1. RegistryTyped /\ ChainKept
  BY DEF RegistryKept
<1>2. UNCHANGED <<names, rows, db, run, trans, made, steady, moves>> /\ \E i \in DOMAIN db.chain : db.chain[i] = id
  BY DEF Reconcile, Promotable
<1>3. /\ files' \in [pending : SUBSET Ids, committed : SUBSET Ids]
      /\ files'.pending = files.pending /\ files'.committed = files.committed \cup {id}
  BY <1>1 DEF Reconcile, RegistryTyped
<1>4. \A j \in files'.committed : \E i \in DOMAIN db.chain : db.chain[i] = j
  BY <1>1, <1>2, <1>3 DEF ChainKept
<1>5. moves' \in 0 .. MaxMoves /\ run' \in [Runs -> States] /\ files.committed \subseteq files'.committed
  BY <1>1, <1>2, <1>3 DEF RegistryTyped
<1> QED
  BY <1>2, <1>3, <1>4, <1>5, SameRegistry

\* The server's writes leave the chain, the runs and the receipts alone.
LEMMA SameChain ==
    ASSUME RegistryKept, trans = NoTrans, UNCHANGED <<files, run, trans, made>>, moves < MaxMoves, moves' = moves + 1,
           names' \in [Keys -> Versions \cup {None}], rows' \in SUBSET Keys, db' \in Dbs,
           steady' \in [names : SUBSET Named', rows : SUBSET rows'], db'.chain = db.chain,
           db'.stage = db.stage, db'.cursor = db.cursor, Sound(db, steady)'
    PROVE  RegistryKept'
<1>1. RegistryTyped /\ ChainKept /\ ProgressKept
  BY DEF RegistryKept
<1>2. RegistryTyped'
  BY <1>1, KeysAre DEF RegistryTyped
<1>3. ChainKept'
  BY <1>1 DEF ChainKept, OnFile
<1>4. ProgressKept'
  BY <1>1 DEF ProgressKept
<1> QED
  BY <1>2, <1>3, <1>4 DEF RegistryKept

\* What a write of the server makes of the registry's counters.
IsTouched(t) ==
    /\ t \in Dbs /\ t.chain = db.chain /\ t.stage = db.stage /\ t.cursor = db.cursor
    /\ t.restart = db.restart /\ t.done = db.done /\ t.enrolled = db.enrolled /\ t.taken = db.taken
    /\ t.meta = db.meta /\ t.owner = db.owner /\ t.listing = db.listing /\ (db.taken => t.moved)
LEMMA TouchedFields ==
    ASSUME RegistryKept, NEW k
    PROVE  IsTouched(Counted(db)) /\ IsTouched(Touched(db, k))
<1> DEFINE moved == db.moved \/ (db.enrolled /\ db.taken)
           c == [db EXCEPT !.moved = moved]
           touched == db.touched \/ k \in db.items
           t == [c EXCEPT !.touched = touched]
<1>1. db \in Dbs /\ (db.taken => db.enrolled)
  BY DEF RegistryKept, RegistryTyped, ProgressKept, Sound, Counters
<1>2. moved \in BOOLEAN /\ touched \in BOOLEAN /\ (db.taken => moved)
  <2>1. (k \in db.items) \in BOOLEAN
    OBVIOUS
  <2>2. db.moved \in BOOLEAN /\ db.enrolled \in BOOLEAN /\ db.taken \in BOOLEAN /\ db.touched \in BOOLEAN
    BY <1>1 DEF Dbs
  <2> QED
    BY <1>1, <2>1, <2>2
<1>3. Counted(db) = c
  BY DEF Counted
<1> HIDE DEF moved
<1>4. c \in Dbs
  BY <1>1, <1>2, DbUpdates
<1>5. IsTouched(c)
  BY <1>1, <1>2, <1>4 DEF IsTouched, Dbs
<1>6. Touched(db, k) = [c EXCEPT !.touched = c.touched \/ k \in db.items] /\ c.touched = db.touched
  BY <1>1, <1>3 DEF Touched, Dbs
<1> HIDE DEF c
<1>7. Touched(db, k) = t
  BY <1>6
<1> HIDE DEF touched
<1>8. t \in Dbs
  BY <1>2, <1>4, DbUpdates
<1>9. IsTouched(t)
  BY <1>4, <1>5, <1>8 DEF IsTouched, Dbs
<1> QED
  BY <1>3, <1>5, <1>7, <1>9

LEMMA NameWritten ==
    ASSUME RegistryKept, NEW k \in Keys, NEW v \in Versions \cup {None}, ServerName(k, v)
    PROVE  RegistryKept'
<1>1. RegistryTyped /\ Sound(db, steady)
  BY DEF RegistryKept, ProgressKept
<1>2. /\ trans = NoTrans /\ moves < MaxMoves /\ moves' = moves + 1 /\ UNCHANGED <<rows, files, run, trans, made>>
      /\ names' = [names EXCEPT ![k] = v] /\ steady' = [steady EXCEPT !.names = @ \ {k}]
  BY DEF ServerName
<1>3. /\ names' \in [Keys -> Versions \cup {None}] /\ \A j \in Keys \ {k} : names'[j] = names[j]
  BY <1>1, <1>2 DEF RegistryTyped
<1>4. steady'.names = steady.names \ {k} /\ steady'.rows = steady.rows
  BY <1>1, <1>2 DEF RegistryTyped
<1>5. steady' \in [names : SUBSET Named', rows : SUBSET rows']
  BY <1>1, <1>2, <1>3 DEF RegistryTyped, Named
<1>6. /\ db' \in Dbs /\ db'.chain = db.chain /\ db'.stage = db.stage /\ db'.cursor = db.cursor
      /\ db'.restart = db.restart /\ db'.done = db.done /\ db'.enrolled = db.enrolled /\ db'.taken = db.taken
      /\ db'.owner = db.owner /\ (db.taken => db'.moved) /\ \A j \in Keys \ {k} : db'.meta[j] = db.meta[j]
  <2> DEFINE c == Counted(db)
             t == Touched(db, k)
  <2>1. IsTouched(c) /\ IsTouched(t)
    BY TouchedFields
  <2>2. \/ db' = c
        \/ v # None /\ db' = [t EXCEPT !.meta[k] = v, !.listing = @ \cup {k}]
    BY DEF ServerName
  <2> HIDE DEF c, t
  <2>3. CASE db' = c
    BY <2>1, <2>3 DEF IsTouched
  <2>4. CASE v # None /\ db' = [t EXCEPT !.meta[k] = v, !.listing = @ \cup {k}]
    <3> DEFINE meta == [t.meta EXCEPT ![k] = v]
               listing == t.listing \cup {k}
               e == [t EXCEPT !.meta = meta]
               f == [e EXCEPT !.listing = listing]
    <3>1. t \in Dbs
      BY <2>1 DEF IsTouched
    <3>2. meta \in [Keys -> Versions \cup {None}] /\ listing \in SUBSET Keys
          /\ \A j \in Keys \ {k} : meta[j] = t.meta[j]
      BY <3>1 DEF Dbs
    <3>3. db' = f
      BY <2>4, <3>1 DEF Dbs
    <3> HIDE DEF meta, listing
    <3>4. /\ f.chain = t.chain /\ f.stage = t.stage /\ f.cursor = t.cursor /\ f.restart = t.restart
          /\ f.done = t.done /\ f.enrolled = t.enrolled /\ f.taken = t.taken /\ f.owner = t.owner
          /\ f.moved = t.moved /\ f.meta = meta
      BY <3>1 DEF Dbs
    <3>5. e \in Dbs
      BY <3>1, <3>2, DbUpdates
    <3> HIDE DEF e
    <3>6. f \in Dbs
      BY <3>2, <3>5, DbUpdates
    <3> HIDE DEF f
    <3>7. \A j \in Keys \ {k} : f.meta[j] = db.meta[j]
      BY <2>1, <3>2, <3>4 DEF IsTouched
    <3> QED
      BY <2>1, <3>3, <3>4, <3>6, <3>7 DEF IsTouched
  <2> QED
    BY <2>2, <2>3, <2>4
<1>7. Sound(db, steady)'
  <2>1. \A j \in Keys \ {k} : db'.meta[j] = db.meta[j] /\ names'[j] = names[j]
    BY <1>3, <1>6
  <2>2. \A j \in Keys : db.owner[j] # None => db'.owner[j] # None
    BY <1>6
  <2>3. /\ db'.stage = db.stage /\ db'.cursor = db.cursor /\ db'.restart = db.restart /\ db'.done = db.done
        /\ db'.enrolled = db.enrolled /\ db'.taken = db.taken /\ (db.taken => db'.moved)
    BY <1>6
  <2> QED
    BY <1>1, <1>4, <2>1, <2>2, <2>3, WriteSound
<1>8. rows' \in SUBSET Keys
  BY <1>1, <1>2 DEF RegistryTyped
<1>9. db' \in Dbs /\ db'.chain = db.chain /\ db'.stage = db.stage /\ db'.cursor = db.cursor
  BY <1>6
<1> QED
  BY <1>2, <1>3, <1>5, <1>7, <1>8, <1>9, SameChain

LEMMA RowWritten ==
    ASSUME RegistryKept, NEW k \in Keys, ServerRow(k)
    PROVE  RegistryKept'
<1>1. RegistryTyped /\ Sound(db, steady)
  BY DEF RegistryKept, ProgressKept
<1>2. /\ trans = NoTrans /\ moves < MaxMoves /\ moves' = moves + 1 /\ UNCHANGED <<names, files, run, trans, made>>
      /\ rows' = (IF k \in rows THEN rows \ {k} ELSE rows \cup {k}) /\ steady' = [steady EXCEPT !.rows = @ \ {k}]
  BY DEF ServerRow
<1>3. rows' \in SUBSET Keys /\ names' \in [Keys -> Versions \cup {None}]
  BY <1>1, <1>2 DEF RegistryTyped
<1>4. steady'.names = steady.names /\ steady'.rows = steady.rows \ {k}
  BY <1>1, <1>2 DEF RegistryTyped
<1>5. steady' \in [names : SUBSET Named', rows : SUBSET rows']
  BY <1>1, <1>2 DEF RegistryTyped, Named
<1>6. /\ db' \in Dbs /\ db'.chain = db.chain /\ db'.stage = db.stage /\ db'.cursor = db.cursor
      /\ db'.restart = db.restart /\ db'.done = db.done /\ db'.enrolled = db.enrolled /\ db'.taken = db.taken
      /\ db'.meta = db.meta /\ (db.taken => db'.moved)
      /\ \A j \in Keys : db.owner[j] # None => db'.owner[j] # None
  <2> DEFINE c == Counted(db)
             t == Touched(db, k)
  <2>1. IsTouched(c) /\ IsTouched(t)
    BY TouchedFields
  <2>2. db' = c \/ db' = [t EXCEPT !.owner[k] = "listing"]
    BY DEF ServerRow
  <2> HIDE DEF c, t
  <2>3. CASE db' = c
    BY <2>1, <2>3 DEF IsTouched
  <2>4. CASE db' = [t EXCEPT !.owner[k] = "listing"]
    <3> DEFINE owner == [t.owner EXCEPT ![k] = "listing"]
               f == [t EXCEPT !.owner = owner]
    <3>1. t \in Dbs
      BY <2>1 DEF IsTouched
    <3>2. owner \in [Keys -> {"listing", "reference", None}]
      BY <3>1 DEF Dbs
    <3>3. \A j \in Keys : t.owner[j] # None => owner[j] # None
      <4>1. None # "listing"
        BY NoneIsNot
      <4> QED
        BY <3>1, <4>1 DEF Dbs
    <3>4. db' = f
      BY <2>4, <3>1 DEF Dbs
    <3> HIDE DEF owner
    <3>5. /\ f.chain = t.chain /\ f.stage = t.stage /\ f.cursor = t.cursor /\ f.restart = t.restart
          /\ f.done = t.done /\ f.enrolled = t.enrolled /\ f.taken = t.taken /\ f.meta = t.meta
          /\ f.moved = t.moved /\ f.owner = owner
      BY <3>1 DEF Dbs
    <3>6. f \in Dbs
      BY <3>1, <3>2, DbUpdates
    <3> HIDE DEF f
    <3> QED
      BY <2>1, <3>3, <3>4, <3>5, <3>6 DEF IsTouched
  <2> QED
    BY <2>2, <2>3, <2>4
<1>7. Sound(db, steady)'
  <2>1. \A j \in Keys \ {k} : db'.meta[j] = db.meta[j] /\ names'[j] = names[j]
    BY <1>2, <1>6
  <2>2. names' = names /\ db'.meta = db.meta
    BY <1>2, <1>6
  <2>3. /\ db'.stage = db.stage /\ db'.cursor = db.cursor /\ db'.restart = db.restart /\ db'.done = db.done
        /\ db'.enrolled = db.enrolled /\ db'.taken = db.taken /\ (db.taken => db'.moved)
        /\ \A j \in Keys : db.owner[j] # None => db'.owner[j] # None
    BY <1>6
  <2> QED
    BY <1>1, <1>4, <2>1, <2>2, <2>3, WriteSound
<1>8. db' \in Dbs /\ db'.chain = db.chain /\ db'.stage = db.stage /\ db'.cursor = db.cursor
  BY <1>6
<1> QED
  BY <1>2, <1>3, <1>5, <1>7, <1>8, SameChain

LEMMA RegistryInit == Init => RegistryKept
<1> SUFFICES ASSUME Init PROVE RegistryKept
  OBVIOUS
<1>1. /\ db.chain = <<>> /\ db.stage = Meta /\ db.cursor = 0 /\ db.restart = {Register} /\ db.done = {}
      /\ ~db.taken /\ ~db.enrolled
  BY DEF Init
<1>2. db \in Dbs
  <2> DEFINE none == [k \in Keys |-> None]
  <2>1. none \in [Keys -> Versions \cup {None}] /\ none \in [Keys -> {"listing", "reference", None}]
    OBVIOUS
  <2>2. <<>> \in Seq(Ids) /\ Meta \in Meta .. Complete
    OBVIOUS
  <2> HIDE DEF none
  <2>3. db = [chain |-> <<>>, stage |-> Meta, cursor |-> 0, restart |-> {Register}, done |-> {},
              meta |-> none, listing |-> {}, owner |-> none, enrolled |-> FALSE, taken |-> FALSE,
              stable |-> FALSE, moved |-> FALSE, items |-> {}, touched |-> FALSE]
    BY DEF Init, none
  <2> QED
    BY <2>1, <2>2, <2>3 DEF Dbs
<1>3. names \in [Keys -> Versions \cup {None}]
  <2>1. 1 \in Versions
    BY StoresAssumption DEF StoresAssumption, MigrationAssumption
  <2>2. names \in [Keys -> {1, None}]
    BY DEF Init
  <2> QED
    BY <2>1, <2>2
<1>4. [pc |-> "off", no |-> 0] \in States /\ 0 \in 0 .. MaxReceipts /\ 0 \in 0 .. MaxMoves
  BY KeysAre DEF States
<1>5. RegistryTyped
  BY <1>2, <1>3, <1>4 DEF Init, RegistryTyped
<1>6. ChainKept
  BY <1>1 DEF Init, ChainKept
<1>7. steady.names = {} /\ steady.rows = {} /\ trans = NoTrans
  BY DEF Init
<1>8. ProgressKept
  BY <1>1, <1>7 DEF ProgressKept, Sound, Registered, Counters, Verified
<1> QED
  BY <1>5, <1>6, <1>8 DEF RegistryKept

LEMMA RegistryStep == RegistryKept /\ [Next]_vars => RegistryKept'
<1> SUFFICES ASSUME RegistryKept, [Next]_vars PROVE RegistryKept'
  OBVIOUS
<1>1. ASSUME NEW p \in Runs, NEW option \in {"resume", "reverify", "pass", "enrol"}, Begin(p, option)
      PROVE  RegistryKept'
  BY <1>1, BatchBegins
<1>2. ASSUME NEW p \in Runs, Continue(p) \/ Commit(p) \/ FileCommitted(p) \/ End(p)
      PROVE  RegistryKept'
  BY <1>2, BatchContinues, BatchCommits, ReceiptFiled, RunEnds
<1>3. ASSUME NEW id \in Ids, Reconcile(id)
      PROVE  RegistryKept'
  BY <1>3, ReceiptReconciled
<1>4. ASSUME NEW k \in Keys, ServerRow(k) \/ (\E v \in Versions \cup {None} : ServerName(k, v))
      PROVE  RegistryKept'
  BY <1>4, RowWritten, NameWritten
<1>5. CASE UNCHANGED vars
  BY <1>5 DEF vars, RegistryKept, RegistryTyped, ChainKept, ProgressKept, Committed, OnFile, Sound, Registered,
              Counters, Verified, Named, All
<1> QED
  BY <1>1, <1>2, <1>3, <1>4, <1>5 DEF Next

LEMMA RegistryTold == RegistryKept => MigrationInv /\ ReportsTrue
<1> SUFFICES ASSUME RegistryKept PROVE MigrationInv /\ ReportsTrue
  OBVIOUS
<1>1. RegistryTyped /\ ChainKept /\ ProgressKept
  BY DEF RegistryKept
<1>2. TypeOK
  <2>1. /\ db.chain \in Seq(Ids) /\ db.stage \in Meta .. Complete /\ db.cursor \in Keys \cup {0}
        /\ db.restart \cup db.done \subseteq {Meta, Register}
        /\ db.meta \in [Keys -> Versions \cup {None}] /\ db.listing \subseteq Keys
        /\ db.owner \in [Keys -> {"listing", "reference", None}]
        /\ {db.enrolled, db.taken, db.stable, db.moved, db.touched} \subseteq BOOLEAN /\ db.items \subseteq Keys
    BY <1>1 DEF RegistryTyped, Dbs
  <2>2. trans.run \in Runs \cup {None}
    BY <1>1 DEF RegistryTyped, Transactions, NoTrans
  <2>3. /\ names \in [Keys -> Versions \cup {None}] /\ rows \subseteq Keys
        /\ files.pending \cup files.committed \subseteq Ids
        /\ run \in [Runs -> [pc : {"off", "pending", "commit", "next"}, no : 0 .. MaxReceipts]]
        /\ made \in 0 .. MaxReceipts /\ moves \in 0 .. MaxMoves
    BY <1>1 DEF RegistryTyped, States
  <2> QED
    BY <2>1, <2>2, <2>3 DEF TypeOK
<1>3. MigrationInv
  <2>1. \A i \in DOMAIN db.chain : OnFile(db.chain[i]) /\ (i < Len(db.chain) => db.chain[i] \in files.committed)
    BY <1>1 DEF ChainKept
  <2>2. files.committed \subseteq {db.chain[i] : i \in DOMAIN db.chain}
    BY <1>1 DEF ChainKept
  <2> QED
    BY <1>2, <2>1, <2>2 DEF MigrationInv
<1>4. ReportsTrue
  <2>1. Registered(db, steady) /\ Verified(db) /\ db.stage \in Meta .. Complete
    BY <1>1 DEF ProgressKept, Sound, RegistryTyped, Dbs
  <2> QED
    BY <2>1 DEF ReportsTrue, Coherent, Registered, Verified
<1> QED
  BY <1>3, <1>4

(***************************************************************************)
(* MigrationInv of every behaviour of the migration: no run, wherever it   *)
(* ends and whoever resumes, loses a batch's receipt, marks one committed  *)
(* that is not, or goes on past a batch whose receipt does not say so      *)
(* (apply_batches, load_checkpoint, reconcile_pending_receipt).            *)
(***************************************************************************)
THEOREM ReceiptsKept == Spec => []MigrationInv
<1> QED
  BY RegistryInit, RegistryStep, RegistryTold, PTL DEF Spec

(***************************************************************************)
(* ReportsTrue of every behaviour: what stages and proof counters tell of  *)
(* rows and streams holds of them, however the server's writes fall among  *)
(* the batches and whatever the operator asks of a run                     *)
(* (verify_current_batch, current_readiness).                              *)
(***************************************************************************)
THEOREM ReportsHold == Spec => []ReportsTrue
<1> QED
  BY RegistryInit, RegistryStep, RegistryTold, PTL DEF Spec

-----------------------------------------------------------------------------
HIDE DEF Meta, Register, VerifyMeta, Verify, Complete

(***************************************************************************)
(* The market's rows.  For a source whose payloads were stored in order,   *)
(* rows are those of its receipt, and no later bucket than a row's own has *)
(* an observation, so one found in the bucket of a store is the row's.     *)
(***************************************************************************)
BucketOf(t) == t \div Bucket
Gots(s) == [body : Market!Payloads(s), fetched : Market!Times]
Stamps(s) == [body : Market!Payloads(s), at : Market!Times, fetched : Market!Times]
MarketPcs == {"off", "fetching", "ready", "writing", "stored", "told"}

MarketTyped ==
    /\ clock \in Market!Times /\ feed = [s \in Market!Sources |-> feed[s]] /\ marketMoves \in 0 .. MarketMoves
    /\ market = [rows |-> market.rows, seen |-> market.seen, receipt |-> market.receipt,
                 primary |-> market.primary, lookups |-> market.lookups, current |-> market.current]
    /\ market.rows = [s \in Market!Sources |-> [n \in Names |-> market.rows[s][n]]]
    /\ market.primary = [n \in Names |-> market.primary[n]] /\ market.current \in BOOLEAN
    /\ \A s \in Market!Sources :
         /\ feed[s] \in Market!Payloads(s)
         /\ market.rows[s] \in [Names -> Market!Rows(s) \cup {None}]
         /\ market.seen[s] \in [Names -> [Market!Buckets -> Prices[s] \cup {None}]]
         /\ market.receipt[s] \in Stamps(s) \cup {None}
         /\ newest[s] \in Gots(s) \cup {None}
    /\ lock \in Market!Syncs \cup {None}

\* What a sync has in hand.
Carries(w) ==
    /\ w = [pc |-> w.pc, at |-> w.at, got |-> w.got, behind |-> w.behind, any |-> w.any]
    /\ w.pc \in MarketPcs /\ {w.behind, w.any} \subseteq BOOLEAN
    /\ w.pc \in {"fetching", "ready", "writing"} =>
         /\ w.at \in Market!Times /\ w.at <= clock
         /\ \A s \in Market!Sources : w.got[s] # None =>
              w.got[s] \in Gots(s) /\ w.at <= w.got[s].fetched /\ w.got[s].fetched <= clock
         /\ ~w.behind => \A s \in Market!Sources :
              /\ market.receipt[s] # None => market.receipt[s].at <= w.at
              /\ newest[s] # None => newest[s].fetched <= w.at
SyncsTrue == sync = [p \in Market!Syncs |-> sync[p]] /\ \A p \in Market!Syncs : Carries(sync[p])
StoredBefore ==
    \A s \in Market!Sources : /\ market.receipt[s] # None => market.receipt[s].at <= clock
                              /\ newest[s] # None => newest[s].fetched <= clock

\* A name's row and observations beside its receipt, and a row beside what a payload says.
RowDated(row, seen, stamp) ==
    /\ row = None => \A b \in Market!Buckets : b > BucketOf(stamp) => seen[b] = None
    /\ row # None => /\ row.at <= stamp /\ seen[BucketOf(row.at)] = row.price
                     /\ \A b \in Market!Buckets : b > BucketOf(row.at) => seen[b] = None
Shows(row, say) == IF say = None THEN row = None ELSE row # None /\ row.price = say
Blank(s) == \A n \in Names : market.rows[s][n] = None /\ \A b \in Market!Buckets : market.seen[s][n][b] = None
InOrder(s) ==
    /\ market.receipt[s] = None <=> newest[s] = None
    /\ market.receipt[s] = None => Blank(s)
    /\ market.receipt[s] # None =>
         /\ newest[s].body = market.receipt[s].body
         /\ \A n \in Names : /\ RowDated(market.rows[s][n], market.seen[s][n], market.receipt[s].at)
                             /\ Shows(market.rows[s][n], market.receipt[s].body[n])

\* What the status says while the loop's sync is at pc, given whether its round committed.
Tells(st, pc, committed) ==
    /\ st = [active |-> st.active, state |-> st.state, commit |-> st.commit, errors |-> st.errors, finished |-> st.finished]
    /\ st.commit \in {"not_started", "uncommitted", "committed", "unknown"}
    /\ st.state \in {"idle", "running", "completed", "completed_with_errors", "failed"}
    /\ st.active \in BOOLEAN /\ (st.active <=> pc # "off") /\ (st.active => st.state = "running")
    /\ committed \in BOOLEAN
    /\ pc \in {"fetching", "ready"} => st.commit = "not_started" /\ ~committed
    /\ pc = "writing" => st.commit = "uncommitted" /\ ~committed
    /\ pc = "stored" => st.commit = "uncommitted" /\ committed
    /\ pc = "told" => st.commit = "committed" /\ committed
    /\ pc = "off" /\ committed => st.commit \in {"committed", "unknown"}
    /\ st.commit = "committed" => committed
    /\ st.state \in {"completed", "completed_with_errors"} => committed

MarketKept ==
    /\ MarketTyped /\ SyncsTrue /\ StoredBefore
    /\ \A s \in Market!Sources \ late : InOrder(s)
    /\ \A n \in Names : market.primary[n] = Market!Primary(market.rows, n)
    /\ market.current => market.lookups = market.rows
    /\ Tells(status, sync[AutoSync].pc, round)

LEMMA MarketBounds ==
    /\ AutoSync \notin Asked /\ Market!Syncs = Asked \cup {AutoSync} /\ None \notin Market!Syncs
    /\ DOMAIN Order \subseteq Nat /\ Bucket \in Nat \ {0} /\ MaxTime \in Nat \ {0} /\ MarketMoves \in Nat
    /\ Market!Times = 1 .. MaxTime /\ Market!Times \subseteq Nat
    /\ \A s \in Market!Sources :
         /\ Prices[s] \subseteq Nat \ {0} /\ None \notin Prices[s] /\ None \notin Market!Rows(s)
         /\ None \notin Gots(s) /\ None \notin Stamps(s)
BY StoresAssumption DEF StoresAssumption, Market!MarketAssumption, Market!Syncs, Market!Times, Gots, Stamps

\* Later times are in later buckets, or in the same.
LEMMA BucketFacts ==
    /\ \A t \in Market!Times : BucketOf(t) \in Market!Buckets /\ BucketOf(t) \in Nat
    /\ \A t, u \in Market!Times : t <= u => BucketOf(t) <= BucketOf(u)
    /\ \A b \in Market!Buckets : b \in Nat
<1>1. ASSUME NEW t \in Nat PROVE t \div Bucket \in Nat
  BY MarketBounds
<1>2. ASSUME NEW t \in Nat, NEW u \in Nat, t <= u PROVE t \div Bucket <= u \div Bucket
  BY <1>2, MarketBounds
<1> QED
  BY <1>1, <1>2, MarketBounds DEF BucketOf, Market!Buckets

\* The primary price of a name is a matter of that name's rows.
LEMMA PrimarySame ==
    ASSUME NEW one, NEW two, NEW n, \A s \in Market!Sources : one[s][n] = two[s][n]
    PROVE  Market!Primary(one, n) = Market!Primary(two, n)
<1> DEFINE S == {i \in DOMAIN Order : one[Order[i]][n] # None}
<1>1. S = {i \in DOMAIN Order : two[Order[i]][n] # None}
  BY DEF Market!Sources
<1>2. S # {} => Market!Min(S) \in S
  <2>1. S \in SUBSET Nat
    BY MarketBounds
  <2> HIDE DEF S
  <2> QED
    BY <2>1, Least DEF Market!Min
<1>3. S # {} => Order[Market!Min(S)] \in Market!Sources
  BY <1>2 DEF Market!Sources
<1> HIDE DEF S
<1>4. S # {} => one[Order[Market!Min(S)]][n] = two[Order[Market!Min(S)]][n]
  BY <1>3
<1>5. Market!Primary(one, n) = IF S = {} THEN None ELSE [source |-> Order[Market!Min(S)], price |-> one[Order[Market!Min(S)]][n].price]
  BY DEF Market!Primary, S
<1>6. Market!Primary(two, n) = IF S = {} THEN None ELSE [source |-> Order[Market!Min(S)], price |-> two[Order[Market!Min(S)]][n].price]
  BY <1>1 DEF Market!Primary
<1> QED
  BY <1>4, <1>5, <1>6

\* A store of a payload captured no earlier than the one before it, from a source in order.
LEMMA StoreShows ==
    ASSUME MarketTyped, NEW s \in Market!Sources, InOrder(s), NEW n \in Names,
           NEW body \in Market!Payloads(s), NEW at \in Market!Times,
           market.receipt[s] # None => market.receipt[s].at <= at
    PROVE  /\ Shows(Market!RowAfter(market, s, n, body, at), body[n])
           /\ RowDated(Market!RowAfter(market, s, n, body, at), Market!SeenAfter(market, s, n, body, at),
                       Market!CapturedAt(market, s, body, at))
<1> DEFINE row == market.rows[s][n]
           seen == market.seen[s][n]
           stamp == market.receipt[s]
           price == body[n]
           touched == n \in Market!Changed(market, s, body, at)
           replay == Market!Replayed(market, s, body, at)
<1>1. /\ row \in Market!Rows(s) \cup {None} /\ seen \in [Market!Buckets -> Prices[s] \cup {None}]
      /\ stamp \in Stamps(s) \cup {None} /\ price \in Prices[s] \cup {None}
  BY DEF MarketTyped, Market!Payloads
<1>2. /\ row # None => row.at \in Market!Times /\ row.price \in Prices[s] /\ row.price # None
      /\ stamp # None => stamp.at \in Market!Times
  BY <1>1, MarketBounds DEF Market!Rows, Stamps
<1>3. /\ stamp = None => row = None /\ \A b \in Market!Buckets : seen[b] = None
      /\ stamp # None => RowDated(row, seen, stamp.at) /\ Shows(row, stamp.body[n]) /\ stamp.at <= at
  BY DEF InOrder, Blank
<1>4. replay <=> stamp # None /\ stamp.body = body /\ stamp.at <= at
  BY DEF Market!Replayed
<1>5. touched <=> \/ price # None /\ ~Market!Unmoved(market, s, n, body, at)
                  \/ price = None /\ row # None /\ (replay => row.at <= stamp.at)
  BY DEF Market!Changed, Market!Missing
<1>6. CASE replay
  <2>1. Market!CapturedAt(market, s, body, at) = stamp.at /\ RowDated(row, seen, stamp.at) /\ Shows(row, price)
    BY <1>3, <1>4, <1>6 DEF Market!CapturedAt
  <2>2. ~touched
    <3>1. price = None => row = None
      BY <2>1 DEF Shows
    <3>2. price # None => Market!Unmoved(market, s, n, body, at)
      BY <1>6, <2>1 DEF Shows, Market!Unmoved, Market!NoRepair
    <3> QED
      BY <1>5, <3>1, <3>2
  <2>3. Market!RowAfter(market, s, n, body, at) = row /\ Market!SeenAfter(market, s, n, body, at) = seen
    BY <2>2 DEF Market!RowAfter, Market!SeenAfter
  <2> HIDE DEF row, seen, stamp, price
  <2> QED
    BY <2>1, <2>3 DEF price
<1>7. CASE ~replay
  <2>1. Market!CapturedAt(market, s, body, at) = at
    BY <1>7 DEF Market!CapturedAt
  <2>2. Market!Unmoved(market, s, n, body, at) <=> row # None /\ seen[BucketOf(at)] = price
    BY <1>7 DEF Market!Unmoved, Market!Observed, BucketOf
  <2>3. touched <=> IF price = None THEN row # None ELSE ~(row # None /\ seen[BucketOf(at)] = price)
    BY <1>5, <1>7, <2>2
  <2>4. Market!RowAfter(market, s, n, body, at) =
          IF ~touched THEN row ELSE IF price = None THEN None ELSE Market!Upserted(row, price, at)
    BY <2>1 DEF Market!RowAfter
  <2>5. Market!SeenAfter(market, s, n, body, at) =
          IF price # None /\ touched THEN [seen EXCEPT ![BucketOf(at)] = price] ELSE seen
    BY <1>7 DEF Market!SeenAfter, BucketOf
  <2>6. \A b \in Market!Buckets : b > BucketOf(at) => seen[b] = None
    <3>1. CASE stamp = None
      BY <3>1, <1>3
    <3>2. CASE stamp # None /\ row = None
      <4>1. BucketOf(stamp.at) <= BucketOf(at) /\ BucketOf(stamp.at) \in Nat /\ BucketOf(at) \in Nat
        BY <3>2, <1>2, <1>3, BucketFacts
      <4> HIDE DEF row, seen, stamp, price
      <4> QED
        BY <3>2, <4>1, <1>3, BucketFacts DEF RowDated
    <3>3. CASE stamp # None /\ row # None
      <4>1. row.at <= at
        BY <3>3, <1>2, <1>3, MarketBounds DEF RowDated
      <4>2. BucketOf(row.at) <= BucketOf(at) /\ BucketOf(row.at) \in Nat /\ BucketOf(at) \in Nat
        BY <3>3, <4>1, <1>2, BucketFacts
      <4> HIDE DEF row, seen, stamp, price
      <4> QED
        BY <3>3, <4>2, <1>3, BucketFacts DEF RowDated
    <3> QED
      BY <3>1, <3>2, <3>3
  <2>7. row # None => row.at <= at /\ RowDated(row, seen, at)
    BY <1>2, <1>3, MarketBounds DEF RowDated
  <2> HIDE DEF row, seen, stamp, price, touched, replay
  <2>8. CASE price = None
    BY <2>8, <2>1, <2>3, <2>4, <2>5, <2>6 DEF RowDated, Shows, price
  <2>9. CASE price # None /\ ~touched
    <3>1. row # None /\ seen[BucketOf(at)] = price
      BY <2>9, <2>3
    <3>2. BucketOf(row.at) <= BucketOf(at) /\ BucketOf(row.at) \in Nat /\ BucketOf(at) \in Market!Buckets /\ BucketOf(at) \in Nat
      BY <3>1, <2>7, <1>2, BucketFacts
    <3>3. ~(BucketOf(at) > BucketOf(row.at))
      BY <3>1, <3>2, <2>7, <2>9 DEF RowDated
    <3>4. row.price = price
      BY <3>1, <3>2, <3>3, <2>7 DEF RowDated
    <3> QED
      BY <3>1, <3>4, <2>1, <2>4, <2>5, <2>7, <2>9 DEF Shows, price
  <2>10. CASE price # None /\ touched
    <3>1. Market!Upserted(row, price, at) = [price |-> price, at |-> at]
      BY <2>7, <1>2, MarketBounds DEF Market!Upserted, Market!NewerKept
    <3>2. [price |-> price, at |-> at] # None
      BY <2>10, <1>1, MarketBounds DEF Market!Rows
    <3> DEFINE new == [price |-> price, at |-> at]
               after == [seen EXCEPT ![BucketOf(at)] = price]
    <3>3. new.price = price /\ new.at = at /\ new # None
      BY <3>2
    <3>4. after[BucketOf(at)] = price /\ \A b \in Market!Buckets : b > BucketOf(at) => after[b] = None
      BY <1>1, <2>6, BucketFacts
    <3> HIDE DEF new, after
    <3>5. Shows(new, price) /\ RowDated(new, after, at)
      BY <3>3, <3>4, <2>10, MarketBounds DEF Shows, RowDated
    <3> QED
      BY <3>1, <3>5, <2>1, <2>4, <2>5, <2>10 DEF new, after, price
  <2> QED
    BY <2>8, <2>9, <2>10
<1> QED
  BY <1>6, <1>7

LEMMA MarketInit == Market!Init => MarketKept
<1> SUFFICES ASSUME Market!Init PROVE MarketKept
  OBVIOUS
<1> USE DEF Market!Init
<1>1. MarketTyped
  BY MarketBounds DEF MarketTyped, Market!Payloads
<1>2. SyncsTrue /\ StoredBefore
  BY MarketBounds DEF SyncsTrue, Carries, Market!Idle, MarketPcs, StoredBefore
<1>3. \A s \in Market!Sources : InOrder(s)
  BY DEF InOrder, Blank
<1>4. \A n \in Names : market.primary[n] = Market!Primary(market.rows, n)
  <2> SUFFICES ASSUME NEW n \in Names PROVE Market!Primary(market.rows, n) = None
    OBVIOUS
  <2>1. \A i \in DOMAIN Order : market.rows[Order[i]][n] = None
    BY DEF Market!Sources
  <2>2. {i \in DOMAIN Order : market.rows[Order[i]][n] # None} = {}
    BY <2>1
  <2> QED
    BY <2>2 DEF Market!Primary
<1>5. ~market.current
  OBVIOUS
<1>6. Tells(status, sync[AutoSync].pc, round)
  BY MarketBounds DEF Tells, Market!Quiet, Market!Idle
<1> QED
  BY <1>1, <1>2, <1>3, <1>4, <1>5, <1>6 DEF MarketKept

\* What a step leaves alone.
LEMMA RowsStay ==
    ASSUME MarketKept, UNCHANGED <<market, newest, late>>
    PROVE  /\ (\A s \in Market!Sources \ late : InOrder(s))'
           /\ (\A n \in Names : market.primary[n] = Market!Primary(market.rows, n))'
           /\ (market.current => market.lookups = market.rows)'
<1>1. (\A s \in Market!Sources \ late : InOrder(s))'
  BY DEF MarketKept, InOrder, Blank
<1>2. (\A n \in Names : market.primary[n] = Market!Primary(market.rows, n))'
  BY DEF MarketKept, Market!Primary
<1> QED
  BY <1>1, <1>2 DEF MarketKept

\* One sync moves on; what the loop's tells of itself is told with it.
LEMMA SyncMoves ==
    ASSUME MarketKept, NEW p \in Market!Syncs, NEW w, Carries(w), NEW st, NEW c,
           UNCHANGED <<clock, feed, market, newest, late>>, marketMoves' \in 0 .. MarketMoves,
           lock' \in Market!Syncs \cup {None},
           sync' = [sync EXCEPT ![p] = w], status' = Market!Says(p, st),
           p = AutoSync => round' = c /\ Tells(st, w.pc, c), p # AutoSync => round' = round
    PROVE  MarketKept'
<1>1. MarketTyped'
  BY DEF MarketKept, MarketTyped
<1>2. StoredBefore'
  BY DEF MarketKept, StoredBefore
<1>3. \A q \in Market!Syncs : sync'[q] = IF q = p THEN w ELSE sync[q]
  BY DEF MarketKept, SyncsTrue
<1>4. SyncsTrue'
  <2>1. \A q \in Market!Syncs : Carries(sync'[q])
    BY <1>3 DEF MarketKept, SyncsTrue
  <2>2. \A q \in Market!Syncs : Carries(sync[q])'
    BY <2>1 DEF Carries
  <2> QED
    BY <2>2 DEF MarketKept, SyncsTrue
<1>5. Tells(status, sync[AutoSync].pc, round)'
  <2>1. CASE p = AutoSync
    BY <2>1, <1>3, MarketBounds DEF Market!Says
  <2>2. CASE p # AutoSync
    BY <2>2, <1>3, MarketBounds DEF Market!Says, MarketKept
  <2> QED
    BY <2>1, <2>2
<1> QED
  BY <1>1, <1>2, <1>4, <1>5, RowsStay DEF MarketKept

\* The fields of a status and of a sync, one changed.
ReportOf(a, b, c, d, e) == [active |-> a, state |-> b, commit |-> c, errors |-> d, finished |-> e]
LEMMA StatusFields ==
    ASSUME NEW a, NEW b, NEW c, NEW d, NEW e, NEW v
    PROVE  LET r == ReportOf(a, b, c, d, e) IN
           /\ [r EXCEPT !.active = v] = ReportOf(v, b, c, d, e) /\ [r EXCEPT !.state = v] = ReportOf(a, v, c, d, e)
           /\ [r EXCEPT !.commit = v] = ReportOf(a, b, v, d, e) /\ [r EXCEPT !.errors = v] = ReportOf(a, b, c, v, e)
           /\ [r EXCEPT !.finished = v] = ReportOf(a, b, c, d, v)
           /\ r.active = a /\ r.state = b /\ r.commit = c /\ r.errors = d /\ r.finished = e
BY DEF ReportOf
SyncOf(a, b, c, d, e) == [pc |-> a, at |-> b, got |-> c, behind |-> d, any |-> e]
LEMMA SyncFields ==
    ASSUME NEW a, NEW b, NEW c, NEW d, NEW e, NEW v
    PROVE  LET r == SyncOf(a, b, c, d, e) IN
           /\ [r EXCEPT !.pc = v] = SyncOf(v, b, c, d, e) /\ [r EXCEPT !.at = v] = SyncOf(a, v, c, d, e)
           /\ [r EXCEPT !.got = v] = SyncOf(a, b, v, d, e) /\ [r EXCEPT !.behind = v] = SyncOf(a, b, c, v, e)
           /\ [r EXCEPT !.any = v] = SyncOf(a, b, c, d, v)
           /\ r.pc = a /\ r.at = b /\ r.got = c /\ r.behind = d /\ r.any = e
BY DEF SyncOf

LEMMA StartStep == ASSUME MarketKept, NEW p \in Market!Syncs, Market!Start(p) PROVE MarketKept'
<1> DEFINE w == [Market!Idle EXCEPT !.pc = "fetching", !.at = clock]
           st == [Market!Quiet EXCEPT !.active = TRUE, !.state = "running"]
<1> DEFINE none == [s \in Market!Sources |-> None]
           no == FALSE
           yes == TRUE
<1> HIDE DEF none, no, yes
<1>1. w = SyncOf("fetching", clock, none, no, no)
  <2> DEFINE u == [Market!Idle EXCEPT !.pc = "fetching"]
  <2>1. u = SyncOf("fetching", 0, none, no, no)
    <3>1. Market!Idle = SyncOf("off", 0, none, no, no)
      BY DEF Market!Idle, SyncOf, none, no
    <3> QED
      BY <3>1, SyncFields
  <2> HIDE DEF u
  <2>2. [u EXCEPT !.at = clock] = SyncOf("fetching", clock, none, no, no)
    BY <2>1, SyncFields
  <2> QED
    BY <2>2 DEF u
<1>2. st = ReportOf(yes, "running", "not_started", no, 0)
  <2> DEFINE u == [Market!Quiet EXCEPT !.active = TRUE]
  <2>1. u = ReportOf(yes, "idle", "not_started", no, 0)
    <3>1. Market!Quiet = ReportOf(no, "idle", "not_started", no, 0)
      BY DEF Market!Quiet, ReportOf, no
    <3>2. [ReportOf(no, "idle", "not_started", no, 0) EXCEPT !.active = yes] = ReportOf(yes, "idle", "not_started", no, 0)
      BY StatusFields
    <3> QED
      BY <3>1, <3>2 DEF yes
  <2> HIDE DEF u
  <2>2. [u EXCEPT !.state = "running"] = ReportOf(yes, "running", "not_started", no, 0)
    BY <2>1, StatusFields
  <2> QED
    BY <2>2 DEF u
<1>3. Carries(w)
  <2> HIDE DEF w
  <2>1. w.pc = "fetching" /\ w.at = clock /\ w.got = none /\ w.behind = no /\ w.any = no
    BY <1>1, SyncFields
  <2>2. w = [pc |-> w.pc, at |-> w.at, got |-> w.got, behind |-> w.behind, any |-> w.any]
    BY <1>1, <2>1 DEF SyncOf
  <2>3. \A s \in Market!Sources : none[s] = None
    BY DEF none
  <2>4. w.behind \in BOOLEAN /\ w.any \in BOOLEAN
    BY <2>1 DEF no
  <2>5. clock \in Market!Times /\ clock <= clock
    BY MarketBounds DEF MarketKept, MarketTyped
  <2> QED
    BY <2>1, <2>2, <2>3, <2>4, <2>5 DEF Carries, MarketPcs, MarketKept, MarketTyped, StoredBefore
<1>4. Tells(st, "fetching", FALSE) /\ w.pc = "fetching"
  <2> HIDE DEF w, st
  <2>1. w.pc = "fetching"
    BY <1>1, SyncFields
  <2>2. st.active = yes /\ st.state = "running" /\ st.commit = "not_started"
    BY <1>2, StatusFields
  <2>3. st = [active |-> st.active, state |-> st.state, commit |-> st.commit, errors |-> st.errors, finished |-> st.finished]
    BY <1>2, StatusFields DEF ReportOf
  <2> QED
    BY <2>1, <2>2, <2>3 DEF Tells, yes
<1>5. /\ sync' = [sync EXCEPT ![p] = w] /\ status' = Market!Says(p, st)
      /\ round' = (IF p = AutoSync THEN FALSE ELSE round)
      /\ UNCHANGED <<clock, feed, market, lock, newest, late, marketMoves>>
  BY DEF Market!Start
<1> HIDE DEF w, st
<1> QED
  BY <1>3, <1>4, <1>5, SyncMoves DEF MarketKept, MarketTyped

LEMMA Moved == Market!Move /\ MarketKept => marketMoves' \in 0 .. MarketMoves
BY MarketBounds DEF Market!Move, MarketKept, MarketTyped

LEMMA FetchStep ==
    ASSUME MarketKept, NEW p \in Market!Syncs, NEW answering \in SUBSET Market!Sources, Market!Fetch(p, answering)
    PROVE  MarketKept'
<1> DEFINE old == sync[p]
           got == [s \in Market!Sources |-> IF s \in answering THEN [body |-> feed[s], fetched |-> clock] ELSE None]
           w == [pc |-> "ready", at |-> old.at, got |-> got, behind |-> old.behind, any |-> old.any]
           st == [status EXCEPT !.errors = answering # Market!Sources]
<1>1. Carries(old) /\ old.pc = "fetching"
  BY DEF MarketKept, SyncsTrue, Market!Fetch
<1>2. sync' = [sync EXCEPT ![p] = w]
  <2>1. sync' = [sync EXCEPT ![p].pc = "ready", ![p].got = got]
    BY DEF Market!Fetch
  <2>2. old = [pc |-> old.pc, at |-> old.at, got |-> old.got, behind |-> old.behind, any |-> old.any]
    BY <1>1 DEF Carries
  <2>3. sync' = [sync EXCEPT ![p] = [old EXCEPT !.pc = "ready", !.got = got]]
    BY <2>1 DEF MarketKept, SyncsTrue
  <2> DEFINE u == [old EXCEPT !.pc = "ready"]
  <2> HIDE DEF old, got
  <2>4. u = [pc |-> "ready", at |-> old.at, got |-> old.got, behind |-> old.behind, any |-> old.any]
    BY <2>2
  <2> HIDE DEF u
  <2>5. [u EXCEPT !.got = got] = w
    BY <2>4
  <2> QED
    BY <2>3, <2>5 DEF u
<1>3. \A s \in Market!Sources : got[s] # None => got[s] \in Gots(s) /\ got[s].fetched = clock
  BY DEF MarketKept, MarketTyped, Gots
<1>4. old.at <= clock /\ old.at \in Market!Times /\ clock \in Market!Times
  BY <1>1 DEF Carries, MarketKept, MarketTyped
<1>5. Carries(w)
  <2> HIDE DEF old, got
  <2> QED
    BY <1>1, <1>3, <1>4, MarketBounds DEF Carries, MarketPcs
<1>6. p = AutoSync => Tells(st, w.pc, round)
  BY <1>1 DEF Tells, MarketKept
<1>7. /\ status' = Market!Says(p, st) /\ UNCHANGED <<clock, feed, market, lock, newest, late, round>>
      /\ marketMoves' \in 0 .. MarketMoves
  BY Moved DEF Market!Fetch, Market!history, MarketKept, MarketTyped
<1> HIDE DEF w, st
<1> QED
  BY <1>2, <1>5, <1>6, <1>7, SyncMoves DEF MarketKept, MarketTyped

\* A sync that goes on with what it has.
LEMMA Onward ==
    ASSUME MarketKept, NEW p \in Market!Syncs, NEW pc \in MarketPcs,
           pc \in {"fetching", "ready", "writing"} => sync[p].pc \in {"fetching", "ready", "writing"}
    PROVE  /\ Carries([sync[p] EXCEPT !.pc = pc]) /\ [sync[p] EXCEPT !.pc = pc].pc = pc
           /\ [sync EXCEPT ![p].pc = pc] = [sync EXCEPT ![p] = [sync[p] EXCEPT !.pc = pc]]
<1> DEFINE old == sync[p]
           w == [old EXCEPT !.pc = pc]
<1>1. Carries(old)
  BY DEF MarketKept, SyncsTrue
<1> HIDE DEF old
<1>2. w = [pc |-> pc, at |-> old.at, got |-> old.got, behind |-> old.behind, any |-> old.any]
  BY <1>1 DEF Carries
<1>3. w.pc = pc /\ w.at = old.at /\ w.got = old.got /\ w.behind = old.behind /\ w.any = old.any
  BY <1>2
<1>4. pc \in {"fetching", "ready", "writing"} => old.pc \in {"fetching", "ready", "writing"}
  BY DEF old
<1> HIDE DEF w
<1>5. Carries(w)
  BY <1>1, <1>2, <1>3, <1>4 DEF Carries
<1> QED
  BY <1>3, <1>5 DEF w, old

LEMMA EnterStep == ASSUME MarketKept, NEW p \in Market!Syncs, Market!Enter(p) PROVE MarketKept'
<1> DEFINE w == [sync[p] EXCEPT !.pc = "writing"]
           st == [status EXCEPT !.commit = "uncommitted"]
<1>1. Carries(w) /\ w.pc = "writing" /\ sync' = [sync EXCEPT ![p] = w]
  BY Onward DEF Market!Enter, MarketPcs
<1>2. p = AutoSync => Tells(st, "writing", round)
  BY DEF Tells, MarketKept, Market!Enter
<1>3. status' = Market!Says(p, st) /\ UNCHANGED <<clock, feed, market, newest, late, round, marketMoves>> /\ lock' = p
  BY DEF Market!Enter, Market!history
<1> HIDE DEF w, st
<1> QED
  BY <1>1, <1>2, <1>3, SyncMoves DEF MarketKept, MarketTyped

LEMMA TellStep == ASSUME MarketKept, NEW p \in Market!Syncs, Market!Tell(p) PROVE MarketKept'
<1> DEFINE w == [sync[p] EXCEPT !.pc = "told"]
           st == [status EXCEPT !.commit = "committed"]
<1>1. Carries(w) /\ w.pc = "told" /\ sync' = [sync EXCEPT ![p] = w]
  BY Onward DEF Market!Tell, MarketPcs
<1>2. p = AutoSync => Tells(st, "told", round)
  BY DEF Tells, MarketKept, Market!Tell
<1>3. status' = Market!Says(p, st) /\ UNCHANGED <<clock, feed, market, lock, newest, late, round, marketMoves>>
  BY DEF Market!Tell, Market!history
<1> HIDE DEF w, st
<1> QED
  BY <1>1, <1>2, <1>3, SyncMoves DEF MarketKept, MarketTyped

\* The loop's report when its sync ends, in order or not.
LEMMA FinishTells ==
    ASSUME NEW ok \in BOOLEAN, NEW pc \in {"ready", "writing", "stored", "told"}, Tells(status, pc, round)
    PROVE  Tells(Market!Finished(ok), "off", round)
<1> DEFINE good == ok /\ status.commit = "committed"
           one == [status EXCEPT !.active = FALSE]
           two == [one EXCEPT !.finished = clock]
           commit == IF ~good /\ status.commit = "uncommitted" THEN "unknown" ELSE status.commit
           three == [two EXCEPT !.commit = commit]
           state == IF ~good THEN "failed" ELSE IF status.errors THEN "completed_with_errors" ELSE "completed"
           four == [three EXCEPT !.state = state]
           none == status.errors
           was == status.state
           then == status.finished
           said == status.commit
           on == status.active
           no == FALSE
<1> HIDE DEF no, none, was, then, said, on
<1>1. status = ReportOf(on, was, said, none, then)
  BY DEF Tells, ReportOf, none, was, then, said, on
<1>2. one = ReportOf(no, was, said, none, then)
  <2>1. [ReportOf(on, was, said, none, then) EXCEPT !.active = no] = ReportOf(no, was, said, none, then)
    BY StatusFields
  <2> QED
    BY <1>1, <2>1 DEF no
<1> HIDE DEF one
<1>3. two = ReportOf(no, was, said, none, clock)
  BY <1>2, StatusFields
<1> HIDE DEF two
<1>4. two.commit = status.commit
  <2>1. two.commit = said
    BY <1>3, StatusFields
  <2> QED
    BY <2>1 DEF said
<1> HIDE DEF commit, state
<1>5. three = ReportOf(no, was, commit, none, clock)
  BY <1>3, StatusFields
<1> HIDE DEF three
<1>6. four = ReportOf(no, state, commit, none, clock)
  BY <1>5, StatusFields
<1>7. Market!Finished(ok) = four
  BY <1>4 DEF Market!Finished, one, two, three, commit, state
<1> HIDE DEF four
<1>8. four.active = no /\ four.state = state /\ four.commit = commit
  BY <1>6, StatusFields
<1>9. four = [active |-> four.active, state |-> four.state, commit |-> four.commit,
              errors |-> four.errors, finished |-> four.finished]
  BY <1>6, StatusFields DEF ReportOf
<1>10. Tells(four, "off", round)
  BY <1>8, <1>9 DEF Tells, commit, state, no
<1> QED
  BY <1>7, <1>10

LEMMA EndStep ==
    ASSUME MarketKept, NEW p \in Market!Syncs, NEW ok \in BOOLEAN, Market!End(p, ok),
           sync[p].pc \in {"ready", "writing", "stored", "told"}
    PROVE  MarketKept'
<1>1. Carries(Market!Idle) /\ Market!Idle.pc = "off"
  BY DEF Carries, Market!Idle, MarketPcs
<1>2. p = AutoSync => Tells(Market!Finished(ok), "off", round)
  BY FinishTells DEF MarketKept
<1>3. /\ sync' = [sync EXCEPT ![p] = Market!Idle] /\ status' = Market!Says(p, Market!Finished(ok))
      /\ UNCHANGED <<clock, feed, market, newest, late, round, marketMoves>> /\ lock' \in {lock, None}
  BY DEF Market!End, Market!history
<1> QED
  BY <1>1, <1>2, <1>3, SyncMoves DEF MarketKept, MarketTyped

LEMMA CrashStep == MarketKept /\ Market!Crash => MarketKept'
<1> SUFFICES ASSUME MarketKept, Market!Crash PROVE MarketKept'
  OBVIOUS
<1>1. /\ UNCHANGED <<clock, feed, market, newest, late>> /\ lock' = None /\ round' = FALSE
      /\ sync' = [p \in Market!Syncs |-> Market!Idle] /\ status' = Market!Quiet
      /\ marketMoves' \in 0 .. MarketMoves
  BY Moved DEF Market!Crash
<1>2. MarketTyped' /\ StoredBefore'
  BY <1>1 DEF MarketKept, MarketTyped, StoredBefore
<1>3. SyncsTrue'
  BY <1>1 DEF SyncsTrue, Carries, Market!Idle, MarketPcs
<1>4. Tells(status, sync[AutoSync].pc, round)'
  BY <1>1, MarketBounds DEF Tells, Market!Quiet, Market!Idle
<1> QED
  BY <1>1, <1>2, <1>3, <1>4, RowsStay DEF MarketKept

LEMMA TickStep == MarketKept /\ Market!Tick => MarketKept'
<1> SUFFICES ASSUME MarketKept, Market!Tick PROVE MarketKept'
  OBVIOUS
<1>1. /\ UNCHANGED <<feed, market, sync, lock, status, newest, late, round, marketMoves>>
      /\ clock \in Nat /\ clock' = clock + 1 /\ clock' \in Market!Times
  BY MarketBounds DEF Market!Tick, Market!history, MarketKept, MarketTyped
<1>2. MarketTyped'
  BY <1>1 DEF MarketKept, MarketTyped
<1>3. StoredBefore'
  <2> SUFFICES ASSUME NEW s \in Market!Sources
               PROVE  /\ market.receipt[s] # None => market.receipt[s].at <= clock'
                      /\ newest[s] # None => newest[s].fetched <= clock'
    BY <1>1 DEF StoredBefore
  <2>1. /\ market.receipt[s] # None => market.receipt[s].at \in Nat /\ market.receipt[s].at <= clock
        /\ newest[s] # None => newest[s].fetched \in Nat /\ newest[s].fetched <= clock
    BY MarketBounds DEF MarketKept, MarketTyped, StoredBefore, Stamps, Gots
  <2> QED
    BY <1>1, <2>1
<1>4. SyncsTrue'
  <2> SUFFICES ASSUME NEW p \in Market!Syncs PROVE Carries(sync[p])'
    BY <1>1 DEF MarketKept, SyncsTrue
  <2> DEFINE w == sync[p]
  <2>1. Carries(w)
    BY DEF MarketKept, SyncsTrue
  <2>2. w.pc \in {"fetching", "ready", "writing"} =>
          /\ w.at \in Nat /\ \A s \in Market!Sources : w.got[s] # None => w.got[s].fetched \in Nat
    BY <2>1, MarketBounds DEF Carries, Gots
  <2> HIDE DEF w
  <2>3. w.pc \in {"fetching", "ready", "writing"} =>
          /\ w.at <= clock' /\ \A s \in Market!Sources : w.got[s] # None => w.got[s].fetched <= clock'
    BY <1>1, <2>1, <2>2 DEF Carries
  <2>4. sync'[p] = w /\ market' = market /\ newest' = newest
    BY <1>1 DEF w
  <2> QED
    BY <2>1, <2>3, <2>4 DEF Carries
<1>5. Tells(status, sync[AutoSync].pc, round)'
  BY <1>1 DEF MarketKept
<1> QED
  BY <1>1, <1>2, <1>3, <1>4, <1>5, RowsStay DEF MarketKept

LEMMA PublishStep ==
    ASSUME MarketKept, NEW s \in Market!Sources, NEW body \in Market!Payloads(s), Market!Publish(s, body)
    PROVE  MarketKept'
<1>1. /\ UNCHANGED <<clock, market, sync, lock, status, newest, late, round>>
      /\ feed' = [feed EXCEPT ![s] = body] /\ marketMoves' \in 0 .. MarketMoves
  BY Moved DEF Market!Publish, Market!history
<1>2. feed' = [q \in Market!Sources |-> feed'[q]] /\ \A q \in Market!Sources : feed'[q] \in Market!Payloads(q)
  BY <1>1 DEF MarketKept, MarketTyped
<1>3. MarketTyped'
  BY <1>1, <1>2 DEF MarketKept, MarketTyped
<1>4. SyncsTrue' /\ StoredBefore' /\ Tells(status, sync[AutoSync].pc, round)'
  BY <1>1 DEF MarketKept, SyncsTrue, Carries, StoredBefore
<1> QED
  BY <1>1, <1>3, <1>4, RowsStay DEF MarketKept

\* The tables, one by one.
Tables(m, rows_, seen_, receipt_, primary_) ==
    m.rows = rows_ /\ m.seen = seen_ /\ m.receipt = receipt_ /\ m.primary = primary_
Whole(m) == m = [rows |-> m.rows, seen |-> m.seen, receipt |-> m.receipt,
                 primary |-> m.primary, lookups |-> m.lookups, current |-> m.current]
LEMMA TableFields ==
    ASSUME NEW m, Whole(m), NEW v
    PROVE  /\ Whole([m EXCEPT !.rows = v]) /\ Whole([m EXCEPT !.seen = v]) /\ Whole([m EXCEPT !.receipt = v])
           /\ Whole([m EXCEPT !.primary = v]) /\ Whole([m EXCEPT !.lookups = v]) /\ Whole([m EXCEPT !.current = v])
           /\ Tables([m EXCEPT !.rows = v], v, m.seen, m.receipt, m.primary)
           /\ [m EXCEPT !.rows = v].lookups = m.lookups /\ [m EXCEPT !.rows = v].current = m.current
           /\ Tables([m EXCEPT !.seen = v], m.rows, v, m.receipt, m.primary)
           /\ [m EXCEPT !.seen = v].lookups = m.lookups /\ [m EXCEPT !.seen = v].current = m.current
           /\ Tables([m EXCEPT !.receipt = v], m.rows, m.seen, v, m.primary)
           /\ [m EXCEPT !.receipt = v].lookups = m.lookups /\ [m EXCEPT !.receipt = v].current = m.current
           /\ Tables([m EXCEPT !.primary = v], m.rows, m.seen, m.receipt, v)
           /\ [m EXCEPT !.primary = v].lookups = m.lookups /\ [m EXCEPT !.primary = v].current = m.current
           /\ Tables([m EXCEPT !.lookups = v], m.rows, m.seen, m.receipt, m.primary)
           /\ [m EXCEPT !.lookups = v].lookups = v /\ [m EXCEPT !.lookups = v].current = m.current
           /\ Tables([m EXCEPT !.current = v], m.rows, m.seen, m.receipt, m.primary)
           /\ [m EXCEPT !.current = v].lookups = m.lookups /\ [m EXCEPT !.current = v].current = v
BY DEF Whole, Tables

LEMMA OtherWriteStep == MarketKept /\ Market!OtherWrite => MarketKept'
<1> SUFFICES ASSUME MarketKept, Market!OtherWrite PROVE MarketKept'
  OBVIOUS
<1> DEFINE no == FALSE
<1> HIDE DEF no
<1> DEFINE one == [market EXCEPT !.current = no]
           two == [one EXCEPT !.lookups = None]
<1>1. UNCHANGED <<clock, feed, sync, lock, status, newest, late, round>> /\ marketMoves' \in 0 .. MarketMoves
      /\ market' = two
  BY Moved DEF Market!OtherWrite, Market!history, no
<1>2. Whole(market)
  BY DEF MarketKept, MarketTyped, Whole
<1>3. Whole(one) /\ Tables(one, market.rows, market.seen, market.receipt, market.primary) /\ one.current = no
  BY <1>2, TableFields
<1> HIDE DEF one
<1>4. Whole(two) /\ Tables(two, one.rows, one.seen, one.receipt, one.primary) /\ two.current = one.current
  BY <1>3, TableFields
<1> HIDE DEF two
<1>5. /\ market'.rows = market.rows /\ market'.seen = market.seen /\ market'.receipt = market.receipt
      /\ market'.primary = market.primary /\ market'.current = FALSE /\ Whole(market')
  BY <1>1, <1>3, <1>4 DEF Tables, no
<1>6. MarketTyped'
  BY <1>1, <1>5 DEF MarketKept, MarketTyped, Whole
<1>7. SyncsTrue' /\ StoredBefore' /\ Tells(status, sync[AutoSync].pc, round)'
  BY <1>1, <1>5 DEF MarketKept, SyncsTrue, Carries, StoredBefore
<1>8. (\A s \in Market!Sources \ late : InOrder(s))'
  BY <1>1, <1>5 DEF MarketKept, InOrder, Blank
<1>9. (\A n \in Names : market.primary[n] = Market!Primary(market.rows, n))'
  <2>1. \A n \in Names : market.primary[n] = Market!Primary(market.rows, n)
    BY DEF MarketKept
  <2>2. SUFFICES ASSUME NEW n \in Names PROVE market'.primary[n] = Market!Primary(market'.rows, n)
    OBVIOUS
  <2> QED
    BY ONLY <2>1, <1>5
<1> QED
  BY <1>5, <1>6, <1>7, <1>8, <1>9 DEF MarketKept

\* What a store makes of a row is a row, and no older one.
LEMMA StoreTyped ==
    ASSUME MarketTyped, NEW s \in Market!Sources, NEW n \in Names,
           NEW body \in Market!Payloads(s), NEW at \in Market!Times
    PROVE  LET row == market.rows[s][n]
               after == Market!RowAfter(market, s, n, body, at)
           IN  /\ after \in Market!Rows(s) \cup {None}
               /\ Market!SeenAfter(market, s, n, body, at) \in [Market!Buckets -> Prices[s] \cup {None}]
               /\ Market!CapturedAt(market, s, body, at) \in Market!Times
               /\ n \notin Market!Changed(market, s, body, at) => after = row
               /\ row # None /\ after # None => after.at >= row.at
<1> DEFINE row == market.rows[s][n]
           stamp == Market!CapturedAt(market, s, body, at)
           touched == n \in Market!Changed(market, s, body, at)
<1>1. /\ row \in Market!Rows(s) \cup {None} /\ market.seen[s][n] \in [Market!Buckets -> Prices[s] \cup {None}]
      /\ body[n] \in Prices[s] \cup {None} /\ market.receipt[s] \in Stamps(s) \cup {None}
  BY DEF MarketTyped, Market!Payloads
<1>2. stamp \in Market!Times
  BY <1>1 DEF Market!CapturedAt, Market!Replayed, Stamps
<1>3. Market!SeenAfter(market, s, n, body, at) \in [Market!Buckets -> Prices[s] \cup {None}]
  BY <1>1 DEF Market!SeenAfter
<1>4. Market!RowAfter(market, s, n, body, at) =
        IF ~touched THEN row ELSE IF body[n] = None THEN None ELSE Market!Upserted(row, body[n], stamp)
  BY DEF Market!RowAfter
<1>5. row # None => row.at \in Nat /\ row \in Market!Rows(s)
  BY <1>1, MarketBounds DEF Market!Rows
<1>6. stamp \in Nat
  BY <1>2, MarketBounds
<1> HIDE DEF row, stamp, touched
<1>7. body[n] # None => /\ Market!Upserted(row, body[n], stamp) \in Market!Rows(s)
                        /\ row # None => Market!Upserted(row, body[n], stamp).at >= row.at
  <2> SUFFICES ASSUME body[n] # None
               PROVE  /\ Market!Upserted(row, body[n], stamp) \in Market!Rows(s)
                      /\ row # None => Market!Upserted(row, body[n], stamp).at >= row.at
    OBVIOUS
  <2> DEFINE new == [price |-> body[n], at |-> stamp]
  <2>1. new \in Market!Rows(s) /\ new.at = stamp
    BY <1>1, <1>2 DEF Market!Rows
  <2>2. Market!Upserted(row, body[n], stamp) = IF row # None /\ row.at > stamp THEN row ELSE new
    BY DEF Market!Upserted, Market!NewerKept
  <2> HIDE DEF new
  <2> QED
    BY <2>1, <2>2, <1>5, <1>6
<1>8. ~touched => Market!RowAfter(market, s, n, body, at) = row
  BY <1>4
<1>9. Market!RowAfter(market, s, n, body, at) \in Market!Rows(s) \cup {None}
  BY <1>1, <1>4, <1>7 DEF row
<1>10. row # None /\ Market!RowAfter(market, s, n, body, at) # None =>
         Market!RowAfter(market, s, n, body, at).at >= row.at
  BY <1>4, <1>5, <1>7
<1> QED
  BY <1>2, <1>3, <1>8, <1>9, <1>10 DEF row, stamp, touched

\* The tables after a commit.
RowsAfter(p) ==
    [s \in Market!Sources |->
       IF s \in Market!Answered(p)
         THEN [n \in Names |-> Market!RowAfter(market, s, n, Market!Body(p, s), sync[p].at)] ELSE market.rows[s]]
ReceiptAfter(p, s) ==
    [body |-> Market!Body(p, s), at |-> Market!CapturedAt(market, s, Market!Body(p, s), sync[p].at),
     fetched |-> sync[p].got[s].fetched]
LEMMA StoredTables ==
    ASSUME MarketTyped, NEW p
    PROVE  LET d == Market!Stored(p)
           IN  /\ Whole(d) /\ d.rows = RowsAfter(p)
               /\ d.seen = [s \in Market!Sources |->
                    IF s \in Market!Answered(p)
                      THEN [n \in Names |-> Market!SeenAfter(market, s, n, Market!Body(p, s), sync[p].at)]
                      ELSE market.seen[s]]
               /\ d.receipt = [s \in Market!Sources |->
                    IF s \in Market!Answered(p) THEN ReceiptAfter(p, s) ELSE market.receipt[s]]
               /\ d.primary = Market!Recalculated(p, RowsAfter(p))
               /\ IF Market!Material(p) \/ ~market.current
                    THEN d.lookups = RowsAfter(p) /\ d.current = TRUE
                    ELSE d.lookups = market.lookups /\ d.current = market.current
<1> DEFINE m0 == market
           yes == TRUE
           rows_ == RowsAfter(p)
           m1 == [m0 EXCEPT !.rows = rows_]
           m2 == [m1 EXCEPT !.seen = [s \in Market!Sources |->
                    IF s \in Market!Answered(p)
                      THEN [n \in Names |-> Market!SeenAfter(market, s, n, Market!Body(p, s), sync[p].at)]
                      ELSE @[s]]]
           m3 == [m2 EXCEPT !.receipt = [s \in Market!Sources |->
                    IF s \in Market!Answered(p) THEN ReceiptAfter(p, s) ELSE @[s]]]
           m4 == [m3 EXCEPT !.primary = Market!Recalculated(p, rows_)]
           m5 == [m4 EXCEPT !.lookups = m4.rows]
           m6 == [m5 EXCEPT !.current = yes]
<1>0. Market!Stored(p) = IF Market!Material(p) \/ ~m4.current THEN m6 ELSE m4
  BY DEF Market!Stored, Market!Rebuilt, RowsAfter, ReceiptAfter
<1>1. Whole(m0)
  BY DEF MarketTyped, Whole
<1> HIDE DEF m0, yes, rows_
<1>2. /\ Whole(m1) /\ Tables(m1, rows_, m0.seen, m0.receipt, m0.primary)
      /\ m1.lookups = m0.lookups /\ m1.current = m0.current
  BY <1>1, TableFields
<1> DEFINE seen_ == [s \in Market!Sources |->
                    IF s \in Market!Answered(p)
                      THEN [n \in Names |-> Market!SeenAfter(market, s, n, Market!Body(p, s), sync[p].at)]
                      ELSE m1.seen[s]]
<1> HIDE DEF m1, seen_
<1>3. /\ Whole(m2) /\ Tables(m2, m1.rows, seen_, m1.receipt, m1.primary)
      /\ m2.lookups = m1.lookups /\ m2.current = m1.current
  <2>1. m2 = [m1 EXCEPT !.seen = seen_]
    BY DEF seen_
  <2> HIDE DEF m2
  <2> QED
    BY <1>2, <2>1, TableFields
<1> DEFINE receipt_ == [s \in Market!Sources |->
                    IF s \in Market!Answered(p) THEN ReceiptAfter(p, s) ELSE m2.receipt[s]]
<1> HIDE DEF m2, receipt_
<1>4. /\ Whole(m3) /\ Tables(m3, m2.rows, m2.seen, receipt_, m2.primary)
      /\ m3.lookups = m2.lookups /\ m3.current = m2.current
  <2>1. m3 = [m2 EXCEPT !.receipt = receipt_]
    BY DEF receipt_
  <2> HIDE DEF m3
  <2> QED
    BY <1>3, <2>1, TableFields
<1> HIDE DEF m3
<1>5. /\ Whole(m4) /\ Tables(m4, m3.rows, m3.seen, m3.receipt, Market!Recalculated(p, rows_))
      /\ m4.lookups = m3.lookups /\ m4.current = m3.current
  BY <1>4, TableFields
<1> HIDE DEF m4
<1>6. /\ Whole(m5) /\ Tables(m5, m4.rows, m4.seen, m4.receipt, m4.primary)
      /\ m5.lookups = m4.rows
  <2> DEFINE built == m4.rows
  <2>1. m5 = [m4 EXCEPT !.lookups = built]
    OBVIOUS
  <2> HIDE DEF m5, built
  <2>2. /\ Whole(m5) /\ Tables(m5, m4.rows, m4.seen, m4.receipt, m4.primary)
        /\ m5.lookups = built
    BY <1>5, <2>1, TableFields
  <2> QED
    BY <2>2 DEF built
<1> HIDE DEF m5
<1>7. /\ Whole(m6) /\ Tables(m6, m5.rows, m5.seen, m5.receipt, m5.primary)
      /\ m6.lookups = m5.lookups /\ m6.current = yes
  BY <1>6, TableFields
<1> HIDE DEF m6
<1> DEFINE d == Market!Stored(p)
<1>8. CASE Market!Material(p) \/ ~market.current
  <2>1. d = m6 /\ m6.current = TRUE
    BY <1>0, <1>8, <1>2, <1>3, <1>4, <1>5, <1>7 DEF m0, yes
  <2> HIDE DEF d
  <2>2. /\ Whole(d) /\ d.rows = rows_ /\ d.primary = Market!Recalculated(p, rows_) /\ d.lookups = rows_ /\ d.current = TRUE
        /\ d.seen = m2.seen /\ d.receipt = m3.receipt
    BY <2>1, <1>2, <1>3, <1>4, <1>5, <1>6, <1>7 DEF Tables
  <2> QED
    BY <2>2, <1>2, <1>3, <1>4, <1>8 DEF d, m0, rows_, seen_, receipt_, Tables
<1>9. CASE ~(Market!Material(p) \/ ~market.current)
  <2>1. d = m4
    BY <1>0, <1>9, <1>2, <1>3, <1>4, <1>5 DEF m0
  <2> HIDE DEF d
  <2>2. /\ Whole(d) /\ d.rows = rows_ /\ d.primary = Market!Recalculated(p, rows_)
        /\ d.lookups = market.lookups /\ d.current = market.current
        /\ d.seen = m2.seen /\ d.receipt = m3.receipt
    BY <2>1, <1>2, <1>3, <1>4, <1>5 DEF m0, Tables
  <2> QED
    BY <2>2, <1>2, <1>3, <1>4, <1>9 DEF d, m0, rows_, seen_, receipt_, Tables
<1> QED
  BY <1>8, <1>9

\* What one commit leaves of a source, and of the payload fetched last.
LEMMA CommitTables ==
    ASSUME MarketKept, NEW p \in Market!Syncs, Market!Commit(p)
    PROVE  /\ Whole(market') /\ market'.rows = RowsAfter(p)
           /\ market'.primary = Market!Recalculated(p, RowsAfter(p))
           /\ IF Market!Material(p) \/ ~market.current
                THEN market'.lookups = RowsAfter(p) /\ market'.current = TRUE
                ELSE market'.lookups = market.lookups /\ market'.current = market.current
           /\ \A s \in Market!Answered(p) :
                /\ s \in Market!Sources /\ Market!Body(p, s) \in Market!Payloads(s)
                /\ sync[p].got[s] \in Gots(s) /\ sync[p].got[s].fetched <= clock
                /\ \A n \in Names :
                     /\ market'.rows[s][n] = Market!RowAfter(market, s, n, Market!Body(p, s), sync[p].at)
                     /\ market'.seen[s][n] = Market!SeenAfter(market, s, n, Market!Body(p, s), sync[p].at)
                /\ market'.rows[s] = [n \in Names |-> market'.rows[s][n]]
                /\ market'.seen[s] = [n \in Names |-> market'.seen[s][n]]
                /\ market'.receipt[s] = ReceiptAfter(p, s)
           /\ \A s \in Market!Sources \ Market!Answered(p) :
                /\ market'.rows[s] = market.rows[s] /\ market'.seen[s] = market.seen[s]
                /\ market'.receipt[s] = market.receipt[s] /\ newest'[s] = newest[s]
           /\ sync[p].at \in Market!Times /\ sync[p].at <= clock /\ sync[p].pc = "writing"
<1>1. market' = Market!Stored(p) /\ sync[p].pc = "writing"
  BY DEF Market!Commit
<1>2. MarketTyped /\ Carries(sync[p])
  BY DEF MarketKept, SyncsTrue
<1> DEFINE d == Market!Stored(p)
<1>3. /\ Whole(d) /\ d.rows = RowsAfter(p) /\ d.primary = Market!Recalculated(p, RowsAfter(p))
      /\ d.seen = [s \in Market!Sources |->
           IF s \in Market!Answered(p)
             THEN [n \in Names |-> Market!SeenAfter(market, s, n, Market!Body(p, s), sync[p].at)]
             ELSE market.seen[s]]
      /\ d.receipt = [s \in Market!Sources |->
           IF s \in Market!Answered(p) THEN ReceiptAfter(p, s) ELSE market.receipt[s]]
      /\ IF Market!Material(p) \/ ~market.current
           THEN d.lookups = RowsAfter(p) /\ d.current = TRUE
           ELSE d.lookups = market.lookups /\ d.current = market.current
  BY <1>2, StoredTables
<1> HIDE DEF d
<1>4. market' = d
  BY <1>1 DEF d
<1>5. ASSUME NEW s \in Market!Answered(p)
      PROVE  /\ s \in Market!Sources /\ Market!Body(p, s) \in Market!Payloads(s)
             /\ sync[p].got[s] \in Gots(s) /\ sync[p].got[s].fetched <= clock
  BY <1>1, <1>2 DEF Market!Answered, Market!Body, Carries, Gots
<1>6. ASSUME NEW s \in Market!Answered(p)
      PROVE  /\ \A n \in Names :
                  /\ market'.rows[s][n] = Market!RowAfter(market, s, n, Market!Body(p, s), sync[p].at)
                  /\ market'.seen[s][n] = Market!SeenAfter(market, s, n, Market!Body(p, s), sync[p].at)
             /\ market'.rows[s] = [n \in Names |-> market'.rows[s][n]]
             /\ market'.seen[s] = [n \in Names |-> market'.seen[s][n]]
             /\ market'.receipt[s] = ReceiptAfter(p, s)
  BY <1>3, <1>4, <1>5 DEF RowsAfter
<1>7. ASSUME NEW s \in Market!Sources \ Market!Answered(p)
      PROVE  /\ market'.rows[s] = market.rows[s] /\ market'.seen[s] = market.seen[s]
             /\ market'.receipt[s] = market.receipt[s] /\ newest'[s] = newest[s]
  <2>1. newest'[s] = newest[s]
    BY DEF Market!Commit
  <2> QED
    BY <1>3, <1>4, <2>1 DEF RowsAfter
<1>8. sync[p].at \in Market!Times /\ sync[p].at <= clock
  BY <1>1, <1>2 DEF Carries
<1> QED
  BY <1>1, <1>3, <1>4, <1>5, <1>6, <1>7, <1>8

LEMMA ReceiptFields ==
    ASSUME NEW p, NEW s
    PROVE  /\ ReceiptAfter(p, s).body = Market!Body(p, s) /\ ReceiptAfter(p, s).fetched = sync[p].got[s].fetched
           /\ ReceiptAfter(p, s).at = Market!CapturedAt(market, s, Market!Body(p, s), sync[p].at)
BY DEF ReceiptAfter

LEMMA CommitTyped ==
    ASSUME MarketKept, NEW p \in Market!Syncs, Market!Commit(p)
    PROVE  MarketTyped' /\ StoredBefore'
<1> USE CommitTables
<1>1. MarketTyped
  BY DEF MarketKept
<1>2. UNCHANGED <<clock, feed, marketMoves>> /\ lock' = None
  BY DEF Market!Commit
<1>3. ASSUME NEW s \in Market!Answered(p)
      PROVE  /\ market'.receipt[s] \in Stamps(s) /\ market'.receipt[s].at <= clock
             /\ market'.rows[s] \in [Names -> Market!Rows(s) \cup {None}]
             /\ market'.seen[s] \in [Names -> [Market!Buckets -> Prices[s] \cup {None}]]
  <2> DEFINE body == Market!Body(p, s)
             at == sync[p].at
  <2>1. s \in Market!Sources /\ body \in Market!Payloads(s) /\ at \in Market!Times /\ sync[p].got[s] \in Gots(s)
    OBVIOUS
  <2>2. \A n \in Names : /\ market'.rows[s][n] \in Market!Rows(s) \cup {None}
                         /\ market'.seen[s][n] \in [Market!Buckets -> Prices[s] \cup {None}]
    <3> SUFFICES ASSUME NEW n \in Names
                 PROVE  /\ market'.rows[s][n] \in Market!Rows(s) \cup {None}
                        /\ market'.seen[s][n] \in [Market!Buckets -> Prices[s] \cup {None}]
      OBVIOUS
    <3>1. /\ market'.rows[s][n] = Market!RowAfter(market, s, n, body, at)
          /\ market'.seen[s][n] = Market!SeenAfter(market, s, n, body, at)
      OBVIOUS
    <3> HIDE DEF body, at
    <3>2. /\ Market!RowAfter(market, s, n, body, at) \in Market!Rows(s) \cup {None}
          /\ Market!SeenAfter(market, s, n, body, at) \in [Market!Buckets -> Prices[s] \cup {None}]
      BY <1>1, <2>1, StoreTyped
    <3> QED
      BY <3>1, <3>2
  <2>3. Market!CapturedAt(market, s, body, at) \in Market!Times /\ Market!CapturedAt(market, s, body, at) <= clock
    <3>1. market.receipt[s] \in Stamps(s) \cup {None} /\ (market.receipt[s] # None => market.receipt[s].at <= clock)
      BY <2>1 DEF MarketKept, MarketTyped, StoredBefore
    <3> QED
      BY <2>1, <3>1 DEF Market!CapturedAt, Market!Replayed, Stamps
  <2>4. ReceiptAfter(p, s) \in Stamps(s)
    BY <2>1, <2>3 DEF ReceiptAfter, Stamps, Gots
  <2>5. market'.receipt[s] \in Stamps(s) /\ market'.receipt[s].at <= clock
    <3>1. market'.receipt[s] = ReceiptAfter(p, s)
      OBVIOUS
    <3>2. ReceiptAfter(p, s).at = Market!CapturedAt(market, s, body, at)
      BY ReceiptFields
    <3> QED
      BY <2>3, <2>4, <3>1, <3>2
  <2>6. /\ market'.rows[s] = [n \in Names |-> market'.rows[s][n]]
        /\ market'.seen[s] = [n \in Names |-> market'.seen[s][n]]
    OBVIOUS
  <2> QED
    BY <2>2, <2>5, <2>6
<1>4. ASSUME NEW s \in Market!Sources
      PROVE  /\ newest'[s] \in {newest[s]} \cup {sync[p].got[s]}
             /\ newest'[s] # newest[s] => s \in Market!Answered(p)
  BY DEF Market!Commit
<1>5. ASSUME NEW s \in Market!Sources
      PROVE  newest'[s] \in Gots(s) \cup {None} /\ (newest'[s] # None => newest'[s].fetched <= clock)
  BY <1>4 DEF MarketKept, MarketTyped, StoredBefore
<1>6. ASSUME NEW s \in Market!Sources
      PROVE  /\ market'.receipt[s] \in Stamps(s) \cup {None} /\ (market'.receipt[s] # None => market'.receipt[s].at <= clock)
             /\ market'.rows[s] \in [Names -> Market!Rows(s) \cup {None}]
             /\ market'.seen[s] \in [Names -> [Market!Buckets -> Prices[s] \cup {None}]]
  <2>1. CASE s \in Market!Answered(p)
    BY <1>3, <2>1
  <2>2. CASE s \notin Market!Answered(p)
    BY <1>1, <2>2 DEF MarketKept, MarketTyped, StoredBefore
  <2> QED
    BY <2>1, <2>2
<1>7. market'.rows = [s \in Market!Sources |-> [n \in Names |-> market'.rows[s][n]]]
  <2>1. market'.rows = [s \in Market!Sources |-> market'.rows[s]]
    BY DEF RowsAfter
  <2>2. \A s \in Market!Sources : market'.rows[s] = [n \in Names |-> market'.rows[s][n]]
    BY <1>6
  <2> QED
    BY <2>1, <2>2
<1>8. market'.primary = [n \in Names |-> market'.primary[n]]
  BY DEF Market!Recalculated
<1>9. market'.current \in BOOLEAN
  BY <1>1 DEF MarketTyped
<1>10. Whole(market')
  OBVIOUS
<1>11. MarketTyped'
  BY <1>1, <1>2, <1>5, <1>6, <1>7, <1>8, <1>9, <1>10 DEF MarketTyped, Whole
<1>12. StoredBefore'
  BY <1>2, <1>5, <1>6 DEF StoredBefore
<1> QED
  BY <1>11, <1>12

LEMMA CommitSyncs ==
    ASSUME MarketKept, NEW p \in Market!Syncs, Market!Commit(p)
    PROVE  SyncsTrue'
<1>1. /\ sync' = [q \in Market!Syncs |-> IF q = p THEN Market!After(p)
                                       ELSE [sync[q] EXCEPT !.behind = @ \/ sync[q].pc # "off"]]
      /\ clock' = clock
  BY DEF Market!Commit
<1>2. sync' = [q \in Market!Syncs |-> sync'[q]]
  BY <1>1
<1> SUFFICES ASSUME NEW q \in Market!Syncs PROVE Carries(sync[q])'
  BY <1>2 DEF SyncsTrue
<1>3. CASE q = p
  <2> DEFINE w == sync'[q]
             none == [s \in Market!Sources |-> None]
             any == IF p = AutoSync THEN Market!StoredAny(p) ELSE FALSE
             no == FALSE
  <2>1. any \in BOOLEAN /\ no \in BOOLEAN
    BY DEF Market!StoredAny
  <2>2. w = Market!After(p)
    BY <1>1, <1>3
  <2>3. Market!Idle = SyncOf("off", 0, none, no, no)
    BY DEF Market!Idle, SyncOf
  <2>4. w = IF p = AutoSync THEN [[Market!Idle EXCEPT !.pc = "stored"] EXCEPT !.any = Market!StoredAny(p)] ELSE Market!Idle
    BY <2>2 DEF Market!After
  <2>5. \E pc \in {"off", "stored"} : w = SyncOf(pc, 0, none, no, any)
    <3> DEFINE u == [Market!Idle EXCEPT !.pc = "stored"]
               some == Market!StoredAny(p)
    <3> HIDE DEF none, no, w, some
    <3>1. u = SyncOf("stored", 0, none, no, no)
      BY <2>3, SyncFields
    <3> HIDE DEF u
    <3>2. [u EXCEPT !.any = some] = SyncOf("stored", 0, none, no, some)
      BY <3>1, SyncFields
    <3>3. CASE p = AutoSync
      <4>1. w = [u EXCEPT !.any = some] /\ any = some
        BY <2>4, <3>3 DEF u, some
      <4> HIDE DEF any
      <4> QED
        BY <4>1, <3>2
    <3>4. CASE p # AutoSync
      <4>1. w = Market!Idle /\ any = no
        BY <2>4, <3>4 DEF no
      <4> HIDE DEF any
      <4> QED
        BY <4>1, <2>3
    <3> QED
      BY <3>3, <3>4
  <2>6. PICK pc \in {"off", "stored"} : w = SyncOf(pc, 0, none, no, any)
    BY <2>5
  <2> HIDE DEF w, none, any, no
  <2>7. w.pc = pc /\ w.at = 0 /\ w.got = none /\ w.behind = no /\ w.any = any
    BY <2>6, SyncFields
  <2>8. w = [pc |-> w.pc, at |-> w.at, got |-> w.got, behind |-> w.behind, any |-> w.any]
    BY <2>6, <2>7 DEF SyncOf
  <2>9. sync'[q] = w
    BY DEF w
  <2> QED
    BY <2>1, <2>7, <2>8, <2>9 DEF Carries, MarketPcs
<1>4. CASE q # p
  <2> DEFINE old == sync[q]
             yes == old.behind \/ old.pc # "off"
             w == [old EXCEPT !.behind = yes]
  <2>1. Carries(old)
    BY DEF MarketKept, SyncsTrue
  <2>2. sync'[q] = w
    BY <1>1, <1>4
  <2>3. yes \in BOOLEAN /\ (old.pc # "off" => yes)
    BY <2>1 DEF Carries
  <2> HIDE DEF old
  <2>4. old = SyncOf(old.pc, old.at, old.got, old.behind, old.any)
    BY <2>1 DEF Carries, SyncOf
  <2> HIDE DEF yes
  <2>5. w = SyncOf(old.pc, old.at, old.got, yes, old.any)
    <3> DEFINE a == old.pc
               b == old.at
               c == old.got
               d == old.behind
               e == old.any
    <3>1. old = SyncOf(a, b, c, d, e)
      BY <2>4
    <3> HIDE DEF a, b, c, d, e
    <3>2. [old EXCEPT !.behind = yes] = SyncOf(a, b, c, yes, e)
      BY <3>1, SyncFields
    <3> QED
      BY <3>2 DEF a, b, c, d, e
  <2> HIDE DEF w
  <2>6. w.pc = old.pc /\ w.at = old.at /\ w.got = old.got /\ w.behind = yes /\ w.any = old.any
    BY <2>5, SyncFields
  <2>7. w = [pc |-> w.pc, at |-> w.at, got |-> w.got, behind |-> w.behind, any |-> w.any]
    BY <2>5, <2>6 DEF SyncOf
  <2>8. w.pc \in {"fetching", "ready", "writing"} => w.behind
    BY <2>3, <2>6
  <2> QED
    BY <1>1, <2>1, <2>2, <2>3, <2>6, <2>7, <2>8 DEF Carries
<1> QED
  BY <1>3, <1>4

LEMMA CommitTells ==
    ASSUME MarketKept, NEW p \in Market!Syncs, Market!Commit(p)
    PROVE  Tells(status, sync[AutoSync].pc, round)'
<1>1. /\ sync' = [q \in Market!Syncs |-> IF q = p THEN Market!After(p)
                                       ELSE [sync[q] EXCEPT !.behind = @ \/ sync[q].pc # "off"]]
      /\ status' = status /\ round' = (round \/ p = AutoSync) /\ sync[p].pc = "writing"
  BY DEF Market!Commit
<1>2. Tells(status, sync[AutoSync].pc, round) /\ AutoSync \in Market!Syncs
  BY MarketBounds DEF MarketKept
<1>3. CASE p = AutoSync
  <2>1. sync'[AutoSync].pc = "stored"
    <3> DEFINE some == Market!StoredAny(p)
    <3>1. sync'[AutoSync] = [Market!Idle EXCEPT !.pc = "stored", !.any = some]
      BY <1>1, <1>2, <1>3 DEF Market!After
    <3> HIDE DEF some
    <3> QED
      BY <3>1 DEF Market!Idle
  <2>2. Tells(status, "writing", round) /\ round' = TRUE
    BY <1>1, <1>2, <1>3
  <2>3. Tells(status, "stored", TRUE)
    BY <2>2 DEF Tells
  <2> QED
    BY <1>1, <2>1, <2>2, <2>3
<1>4. CASE p # AutoSync
  <2>1. round' = round
    BY <1>1, <1>2, <1>4 DEF Tells
  <2>2. sync'[AutoSync].pc = sync[AutoSync].pc
    <3> DEFINE old == sync[AutoSync]
               yes == old.behind \/ old.pc # "off"
    <3>1. sync'[AutoSync] = [old EXCEPT !.behind = yes]
      BY <1>1, <1>2, <1>4
    <3>2. Carries(old)
      BY <1>2 DEF MarketKept, SyncsTrue
    <3> HIDE DEF old, yes
    <3>3. [old EXCEPT !.behind = yes].pc = old.pc
      BY <3>2 DEF Carries
    <3> QED
      BY <3>1, <3>3 DEF old
  <2> QED
    BY <1>1, <1>2, <2>1, <2>2
<1> QED
  BY <1>3, <1>4

\* A source in order stays so: whoever stores its payload began after all that was stored before.
LEMMA CommitInOrder ==
    ASSUME MarketKept, NEW p \in Market!Syncs, Market!Commit(p), NEW s \in Market!Sources, s \notin late'
    PROVE  InOrder(s)'
<1>1. /\ late' = IF sync[p].behind THEN late \cup Market!Answered(p) ELSE late
      /\ newest' = [q \in Market!Sources |->
            IF q \in Market!Answered(p) /\ (newest[q] = None \/ newest[q].fetched <= sync[p].got[q].fetched)
              THEN sync[p].got[q] ELSE newest[q]]
  BY DEF Market!Commit
<1>2. s \notin late /\ MarketTyped /\ InOrder(s) /\ Carries(sync[p])
  BY <1>1 DEF MarketKept, SyncsTrue
<1>3. CASE s \notin Market!Answered(p)
  <2>1. /\ market'.rows[s] = market.rows[s] /\ market'.seen[s] = market.seen[s]
        /\ market'.receipt[s] = market.receipt[s] /\ newest'[s] = newest[s]
    BY <1>3, CommitTables
  <2> QED
    BY <1>2, <2>1 DEF InOrder, Blank
<1>4. CASE s \in Market!Answered(p)
  <2> DEFINE body == Market!Body(p, s)
             at == sync[p].at
             got == sync[p].got[s]
  <2>1. /\ body \in Market!Payloads(s) /\ at \in Market!Times /\ got \in Gots(s) /\ got # None /\ sync[p].pc = "writing"
        /\ body = got.body
    <3>1. body \in Market!Payloads(s) /\ at \in Market!Times /\ got \in Gots(s) /\ sync[p].pc = "writing"
      BY <1>4, CommitTables
    <3> QED
      BY <1>4, <3>1 DEF Market!Answered, Market!Body
  <2>2. ~sync[p].behind
    BY <1>1, <1>4
  <2>3. /\ market.receipt[s] # None => market.receipt[s].at <= at
        /\ newest[s] # None => newest[s].fetched <= at
        /\ at <= got.fetched
    BY <1>2, <2>1, <2>2 DEF Carries
  <2>4. newest'[s] = got
    <3>1. newest[s] # None => newest[s].fetched <= got.fetched
      <4>1. newest[s] # None => newest[s].fetched \in Nat
        BY <1>2, MarketBounds DEF MarketTyped, Gots
      <4>2. at \in Nat /\ got.fetched \in Nat
        BY <2>1, MarketBounds DEF Gots
      <4> HIDE DEF at, got
      <4> QED
        BY <2>3, <4>1, <4>2
    <3> QED
      BY <1>1, <1>4, <3>1
  <2> DEFINE after == ReceiptAfter(p, s)
  <2>5. market'.receipt[s] = after
    BY <1>4, CommitTables
  <2>6. after.body = body /\ after.at = Market!CapturedAt(market, s, body, at)
    BY ReceiptFields
  <2>7. after # None
    <3>1. MarketTyped'
      BY CommitTyped
    <3>2. Market!CapturedAt(market, s, body, at) \in Market!Times
      BY <1>2, <2>1 DEF Market!CapturedAt, Market!Replayed, MarketTyped, Stamps
    <3>3. after \in Stamps(s)
      BY <2>1, <3>2 DEF ReceiptAfter, Stamps, Gots
    <3> QED
      BY <3>3, MarketBounds
  <2>8. ASSUME NEW n \in Names
        PROVE  /\ RowDated(market'.rows[s][n], market'.seen[s][n], after.at)
               /\ Shows(market'.rows[s][n], after.body[n])
    <3>1. /\ market'.rows[s][n] = Market!RowAfter(market, s, n, body, at)
          /\ market'.seen[s][n] = Market!SeenAfter(market, s, n, body, at)
      BY <1>4, CommitTables
    <3> HIDE DEF body, at, after
    <3>2. /\ Shows(Market!RowAfter(market, s, n, body, at), body[n])
          /\ RowDated(Market!RowAfter(market, s, n, body, at), Market!SeenAfter(market, s, n, body, at),
                      Market!CapturedAt(market, s, body, at))
      BY <1>2, <2>1, <2>3, StoreShows
    <3> QED
      BY <2>6, <3>1, <3>2
  <2>9. newest'[s] # None /\ newest'[s].body = after.body
    BY <2>1, <2>4, <2>6
  <2> HIDE DEF after
  <2> QED
    BY <2>5, <2>7, <2>8, <2>9 DEF InOrder
<1> QED
  BY <1>3, <1>4

\* A name no stored payload changes keeps its rows.
LEMMA Untouched ==
    ASSUME MarketKept, NEW p \in Market!Syncs, Market!Commit(p), NEW n \in Names, n \notin Market!Touched(p),
           NEW s \in Market!Sources
    PROVE  market'.rows[s][n] = market.rows[s][n]
<1>1. CASE s \notin Market!Answered(p)
  BY <1>1, CommitTables
<1>2. CASE s \in Market!Answered(p)
  <2> DEFINE body == Market!Body(p, s)
             at == sync[p].at
  <2>1. n \notin Market!Changed(market, s, body, at)
    BY <1>2 DEF Market!Touched
  <2>2. /\ market'.rows[s][n] = Market!RowAfter(market, s, n, body, at)
        /\ body \in Market!Payloads(s) /\ at \in Market!Times
    BY <1>2, CommitTables
  <2> HIDE DEF body, at
  <2>3. MarketTyped
    BY DEF MarketKept
  <2> QED
    BY <2>1, <2>2, <2>3, StoreTyped
<1> QED
  BY <1>1, <1>2

LEMMA CommitStep ==
    ASSUME MarketKept, NEW p \in Market!Syncs, Market!Commit(p)
    PROVE  MarketKept'
<1>1. market'.primary = Market!Recalculated(p, RowsAfter(p)) /\ market'.rows = RowsAfter(p)
  BY CommitTables
<1>2. ASSUME NEW n \in Names PROVE market'.primary[n] = Market!Primary(market'.rows, n)
  <2>1. CASE n \in Market!Touched(p)
    BY <1>1, <2>1 DEF Market!Recalculated
  <2>2. CASE n \notin Market!Touched(p)
    <3>1. market'.primary[n] = Market!Primary(market.rows, n)
      BY <1>1, <2>2 DEF Market!Recalculated, MarketKept
    <3> DEFINE one == market.rows
               two == market'.rows
    <3>2. \A s \in Market!Sources : one[s][n] = two[s][n]
      BY <2>2, Untouched
    <3> HIDE DEF one, two
    <3>3. Market!Primary(one, n) = Market!Primary(two, n)
      BY <3>2, PrimarySame
    <3> QED
      BY <3>1, <3>3 DEF one, two
  <2> QED
    BY <2>1, <2>2
<1>3. market'.current => market'.lookups = market'.rows
  <2>1. CASE Market!Material(p) \/ ~market.current
    BY <2>1, CommitTables
  <2>2. CASE ~(Market!Material(p) \/ ~market.current)
    <3>1. Market!Touched(p) = {} /\ market'.lookups = market.lookups /\ market.current
      BY <2>2, CommitTables DEF Market!Material
    <3>2. \A s \in Market!Sources, n \in Names : market'.rows[s][n] = market.rows[s][n]
      BY <3>1, Untouched
    <3>3. /\ market.rows = [s \in Market!Sources |-> [n \in Names |-> market.rows[s][n]]]
          /\ market'.rows = [s \in Market!Sources |-> [n \in Names |-> market'.rows[s][n]]]
      BY CommitTyped DEF MarketKept, MarketTyped
    <3>4. market'.rows = market.rows
      BY <3>2, <3>3
    <3> QED
      BY <3>1, <3>4 DEF MarketKept
  <2> QED
    BY <2>1, <2>2
<1>4. \A s \in Market!Sources \ late' : InOrder(s)'
  BY CommitInOrder
<1>5. (\A n \in Names : market.primary[n] = Market!Primary(market.rows, n))'
  BY <1>2 DEF Market!Primary
<1> QED
  BY <1>3, <1>4, <1>5, CommitTyped, CommitSyncs, CommitTells DEF MarketKept

LEMMA MarketStep == MarketKept /\ [Market!Next]_(Market!vars) => MarketKept'
<1> SUFFICES ASSUME MarketKept, [Market!Next]_(Market!vars) PROVE MarketKept'
  OBVIOUS
<1>1. ASSUME NEW p \in Market!Syncs, Market!Return(p) PROVE MarketKept'
  <2>1. Market!End(p, sync[p].any) /\ sync[p].pc = "told"
    BY <1>1 DEF Market!Return
  <2>2. sync[p].any \in BOOLEAN
    BY DEF MarketKept, SyncsTrue, Carries
  <2> QED
    BY <2>1, <2>2, EndStep
<1>2. ASSUME NEW p \in Market!Syncs, Market!Raise(p) PROVE MarketKept'
  BY <1>2, EndStep DEF Market!Raise
<1>3. CASE UNCHANGED Market!vars
  <2>1. UNCHANGED <<clock, feed, market, sync, lock, status, newest, late, round, marketMoves>>
    BY <1>3 DEF Market!vars
  <2> QED
    BY <2>1, RowsStay DEF MarketKept, MarketTyped, SyncsTrue, Carries, StoredBefore
<1> QED
  BY <1>1, <1>2, <1>3, StartStep, EnterStep, CommitStep, TellStep, FetchStep, PublishStep, OtherWriteStep,
     CrashStep, TickStep DEF Market!Next

LEMMA MarketTold == MarketKept => MarketInv
<1> SUFFICES ASSUME MarketKept PROVE MarketInv
  OBVIOUS
<1>1. Market!TypeOK
  BY DEF MarketKept, MarketTyped, Tells, Market!TypeOK, Stamps
<1>2. Market!PayloadShown
  <2> SUFFICES ASSUME NEW s \in Market!Sources \ late, NEW n \in Names, newest[s] # None
               PROVE  IF newest[s].body[n] = None THEN market.rows[s][n] = None
                      ELSE market.rows[s][n] # None /\ market.rows[s][n].price = newest[s].body[n]
    BY DEF Market!PayloadShown
  <2>1. InOrder(s)
    BY DEF MarketKept
  <2> QED
    BY <2>1 DEF InOrder, Shows
<1>3. \A n \in Names : market.primary[n] = Market!Primary(market.rows, n)
  BY DEF MarketKept
<1> QED
  BY <1>1, <1>2, <1>3 DEF MarketInv, Market!MarketInv, MarketKept, Tells

(***************************************************************************)
(* However the loop's syncs and those of requests interleave, fail or die, *)
(* rows of a source stored in order are those of its newest payload,       *)
(* primaries and lookups are those of the rows, and the status claims a    *)
(* commit only of a round that committed (market_universe_bulk_sync,       *)
(* _automatic_refresh_finish).                                             *)
(***************************************************************************)
THEOREM MarketHolds == Market!Spec => []MarketInv
<1>1. Market!Init => MarketKept
  BY MarketInit
<1>2. MarketKept /\ [Market!Next]_(Market!vars) => MarketKept'
  BY MarketStep
<1>3. MarketKept => MarketInv
  BY MarketTold
<1> QED
  BY <1>1, <1>2, <1>3, PTL DEF Market!Spec

RowNoOlder ==
    \A s \in Market!Sources, n \in Names :
       market.rows[s][n] # None /\ market'.rows[s][n] # None => market'.rows[s][n].at >= market.rows[s][n].at

LEMMA NoOlderStep == MarketKept /\ [Market!Next]_(Market!vars) => RowNoOlder \/ UNCHANGED Market!vars
<1> SUFFICES ASSUME MarketKept, Market!Next, NEW s \in Market!Sources, NEW n \in Names,
                    market.rows[s][n] # None, market'.rows[s][n] # None
             PROVE  market'.rows[s][n].at >= market.rows[s][n].at
  BY DEF RowNoOlder
<1>1. market.rows[s][n].at \in Nat /\ MarketTyped
  BY MarketBounds DEF MarketKept, MarketTyped, Market!Rows
<1>2. ASSUME market'.rows = market.rows PROVE market'.rows[s][n].at >= market.rows[s][n].at
  BY <1>1, <1>2
<1>3. CASE market' = market
  BY <1>2, <1>3
<1>4. CASE Market!OtherWrite
  <2>1. market'.rows = market.rows
    BY <1>1, <1>4 DEF Market!OtherWrite, MarketTyped
  <2> QED
    BY <1>2, <2>1
<1>5. ASSUME NEW p \in Market!Syncs, Market!Commit(p) PROVE market'.rows[s][n].at >= market.rows[s][n].at
  <2>1. CASE s \in Market!Answered(p)
    <3> DEFINE body == Market!Body(p, s)
               at == sync[p].at
    <3>1. /\ market'.rows[s][n] = Market!RowAfter(market, s, n, body, at)
          /\ body \in Market!Payloads(s) /\ at \in Market!Times
      BY <1>5, <2>1, CommitTables
    <3> HIDE DEF body, at
    <3> QED
      BY <3>1, <1>1, StoreTyped
  <2>2. CASE s \notin Market!Answered(p)
    <3>1. market'.rows[s] = market.rows[s]
      BY <1>5, <2>2, CommitTables
    <3> QED
      BY <3>1, <1>1
  <2> QED
    BY <2>1, <2>2
<1>6. market' = market \/ Market!OtherWrite \/ \E p \in Market!Syncs : Market!Commit(p)
  BY DEF Market!Next, Market!Start, Market!Enter, Market!Tell, Market!Return, Market!Raise, Market!End,
         Market!Fetch, Market!Publish, Market!Crash, Market!Tick
<1> QED
  BY <1>3, <1>4, <1>5, <1>6

(***************************************************************************)
(* A current row never gives way to one captured before it, whichever sync *)
(* stores when (upsert_market_item_price, store_market_quote).             *)
(***************************************************************************)
THEOREM NoOlderRows == Market!Spec => NoOlder
<1>1. Market!Init => MarketKept
  BY MarketInit
<1>2. MarketKept /\ [Market!Next]_(Market!vars) => MarketKept'
  BY MarketStep
<1>3. MarketKept /\ [Market!Next]_(Market!vars) =>
        [\A s \in Market!Sources, n \in Names :
           market.rows[s][n] # None /\ market'.rows[s][n] # None =>
             market'.rows[s][n].at >= market.rows[s][n].at]_(Market!vars)
  BY NoOlderStep DEF RowNoOlder
<1> QED
  BY <1>1, <1>2, <1>3, PTL DEF Market!Spec, NoOlder, Market!NoOlder
-----------------------------------------------------------------------------
(***************************************************************************)
(* Sealed generations (GenerationLifecycle), for any generations, readers  *)
(* and bounds.  What chains of capsules lead to is computed in rounds, as  *)
(* many as there are capsules; that so many suffice, so that the result is *)
(* the least set that holds the roots and is closed under the capsules, is *)
(* what the proof needs of it.                                             *)
(***************************************************************************)

\* What holds of 0 and of the next number of each it holds of, holds of all.
LEMMA Numbers ==
    ASSUME NEW S, 0 \in S, \A n \in Nat : n \in S => n + 1 \in S
    PROVE  Nat \subseteq S
<1> SUFFICES ASSUME Nat \ S # {} PROVE FALSE
  OBVIOUS
<1>1. PICK m \in Nat \ S : \A k \in Nat \ S : m <= k
  BY Least
<1>2. m - 1 \in Nat /\ m - 1 \in S
  BY <1>1
<1> QED
  BY <1>1, <1>2

\* One round: what the capsules of an edge set lead to from what is known.
Further(edges, known) == known \cup {e[2] : e \in {d \in edges : d[1] \in known}}
Rounds(edges, from, f, m) == f = [n \in 0 .. m |-> IF n = 0 THEN from ELSE Further(edges, f[n - 1])]

LEMMA RoundsExist ==
    ASSUME NEW edges, NEW from
    PROVE  \A m \in Nat : \E f : Rounds(edges, from, f, m)
<1> DEFINE S == {m \in Nat : \E f : Rounds(edges, from, f, m)}
<1>1. 0 \in S
  <2> DEFINE f == [n \in 0 .. 0 |-> from]
  <2>1. Rounds(edges, from, f, 0)
    BY DEF Rounds
  <2> QED
    BY <2>1
<1>2. ASSUME NEW m \in Nat, m \in S PROVE m + 1 \in S
  <2>1. PICK f : Rounds(edges, from, f, m)
    BY <1>2
  <2> DEFINE g == [n \in 0 .. m + 1 |-> IF n = m + 1 THEN Further(edges, f[m]) ELSE f[n]]
             h == [n \in 0 .. m + 1 |-> IF n = 0 THEN from ELSE Further(edges, g[n - 1])]
  <2>2. ASSUME NEW n \in 0 .. m + 1 PROVE g[n] = h[n]
    <3>1. CASE n = m + 1
      <4>1. g[n - 1] = f[m] /\ n # 0
        BY <3>1
      <4> QED
        BY <3>1, <4>1
    <3>2. CASE n # m + 1 /\ n # 0
      <4>1. n \in 0 .. m /\ n - 1 \in 0 .. m + 1 /\ n - 1 # m + 1
        BY <3>2
      <4>2. f[n] = Further(edges, f[n - 1])
        BY <2>1, <3>2, <4>1 DEF Rounds
      <4>3. g[n - 1] = f[n - 1] /\ g[n] = f[n]
        BY <3>2, <4>1
      <4> QED
        BY <4>2, <4>3, <3>2
    <3>3. CASE n = 0
      <4>1. 0 \in 0 .. m /\ 0 # m + 1
        OBVIOUS
      <4>2. f[0] = from
        BY <2>1, <4>1 DEF Rounds
      <4> QED
        BY <3>3, <4>1, <4>2
    <3> QED
      BY <3>1, <3>2, <3>3
  <2>3. g = h
    BY <2>2
  <2>4. Rounds(edges, from, g, m + 1)
    BY <2>3 DEF Rounds
  <2> QED
    BY <2>4
<1>3. Nat \subseteq S
  <2> HIDE DEF S
  <2> QED
    BY <1>1, <1>2, Numbers
<1> QED
  BY <1>3

LEMMA SameCount == \A S : Sealed!Cardinality(S) = Cardinality(S)
BY DEF Sealed!Cardinality, Cardinality

\* Chain, by rounds.
LEMMA ChainRounds ==
    ASSUME NEW edges, IsFiniteSet(edges), NEW from
    PROVE  \E f : Rounds(edges, from, f, Cardinality(edges)) /\ Sealed!Chain(edges, from) = f[Cardinality(edges)]
<1> DEFINE m == Cardinality(edges)
           f == CHOOSE reach : reach = [n \in 0 .. m |->
                  IF n = 0 THEN from
                  ELSE LET known == reach[n - 1]
                       IN  known \cup {e[2] : e \in {d \in edges : d[1] \in known}}]
<1>1. m \in Nat
  BY FS_CardinalityType
<1>2. \E g : Rounds(edges, from, g, m)
  BY <1>1, RoundsExist
<1>3. f = [n \in 0 .. m |->
             IF n = 0 THEN from
             ELSE LET known == f[n - 1]
                  IN  known \cup {e[2] : e \in {d \in edges : d[1] \in known}}]
  BY <1>2 DEF Rounds, Further
<1>4. Rounds(edges, from, f, m)
  BY <1>3 DEF Rounds, Further
<1>5. Sealed!Chain(edges, from) = f[m]
  BY SameCount DEF Sealed!Chain
<1> QED
  BY <1>4, <1>5

Closed(edges, S) == \A e \in edges : e[1] \in S => e[2] \in S

\* The set that rounds end with is the least one that holds the roots and is closed.
LEMMA ChainLeast ==
    ASSUME NEW edges, IsFiniteSet(edges), NEW from
    PROVE  /\ from \subseteq Sealed!Chain(edges, from)
           /\ Closed(edges, Sealed!Chain(edges, from))
           /\ \A S : from \subseteq S /\ Closed(edges, S) => Sealed!Chain(edges, from) \subseteq S
<1> DEFINE m == Cardinality(edges)
<1>1. PICK f : Rounds(edges, from, f, m) /\ Sealed!Chain(edges, from) = f[m]
  BY ChainRounds
<1>2. m \in Nat
  BY FS_CardinalityType
<1> HIDE DEF m
<1>3. f[0] = from /\ \A n \in 1 .. m : f[n] = Further(edges, f[n - 1])
  BY <1>1, <1>2 DEF Rounds
<1>4. \A n \in 1 .. m : f[n - 1] \subseteq f[n]
  BY <1>3 DEF Further
<1>5. \A n \in 0 .. m : from \subseteq f[n]
  <2> DEFINE S == {n \in Nat : n <= m => from \subseteq f[n]}
  <2>1. 0 \in S
    BY <1>3
  <2>2. ASSUME NEW n \in Nat, n \in S PROVE n + 1 \in S
    <3>1. CASE n + 1 <= m
      <4>1. n + 1 \in 1 .. m /\ (n + 1) - 1 = n /\ n <= m
        BY <3>1, <1>2
      <4> QED
        BY <4>1, <2>2, <1>4
    <3> QED
      BY <3>1
  <2>3. Nat \subseteq S
    <3> HIDE DEF S
    <3> QED
      BY <2>1, <2>2, Numbers
  <2> QED
    BY <2>3, <1>2
<1>6. ASSUME NEW T, from \subseteq T, Closed(edges, T) PROVE \A n \in 0 .. m : f[n] \subseteq T
  <2> DEFINE S == {n \in Nat : n <= m => f[n] \subseteq T}
  <2>1. 0 \in S
    BY <1>3, <1>6
  <2>2. ASSUME NEW n \in Nat, n \in S PROVE n + 1 \in S
    <3>1. CASE n + 1 <= m
      <4>1. n + 1 \in 1 .. m /\ (n + 1) - 1 = n /\ n <= m
        BY <3>1, <1>2
      <4>2. f[n + 1] = Further(edges, f[n]) /\ f[n] \subseteq T
        BY <4>1, <2>2, <1>3
      <4>3. Further(edges, f[n]) \subseteq T
        BY <4>2, <1>6 DEF Further, Closed
      <4> QED
        BY <4>2, <4>3
    <3> QED
      BY <3>1
  <2>3. Nat \subseteq S
    <3> HIDE DEF S
    <3> QED
      BY <2>1, <2>2, Numbers
  <2> QED
    BY <2>3, <1>2
<1>7. ASSUME NEW n \in 0 .. m PROVE f[n] \subseteq f[m]
  <2> DEFINE S == {k \in Nat : n + k <= m => f[n] \subseteq f[n + k]}
  <2>1. 0 \in S
    BY <1>7
  <2>2. ASSUME NEW k \in Nat, k \in S PROVE k + 1 \in S
    <3>1. CASE n + (k + 1) <= m
      <4>1. n + (k + 1) \in 1 .. m /\ (n + (k + 1)) - 1 = n + k /\ n + k <= m
        BY <3>1, <1>2
      <4>2. f[n] \subseteq f[n + k] /\ f[n + k] \subseteq f[n + (k + 1)]
        BY <4>1, <2>2, <1>4
      <4> QED
        BY <4>2
    <3> QED
      BY <3>1
  <2>3. Nat \subseteq S
    <3> HIDE DEF S
    <3> QED
      BY <2>1, <2>2, Numbers
  <2>4. m - n \in Nat /\ n + (m - n) = m
    BY <1>2
  <2> QED
    BY <2>3, <2>4
<1>8. Closed(edges, f[m])
  <2> SUFFICES ASSUME ~Closed(edges, f[m]) PROVE FALSE
    OBVIOUS
  <2> DEFINE Taken(n) == {d \in edges : d[1] \in f[n]}
  <2>1. ASSUME NEW n \in 0 .. m PROVE ~Closed(edges, f[n])
    <3>1. CASE Closed(edges, f[n])
      <4>1. f[m] \subseteq f[n]
        BY <3>1, <1>5, <1>6, <1>2
      <4>2. f[m] = f[n]
        BY <4>1, <1>7
      <4> QED
        BY <4>2, <3>1
    <3> QED
      BY <3>1
  <2>2. \A n \in 0 .. m : Taken(n) \in SUBSET edges /\ IsFiniteSet(Taken(n)) /\ Cardinality(Taken(n)) \in Nat
                          /\ Cardinality(Taken(n)) <= m
    <3>1. ASSUME NEW T \in SUBSET edges PROVE IsFiniteSet(T) /\ Cardinality(T) \in Nat /\ Cardinality(T) <= m
      BY FS_Subset, FS_CardinalityType DEF m
    <3> QED
      BY <3>1
  <2>3. ASSUME NEW n \in 1 .. m PROVE Cardinality(Taken(n - 1)) < Cardinality(Taken(n))
    <3>1. PICK d \in edges : d[1] \in f[n] /\ d[2] \notin f[n]
      BY <2>1 DEF Closed
    <3>2. d \in Taken(n) /\ d \notin Taken(n - 1)
      BY <3>1, <1>3 DEF Further
    <3>3. Taken(n - 1) \subseteq Taken(n)
      BY <1>4
    <3>4. n - 1 \in 0 .. m /\ n \in 0 .. m
      BY <1>2
    <3> HIDE DEF Taken
    <3>5. Cardinality(Taken(n - 1)) <= Cardinality(Taken(n))
          /\ Cardinality(Taken(n - 1)) # Cardinality(Taken(n))
      BY <3>2, <3>3, <3>4, <2>2, FS_Subset
    <3> QED
      BY <3>4, <3>5, <2>2
  <2>4. Cardinality(Taken(0)) >= 1
    <3>1. 0 \in 0 .. m
      BY <1>2
    <3>2. PICK d \in edges : d[1] \in f[0]
      BY <3>1, <2>1 DEF Closed
    <3>3. Taken(0) # {}
      BY <3>2
    <3> HIDE DEF Taken
    <3>4. Cardinality(Taken(0)) # 0
      BY <3>1, <3>3, <2>2, FS_EmptySet
    <3> QED
      BY <3>1, <3>4, <2>2
  <2> DEFINE S == {n \in Nat : n <= m => Cardinality(Taken(n)) >= n + 1}
  <2>5. 0 \in S
    BY <2>4
  <2>6. ASSUME NEW n \in Nat, n \in S PROVE n + 1 \in S
    <3> HIDE DEF Taken
    <3>1. CASE n + 1 <= m
      <4>1. n + 1 \in 1 .. m /\ (n + 1) - 1 = n /\ n <= m /\ n \in 0 .. m /\ n + 1 \in 0 .. m
        BY <3>1, <1>2
      <4>2. Cardinality(Taken(n)) < Cardinality(Taken(n + 1)) /\ Cardinality(Taken(n)) >= n + 1
        BY <4>1, <2>3, <2>6
      <4> QED
        BY <4>1, <4>2, <2>2
    <3> QED
      BY <3>1
  <2>7. Nat \subseteq S
    <3> HIDE DEF S
    <3> QED
      BY <2>5, <2>6, Numbers
  <2>8. Cardinality(Taken(m)) >= m + 1 /\ Cardinality(Taken(m)) <= m /\ Cardinality(Taken(m)) \in Nat
    <3>1. m \in 0 .. m
      BY <1>2
    <3> HIDE DEF Taken
    <3> QED
      BY <3>1, <2>7, <2>2, <1>2
  <2> QED
    BY <2>8, <1>2
<1>9. 0 \in 0 .. m /\ m \in 0 .. m
  BY <1>2
<1> QED
  BY <1>1, <1>5, <1>6, <1>8, <1>9

\* More capsules and more roots lead to more, and to what those lead to in turn.
LEMMA ChainGrows ==
    ASSUME NEW edges, IsFiniteSet(edges), NEW more, IsFiniteSet(more), edges \subseteq more,
           NEW from, NEW S, from \subseteq Sealed!Chain(more, S)
    PROVE  Sealed!Chain(edges, from) \subseteq Sealed!Chain(more, S)
<1>1. Closed(more, Sealed!Chain(more, S))
  BY ChainLeast
<1>2. Closed(edges, Sealed!Chain(more, S))
  BY <1>1 DEF Closed
<1> QED
  BY <1>2, ChainLeast

-----------------------------------------------------------------------------
NoneOr(S) == S \cup {Sealed!NoGen}
RoleRecords == [version : Nat, head : NoneOr(Gens), kind : {"none", "active", "disabled", "retained"},
                rollback : NoneOr(Gens), previous : NoneOr(Gens), pending : NoneOr(Gens)]
Operations == [at : {"idle", "ticket", "retire", "unlink", "end", "capture"}, version : Nat,
               items : SUBSET Gens, file : NoneOr(Gens)]
Captures == [at : {"idle", "write", "verify"}, edge : NoneOr(Gens) \X NoneOr(Gens)]

SealedTyped ==
    /\ roles \in RoleRecords /\ sealed \subseteq Gens /\ retired \subseteq Gens
    /\ verified \subseteq Gens \X Gens /\ IsFiniteSet(verified)
    /\ archiver \in Captures /\ operator \in Operations /\ writer \in BOOLEAN
    /\ reader \in [Readers -> [at : {"out", "selected", "in"}, gen : NoneOr(Gens)]]
    /\ Sealed!HeadServes => roles.head # Sealed!NoGen
    /\ archiver.at # "idle" => archiver.edge \in Gens \X Gens

\* While a retirement goes on the roles do not move, none of its files has one, and all of
\* them can be rebuilt from what has.
RetirementSafe ==
    operator.at \in {"retire", "unlink", "end"} =>
        /\ writer
        /\ operator.items \cap {roles.head, roles.rollback} = {}
        /\ operator.items \subseteq Sealed!Chain(verified, Sealed!Roots)
        /\ operator.at = "unlink" => operator.file \in operator.items \cap sealed

SealedKept == SealedTyped /\ Sealed!RolesKept /\ Sealed!Recoverable /\ RetirementSafe

LEMMA GensAre == Gens \subseteq Nat \ {0} /\ Sealed!NoGen = 0 /\ 0 \notin Gens
BY StoresAssumption DEF StoresAssumption, Sealed!BoundsAssumption, Sealed!NoGen

LEMMA RootsAre == Sealed!Roots \subseteq {roles.head, roles.rollback} \ {Sealed!NoGen}
BY DEF Sealed!Roots

LEMMA SealedInit == Sealed!Init => SealedKept
<1> SUFFICES ASSUME Sealed!Init PROVE SealedKept
  OBVIOUS
<1>1. SealedTyped
  BY GensAre, FS_EmptySet DEF Sealed!Init, SealedTyped, RoleRecords, Operations, Captures, NoneOr,
     Sealed!NoCapture, Sealed!NoOperation, Sealed!Outside, Sealed!HeadServes
<1>2. Sealed!RolesKept /\ Sealed!Recoverable /\ RetirementSafe
  BY DEF Sealed!Init, Sealed!RolesKept, Sealed!Recoverable, RetirementSafe, Sealed!NoOperation, Sealed!Outside
<1> QED
  BY <1>1, <1>2 DEF SealedKept

\* A step that moves no role, removes no file and takes no capsule back.
LEMMA NothingGone ==
    ASSUME SealedKept, SealedTyped', roles' = roles, sealed \subseteq sealed', verified \subseteq verified',
           retired' = retired,
           \A r \in Readers : reader'[r].at = "in" => reader'[r] = reader[r] \/ reader'[r].gen \in sealed
    PROVE  /\ Sealed!RolesKept' /\ Sealed!Recoverable'
           /\ UNCHANGED <<operator, writer>> => RetirementSafe'
<1>1. Sealed!RolesKept'
  BY DEF SealedKept, Sealed!RolesKept
<1>2. IsFiniteSet(verified) /\ IsFiniteSet(verified')
  BY DEF SealedKept, SealedTyped
<1>3. Sealed!Recoverable'
  <2>1. sealed \subseteq Sealed!Chain(verified', sealed')
    BY <1>2, ChainLeast
  <2>2. Sealed!Chain(verified, sealed) \subseteq Sealed!Chain(verified', sealed')
    BY <2>1, <1>2, ChainGrows
  <2> QED
    BY <2>2 DEF SealedKept, Sealed!Recoverable
<1>4. ASSUME UNCHANGED <<operator, writer>> PROVE RetirementSafe'
  <2>1. Sealed!Roots' = Sealed!Roots
    BY DEF Sealed!Roots, Sealed!HeadServes
  <2>2. Sealed!Roots \subseteq Sealed!Chain(verified', Sealed!Roots)
    BY <1>2, ChainLeast
  <2>3. Sealed!Chain(verified, Sealed!Roots) \subseteq Sealed!Chain(verified', Sealed!Roots)
    BY <2>2, <1>2, ChainGrows
  <2> QED
    BY <1>4, <2>1, <2>3 DEF SealedKept, RetirementSafe
<1> QED
  BY <1>1, <1>3, <1>4

\* A change of roles, by a transaction that gets the writer: to files that are there.
LEMMA RolesMove ==
    ASSUME SealedKept, NEW new \in RoleRecords, Sealed!Move(new), sealed' = sealed,
           new.head \in NoneOr(sealed), new.rollback \in NoneOr(sealed),
           new.kind \in {"active", "retained"} => new.head # Sealed!NoGen
    PROVE  SealedKept'
<1>1. /\ roles' \in RoleRecords /\ roles'.head = new.head /\ roles'.rollback = new.rollback /\ roles'.kind = new.kind
      /\ UNCHANGED <<verified, retired, archiver, operator, writer, reader>> /\ ~writer
  BY DEF Sealed!Move, RoleRecords, SealedKept, SealedTyped
<1>2. SealedTyped'
  BY <1>1 DEF SealedKept, SealedTyped, Sealed!HeadServes
<1>3. Sealed!RolesKept' /\ Sealed!Recoverable'
  BY <1>1 DEF SealedKept, Sealed!RolesKept, Sealed!Recoverable, NoneOr
<1>4. RetirementSafe'
  BY <1>1 DEF SealedKept, RetirementSafe
<1> QED
  BY <1>2, <1>3, <1>4 DEF SealedKept

LEMMA MovesKept ==
    ASSUME SealedKept, Sealed!Queue \/ Sealed!Publish \/ Sealed!Deactivate \/ Sealed!RestoreSaved
    PROVE  SealedKept'
<1>1. /\ roles \in RoleRecords /\ roles.head \in NoneOr(sealed) /\ roles.rollback \in NoneOr(sealed)
      /\ sealed \subseteq Gens
      /\ Sealed!HeadServes => roles.head # Sealed!NoGen
  BY DEF SealedKept, SealedTyped, RoleRecords, NoneOr, Sealed!RolesKept
<1>2. Sealed!RollbackAfter \in NoneOr(sealed) /\ Sealed!PreviousAfter \in NoneOr(Gens)
  BY <1>1 DEF Sealed!RollbackAfter, Sealed!PreviousAfter, NoneOr
<1>3. CASE Sealed!Queue
  <2>1. PICK g \in Gens : Sealed!Move([roles EXCEPT !.pending = g]) /\ sealed' = sealed
    BY <1>3 DEF Sealed!Queue, Sealed!Fresh, Sealed!Free
  <2> DEFINE new == [roles EXCEPT !.pending = g]
  <2>2. new \in RoleRecords /\ new.head = roles.head /\ new.rollback = roles.rollback /\ new.kind = roles.kind
    BY <1>1 DEF RoleRecords, NoneOr
  <2> QED
    BY <2>1, <2>2, <1>1, RolesMove DEF Sealed!HeadServes
<1>4. CASE Sealed!Publish
  <2> DEFINE new == [roles EXCEPT !.head = roles.pending, !.kind = "active",
                                  !.rollback = Sealed!RollbackAfter, !.previous = Sealed!PreviousAfter]
  <2>1. Sealed!Move(new) /\ sealed' = sealed /\ roles.pending \in sealed
    BY <1>4 DEF Sealed!Publish
  <2>2. new \in RoleRecords /\ new.head = roles.pending /\ new.rollback = Sealed!RollbackAfter
    BY <1>1, <1>2, <2>1 DEF RoleRecords, NoneOr
  <2> QED
    BY <2>1, <2>2, <1>1, <1>2, GensAre, RolesMove DEF NoneOr
<1>5. CASE Sealed!Deactivate
  <2> DEFINE new == [roles EXCEPT !.kind = "disabled", !.rollback = Sealed!RollbackAfter]
  <2>1. Sealed!Move(new) /\ sealed' = sealed
    BY <1>5 DEF Sealed!Deactivate
  <2>2. new \in RoleRecords /\ new.head = roles.head /\ new.rollback = Sealed!RollbackAfter /\ new.kind = "disabled"
    BY <1>1, <1>2 DEF RoleRecords, NoneOr
  <2> QED
    BY <2>1, <2>2, <1>1, <1>2, RolesMove
<1>6. CASE Sealed!RestoreSaved
  <2>1. PICK g \in sealed : Sealed!Move([roles EXCEPT !.head = g, !.kind = "retained",
                               !.rollback = Sealed!RollbackAfter, !.previous = Sealed!PreviousAfter])
                            /\ sealed' = sealed
    BY <1>6 DEF Sealed!RestoreSaved
  <2> DEFINE new == [roles EXCEPT !.head = g, !.kind = "retained",
                                  !.rollback = Sealed!RollbackAfter, !.previous = Sealed!PreviousAfter]
  <2>2. new \in RoleRecords /\ new.head = g /\ new.rollback = Sealed!RollbackAfter
    BY <1>1, <1>2 DEF RoleRecords, NoneOr
  <2> QED
    BY <2>1, <2>2, <1>1, <1>2, GensAre, RolesMove DEF NoneOr
<1> QED
  BY <1>3, <1>4, <1>5, <1>6

LEMMA SealStep == SealedKept /\ Sealed!Seal => SealedKept'
<1> SUFFICES ASSUME SealedKept, Sealed!Seal PROVE SealedKept'
  OBVIOUS
<1>1. /\ sealed' = sealed \cup {roles.pending} /\ roles.pending # Sealed!NoGen
      /\ UNCHANGED <<roles, verified, retired, archiver, operator, writer, reader>>
  BY DEF Sealed!Seal
<1>2. SealedTyped'
  BY <1>1 DEF SealedKept, SealedTyped, RoleRecords, NoneOr, Sealed!HeadServes
<1> QED
  BY <1>1, <1>2, NothingGone DEF SealedKept

LEMMA ArchiveStep == SealedKept /\ Sealed!Archive => SealedKept'
<1> SUFFICES ASSUME SealedKept, Sealed!Archive PROVE SealedKept'
  OBVIOUS
<1>1. /\ UNCHANGED <<roles, sealed, retired, operator, writer, reader>>
      /\ verified \subseteq verified' /\ SealedTyped'
  <2>1. CASE Sealed!Choose
    <3>1. PICK g \in sealed : archiver' = [at |-> "write", edge |-> <<roles.head, g>>]
      BY <2>1 DEF Sealed!Choose
    <3>2. roles.head \in Gens /\ g \in Gens
      BY <2>1 DEF Sealed!Choose, SealedKept, SealedTyped, RoleRecords, NoneOr
    <3>3. archiver' \in Captures /\ archiver'.edge \in Gens \X Gens
      BY <3>1, <3>2 DEF Captures, NoneOr
    <3> QED
      BY <2>1, <3>3 DEF Sealed!Choose, SealedKept, SealedTyped, Sealed!HeadServes
  <2>2. Sealed!NoCapture \in Captures /\ Sealed!NoCapture.at = "idle"
    BY DEF Sealed!NoCapture, Captures, NoneOr
  <2>3. CASE Sealed!Write
    <3>1. [archiver EXCEPT !.at = "verify"] \in Captures /\ [archiver EXCEPT !.at = "verify"].edge = archiver.edge
      BY DEF SealedKept, SealedTyped, Captures
    <3> QED
      BY <2>2, <2>3, <3>1 DEF Sealed!Write, SealedKept, SealedTyped, Sealed!HeadServes
  <2>4. CASE Sealed!Verify
    <3>1. verified' \in {verified, verified \cup {archiver.edge}} /\ archiver.edge \in Gens \X Gens
      BY <2>4 DEF Sealed!Verify, SealedKept, SealedTyped
    <3>2. IsFiniteSet(verified')
      BY <3>1, FS_AddElement DEF SealedKept, SealedTyped
    <3> QED
      BY <2>2, <2>4, <3>1, <3>2 DEF Sealed!Verify, SealedKept, SealedTyped, Sealed!HeadServes
  <2> QED
    BY <2>1, <2>3, <2>4 DEF Sealed!Archive
<1> QED
  BY <1>1, NothingGone DEF SealedKept

LEMMA EligibleSafe ==
    ASSUME SealedKept
    PROVE  /\ Sealed!Eligible \subseteq sealed
           /\ Sealed!Eligible \cap {roles.head, roles.rollback} = {}
           /\ Sealed!Eligible \subseteq Sealed!Chain(verified, Sealed!Roots)
<1>1. Sealed!Eligible \subseteq sealed /\ Sealed!Eligible \subseteq Sealed!Chain(verified, Sealed!Roots)
  BY DEF Sealed!Eligible, Sealed!Rebuildable, Sealed!Usable
<1>2. ASSUME NEW g \in Sealed!Eligible PROVE g \notin {roles.head, roles.rollback}
  <2>1. g \in Gens /\ g # Sealed!NoGen /\ g \notin Sealed!Protected
    BY GensAre DEF Sealed!Eligible, SealedKept, SealedTyped
  <2> QED
    BY <2>1 DEF Sealed!Protected
<1> QED
  BY <1>1, <1>2

LEMMA PlanStep == SealedKept /\ Sealed!Plan => SealedKept'
<1> SUFFICES ASSUME SealedKept, Sealed!Plan PROVE SealedKept'
  OBVIOUS
<1>1. /\ operator' = [at |-> "ticket", version |-> roles.version, items |-> Sealed!Eligible, file |-> Sealed!NoGen]
      /\ UNCHANGED <<roles, sealed, verified, retired, archiver, writer, reader>>
  BY DEF Sealed!Plan, Sealed!NoOperation
<1>2. operator' \in Operations
  BY <1>1, EligibleSafe DEF Operations, NoneOr, SealedKept, SealedTyped, RoleRecords
<1>3. SealedTyped'
  BY <1>1, <1>2 DEF SealedKept, SealedTyped, Sealed!HeadServes
<1>4. RetirementSafe'
  BY <1>1 DEF RetirementSafe
<1> QED
  BY <1>1, <1>3, <1>4, NothingGone DEF SealedKept

LEMMA ConfirmStep == SealedKept /\ Sealed!Confirm => SealedKept'
<1> SUFFICES ASSUME SealedKept, Sealed!Confirm PROVE SealedKept'
  OBVIOUS
<1>1. /\ UNCHANGED <<roles, sealed, verified, retired, archiver, reader>>
      /\ \/ Sealed!Confirmed /\ writer' = TRUE /\ operator' = [operator EXCEPT !.at = "retire"]
         \/ writer' = FALSE /\ operator' = Sealed!NoOperation
  BY DEF Sealed!Confirm
<1>2. operator' \in Operations /\ (operator'.at = "retire" => operator'.items = operator.items /\ Sealed!Confirmed /\ writer')
      /\ operator'.at \in {"retire", "idle"}
  BY <1>1 DEF Operations, NoneOr, SealedKept, SealedTyped, Sealed!NoOperation
<1>3. SealedTyped'
  BY <1>1, <1>2 DEF SealedKept, SealedTyped, Sealed!HeadServes
<1>4. RetirementSafe'
  <2>1. Sealed!Roots' = Sealed!Roots
    BY <1>1 DEF Sealed!Roots, Sealed!HeadServes
  <2> QED
    BY <1>1, <1>2, <2>1, EligibleSafe DEF RetirementSafe, Sealed!Confirmed
<1> QED
  BY <1>1, <1>3, <1>4, NothingGone DEF SealedKept

LEMMA ReceiptStep == SealedKept /\ Sealed!Receipt => SealedKept'
<1> SUFFICES ASSUME SealedKept, Sealed!Receipt PROVE SealedKept'
  OBVIOUS
<1>1. PICK g \in operator.items \cap sealed :
        operator' = IF g \in Sealed!Protected THEN [operator EXCEPT !.at = "end"]
                    ELSE [operator EXCEPT !.at = "unlink", !.file = g]
  BY DEF Sealed!Receipt
<1>2. UNCHANGED <<roles, sealed, verified, retired, archiver, writer, reader>> /\ operator.at = "retire"
  BY DEF Sealed!Receipt
<1>3. /\ operator' \in Operations /\ operator'.items = operator.items
      /\ operator'.at = "unlink" => operator'.file = g
  BY <1>1 DEF Operations, NoneOr, SealedKept, SealedTyped
<1>4. SealedTyped'
  BY <1>2, <1>3 DEF SealedKept, SealedTyped, Sealed!HeadServes
<1>5. RetirementSafe'
  <2>1. Sealed!Roots' = Sealed!Roots
    BY <1>2 DEF Sealed!Roots, Sealed!HeadServes
  <2> QED
    BY <1>2, <1>3, <2>1 DEF RetirementSafe, SealedKept
<1> QED
  BY <1>2, <1>4, <1>5, NothingGone DEF SealedKept

LEMMA UnlinkStep == SealedKept /\ Sealed!Unlink => SealedKept'
<1> SUFFICES ASSUME SealedKept, Sealed!Unlink PROVE SealedKept'
  OBVIOUS
<1> DEFINE g == operator.file
<1>1. /\ UNCHANGED <<roles, verified, archiver, writer, reader>> /\ writer
      /\ g \in operator.items /\ g \in sealed /\ g \notin {roles.head, roles.rollback}
      /\ operator.items \cap {roles.head, roles.rollback} = {}
      /\ operator.items \subseteq Sealed!Chain(verified, Sealed!Roots)
  BY DEF Sealed!Unlink, SealedKept, RetirementSafe
<1>2. Sealed!Roots' = Sealed!Roots
  BY <1>1 DEF Sealed!Roots, Sealed!HeadServes
<1>3. CASE Sealed!Unpinned(g)
  <2>1. /\ sealed' = sealed \ {g} /\ retired' = retired \cup {g}
        /\ operator' = [operator EXCEPT !.at = "retire", !.file = Sealed!NoGen]
    BY <1>3 DEF Sealed!Unlink
  <2>2. operator' \in Operations /\ operator'.at = "retire" /\ operator'.items = operator.items
    BY <2>1 DEF Operations, NoneOr, SealedKept, SealedTyped
  <2>3. SealedTyped'
    BY <1>1, <2>1, <2>2 DEF SealedKept, SealedTyped, Sealed!HeadServes
  <2>4. Sealed!RolesKept'
    BY <1>1, <1>3, <2>1 DEF SealedKept, Sealed!RolesKept, Sealed!Unpinned, Sealed!Pinned
  <2>5. Sealed!Recoverable'
    <3>1. IsFiniteSet(verified)
      BY DEF SealedKept, SealedTyped
    <3>2. sealed' \subseteq Sealed!Chain(verified, sealed')
      BY <3>1, ChainLeast
    <3>3. Sealed!Roots \subseteq sealed'
      BY <1>1, <2>1, RootsAre DEF SealedKept, Sealed!RolesKept
    <3>4. Sealed!Roots \subseteq Sealed!Chain(verified, sealed')
      BY <3>2, <3>3
    <3>5. Sealed!Chain(verified, Sealed!Roots) \subseteq Sealed!Chain(verified, sealed')
      BY <3>1, <3>4, ChainGrows
    <3>6. sealed \subseteq Sealed!Chain(verified, sealed')
      BY <1>1, <2>1, <3>2, <3>5
    <3>7. Sealed!Chain(verified, sealed) \subseteq Sealed!Chain(verified, sealed')
      BY <3>1, <3>6, ChainGrows
    <3> QED
      BY <1>1, <2>1, <3>5, <3>7 DEF SealedKept, Sealed!Recoverable
  <2>6. RetirementSafe'
    BY <1>1, <1>2, <2>2 DEF RetirementSafe
  <2> QED
    BY <2>3, <2>4, <2>5, <2>6 DEF SealedKept
<1>4. CASE ~Sealed!Unpinned(g)
  <2>1. operator' = [operator EXCEPT !.at = "end"] /\ UNCHANGED <<sealed, retired>>
    BY <1>4 DEF Sealed!Unlink
  <2>2. operator' \in Operations /\ operator'.at = "end" /\ operator'.items = operator.items
    BY <2>1 DEF Operations, NoneOr, SealedKept, SealedTyped
  <2>3. SealedTyped'
    BY <1>1, <2>1, <2>2 DEF SealedKept, SealedTyped, Sealed!HeadServes
  <2>4. RetirementSafe'
    BY <1>1, <1>2, <2>2 DEF RetirementSafe
  <2> QED
    BY <1>1, <2>1, <2>3, <2>4, NothingGone DEF SealedKept
<1> QED
  BY <1>3, <1>4

LEMMA NoOperationIs == Sealed!NoOperation \in Operations /\ Sealed!NoOperation.at = "idle"
BY DEF Sealed!NoOperation, Operations, NoneOr

LEMMA RetireEndsStep == SealedKept /\ Sealed!RetireEnds => SealedKept'
<1> SUFFICES ASSUME SealedKept, Sealed!RetireEnds PROVE SealedKept'
  OBVIOUS
<1>1. writer' = FALSE /\ operator' = Sealed!NoOperation
      /\ UNCHANGED <<roles, sealed, verified, retired, archiver, reader>>
  BY DEF Sealed!RetireEnds
<1>2. SealedTyped' /\ RetirementSafe'
  BY <1>1, NoOperationIs DEF SealedKept, SealedTyped, RetirementSafe, Sealed!HeadServes
<1> QED
  BY <1>1, <1>2, NothingGone DEF SealedKept

LEMMA RecoverStep == SealedKept /\ Sealed!Recover => SealedKept'
<1> SUFFICES ASSUME SealedKept, Sealed!Recover PROVE SealedKept'
  OBVIOUS
<1>1. PICK g \in retired, new \in Gens :
        /\ sealed' = sealed \cup {new}
        /\ operator' = [Sealed!NoOperation EXCEPT !.at = "capture", !.items = {g, new}]
  BY DEF Sealed!Recover, Sealed!Fresh, Sealed!Free
<1>2. UNCHANGED <<roles, verified, retired, archiver, writer, reader>>
  BY DEF Sealed!Recover
<1>3. operator' \in Operations /\ operator'.at = "capture"
  BY <1>1 DEF Operations, NoneOr, Sealed!NoOperation, SealedKept, SealedTyped
<1>4. SealedTyped' /\ RetirementSafe'
  BY <1>1, <1>2, <1>3 DEF SealedKept, SealedTyped, RetirementSafe, Sealed!HeadServes
<1> QED
  BY <1>1, <1>2, <1>4, NothingGone DEF SealedKept

LEMMA RecoverEndsStep == SealedKept /\ Sealed!RecoverEnds => SealedKept'
<1> SUFFICES ASSUME SealedKept, Sealed!RecoverEnds PROVE SealedKept'
  OBVIOUS
<1>1. PICK new \in operator.items, g \in operator.items : verified' = verified \cup {<<new, g>>}
  BY DEF Sealed!RecoverEnds
<1>2. operator' = Sealed!NoOperation /\ UNCHANGED <<roles, sealed, retired, archiver, writer, reader>>
  BY DEF Sealed!RecoverEnds
<1>3. <<new, g>> \in Gens \X Gens
  BY DEF SealedKept, SealedTyped, Operations
<1>4. IsFiniteSet(verified')
  BY <1>1, FS_AddElement DEF SealedKept, SealedTyped
<1>5. SealedTyped' /\ RetirementSafe'
  BY <1>1, <1>2, <1>3, <1>4, NoOperationIs DEF SealedKept, SealedTyped, RetirementSafe, Sealed!HeadServes
<1> QED
  BY <1>1, <1>2, <1>5, NothingGone DEF SealedKept

LEMMA ReaderStep ==
    ASSUME SealedKept, NEW r \in Readers, Sealed!Select(r) \/ Sealed!Attach(r) \/ Sealed!Close(r)
    PROVE  SealedKept'
<1>1. UNCHANGED <<roles, sealed, verified, retired, archiver, operator, writer>>
  BY DEF Sealed!Select, Sealed!Attach, Sealed!Close
<1>2. PICK new \in [at : {"out", "selected", "in"}, gen : NoneOr(Gens)] :
        reader' = [reader EXCEPT ![r] = new] /\ (new.at = "in" => new.gen \in sealed)
  <2>1. reader[r] \in [at : {"out", "selected", "in"}, gen : NoneOr(Gens)] /\ roles.head \in NoneOr(Gens)
    BY DEF SealedKept, SealedTyped, RoleRecords
  <2>2. Sealed!Outside \in [at : {"out", "selected", "in"}, gen : NoneOr(Gens)] /\ Sealed!Outside.at = "out"
    BY DEF Sealed!Outside, NoneOr
  <2>3. CASE Sealed!Select(r)
    <3> DEFINE new == [at |-> "selected", gen |-> roles.head]
    <3>1. new \in [at : {"out", "selected", "in"}, gen : NoneOr(Gens)] /\ new.at # "in"
      BY <2>1
    <3>2. reader' = [reader EXCEPT ![r] = new]
      BY <2>3 DEF Sealed!Select
    <3> HIDE DEF new
    <3> QED
      BY <3>1, <3>2
  <2>4. CASE Sealed!Attach(r)
    <3>1. reader' = [reader EXCEPT ![r] = IF reader[r].gen \in sealed
                                          THEN [reader[r] EXCEPT !.at = "in"] ELSE Sealed!Outside]
      BY <2>4 DEF Sealed!Attach
    <3>2. [reader[r] EXCEPT !.at = "in"] \in [at : {"out", "selected", "in"}, gen : NoneOr(Gens)]
          /\ [reader[r] EXCEPT !.at = "in"].gen = reader[r].gen
      BY <2>1
    <3> QED
      BY <2>2, <3>1, <3>2
  <2>5. CASE Sealed!Close(r)
    BY <2>2, <2>5 DEF Sealed!Close
  <2> QED
    BY <2>3, <2>4, <2>5
<1>3. SealedTyped'
  BY <1>1, <1>2 DEF SealedKept, SealedTyped, Sealed!HeadServes
<1>4. \A q \in Readers : reader'[q].at = "in" => reader'[q] = reader[q] \/ reader'[q].gen \in sealed
  BY <1>2 DEF SealedKept, SealedTyped
<1> QED
  BY <1>1, <1>3, <1>4, NothingGone DEF SealedKept

LEMMA ProcessEnds == SealedKept /\ Sealed!Crash => SealedKept'
<1> SUFFICES ASSUME SealedKept, Sealed!Crash PROVE SealedKept'
  OBVIOUS
<1>1. /\ archiver' = Sealed!NoCapture /\ operator' = Sealed!NoOperation /\ writer' = FALSE
      /\ reader' = [r \in Readers |-> Sealed!Outside] /\ UNCHANGED <<roles, sealed, verified, retired>>
  BY DEF Sealed!Crash
<1>2. Sealed!NoCapture \in Captures /\ Sealed!NoCapture.at = "idle"
  BY DEF Sealed!NoCapture, Captures, NoneOr
<1>3. \A r \in Readers : reader'[r].at # "in"
  BY <1>1 DEF Sealed!Outside
<1>4. reader' \in [Readers -> [at : {"out", "selected", "in"}, gen : NoneOr(Gens)]]
  BY <1>1 DEF Sealed!Outside, NoneOr
<1>5. SealedTyped' /\ RetirementSafe'
  BY <1>1, <1>2, <1>4, NoOperationIs DEF SealedKept, SealedTyped, RetirementSafe, Sealed!HeadServes
<1> QED
  BY <1>1, <1>3, <1>5, NothingGone DEF SealedKept

LEMMA SealedStep == SealedKept /\ [Sealed!Next]_(Sealed!vars) => SealedKept'
<1> SUFFICES ASSUME SealedKept, [Sealed!Next]_(Sealed!vars) PROVE SealedKept'
  OBVIOUS
<1>1. CASE UNCHANGED Sealed!vars
  <2>1. SealedTyped'
    BY <1>1 DEF Sealed!vars, SealedKept, SealedTyped, Sealed!HeadServes
  <2> QED
    BY <1>1, <2>1, NothingGone DEF Sealed!vars, SealedKept
<1>2. CASE Sealed!Next
  BY <1>2, MovesKept, SealStep, ArchiveStep, PlanStep, ConfirmStep, ReceiptStep, UnlinkStep, RetireEndsStep,
     RecoverStep, RecoverEndsStep, ReaderStep, ProcessEnds DEF Sealed!Next
<1> QED
  BY <1>1, <1>2

(***************************************************************************)
(* Files in use stay and retired generations can be rebuilt, for any       *)
(* generations, readers, capacity and number of changes of the roles       *)
(* (Lifecycle.plan, retire, recover; Repository.pin_reader).               *)
(***************************************************************************)
THEOREM LifecycleHolds == Sealed!Spec => []LifecycleInv
<1>1. SealedKept => LifecycleInv
  BY DEF SealedKept, SealedTyped, RoleRecords, NoneOr, LifecycleInv, Sealed!LifecycleInv, Sealed!TypeOK
<1> QED
  BY <1>1, SealedInit, SealedStep, PTL DEF Sealed!Spec
=============================================================================
