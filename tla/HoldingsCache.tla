--------------------------- MODULE HoldingsCache ---------------------------
(***************************************************************************)
(* Saved holdings read without a transaction around the whole              *)
(* (holdings_cache.py, and frozen in pipeline_host.py above it).           *)
(*                                                                         *)
(* A cache connection watches PRAGMA data_version, which tells a           *)
(* connection that another one committed since it last looked.  Holdings   *)
(* read under one version are kept for it; identity_revision makes the     *)
(* version, with the connection's incarnation, the key of a second cache   *)
(* of frozen holdings.                                                     *)
(*                                                                         *)
(* Holdings are followed by the number of commits they reflect.            *)
(***************************************************************************)
EXTENDS Integers, Sequences, SequencesExt

CONSTANTS
    Portfolios,
    MaxEntries,              \* max_entries of the cache, and frozen's 4
    MaxCommits, MaxReads, MaxFailures   \* bounds

None == -1
Commits == 0..MaxCommits

HoldingsAssumption ==
    MaxEntries \in Nat \ {0} /\ MaxCommits \in Nat /\ MaxReads \in Nat /\ MaxFailures \in Nat

VARIABLES
    db,            \* commits so far
    conn,          \* the cache's connection: state, the last commit it saw, its data_version
    incarnation,   \* _incarnation
    version,       \* _version
    entries,       \* _entries, oldest first: the holdings kept for version
    frozenCache,   \* frozen_cache, oldest first: key and holdings
    call,          \* the frozen call under way, which holds frozen_lock
    reads, failures

cacheVars == <<conn, incarnation, version, entries>>
vars == <<db, cacheVars, frozenCache, call, reads, failures>>

DataVersions == 1..MaxCommits + 1
Epochs == [incarnation : Nat, version : DataVersions]
NoEpoch == [incarnation |-> 0, version |-> 1]
Kept(K) == Seq([key : K, holdings : Commits])

TypeOK ==
    /\ db \in Commits
    /\ conn \in [state : {"none", "open", "broken"}, seen : Commits, dv : DataVersions]
    /\ incarnation \in Nat
    /\ version \in DataVersions \cup {None}
    /\ entries \in Kept(Portfolios)
    /\ frozenCache \in Kept(Portfolios \X Epochs)
    /\ call \in [step : {"idle", "miss", "hit", "snapshot", "verify", "after", "done"},
                 portfolio : Portfolios, epoch : Epochs, before : DataVersions,
                 holdings : Commits, since : Commits]
    /\ reads \in 0..MaxReads /\ failures \in 0..MaxFailures

Init ==
    /\ db = 0
    /\ conn = [state |-> "none", seen |-> 0, dv |-> 1]
    /\ incarnation = 0 /\ version = None /\ entries = << >>
    /\ frozenCache = << >>
    /\ \E p \in Portfolios :
         call = [step |-> "idle", portfolio |-> p, epoch |-> NoEpoch, before |-> 1,
                 holdings |-> 0, since |-> 0]
    /\ reads = 0 /\ failures = 0

----------------------------------------------------------------------------

\* SQLite: a connection that touches the database learns of commits made
\* since it last did; several count once.  A new one starts counting at 1.
Synced(c) == IF c.seen = db THEN c ELSE [c EXCEPT !.seen = db, !.dv = @ + 1]
Opened == IF conn.state = "open" THEN conn ELSE [state |-> "open", seen |-> db, dv |-> 1]
Observed == Synced(Opened)

\* _open counts the connections it makes.
Incarnation == IF conn.state = "open" THEN incarnation ELSE incarnation + 1

Current_Kept == entries
Current == IF version = Observed.dv THEN entries ELSE << >>

\* _open and _data_version, and the entries of another version dropped.
Observe ==
    /\ conn.state # "broken"
    /\ conn' = Observed
    /\ incarnation' = Incarnation
    /\ version' = Observed.dv
    /\ entries' = Current

\* _discard: nothing is kept, and the connection is closed, or left aside
\* when even that fails.
Discard ==
    /\ version' = None /\ entries' = << >>
    /\ \E s \in {"none", "broken"} :
         /\ s = "broken" => failures < MaxFailures
         /\ conn' = [conn EXCEPT !.state = IF conn.state = "none" THEN "none" ELSE s]
    /\ UNCHANGED incarnation

Unlocked == call.step \in {"idle", "miss", "after", "done"}
\* Where an ordered dictionary keeps a key, and what is left when the key goes.
Find(k, q) == {i \in 1..Len(q) : q[i].key = k}
Without(k, q) ==
    IF Find(k, q) = {} THEN q ELSE RemoveAt(q, CHOOSE i \in Find(k, q) : TRUE)
Newest(q) == IF Len(q) <= MaxEntries THEN q ELSE SubSeq(q, Len(q) - MaxEntries + 1, Len(q))
Keep(k, h, q) == Newest(Append(Without(k, q), [key |-> k, holdings |-> h]))
Key(c) == <<c.portfolio, c.epoch>>
EpochNow == [incarnation |-> incarnation', version |-> conn'.dv]

----------------------------------------------------------------------------

\* Any other connection commits.
Commit ==
    /\ db < MaxCommits
    /\ db' = db + 1
    /\ UNCHANGED <<cacheVars, frozenCache, call, reads, failures>>

\* identity_revision asked for by another reader (Pipeline, Analysis).
IdentityRevision ==
    /\ Unlocked
    /\ Observe
    /\ UNCHANGED <<db, frozenCache, call, reads, failures>>

\* frozen takes the epoch before, and finds the holdings frozen for it or not.
FrozenBegin ==
    /\ call.step \in {"idle", "done"} /\ reads < MaxReads
    /\ Observe
    /\ \E p \in Portfolios :
         LET key == <<p, EpochNow>>
             hit == Find(key, frozenCache)
         IN \E h \in IF hit = {} THEN {0} ELSE {frozenCache[i].holdings : i \in hit} :
              call' = [call EXCEPT !.step = IF hit = {} THEN "miss" ELSE "after",
                                   !.portfolio = p, !.epoch = EpochNow, !.since = db,
                                   !.holdings = h]
    /\ reads' = reads + 1
    /\ UNCHANGED <<db, frozenCache, failures>>

\* HoldingsCache.read up to its look into the entries.
ReadBegin ==
    /\ call.step = "miss"
    /\ Observe
    /\ call' = [call EXCEPT !.before = Observed.dv,
                            !.step = IF Find(call.portfolio, Current) = {}
                                     THEN "snapshot" ELSE "hit"]
    /\ UNCHANGED <<db, frozenCache, reads, failures>>

\* What is returned was checked against the version once more.
Unchanged(v) == Observed.dv = v

ReadHit ==
    /\ call.step = "hit" /\ Unchanged(call.before)
    /\ conn' = Observed
    /\ \E i \in Find(call.portfolio, entries) :
         /\ entries' = Append(Without(call.portfolio, entries), entries[i])
         /\ call' = [call EXCEPT !.step = "after", !.holdings = entries[i].holdings]
    /\ UNCHANGED <<db, incarnation, version, frozenCache, reads, failures>>

\* BEGIN and the reader's statements: one snapshot.
ReadSnapshot ==
    /\ call.step = "snapshot"
    /\ conn' = Synced(conn)
    /\ call' = [call EXCEPT !.step = "verify", !.holdings = db]
    /\ UNCHANGED <<db, incarnation, version, entries, frozenCache, reads, failures>>

ReadVerified ==
    /\ call.step = "verify" /\ Unchanged(call.before)
    /\ conn' = Observed
    /\ entries' = Keep(call.portfolio, call.holdings, entries)
    /\ call' = [call EXCEPT !.step = "after"]
    /\ UNCHANGED <<db, incarnation, version, frozenCache, reads, failures>>

\* HoldingsChanged: nothing is returned, and the connection goes.
ReadChanged ==
    /\ call.step \in {"hit", "verify"} /\ ~Unchanged(call.before)
    /\ Discard
    /\ failures' = IF conn'.state = "broken" THEN failures + 1 ELSE failures
    /\ call' = [call EXCEPT !.step = "idle"]
    /\ UNCHANGED <<db, frozenCache, reads>>

\* An error of the database or the reader, in a read or in identity_revision.
Fail ==
    /\ failures < MaxFailures
    /\ failures' = failures + 1
    /\ Discard
    /\ \E s \in {call.step, "idle"} :
         /\ s # "idle" => call.step \in {"after", "done"}
         /\ call' = [call EXCEPT !.step = s]
    /\ UNCHANGED <<db, frozenCache, reads>>

\* A connection left aside: every use fails and tries again to close it.
BrokenUse ==
    /\ conn.state = "broken"
    /\ conn' = [conn EXCEPT !.state = "none"]
    /\ call' = [call EXCEPT !.step = IF Unlocked /\ @ \in {"miss", "after"} THEN "idle" ELSE @]
    /\ UNCHANGED <<db, incarnation, version, entries, frozenCache, reads, failures>>

\* frozen's second look at the epoch decides whether its result counts.
SameEpoch(e) == e = EpochNow
FrozenAfter ==
    /\ call.step = "after"
    /\ Observe
    /\ IF SameEpoch(call.epoch)
       THEN /\ frozenCache' = Keep(Key(call), call.holdings, frozenCache)
            /\ call' = [call EXCEPT !.step = "done"]
       ELSE /\ frozenCache' = << >>
            /\ call' = [call EXCEPT !.step = "idle"]
    /\ UNCHANGED <<db, reads, failures>>

Next ==
    \/ Commit \/ IdentityRevision \/ FrozenBegin \/ ReadBegin \/ ReadHit \/ ReadSnapshot
    \/ ReadVerified \/ ReadChanged \/ Fail \/ BrokenUse \/ FrozenAfter

Spec == Init /\ [][Next]_vars

----------------------------------------------------------------------------

\* What is kept for the version the connection stands at is what the
\* database held when the connection last looked; so is what is frozen for
\* the epoch it stands at.
KeptTrue ==
    /\ version = conn.dv /\ conn.state = "open" =>
          \A i \in 1..Len(entries) : entries[i].holdings = conn.seen
    /\ \A i \in 1..Len(frozenCache) :
          LET e == frozenCache[i].key[2] IN
          conn.state = "open" /\ e.incarnation = incarnation /\ e.version = conn.dv =>
              frozenCache[i].holdings = conn.seen

\* A connection number and version name one state of the database for ever:
\* no two frozen holdings of a portfolio share a key.
KeptOnce ==
    /\ \A i, j \in 1..Len(entries) : entries[i].key = entries[j].key => i = j
    /\ \A i, j \in 1..Len(frozenCache) : frozenCache[i].key = frozenCache[j].key => i = j
    /\ Len(entries) <= MaxEntries /\ Len(frozenCache) <= MaxEntries

\* Frozen holdings are those of one moment of the call that returns them.
FrozenTrue == call.step = "done" => call.holdings \in call.since..db

\* What the two caches keep and what a call returns is what the database held
\* (holdings_cache.py, HoldingsCache; pipeline_host.py, frozen).
HoldingsInv == TypeOK /\ KeptTrue /\ KeptOnce /\ FrozenTrue
=============================================================================
