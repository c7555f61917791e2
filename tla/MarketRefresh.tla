--------------------------- MODULE MarketRefresh ---------------------------
(***************************************************************************)
(* The reference refresh of server.py: a sync fetches the full payload of  *)
(* every source, then stores all of them, drops the rows they no longer    *)
(* list, picks each name's primary price again and rebuilds the lookups,   *)
(* in one transaction under the writer's lock.  The refresh loop runs      *)
(* syncs and reports on them; requests run syncs of their own beside it.   *)
(*                                                                         *)
(* Modelled with unstaged lookups (DerivedGenerations has staged ones) and *)
(* without the registry's bindings (CatalogMigration).  A payload is what  *)
(* it says of each name; its digest is the payload.                        *)
(***************************************************************************)
EXTENDS Integers, Sequences, FiniteSets, FiniteSetsExt

CONSTANTS
    Names,
    Prices,               \* the prices a source asks
    Order,                \* sources, the one preferred for the primary price first
    AutoSync, Asked,          \* the refresh loop's sync; those of requests
    Interval,             \* MARKET_REFRESH_INTERVAL_SECONDS
    Bucket,               \* OBSERVATION_BUCKET_SECONDS
    None,
    MaxTime,
    MaxMoves              \* new payloads, failing fetches, other writes, crashes

VARIABLES
    clock,
    feed,                 \* what each source answers
    db,                   \* rows, bucketed observations, receipts, primary prices, lookups
    sync, lock,           \* what each sync does, who holds the writer's lock
    status,               \* AUTO_REFRESH_STATUS
    newest, late, round,  \* history: payload stored that was fetched last, sources stored out of order, the round committed
    moves

vars == <<clock, feed, db, sync, lock, status, newest, late, round, moves>>
history == <<newest, late, round>>

Sources == {Order[i] : i \in DOMAIN Order}
Syncs == Asked \cup {AutoSync}
Payloads(s) == [Names -> Prices[s] \cup {None}]
Times == 1 .. MaxTime
Rows(s) == [price : Prices[s], at : Times]
Buckets == {t \div Bucket : t \in Times}

MarketAssumption ==
    /\ AutoSync \notin Asked /\ None \notin Asked \cup {AutoSync} /\ DOMAIN Order \subseteq Nat
    /\ Interval \in Nat \ {0} /\ Bucket \in Nat \ {0} /\ MaxTime \in Nat \ {0} /\ MaxMoves \in Nat
    /\ \A s \in Sources : /\ Prices[s] \subseteq Nat \ {0} /\ None \notin Prices[s] \cup Rows(s)
                          /\ None \notin [body : Payloads(s), fetched : Times]
                          /\ None \notin [body : Payloads(s), at : Times, fetched : Times]

Idle == [pc |-> "off", at |-> 0, got |-> [s \in Sources |-> None], behind |-> FALSE, any |-> FALSE]
Quiet == [active |-> FALSE, state |-> "idle", commit |-> "not_started", errors |-> FALSE, finished |-> 0]

TypeOK ==
    /\ clock \in Times /\ \A s \in Sources : feed[s] \in Payloads(s) /\ moves \in 0 .. MaxMoves
    /\ \A s \in Sources :
         /\ db.rows[s] \in [Names -> Rows(s) \cup {None}]
         /\ db.seen[s] \in [Names -> [Buckets -> Prices[s] \cup {None}]]
         /\ db.receipt[s] \in [body : Payloads(s), at : Times, fetched : Times] \cup {None}
    /\ lock \in Syncs \cup {None}
    /\ status.commit \in {"not_started", "uncommitted", "committed", "unknown"}
    /\ status.state \in {"idle", "running", "completed", "completed_with_errors", "failed"}

Init ==
    /\ clock = 1 /\ feed \in {f \in [Sources -> UNION {Payloads(s) : s \in Sources}] : \A s \in Sources : f[s] \in Payloads(s)}
    /\ moves = 0
    /\ db = [rows |-> [s \in Sources |-> [n \in Names |-> None]],
             seen |-> [s \in Sources |-> [n \in Names |-> [b \in Buckets |-> None]]],
             receipt |-> [s \in Sources |-> None], primary |-> [n \in Names |-> None],
             lookups |-> None, current |-> FALSE]
    /\ sync = [p \in Syncs |-> Idle] /\ lock = None /\ status = Quiet
    /\ newest = [s \in Sources |-> None] /\ late = {} /\ round = FALSE

(* When the loop refreshes.                                                *)

Receipts == {s \in Sources : db.receipt[s] # None}
BackedOff == status.state \in {"failed", "completed_with_errors"} /\ clock - status.finished < Interval
Due == /\ ~status.active /\ ~BackedOff
       /\ \A s \in Receipts : clock - db.receipt[s].fetched >= Interval

(* Storing one source's payload, captured at a time.                       *)

\* The payload last stored keeps the clock it was captured with.
Replayed(d, s, body, at) == d.receipt[s] # None /\ d.receipt[s].body = body /\ d.receipt[s].at <= at
CapturedAt(d, s, body, at) == IF Replayed(d, s, body, at) THEN d.receipt[s].at ELSE at

\* An observation of this price in this bucket, and a current row: nothing to do.
Observed(d, s, n, price, at) == d.rows[s][n] # None /\ d.seen[s][n][at \div Bucket] = price
\* A replay is no observation and repairs rows that are no newer.
NoRepair(row, price, at) == row # None /\ (row.at > at \/ row.price = price)
Unmoved(d, s, n, body, at) ==
    IF Replayed(d, s, body, at) THEN NoRepair(d.rows[s][n], body[n], d.receipt[s].at)
    ELSE Observed(d, s, n, body[n], at)
\* upsert_market_item_price
NewerKept_Never(row, at) == FALSE
NewerKept(row, at) == row # None /\ row.at > at
Upserted(row, price, at) == IF NewerKept(row, at) THEN row ELSE [price |-> price, at |-> at]
\* remove_missing_provider_current_prices
Missing(d, s, body, at) ==
    {n \in Names : body[n] = None /\ d.rows[s][n] # None
                   /\ (Replayed(d, s, body, at) => d.rows[s][n].at <= d.receipt[s].at)}
Changed(d, s, body, at) ==
    {n \in Names : body[n] # None /\ ~Unmoved(d, s, n, body, at)} \cup Missing(d, s, body, at)

RowAfter(d, s, n, body, at) ==
    CASE n \notin Changed(d, s, body, at) -> d.rows[s][n]
      [] body[n] = None /\ n \in Changed(d, s, body, at) -> None
      [] OTHER -> Upserted(d.rows[s][n], body[n], CapturedAt(d, s, body, at))
SeenAfter(d, s, n, body, at) ==
    IF body[n] # None /\ n \in Changed(d, s, body, at) /\ ~Replayed(d, s, body, at)
      THEN [d.seen[s][n] EXCEPT ![at \div Bucket] = body[n]]
      ELSE d.seen[s][n]

\* The transaction: the sources that answered, then primary prices and lookups.
Answered(p) == {s \in Sources : sync[p].got[s] # None}
Body(p, s) == sync[p].got[s].body
Touched(p) == UNION {Changed(db, s, Body(p, s), sync[p].at) : s \in Answered(p)}
Primary(rows, n) ==
    LET priced == {i \in DOMAIN Order : rows[Order[i]][n] # None} IN
    IF priced = {} THEN None ELSE [source |-> Order[Min(priced)], price |-> rows[Order[Min(priced)]][n].price]
\* Rows that only went away do not move the source's revision by themselves.
Material_Upserts(p) == \E s \in Answered(p), n \in Names : Body(p, s)[n] # None /\ n \in Changed(db, s, Body(p, s), sync[p].at)
Material(p) == Touched(p) # {}
Rebuilt(d, material) == IF material \/ ~d.current THEN [d EXCEPT !.lookups = d.rows, !.current = TRUE] ELSE d
Recalculated(p, rows) == [n \in Names |-> IF n \in Touched(p) THEN Primary(rows, n) ELSE db.primary[n]]
Stored(p) ==
    LET at == sync[p].at
        rows == [s \in Sources |-> IF s \in Answered(p) THEN [n \in Names |-> RowAfter(db, s, n, Body(p, s), at)]
                                   ELSE db.rows[s]] IN
    Rebuilt([db EXCEPT !.rows = rows,
               !.seen = [s \in Sources |-> IF s \in Answered(p) THEN [n \in Names |-> SeenAfter(db, s, n, Body(p, s), at)]
                                           ELSE @[s]],
               !.receipt = [s \in Sources |->
                  IF s \in Answered(p)
                    THEN [body |-> Body(p, s), at |-> CapturedAt(db, s, Body(p, s), at), fetched |-> sync[p].got[s].fetched]
                    ELSE @[s]],
               !.primary = Recalculated(p, rows)], Material(p))

(* Automatic refresh status.                                               *)

Says(p, change) == IF p = AutoSync THEN change ELSE status
Finished(ok) ==
    LET good == ok /\ status.commit = "committed" IN
    [status EXCEPT !.active = FALSE, !.finished = clock,
                   !.commit = IF ~good /\ @ = "uncommitted" THEN "unknown" ELSE @,
                   !.state = IF ~good THEN "failed" ELSE IF status.errors THEN "completed_with_errors" ELSE "completed"]

Move == moves < MaxMoves /\ moves' = moves + 1

(* A sync.                                                                 *)

Start(p) ==
    /\ sync[p].pc = "off" /\ (p = AutoSync => Due)
    /\ sync' = [sync EXCEPT ![p] = [Idle EXCEPT !.pc = "fetching", !.at = clock]]
    /\ status' = Says(p, [Quiet EXCEPT !.active = TRUE, !.state = "running"])
    /\ round' = IF p = AutoSync THEN FALSE ELSE round
    /\ UNCHANGED <<clock, feed, db, lock, newest, late, moves>>

\* All requests as one step: each source answers what it has, or fails and is left alone.
Fetch(p, answering) ==
    /\ sync[p].pc = "fetching"
    /\ sync' = [sync EXCEPT ![p].pc = "ready", ![p].got = [s \in Sources |->
                   IF s \in answering THEN [body |-> feed[s], fetched |-> clock] ELSE None]]
    /\ status' = Says(p, [status EXCEPT !.errors = answering # Sources])
    /\ IF answering = Sources THEN UNCHANGED moves ELSE Move
    /\ UNCHANGED <<clock, feed, db, lock, history>>

Enter(p) ==
    /\ sync[p].pc = "ready" /\ lock = None
    /\ lock' = p /\ sync' = [sync EXCEPT ![p].pc = "writing"]
    /\ status' = Says(p, [status EXCEPT !.commit = "uncommitted"])
    /\ UNCHANGED <<clock, feed, db, history, moves>>

\* A sync that stored nothing is not ok; one of a request has nothing left to tell.
StoredAny(p) == \E s \in Answered(p), n \in Names : Body(p, s)[n] # None
After(p) == IF p = AutoSync THEN [Idle EXCEPT !.pc = "stored", !.any = StoredAny(p)] ELSE Idle
Commit(p) ==
    /\ sync[p].pc = "writing"
    /\ db' = Stored(p) /\ lock' = None
    /\ newest' = [s \in Sources |-> IF s \in Answered(p) /\ (newest[s] = None \/ newest[s].fetched <= sync[p].got[s].fetched)
                                      THEN sync[p].got[s] ELSE newest[s]]
    /\ late' = IF sync[p].behind THEN late \cup Answered(p) ELSE late
    /\ round' = (round \/ p = AutoSync)
    /\ sync' = [q \in Syncs |-> IF q = p THEN After(p)
                                ELSE [sync[q] EXCEPT !.behind = @ \/ sync[q].pc # "off"]]
    /\ UNCHANGED <<clock, feed, status, moves>>

Tell(p) ==
    /\ sync[p].pc = "stored" /\ sync' = [sync EXCEPT ![p].pc = "told"]
    /\ status' = Says(p, [status EXCEPT !.commit = "committed"])
    /\ UNCHANGED <<clock, feed, db, lock, history, moves>>

End(p, ok) ==
    /\ sync' = [sync EXCEPT ![p] = Idle]
    /\ lock' = IF lock = p THEN None ELSE lock
    /\ status' = Says(p, Finished(ok))
    /\ UNCHANGED <<clock, feed, db, history, moves>>
Return(p) == sync[p].pc = "told" /\ End(p, sync[p].any)
\* No room to admit a bulk write, an error in the transaction, in the report after it or in what follows.
Raise(p) == sync[p].pc \in {"ready", "writing", "stored", "told"} /\ End(p, FALSE)

(* The rest of the world.                                                  *)

Publish(s, body) == Move /\ feed[s] # body /\ feed' = [feed EXCEPT ![s] = body]
                    /\ UNCHANGED <<clock, db, sync, lock, status, history>>
\* Another writer of the market's data: the lookups built before are no longer current.
OtherWrite == Move /\ lock = None /\ db.current /\ db' = [db EXCEPT !.current = FALSE, !.lookups = None]
              /\ UNCHANGED <<clock, feed, sync, lock, status, history>>
Crash == /\ Move /\ \E p \in Syncs : sync[p].pc # "off"
         /\ sync' = [p \in Syncs |-> Idle] /\ lock' = None /\ status' = Quiet /\ round' = FALSE
         /\ UNCHANGED <<clock, feed, db, newest, late>>
Tick == clock < MaxTime /\ clock' = clock + 1 /\ UNCHANGED <<feed, db, sync, lock, status, history, moves>>

Next ==
    \/ \E p \in Syncs : \/ Start(p) \/ Enter(p) \/ Commit(p) \/ Tell(p) \/ Return(p) \/ Raise(p)
                        \/ \E answering \in SUBSET Sources : Fetch(p, answering)
    \/ \E s \in Sources : \E body \in Payloads(s) : Publish(s, body)
    \/ OtherWrite \/ Crash \/ Tick

Spec == Init /\ [][Next]_vars

----------------------------------------------------------------------------
(* PayloadShown: unless a sync that began before another's commit stored   *)
(* its payload after it, the current rows of a source are those of the     *)
(* payload last stored, replayed or not (store_market_quote,               *)
(* remove_missing_provider_current_prices).                                *)
PayloadShown ==
    \A s \in Sources \ late : \A n \in Names :
       newest[s] # None =>
         IF newest[s].body[n] = None THEN db.rows[s][n] = None
         ELSE db.rows[s][n] # None /\ db.rows[s][n].price = newest[s].body[n]

(* MarketInv: however syncs interleave, fail or die, rows show the payload *)
(* stored (above); each name's primary price is that of the first source   *)
(* with a current row; lookups that say they are current were built from   *)
(* these very rows; and the refresh's status claims a commit only of a     *)
(* round that committed, and after the round never denies one              *)
(* (recalculate_market_item_primary, material and market_cache_state,      *)
(* _automatic_refresh_finish).                                             *)
MarketInv ==
    /\ TypeOK /\ PayloadShown
    /\ \A n \in Names : db.primary[n] = Primary(db.rows, n)
    /\ db.current => db.lookups = db.rows
    /\ status.commit = "committed" => round
    /\ ~status.active /\ round => status.commit \in {"committed", "unknown"}
    /\ status.state \in {"completed", "completed_with_errors"} => round
    /\ status.active <=> sync[AutoSync].pc # "off"

(* NoOlder: a current row never gives way to one captured before it        *)
(* (upsert_market_item_price, the replay rule of store_market_quote).      *)
NoOlder ==
    [][\A s \in Sources, n \in Names :
         db.rows[s][n] # None /\ db'.rows[s][n] # None => db'.rows[s][n].at >= db.rows[s][n].at]_vars

(* MissingGone: "rows missing or null in the newest full provider payload  *)
(* must not remain available as current valuation data"                    *)
(* (remove_missing_provider_current_prices).                               *)
MissingGone ==
    \A s \in Sources, n \in Names :
       newest[s] # None /\ newest[s].body[n] = None => db.rows[s][n] = None
=============================================================================
