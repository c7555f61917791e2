--------------------------- MODULE HistoryRefresh ---------------------------
(***************************************************************************)
(* Explicit refreshes of Steam chart history in server.py: a batch fetches *)
(* charts one item at a time, saves each chart and the quote derived from  *)
(* it in transactions of their own, and at its end rebuilds the metrics of *)
(* the names it wrote.  The receipt of the metrics may then say again that *)
(* all of them are built from the inputs saved, although the batch built   *)
(* only a few.  Other batches and other writers run beside it.             *)
(*                                                                         *)
(* Modelled with unstaged lookups (DerivedGenerations has staged ones) and *)
(* for one metric window: all of RESEARCH_METRIC_WINDOWS are treated       *)
(* alike.  A chart is one point.  Revisions of the inputs are numbers      *)
(* instead of clock readings in nanoseconds, so two writes within one      *)
(* reading of the clock are not modelled.                                  *)
(***************************************************************************)
EXTENDS Integers, FiniteSets

CONSTANTS
    Items,        \* names of chart items
    Names, Hash,  \* names with prices and metrics; an item's market hash name
    Batches,
    Warming,      \* those of refresh_steam_history_for_chart_items; others are of items named
    Limit,        \* charts a warming batch may fetch
    Nothing,
    MaxTime, MaxRevision,
    MaxStarts,
    MaxMoves      \* failures, crashes and writes of others

HistoryAssumption ==
    /\ Hash \in [Items -> Names] /\ Items \subseteq Names /\ Warming \subseteq Batches /\ Limit \in Nat \ {0}
    /\ MaxTime \in Nat \ {0} /\ {MaxRevision, MaxStarts, MaxMoves} \subseteq Nat
    /\ Nothing \notin -1 .. MaxRevision /\ Nothing \notin [at : 1 .. MaxTime, by : Batches]

VARIABLES
    clock,
    history, quote,      \* price_history and the current prices
    points, revisions,   \* the catalog's copy: current point, all versions
    revision,            \* market_source_revision
    metrics, receipt,    \* item_market_metrics and its receipt
    lookup,              \* market_item_lookup and its receipt
    failed, deadline,    \* steam_history_failures, steam_history_retry_after
    batch,
    alone,               \* history: inputs were current as the batch began, and only it wrote since
    starts, moves

vars == <<clock, history, quote, points, revisions, revision, metrics, receipt,
          lookup, failed, deadline, batch, alone, starts, moves>>
inputs == <<history, quote, points, revisions, revision>>
derived == <<metrics, receipt, lookup>>
saved == <<failed, deadline>>

Never == -1    \* a revision no transaction committed
Fetches == [at : 1 .. MaxTime, by : Batches]
Wrote(i) == {i, Hash[i]}
Off == [pc |-> "off", todo |-> {}, item |-> Nothing, got |-> Nothing, spent |-> 0,
        expected |-> Nothing, complete |-> FALSE, names |-> {}, failures |-> {}, done |-> {}]

TypeOK ==
    /\ clock \in 1 .. MaxTime /\ revision \in 0 .. MaxRevision /\ deadline \in 0 .. MaxTime + 1
    /\ history \in [Items -> Fetches \cup {Nothing}] /\ points \in [Items -> Fetches \cup {Nothing}]
    /\ revisions \in [Items -> SUBSET Fetches] /\ quote \in [Names -> 0 .. MaxRevision]
    /\ receipt \in [complete : BOOLEAN, revision : 0 .. MaxRevision]
    /\ lookup.verified \in BOOLEAN /\ lookup.revision \in 0 .. MaxRevision
    /\ failed \subseteq Items /\ alone \subseteq Batches
    /\ \A b \in Batches : /\ batch[b].pc \in {"off", "next", "asked", "fetched", "saved", "rebuild"}
                          /\ batch[b].todo \subseteq Items /\ batch[b].names \subseteq Names

\* What a name's metrics are computed from.
Inputs(h, q) == [n \in Names |-> [quote |-> q[n], chart |-> IF n \in Items THEN h[n] ELSE Nothing]]

\* rebuild_market_item_lookup: a row joins the metrics saved and the current price.
Looked(m, q, r, rev) ==
    [rows |-> [n \in Names |-> [metric |-> m[n], quote |-> q[n]]],
     verified |-> r.complete /\ r.revision = rev, revision |-> rev]

Init ==
    /\ clock = 1
    /\ history = [i \in Items |-> Nothing] /\ quote = [n \in Names |-> 0]
    /\ points = [i \in Items |-> Nothing] /\ revisions = [i \in Items |-> {}]
    /\ revision = 0 /\ metrics = Inputs(history, quote) /\ receipt = [complete |-> TRUE, revision |-> 0]
    /\ lookup = Looked(metrics, quote, receipt, revision)
    /\ failed = {} /\ deadline = 0
    /\ batch = [b \in Batches |-> Off] /\ alone = {} /\ starts = 0 /\ moves = 0

Move == moves < MaxMoves /\ moves' = moves + 1
\* metric_window_is_current, market_cache_state
Current == receipt.complete /\ receipt.revision = revision
LookupCurrent == lookup.verified /\ lookup.revision = revision

----------------------------------------------------------------------------
(* A batch.                                                                *)

\* A warming batch leaves out items with a chart and, unless told to, recent failures.
Candidates(force, again) == {i \in Items : force \/ (history[i] = Nothing /\ (again \/ i \notin failed))}
Start(b) ==
    /\ batch[b].pc = "off" /\ starts < MaxStarts /\ starts' = starts + 1
    /\ \E force, again \in BOOLEAN, some \in SUBSET Items :
         LET items == IF b \in Warming THEN Candidates(force, again) ELSE some IN
         /\ items # {}
         /\ batch' = [batch EXCEPT ![b] = [Off EXCEPT !.pc = "next", !.todo = items]]
    /\ alone' = IF Current THEN alone \cup {b} ELSE alone \ {b}
    /\ UNCHANGED <<clock, inputs, derived, saved, moves>>

Over(b) == batch[b].todo = {} \/ (b \in Warming /\ batch[b].spent >= Limit)
Then(b, s) == batch' = [batch EXCEPT ![b] = s]
\* The item is done with, one way or another.
Done(s) == [s EXCEPT !.pc = "next", !.todo = @ \ {s.item}, !.item = Nothing, !.got = Nothing]
\* A warming batch stops, other callers ask for the next item.
Stopped(b, s) == IF b \in Warming THEN [Done(s) EXCEPT !.todo = {}] ELSE Done(s)
\* A chart that was there before counts against the limit.
Failure(b, s) == IF b \in Warming THEN [Done(s) EXCEPT !.failures = @ \cup {s.item},
                                !.spent = @ + IF history[s.item] = Nothing THEN 0 ELSE 1]
              ELSE Done(s)

\* The saved deadline of a Retry-After is read before the request.
Ask(b) ==
    /\ batch[b].pc = "next" /\ ~Over(b)
    /\ \E i \in batch[b].todo :
         LET s == [batch[b] EXCEPT !.item = i] IN
         Then(b, IF deadline > clock THEN Stopped(b, s) ELSE [s EXCEPT !.pc = "asked"])
    /\ UNCHANGED <<clock, inputs, derived, saved, alone, starts, moves>>

Chart(b) ==
    /\ batch[b].pc = "asked"
    /\ Then(b, [batch[b] EXCEPT !.pc = "fetched", !.got = [at |-> clock, by |-> b]])
    /\ UNCHANGED <<clock, inputs, derived, saved, alone, starts, moves>>
NoChart(b) ==
    /\ batch[b].pc = "asked" /\ Move /\ Then(b, Failure(b, batch[b]))
    /\ UNCHANGED <<clock, inputs, derived, saved, alone, starts>>
\* Retry-After of an answer; none is invented, and whatever was saved before gives way.
RetryAt == clock + 1
DeadlineAfter == {deadline, RetryAt}
\* HTTP 429
Limited(b) ==
    /\ batch[b].pc = "asked" /\ Move
    /\ deadline' \in DeadlineAfter
    /\ Then(b, Stopped(b, Failure(b, batch[b])))
    /\ UNCHANGED <<clock, inputs, derived, failed, alone, starts>>
\* The governor sends nothing, or the task waits and asks for the item again.
Deferred(b) ==
    /\ batch[b].pc = "asked" /\ Move
    /\ \/ Then(b, Stopped(b, batch[b]))
       \/ b \in Warming /\ Then(b, [batch[b] EXCEPT !.pc = "next", !.item = Nothing])
    /\ UNCHANGED <<clock, inputs, derived, saved, alone, starts>>

\* begin_history_refresh_write
Begun_Unfenced(s) ==
    [s EXCEPT !.complete = IF s.expected = Nothing THEN Current ELSE s.complete, !.expected = revision]
Begun(s) ==
    [s EXCEPT !.complete = IF s.expected = Nothing THEN Current ELSE s.complete /\ s.expected = revision,
              !.expected = revision]
Finish_Left(s) == s
\* finish_history_refresh_write: the revision this transaction leaves.
Finish(s) == [s EXCEPT !.expected = revision + 1]
WroteAlone(b) == alone' = alone \cap {b}
Written(s) == revision < MaxRevision /\ revision' = revision + 1

\* An error before the transaction, in it, or of its commit leaves the batch's own notes.
Left(s) == {s, Begun(s), [Begun(s) EXCEPT !.expected = Never]}

\* CatalogStore.save_point: the newest fetch stays current.
Point(i, got) == IF points[i] # Nothing /\ points[i].at > got.at THEN points[i] ELSE got
Versions(i, got) == revisions[i] \cup {got}
Recorded(s) == s.names \cup Wrote(s.item)

SaveHistory(b) ==
    LET s == batch[b] IN
    /\ s.pc = "fetched" /\ Written(s)
    /\ history' = [history EXCEPT ![s.item] = s.got]
    /\ points' = [points EXCEPT ![s.item] = Point(s.item, s.got)]
    /\ revisions' = [revisions EXCEPT ![s.item] = Versions(s.item, s.got)]
    /\ Then(b, [Finish(Begun(s)) EXCEPT !.pc = "saved", !.names = Recorded(s)])
    /\ WroteAlone(b)
    /\ UNCHANGED <<clock, quote, derived, saved, starts, moves>>
\* A locked database: the item failed, the batch goes on.
HistoryLocked(b) ==
    /\ batch[b].pc = "fetched" /\ Move
    /\ \E s \in Left(batch[b]) : Then(b, Failure(b, s))
    /\ alone' = alone \ {b}
    /\ UNCHANGED <<clock, inputs, derived, saved, starts>>

Refreshed(b, s) == IF b \in Warming THEN [Done(s) EXCEPT !.spent = @ + 1, !.done = @ \cup {s.item}] ELSE Done(s)
\* save_history_quote
SaveQuote(b) ==
    LET s == batch[b] IN
    /\ s.pc = "saved" /\ Written(s)
    /\ quote' = [n \in Names |-> IF n \in Wrote(s.item) THEN revision + 1 ELSE quote[n]]
    /\ Then(b, Refreshed(b, Finish(Begun(s))))
    /\ WroteAlone(b)
    /\ UNCHANGED <<clock, history, points, revisions, derived, saved, starts, moves>>
\* No positive price in the chart.
NoQuote(b) ==
    /\ batch[b].pc = "saved" /\ Then(b, Refreshed(b, batch[b]))
    /\ UNCHANGED <<clock, inputs, derived, saved, alone, starts, moves>>
\* A locked database: a warning, the chart is saved.
QuoteLocked(b) ==
    /\ batch[b].pc = "saved" /\ Move
    /\ \E s \in Left(batch[b]) : Then(b, Refreshed(b, s))
    /\ alone' = alone \ {b}
    /\ UNCHANGED <<clock, inputs, derived, saved, starts>>

\* save_steam_history_failures and clear_steam_history_failures
Close(b) ==
    /\ batch[b].pc = "next" /\ Over(b)
    /\ failed' = (failed \cup batch[b].failures) \ batch[b].done
    /\ Then(b, [batch[b] EXCEPT !.pc = "rebuild"])
    /\ UNCHANGED <<clock, inputs, derived, deadline, alone, starts, moves>>

\* rebuild_metrics_for_names, and with them the lookup; a receipt that was complete
\* and still is current may be replaced by one that is not.
Rebuild(b) ==
    LET s == Begun(batch[b]) IN
    /\ s.pc = "rebuild" /\ Then(b, Off)
    /\ IF s.names = {} THEN UNCHANGED derived
       ELSE /\ metrics' = [n \in Names |-> IF n \in s.names THEN Inputs(history, quote)[n] ELSE metrics[n]]
            /\ receipt' = [complete |-> s.complete, revision |-> revision]
            /\ lookup' = Looked(metrics', quote, receipt', revision)
    /\ alone' = IF s.names = {} THEN alone \ {b} ELSE {}
    /\ UNCHANGED <<clock, inputs, saved, starts, moves>>

\* Any other error ends the batch where it is, what it noted is gone.
Raise(b) ==
    /\ batch[b].pc # "off" /\ Move /\ Then(b, Off) /\ alone' = alone \ {b}
    /\ UNCHANGED <<clock, inputs, derived, saved, starts>>

----------------------------------------------------------------------------
(* Other writers.                                                          *)

Priced(some) == [n \in Names |-> IF n \in some THEN revision + 1 ELSE quote[n]]

\* A current price is written, and nothing rebuilt.
Price(n) ==
    /\ Move /\ revision < MaxRevision /\ revision' = revision + 1
    /\ quote' = Priced({n}) /\ alone' = {}
    /\ UNCHANGED <<clock, history, points, revisions, derived, saved, batch, starts>>

\* A market sync stores what it got and rebuilds everything in the same transaction,
\* unless it changed nothing and all is current.
Sync(some) ==
    /\ Move /\ (some # {} \/ ~LookupCurrent)
    /\ revision < MaxRevision /\ revision' = IF some = {} THEN revision ELSE revision + 1
    /\ quote' = Priced(some) /\ alone' = {}
    /\ metrics' = Inputs(history, quote') /\ receipt' = [complete |-> TRUE, revision |-> revision']
    /\ lookup' = Looked(metrics', quote', receipt', revision')
    /\ UNCHANGED <<clock, history, points, revisions, saved, batch, starts>>

\* A failure is recent for a while.
Forget(i) == /\ i \in failed /\ failed' = failed \ {i}
             /\ UNCHANGED <<clock, inputs, derived, deadline, batch, alone, starts, moves>>
Crash == /\ Move /\ batch' = [b \in Batches |-> Off] /\ alone' = {}
         /\ UNCHANGED <<clock, inputs, derived, saved, starts>>
Tick == /\ clock < MaxTime /\ clock' = clock + 1
        /\ UNCHANGED <<inputs, derived, saved, batch, alone, starts, moves>>

Next ==
    \/ \E b \in Batches :
         \/ Start(b) \/ Ask(b) \/ Chart(b) \/ NoChart(b) \/ Limited(b) \/ Deferred(b)
         \/ SaveHistory(b) \/ HistoryLocked(b) \/ SaveQuote(b) \/ NoQuote(b) \/ QuoteLocked(b)
         \/ Close(b) \/ Rebuild(b) \/ Raise(b)
    \/ \E n \in Names : Price(n)
    \/ \E some \in SUBSET Names : Sync(some)
    \/ \E i \in Items : Forget(i)
    \/ Crash \/ Tick

Spec == Init /\ [][Next]_vars
----------------------------------------------------------------------------
(* MetricsTrue: whatever batches and writers did between one another's     *)
(* transactions, and wherever they failed, metrics whose receipt is        *)
(* complete and of the inputs' revision are those of the inputs saved, of  *)
(* every name, and so is a lookup whose receipt is verified                *)
(* (metric_window_is_current, market_cache_state).                         *)
MetricsTrue ==
    /\ Current => metrics = Inputs(history, quote)
    /\ LookupCurrent => lookup.rows = [n \in Names |-> [metric |-> Inputs(history, quote)[n], quote |-> quote[n]]]

(* PointsNewest: in whatever order batches save their charts, the          *)
(* catalog's current point is of the newest fetch saved, and every version *)
(* price_history ever had can still be read (CatalogStore.save_point).     *)
PointsNewest ==
    \A i \in Items :
      /\ history[i] # Nothing => history[i] \in revisions[i]
      /\ revisions[i] # {} => points[i] \in revisions[i] /\ \A f \in revisions[i] : f.at <= points[i].at

HistoryInv == TypeOK /\ MetricsTrue /\ PointsNewest

(* KeptCurrent: a batch that met current metrics, was the only writer and  *)
(* had no transaction fail leaves the metrics current, for all of them:    *)
(* its rebuild is enough (rebuild_metrics_for_names).                      *)
KeptCurrent ==
    [][\A b \in Batches : batch[b].pc = "rebuild" /\ batch'[b].pc = "off" /\ moves' = moves /\ b \in alone
                            => Current' /\ LookupCurrent']_vars
=============================================================================
