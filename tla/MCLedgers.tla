----------------------------- MODULE MCLedgers -----------------------------
(* Three ledgers of prices: the current quotes of a full feed, the per-item *)
(* source and the wallet source over two items; the facts of the full       *)
(* catalog over two names; and the charts of two items, one of them listed  *)
(* under another name, with the metrics built from them.  A run is of one   *)
(* of the three.                                                            *)
EXTENDS QuoteLedger, TLC

CONSTANTS waxpeer, csfloat, steam, redline, awp, cheap, dear,
          Names, None, Outcomes, Floor,
          medal, key, steamKey, Charted, ChartNames, Batches, Warming, Limit,
          ChartTime, Revisions, MaxStarts, MaxMoves

VARIABLES part, reading, facts, top, changes, last,
          clock, history, priced, points, versions, source, metrics, receipt,
          lookup, failed, deadline, batch, alone, starts, moves

Cash == INSTANCE CashFacts WITH now <- reading, head <- top
cashVars == <<reading, facts, top, changes, last>>

ListedAs == (medal :> medal) @@ (key :> steamKey)
Chart == INSTANCE HistoryRefresh WITH
           Items <- Charted, Names <- ChartNames, Hash <- ListedAs, Nothing <- None,
           MaxTime <- ChartTime, MaxRevision <- Revisions,
           quote <- priced, revisions <- versions, revision <- source
chartVars == <<clock, history, priced, points, versions, source, metrics, receipt,
               lookup, failed, deadline, batch, alone, starts, moves>>

ASSUME LedgersAssumption == Cash!FactsAssumption /\ Chart!HistoryAssumption

\* A price with two upstream clocks, another, and an ambiguity.
MCOutcomes == {[say |-> "p", stamp |-> 1, rows |-> 1], [say |-> "p", stamp |-> 2, rows |-> 1],
               [say |-> "q", stamp |-> 1, rows |-> 1], [say |-> "ambiguous", stamp |-> None, rows |-> 2]}
MCFloor == [rows |-> 1, names |-> 1]

LedgersInit == part \in {"quotes", "cash", "charts"} /\ Init /\ Cash!Init /\ Chart!Init
LedgersNext ==
    /\ UNCHANGED part
    /\ \/ part = "quotes" /\ Next /\ UNCHANGED <<cashVars, chartVars>>
       \/ part = "cash" /\ Cash!Next /\ UNCHANGED <<ledger, chartVars>>
       \/ part = "charts" /\ Chart!Next /\ UNCHANGED <<ledger, cashVars>>
LedgersSpec == LedgersInit /\ [][LedgersNext]_<<part, ledger, cashVars, chartVars>>

\* The log of changes ends with the facts and repeats nothing (ingest).
FactsInv == Cash!FactsInv
\* Every name shows what the latest capture covering it said (cash_current_receipts).
Honest == Cash!Honest
\* A truncated feed withdraws nothing (CompactCash._run).
Unshrunk == Cash!Unshrunk
\* Metrics that say so are of the inputs saved; the newest point is current (rebuild_metrics_for_names, save_point).
HistoryInv == Chart!HistoryInv
\* A batch that was alone leaves the metrics current (finish_history_refresh_write).
KeptCurrent == Chart!KeptCurrent

\* Items and facts are only compared for equality, and every
\* property treats them alike; the other ledgers have none of them.
Interchangeable == Permutations(Subjects) \cup Permutations(Facts)
=============================================================================
