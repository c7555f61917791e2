------------------------------ MODULE MCReads ------------------------------
(* Reads and their caches: two readers and the worker of the current        *)
(* prices, where an ask is fresh for one of the seconds that make up an     *)
(* analysis slot; two threads that ask the saved slices for pages of two    *)
(* sizes; portfolios read through the holdings cache.  A run is of one of   *)
(* the three.                                                               *)
EXTENDS QuoteReads, TLC

CONSTANTS r1, r2,
          Askers, small, large, p1, Keys, Size, MaxEntryBytes, MaxBytes, MaxEntries, MaxFlights,
          MaxSaved, MaxCalls, MaxUnreadable,
          Portfolios, MaxCommits, MaxLooks, MaxFailures

VARIABLES part,
          saved, fence, entries, bytes, flights, asker, calls, unreadable,
          db, conn, incarnation, version, holdings, frozenCache, call, looks, failures

Slice == INSTANCE SliceCache WITH
           Readers <- Askers, MaxRevision <- MaxSaved, revision <- saved, reader <- asker
Holdings == INSTANCE HoldingsCache WITH entries <- holdings, reads <- looks, MaxReads <- MaxLooks
sliceVars == <<saved, fence, entries, bytes, flights, asker, calls, unreadable>>
holdingsVars == <<db, conn, incarnation, version, holdings, frozenCache, call, looks, failures>>

ASSUME CachesAssumption == Slice!SliceAssumption /\ Holdings!HoldingsAssumption

PageSize == (small :> 1) @@ (large :> 2)

MCInit ==
    /\ part \in {"prices", "slices", "holdings"}
    /\ Init /\ Slice!Init /\ Holdings!Init
    /\ part # "slices" => \A t \in Askers : asker[t].key = small
    /\ part # "holdings" => call.portfolio = p1
MCNext ==
    /\ UNCHANGED part
    /\ \/ part = "prices" /\ Next /\ UNCHANGED <<sliceVars, holdingsVars>>
       \/ part = "slices" /\ Slice!Next /\ UNCHANGED <<vars, holdingsVars>>
       \/ part = "holdings" /\ Holdings!Next /\ UNCHANGED <<vars, sliceVars>>
MCSpec == MCInit /\ [][MCNext]_<<part, vars, sliceVars, holdingsVars>>

\* An answer that does not call itself stale is of one revision (get, wrap_market_item_slice).
SliceInv == Slice!SliceInv
\* What is kept or returned is what the database held (HoldingsCache.read, frozen).
HoldingsInv == Holdings!HoldingsInv

Alike == Permutations(Readers)
=============================================================================
