------------------------------ MODULE MCStores ------------------------------
(* What the server keeps on disk: the registry of the catalog while it is   *)
(* migrated, the rows of the market feed of two sources while it is synced, *)
(* the sealed generations of derived rows, and the index an operator adds   *)
(* to the lookup table.  A run is of one of the four.                       *)
EXTENDS CatalogMigration

CONSTANTS steam, buff163, Names, Prices, Order, AutoSync, Asked, Interval, Bucket, MaxTime, MarketMoves,
          Gens, Readers, MaxGenerations, RoleMoves, Papers, Shapes, IndexMoves

VARIABLES part,
          clock, feed, market, sync, lock, status, newest, late, round, marketMoves,
          roles, sealed, verified, retired, archiver, operator, writer, reader,
          shape, index, holder, papers, applied, created, indexMoves

Market == INSTANCE MarketRefresh WITH
            db <- market, moves <- marketMoves, MaxMoves <- MarketMoves
Sealed == INSTANCE GenerationLifecycle WITH files <- sealed, MaxMoves <- RoleMoves
Indexed == INSTANCE IndexMigration WITH
             Receipts <- Papers, MaxMoves <- IndexMoves,
             lock <- holder, receipt <- papers, run <- applied, made <- created, moves <- indexMoves
marketVars == <<clock, feed, market, sync, lock, status, newest, late, round, marketMoves>>
sealedVars == <<roles, sealed, verified, retired, archiver, operator, writer, reader>>
indexVars == <<shape, index, holder, papers, applied, created, indexMoves>>

ASSUME StoresAssumption ==
    Market!MarketAssumption /\ Sealed!BoundsAssumption /\ MigrationAssumption /\ Indexed!IndexAssumption

MCOrder == <<steam, buff163>>
MCPrices == [s \in {steam, buff163} |-> IF s = steam THEN {1, 2} ELSE {1}]
MCGens == 1..4

MCInit ==
    /\ part \in {"registry", "market", "sealed", "index"}
    /\ Init /\ Market!Init /\ Sealed!Init /\ Indexed!Init
    /\ part # "market" => \A s \in DOMAIN feed : \A n \in Names : feed[s][n] = 1
    /\ part # "registry" => rows = {} /\ \A k \in Keys : names[k] = None
    /\ part # "index" => index = None /\ shape = CHOOSE s \in Shapes : TRUE
MCNext ==
    /\ UNCHANGED part
    /\ \/ part = "registry" /\ Next /\ UNCHANGED <<marketVars, sealedVars, indexVars>>
       \/ part = "market" /\ Market!Next /\ UNCHANGED <<vars, sealedVars, indexVars>>
       \/ part = "sealed" /\ Sealed!Next /\ UNCHANGED <<vars, marketVars, indexVars>>
       \/ part = "index" /\ Indexed!Next /\ UNCHANGED <<vars, marketVars, sealedVars>>
MCSpec == MCInit /\ [][MCNext]_<<part, vars, marketVars, sealedVars, indexVars>>

\* Rows, primaries, lookups and the status agree with what was stored (market_universe_bulk_sync).
MarketInv == Market!MarketInv
\* A current row never gives way to an older one (upsert_market_item_price).
NoOlder == Market!NoOlder
\* Files in use stay, retired ones can be rebuilt (Lifecycle.retire, recover).
LifecycleInv == Sealed!LifecycleInv
\* Receipts and reports tell whether the index was committed (catalog_index_migrate.run).
IndexInv == Indexed!IndexInv
=============================================================================
