-------------------------- MODULE MCMarketRefresh --------------------------
(* Two sources, one name: see the cfg file.                                *)
EXTENDS MarketRefresh

CONSTANTS steam, buff163

MCOrder == <<steam, buff163>>
MCPrices == [s \in {steam, buff163} |-> IF s = steam THEN {1, 2} ELSE {1}]
=============================================================================
