---------------------------- MODULE MCQuoteReads ----------------------------
(* Two readers and the worker; an ask is fresh for one of the seconds that  *)
(* make up an analysis slot.                                                *)
EXTENDS QuoteReads, TLC

CONSTANTS r1, r2

Alike == Permutations(Readers)
=============================================================================
