---------------------------- MODULE MCProviders ----------------------------
(* The gate, two providers at a time: the two Skinport feeds of one origin, *)
(* or csfloat and steam, which the operator switches.  Seconds are scaled   *)
(* down: a lease of 2, a wire deadline of 1, cadences of 1 and 2.           *)
EXTENDS ProviderGate

CONSTANTS live, sales, csfloat, steam

VARIABLE acting      \* the two that act

MCCadence == [p \in Providers |-> IF p \in {sales, steam} THEN 2 ELSE 1]
Feeds == {live, sales}
Operated == {csfloat, steam}

\* The others rest; fewer requests and less time for the operator's two.
Within ==
    /\ now' <= IF acting = Feeds THEN 5 ELSE 3
    /\ issued' <= IF acting = Feeds THEN 3 ELSE 2
    /\ \A p \in Providers \ acting :
         enabled'[p] = enabled[p] /\ next'[p] = next[p] /\ lease'[p] = lease[p]

PairsInit == Init /\ acting \in {Feeds, Operated}
PairsSpec == PairsInit /\ [][Next /\ Within /\ UNCHANGED acting]_<<vars, acting>>
=============================================================================
