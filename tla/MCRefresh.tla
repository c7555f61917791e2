----------------------------- MODULE MCRefresh -----------------------------
(* Two kinds of refresh, of which a run is one: of a feed and csfloat,      *)
(* which an operator may activate; or of the two sources of Skinport.       *)
EXTENDS MCRefreshRequest

VARIABLE part

MCInit ==
    /\ part \in {"item", "pair"} /\ Init
    /\ \A p \in Sources \ PerItem : enabled[p] <=> (p \in Skinport <=> part = "pair")
    /\ part = "pair" => ~gap
MCNext ==
    /\ UNCHANGED part /\ Next
    /\ part = "pair" => enabled'[csfloat] = FALSE /\ gap' = FALSE
MCFairSpec == MCInit /\ [][MCNext]_<<part, vars>> /\ Fairness
=============================================================================
