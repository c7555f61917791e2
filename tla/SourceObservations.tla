------------------------- MODULE SourceObservations -------------------------
(***************************************************************************)
(* What the current-quote ledger promises of each price source, apart from *)
(* how it stores it: for every item, what the newest accepted capture that *)
(* listed it said, when that was and which capture it was, and whether the *)
(* source's latest full capture still lists it.  A capture is accepted     *)
(* only if it is newer than every one accepted from the source before, and *)
(* touches nothing but what it says.                                       *)
(***************************************************************************)
EXTENDS Integers

CONSTANTS
    Subjects,     \* economic identities (market hash names)
    Facts,        \* what a source can say of an item
    Times,        \* when a capture can have been received
    Sources,      \* price sources
    Feeds,        \* those whose capture is the source's whole offer
    ItemSources   \* those that are asked for one item at a time

VARIABLES
    observed,     \* per source: item |-> [fact, at, body, listed]
    newest        \* per source: when its newest accepted capture was received

Bodies == UNION {[S -> Facts] : S \in (SUBSET Subjects) \ {{}}}

\* A source that is asked for one item answers for that item alone.
MayCarry(p, body) == p \in ItemSources => \E s \in Subjects : DOMAIN body = {s}

Init ==
    /\ observed = [p \in Sources |-> << >>]
    /\ newest = [p \in Sources |-> 0]

Observe(p, at, body) ==
    /\ MayCarry(p, body)
    /\ at > newest[p]
    /\ newest' = [newest EXCEPT ![p] = at]
    /\ observed' = [observed EXCEPT ![p] =
          [s \in DOMAIN observed[p] \cup DOMAIN body |->
             IF s \in DOMAIN body
             THEN [fact |-> body[s], at |-> at, body |-> body, listed |-> TRUE]
             ELSE [observed[p][s] EXCEPT !.listed = @ /\ p \notin Feeds]]]

Next == \E p \in Sources, at \in Times, body \in Bodies : Observe(p, at, body)

Spec == Init /\ [][Next]_<<observed, newest>>
=============================================================================
