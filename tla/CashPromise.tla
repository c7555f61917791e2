---------------------------- MODULE CashPromise -----------------------------
(***************************************************************************)
(* What the store of cash prices promises: of every name it shows what the *)
(* latest capture that covers it said, and when that was.  A capture covers*)
(* the names it says something of; a complete one also covers every name   *)
(* known before, and says that those it lacks are missing.                 *)
(***************************************************************************)
EXTENDS Integers

CONSTANTS Names, Missing, None

VARIABLES
    latest,               \* time and words of the latest capture, and whether it was complete
    shown                 \* of each name: the outcome and the time of its capture

Init ==
    /\ latest = [at |-> 0, whole |-> FALSE, said |-> <<>>]
    /\ shown = [n \in Names |-> [outcome |-> None, at |-> 0]]

Capture ==
    /\ latest'.at > latest.at
    /\ shown' = [n \in Names |->
         IF n \in DOMAIN latest'.said THEN [outcome |-> latest'.said[n], at |-> latest'.at]
         ELSE IF latest'.whole /\ shown[n].outcome # None THEN [outcome |-> Missing, at |-> latest'.at]
         ELSE shown[n]]

Spec == Init /\ [][Capture]_<<latest, shown>>
=============================================================================
