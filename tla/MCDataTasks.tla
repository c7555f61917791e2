---------------------------- MODULE MCDataTasks ----------------------------
(* Two kinds of run. Either every task is sound and the requests overlap;   *)
(* or tasks that fail when they are announced or read are started too, and  *)
(* one client makes all the requests, one after the other, and never fails  *)
(* to save. The first kind has two requests and a restart, the second three *)
(* requests, or two and a restart.                                          *)
EXTENDS DataTasks

CONSTANT Ill, First
VARIABLE ill

MCInit == Init /\ ill \in Ill
MCNext ==
    /\ UNCHANGED ill /\ Next
    /\ ~ill => calls' <= 2 /\ \A t \in Clashing \cup Mistyped : status'[t] = "none"
    /\ ill => locked' = 0 /\ calls' + crashes' <= 3 /\ \A c \in Clients \ {First} : UNCHANGED client[c]
MCFairSpec == MCInit /\ [][MCNext]_<<ill, vars>> /\ Fairness
=============================================================================
