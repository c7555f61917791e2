------------------------------ MODULE MCSteam ------------------------------
(* Requests to Steam: the governor that admits them, over a priceoverview   *)
(* request (short cache) and a pricehistory request (long); and the asks    *)
(* for held items that go through it.  A run is of one of the two.          *)
EXTENDS SteamGovernor

CONSTANTS overview, historic,
          Names, Worker, History, Singles, Jobs, None, AskLease, Backoff, Negative, Fresh,
          CacheFor, Remember, RetryAfter, MaxReceipts, MaxMoves

VARIABLES part, saved, jobs, items, current, receipts, call, cache, gate, ready, owed, quiet, moves

MCCacheTtl == [k \in Requests |-> IF k = overview THEN 2 ELSE 3]

Asks == INSTANCE HeldAsks WITH control <- saved, Lease <- AskLease
askVars == <<saved, jobs, items, current, receipts, call, cache, gate, ready, owed, quiet, moves>>

ASSUME AsksAssumed == Asks!AsksAssumption

SteamInit == part \in {"governor", "asks"} /\ Init /\ Asks!Init
SteamNext ==
    /\ UNCHANGED part
    /\ \/ part = "governor" /\ Next /\ UNCHANGED askVars
       \/ part = "asks" /\ Asks!Next /\ UNCHANGED vars
Fairness ==
    /\ WF_askVars(part = "asks" /\ Asks!Tick)
    /\ WF_askVars(part = "asks" /\ Asks!Reconcile)
    /\ WF_askVars(part = "asks" /\ Asks!WorkerStep)
    /\ \A s \in Singles : WF_askVars(part = "asks" /\ Asks!SingleStep(s))
    /\ WF_askVars(part = "asks" /\ Asks!HistoryStep)
SteamSpec == SteamInit /\ [][SteamNext]_<<part, vars, askVars>> /\ Fairness

\* Jobs, items, lease and receipts agree between any two transactions (steam_held_asks.py).
AsksInv == Asks!AsksInv
\* Nothing is sent while a 429 or an interrupted request demands silence (_persist_cooldown).
QuietKept == Asks!QuietKept
=============================================================================
