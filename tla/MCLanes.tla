------------------------------ MODULE MCLanes ------------------------------
(* Two background lanes of the server: the cash lane over two portfolios,   *)
(* and the continuation that stages and publishes derived rows, with one    *)
(* reader and room for a few generations.  A run is of one of the two.      *)
EXTENDS CashLane

CONSTANTS Readers, Capacity, Batches, Windows, MaxWrites, MaxExternal, MaxRestarts,
          MaxHeadMoves, MaxFaults

VARIABLES part,
          src, pending, head, rollback, stored, stage, continuation, paused, uncertain, pins, reader, used

Derived == INSTANCE DerivedGenerations WITH worker <- continuation, MaxMoves <- MaxHeadMoves
derivedVars == <<src, pending, head, rollback, stored, stage, continuation, paused, uncertain,
                 pins, reader, used>>

ASSUME LanesAssumption == CashAssumption /\ Derived!BoundsAssumption

LanesInit == part \in {"derived", "cash"} /\ Init /\ Derived!Init
LanesNext ==
    /\ UNCHANGED part
    /\ \/ part = "cash" /\ Next /\ UNCHANGED derivedVars
       \/ part = "derived" /\ Derived!Next /\ UNCHANGED vars
LanesFairness ==
    /\ WF_vars(part = "cash" /\ Tick)
    /\ WF_vars(part = "cash" /\ CadenceStep)
    /\ \A o \in Owners : WF_vars(part = "cash" /\ WorkerStep(o))
    /\ WF_derivedVars(part = "derived" /\ Derived!WorkerStep)
    /\ SF_derivedVars(part = "derived" /\ Derived!UnitReads)
    /\ SF_derivedVars(part = "derived" /\ Derived!Publish)
    /\ SF_derivedVars(part = "derived" /\ Derived!Restart)
LanesSpec == LanesInit /\ [][LanesNext]_<<part, vars, derivedVars>> /\ LanesFairness

\* Seals, heads and the pending receipt tell of the inputs (seal, publish, invalidate_inputs).
GenerationsInv == Derived!GenerationsInv
\* A reader told "current" holds rows of the inputs of its snapshot (Repository.reader).
CurrentIsTrue == Derived!CurrentIsTrue
\* A queued generation is published unless the runtime is stopped or its admission
\* refuses for ever (Runtime._run_loop, admission).
PendingServed == part = "derived" => Derived!PendingServed
=============================================================================
