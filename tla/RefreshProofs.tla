--------------------------- MODULE RefreshProofs ---------------------------
(***************************************************************************)
(* What a refresh tells the user of its sources is true, for any sources,  *)
(* in any order, whoever fails.                                            *)
(*                                                                         *)
(* RefreshInv is not inductive: an answer received before the click and    *)
(* published after it takes the evidence of a newer one away (after is set *)
(* to FALSE), so one must know that there was none; and a worker with a    *)
(* request out has not yet struck its source off its list.                 *)
(***************************************************************************)
EXTENDS RefreshRequest, FiniteSetTheorems, WellFoundedInduction, TLAPS

Calls == {"wire", "answered", "early"}

RefreshKept ==
    /\ RefreshInv
    /\ call \in Calls => worker # {}
    /\ call = "early" => ~newer[Asked] /\ source[Asked] # "completed"

-----------------------------------------------------------------------------
LEMMA Least ==
    ASSUME NEW S \in SUBSET Nat, S # {}
    PROVE  \E m \in S : \A k \in S : m <= k
<1> DEFINE T == {0 .. m : m \in S}
<1>1. T \subseteq FiniteSubsetsOf(Nat) /\ T # {}
  <2>1. \A m \in S : IsFiniteSet(0 .. m) /\ 0 .. m \in SUBSET Nat
    BY FS_Interval
  <2> QED
    BY <2>1 DEF FiniteSubsetsOf
<1>2. PICK x \in T : \A y \in T : <<y, x>> \notin StrictSubsetOrdering(Nat)
  <2> HIDE DEF T
  <2> QED
    BY <1>1, FS_StrictSubsetOrderingWellFounded, WFMin
<1>3. PICK m \in S : x = 0 .. m
  OBVIOUS
<1>4. ASSUME NEW k \in S, k < m PROVE FALSE
  <2>1. m \in 0 .. m /\ m \notin 0 .. k
    BY <1>4
  <2>2. 0 .. k \subseteq 0 .. m /\ 0 .. k # 0 .. m /\ 0 .. k \in SUBSET Nat /\ 0 .. m \in SUBSET Nat
    BY <2>1, <1>4
  <2>3. <<0 .. k, 0 .. m>> \in StrictSubsetOrdering(Nat)
    BY <2>2 DEF StrictSubsetOrdering
  <2> QED
    BY <2>3, <1>2, <1>3
<1> QED
  BY <1>4

\* The worker asks one of the sources it has left.
LEMMA AskedLeft == worker \subseteq Sources /\ worker # {} => Asked \in worker
<1> SUFFICES ASSUME worker \subseteq Sources, worker # {} PROVE Asked \in worker
  OBVIOUS
<1> DEFINE left == {i \in DOMAIN Order : Order[i] \in worker}
<1>1. left \in SUBSET Nat /\ left # {}
  BY RefreshAssumption DEF Sources
<1>2. PICK m \in left : \A k \in left : m <= k
  BY <1>1, Least
<1>3. Min(left) \in left
  BY <1>1, <1>2 DEF Min
<1> QED
  BY <1>3 DEF Asked

\* TypeOK without its quantifier over variables.
LEMMA Typed ==
    TypeOK <=>
      /\ enabled \in [Sources -> BOOLEAN]
      /\ turn \in [Sources -> Turns] /\ origin \in Origins
      /\ lease \in [Sources -> {"none", "held", "lost", "expired"}]
      /\ error \in [Sources -> BOOLEAN] /\ ever \in [Sources -> BOOLEAN]
      /\ tried \in [Sources -> BOOLEAN] /\ newer \in [Sources -> BOOLEAN]
      /\ after \in [Sources -> BOOLEAN]
      /\ request \in Pending \cup Ended \cup {"none"}
      /\ source \in [Sources -> {"absent", "queued", "waiting", "fetching"} \cup Terminal]
      /\ gap \in BOOLEAN
      /\ worker \subseteq Sources
      /\ call \in {"off", "none", "wire", "answered", "early"}
      /\ faults \in 0..MaxFaults
  BY DEF TypeOK

LEMMA RefreshInit == Init => RefreshKept
<1> SUFFICES ASSUME Init PROVE RefreshKept
  OBVIOUS
<1> USE DEF Init, All
<1>1. TypeOK
  <2>1. gap \in BOOLEAN
    OBVIOUS
  <2>2. faults \in 0..MaxFaults
    BY RefreshAssumption
  <2> QED
    BY <2>1, <2>2, Typed DEF Pending, Ended, Terminal, Turns, Origins
<1>2. RequestHonest
  BY DEF RequestHonest, Ended, Terminal
<1>3. OneLease
  BY DEF OneLease
<1> QED
  BY <1>1, <1>2, <1>3 DEF RefreshKept, RefreshInv, Calls

-----------------------------------------------------------------------------
(* The request.                                                            *)

LEMMA EnqueueStep == RefreshKept /\ Enqueue => RefreshKept'
<1> SUFFICES ASSUME RefreshKept, Enqueue PROVE RefreshKept'
  OBVIOUS
<1> USE DEF Enqueue
<1>0. TypeOK /\ RequestHonest /\ OneLease
  BY DEF RefreshKept, RefreshInv
<1>1. TypeOK'
  BY <1>0 DEF TypeOK, All, Pending
<1>2. RequestHonest'
  BY <1>0 DEF RequestHonest, Ended
<1>3. Asked' = Asked
  BY DEF Asked
<1>4. OneLease'
  BY <1>0, <1>3 DEF OneLease, TypeOK
<1>5. (call \in Calls => worker # {})'
  BY DEF RefreshKept, Calls
<1>6. (call = "early" => ~newer[Asked] /\ source[Asked] # "completed")'
  <2>1. SUFFICES ASSUME call' = "early" PROVE Asked \in Sources
    BY <1>3 DEF All
  <2>2. worker # {} /\ worker \subseteq Sources
    BY <2>1, <1>0 DEF RefreshKept, Calls, TypeOK
  <2> QED
    BY <2>2, AskedLeft
<1> QED
  BY <1>1, <1>2, <1>4, <1>5, <1>6 DEF RefreshKept, RefreshInv

LEMMA SynchronizeStep == RefreshKept /\ Synchronize => RefreshKept'
<1> SUFFICES ASSUME RefreshKept, Synchronize PROVE RefreshKept'
  OBVIOUS
<1> USE DEF Synchronize
<1>0. TypeOK /\ RequestHonest /\ OneLease
  BY DEF RefreshKept, RefreshInv
<1>1. UNCHANGED <<lease, newer, after, worker, call, enabled, error, ever, tried, gap, faults>> /\ Asked' = Asked
  BY DEF Asked, job
<1>2. turn' \in [Sources -> Turns] /\ origin' \in Origins
  BY <1>0 DEF TypeOK, Turns, Origins
<1>3. \A p \in Sources : Reconciled(p) \in {"absent", "queued", "waiting", "fetching"} \cup Terminal
  BY <1>0 DEF TypeOK, Reconciled, Terminal
<1>4. \A p \in Sources : Reconciled(p) = "completed" => newer[p] /\ after[p]
  BY <1>0 DEF RequestHonest, Reconciled, Captured, Terminal
<1>5. CASE request \in Pending
  <2> DEFINE states == {source'[p] : p \in Sources} \ {"absent"}
  <2>1. source' = [p \in Sources |-> Reconciled(p)] /\ request' = Outcome(states)
    BY <1>5
  <2>2. source' \in [Sources -> {"absent", "queued", "waiting", "fetching"} \cup Terminal]
    BY <2>1, <1>3
  <2>3. \A p \in Sources : source'[p] = "completed" => newer[p] /\ after[p]
    BY <2>1, <1>4
  <2>4. request' \in Pending \cup Ended
    BY <2>1 DEF Outcome, Pending, Ended
  <2>5. request' \in Ended => states \subseteq Terminal
    BY <2>1 DEF Outcome, Ended
  <2>6. request' = "completed" => states \subseteq {"completed"}
    BY <2>1 DEF Outcome
  <2>7. \A p \in Sources : source'[p] = "absent" \/ source'[p] \in states
    OBVIOUS
  <2>8. RequestHonest'
    <3>1. request' \in Ended => \A p \in Sources : source'[p] \in Terminal \cup {"absent"}
      BY <2>5, <2>7
    <3>2. request' = "completed" => \A p \in Sources : source'[p] # "failed"
      BY <2>6, <2>7
    <3> QED
      BY <3>1, <3>2, <2>3, <1>1 DEF RequestHonest
  <2>9. TypeOK'
    BY <1>0, <1>1, <1>2, <2>2, <2>4 DEF TypeOK
  <2>10. call = "early" => source'[Asked] # "completed"
    <3>1. call = "early" => Asked \in Sources /\ ~newer[Asked]
      BY <1>0, AskedLeft DEF RefreshKept, Calls, TypeOK
    <3> QED
      BY <3>1, <2>3
  <2> QED
    BY <2>8, <2>9, <2>10, <1>0, <1>1 DEF RefreshKept, RefreshInv, OneLease
<1>6. CASE request \notin Pending
  <2>1. UNCHANGED <<source, request>>
    BY <1>6
  <2> QED
    BY <1>0, <1>1, <1>2, <2>1 DEF RefreshKept, RefreshInv, TypeOK, RequestHonest, OneLease
<1> QED
  BY <1>5, <1>6

-----------------------------------------------------------------------------
(* The worker, and its surroundings.                                       *)

LEMMA LaunchStep == RefreshKept /\ (Launch \/ Retire) => RefreshKept'
<1> SUFFICES ASSUME RefreshKept, Launch \/ Retire PROVE RefreshKept'
  OBVIOUS
<1>1. TypeOK /\ RequestHonest /\ OneLease
  BY DEF RefreshKept, RefreshInv
<1>2. /\ UNCHANGED <<enabled, turn, origin, lease, error, ever, tried, newer, after, request, source, gap, faults>>
      /\ worker' \subseteq Sources
      /\ {call, call'} \subseteq {"off", "none"}
  BY <1>1 DEF Launch, Retire, rows, TypeOK
<1>3. TypeOK'
  BY <1>1, <1>2 DEF TypeOK
<1> QED
  BY <1>1, <1>2, <1>3 DEF RefreshKept, RefreshInv, RequestHonest, OneLease, Calls

LEMMA AskStep == RefreshKept /\ Ask => RefreshKept'
<1> SUFFICES ASSUME RefreshKept, Ask PROVE RefreshKept'
  OBVIOUS
<1> USE DEF Ask, Asking
<1>1. TypeOK /\ RequestHonest /\ OneLease
  BY DEF RefreshKept, RefreshInv
<1>2. Asked \in Sources /\ Asked' = Asked
  BY <1>1, AskedLeft DEF TypeOK, Asked
<1>3. TypeOK'
  <2>1. turn' \in [Sources -> Turns] /\ origin' \in Origins
    BY <1>1 DEF TypeOK, Turns, Origins, Claims
  <2>2. lease' \in [Sources -> {"none", "held", "lost", "expired"}] /\ tried' \in [Sources -> BOOLEAN]
    BY <1>1 DEF TypeOK
  <2> QED
    BY <1>1, <2>1, <2>2 DEF TypeOK
<1>4. OneLease'
  BY <1>1, <1>2 DEF OneLease, TypeOK
<1> QED
  BY <1>1, <1>3, <1>4 DEF RefreshKept, RefreshInv, RequestHonest, Calls

\* A turn of a source that ends without a request.
LEMMA SkipStep == RefreshKept /\ (Recover \/ PassBy \/ Defer \/ NothingToAsk) => RefreshKept'
<1> SUFFICES ASSUME RefreshKept, Recover \/ PassBy \/ Defer \/ NothingToAsk PROVE RefreshKept'
  OBVIOUS
<1>1. TypeOK /\ RequestHonest /\ OneLease
  BY DEF RefreshKept, RefreshInv
<1>2. /\ Asking
      /\ UNCHANGED <<enabled, ever, tried, newer, after, request, source, gap, call, faults>>
      /\ worker' = worker \ {Asked}
  BY DEF Recover, PassBy, Defer, NothingToAsk, rows
<1>3. turn' \in [Sources -> Turns] /\ origin' = origin /\ error' \in [Sources -> BOOLEAN]
  BY <1>1 DEF Recover, PassBy, Defer, NothingToAsk, Rests, rows, TypeOK, Turns
<1>4. \A p \in Sources : lease'[p] = lease[p] \/ (lease[p] = "expired" /\ lease'[p] = "none")
  BY <1>1 DEF Recover, PassBy, Defer, NothingToAsk, rows, TypeOK
<1>5. lease' \in [Sources -> {"none", "held", "lost", "expired"}]
  BY <1>1 DEF Recover, PassBy, Defer, NothingToAsk, rows, TypeOK
<1>6. TypeOK'
  BY <1>1, <1>2, <1>3, <1>5 DEF TypeOK
<1>7. OneLease'
  BY <1>1, <1>2, <1>4 DEF OneLease, Asking
<1> QED
  BY <1>1, <1>2, <1>6, <1>7 DEF RefreshKept, RefreshInv, RequestHonest, Calls, Asking

LEMMA AnswerStep == RefreshKept /\ Answer => RefreshKept'
<1> SUFFICES ASSUME RefreshKept, Answer PROVE RefreshKept'
  OBVIOUS
<1>1. TypeOK /\ RequestHonest /\ OneLease
  BY DEF RefreshKept, RefreshInv
<1>2. /\ UNCHANGED <<enabled, turn, origin, lease, error, ever, tried, newer, after, request, source, gap, worker, faults>>
      /\ call = "wire" /\ call' = "answered" /\ Asked' = Asked
  BY DEF Answer, rows, Asked
<1>3. TypeOK'
  BY <1>1, <1>2 DEF TypeOK
<1> QED
  BY <1>1, <1>2, <1>3 DEF RefreshKept, RefreshInv, RequestHonest, OneLease, Calls

\* The request comes to its end: the lease is closed, the source struck off.
LEMMA Settled ==
    RefreshKept /\ call \in Calls /\ Settle =>
      /\ Asked \in Sources
      /\ lease' \in [Sources -> {"none", "held", "lost", "expired"}]
      /\ worker' \subseteq Sources /\ call' = "none"
      /\ \A p \in Sources : lease'[p] # "held"
  BY AskedLeft DEF RefreshKept, RefreshInv, OneLease, TypeOK, Settle, Calls

LEMMA PublishStep == RefreshKept /\ Publish => RefreshKept'
<1> SUFFICES ASSUME RefreshKept, Publish PROVE RefreshKept'
  OBVIOUS
<1> USE DEF Publish
<1>1. TypeOK /\ RequestHonest
  BY DEF RefreshKept, RefreshInv
<1>2. /\ Asked \in Sources
      /\ lease' \in [Sources -> {"none", "held", "lost", "expired"}]
      /\ worker' \subseteq Sources /\ call' = "none"
      /\ \A p \in Sources : lease'[p] # "held"
  BY Settled DEF Calls
<1>3. /\ error' \in [Sources -> BOOLEAN] /\ ever' \in [Sources -> BOOLEAN]
      /\ newer' \in [Sources -> BOOLEAN] /\ after' \in [Sources -> BOOLEAN]
  <2> DEFINE reference == Asked \in Reference
             answered == call = "answered"
  <2>1. reference \in BOOLEAN /\ answered \in BOOLEAN
    OBVIOUS
  <2>2. /\ error' = [error EXCEPT ![Asked] = FALSE] /\ ever' = [ever EXCEPT ![Asked] = reference]
        /\ newer' = [newer EXCEPT ![Asked] = TRUE] /\ after' = [after EXCEPT ![Asked] = answered]
    OBVIOUS
  <2> HIDE DEF reference, answered
  <2> QED
    BY <2>1, <2>2, <1>1 DEF TypeOK
<1>4. TypeOK'
  BY <1>1, <1>2, <1>3 DEF TypeOK
<1>5. RequestHonest'
  <2>1. ASSUME NEW p \in Sources, source[p] = "completed" PROVE newer'[p] /\ after'[p]
    <3>1. newer[p] /\ after[p]
      BY <1>1, <2>1 DEF RequestHonest
    <3>2. CASE p = Asked
      <4>1. call = "answered"
        BY <2>1, <3>2 DEF RefreshKept
      <4> QED
        BY <4>1, <3>2, <1>1 DEF TypeOK
    <3>3. CASE p # Asked
      BY <3>1, <3>3, <1>1 DEF TypeOK
    <3> QED
      BY <3>2, <3>3
  <2> QED
    BY <2>1, <1>1 DEF RequestHonest
<1> QED
  BY <1>2, <1>4, <1>5 DEF RefreshKept, RefreshInv, OneLease, Calls

LEMMA FailStep == ASSUME NEW status, RefreshKept, Fail(status) PROVE RefreshKept'
<1> USE DEF Fail
<1>1. TypeOK /\ RequestHonest
  BY DEF RefreshKept, RefreshInv
<1>2. /\ lease' \in [Sources -> {"none", "held", "lost", "expired"}]
      /\ worker' \subseteq Sources /\ call' = "none"
      /\ \A p \in Sources : lease'[p] # "held"
  BY Settled DEF Calls
<1>3. error' \in [Sources -> BOOLEAN] /\ enabled' \in [Sources -> BOOLEAN]
  <2> DEFINE allowed == status # "denied"
  <2>1. allowed \in BOOLEAN /\ enabled' = [enabled EXCEPT ![Asked] = allowed]
    OBVIOUS
  <2> HIDE DEF allowed
  <2> QED
    BY <2>1, <1>1 DEF TypeOK
<1>4. turn' \in [Sources -> Turns] /\ origin' \in Origins
  <2>1. CASE UNCHANGED <<turn, origin>>
    BY <2>1, <1>1 DEF TypeOK
  <2>2. CASE Shut
    <3>1. PICK longer : turn' = [q \in Sources |-> IF q \in Skinport \ longer THEN "barred" ELSE turn[q]]
      BY <2>2 DEF Shut
    <3> QED
      BY <3>1, <2>2, <1>1 DEF Shut, TypeOK, Turns, Origins
  <2> QED
    BY <2>1, <2>2
<1>5. TypeOK'
  BY <1>1, <1>2, <1>3, <1>4 DEF TypeOK
<1> QED
  BY <1>1, <1>2, <1>5 DEF RefreshKept, RefreshInv, RequestHonest, OneLease, Calls

LEMMA FaultStep == RefreshKept /\ Fault => RefreshKept'
<1> SUFFICES ASSUME RefreshKept, Fault PROVE RefreshKept'
  OBVIOUS
<1> USE DEF Fault
<1>1. TypeOK /\ RequestHonest
  BY DEF RefreshKept, RefreshInv
<1>2. faults' \in 0..MaxFaults
  BY <1>1, RefreshAssumption DEF TypeOK
<1>3. turn' \in [Sources -> Turns] /\ origin' \in Origins
  BY <1>1 DEF TypeOK, All, Turns, Origins
<1>4. TypeOK'
  BY <1>1, <1>2, <1>3 DEF TypeOK
<1>5. OneLease'
  BY <1>1 DEF OneLease, TypeOK
<1> QED
  BY <1>1, <1>4, <1>5 DEF RefreshKept, RefreshInv, RequestHonest, Calls

LEMMA OriginStep == RefreshKept /\ OriginOpens => RefreshKept'
<1> SUFFICES ASSUME RefreshKept, OriginOpens PROVE RefreshKept'
  OBVIOUS
<1>1. TypeOK /\ RequestHonest /\ OneLease
  BY DEF RefreshKept, RefreshInv
<1>2. /\ UNCHANGED <<enabled, lease, error, ever, tried, newer, after, request, source, gap, worker, call, faults>>
      /\ Asked' = Asked
  BY DEF OriginOpens, job, Asked
<1>3. turn' \in [Sources -> Turns] /\ origin' \in Origins
  BY <1>1 DEF OriginOpens, TypeOK, Turns, Origins
<1>4. TypeOK'
  BY <1>1, <1>2, <1>3 DEF TypeOK
<1> QED
  BY <1>1, <1>2, <1>4 DEF RefreshKept, RefreshInv, RequestHonest, OneLease

LEMMA SurroundingsStep ==
    ASSUME RefreshKept, NEW p \in Sources, LeaseExpires(p) \/ BecomesDue(p) \/ Activate(p)
    PROVE  RefreshKept'
<1>1. TypeOK /\ RequestHonest /\ OneLease
  BY DEF RefreshKept, RefreshInv
<1>2. UNCHANGED <<origin, error, ever, tried, newer, after, request, source, gap, worker, call, faults>> /\ Asked' = Asked
  BY DEF LeaseExpires, BecomesDue, Activate, job, Asked
<1>3. /\ enabled' \in [Sources -> BOOLEAN]
      /\ turn' \in [Sources -> Turns]
      /\ lease' \in [Sources -> {"none", "held", "lost", "expired"}]
  BY <1>1 DEF LeaseExpires, BecomesDue, Activate, TypeOK, Turns
<1>4. \A q \in Sources : lease'[q] = "held" <=> lease[q] = "held"
  BY <1>1 DEF LeaseExpires, BecomesDue, Activate, TypeOK
<1>5. TypeOK'
  BY <1>1, <1>2, <1>3 DEF TypeOK
<1> QED
  BY <1>1, <1>2, <1>4, <1>5 DEF RefreshKept, RefreshInv, RequestHonest, OneLease

LEMMA RefreshStutters == RefreshKept /\ (WorkChanges \/ UNCHANGED vars) => RefreshKept'
<1> SUFFICES ASSUME RefreshKept, WorkChanges \/ UNCHANGED vars PROVE RefreshKept'
  OBVIOUS
<1>1. TypeOK /\ RequestHonest /\ OneLease
  BY DEF RefreshKept, RefreshInv
<1>2. /\ UNCHANGED <<enabled, turn, origin, lease, error, ever, tried, newer, after, request, source, worker, call, faults>>
      /\ gap' \in BOOLEAN /\ Asked' = Asked
  BY <1>1 DEF WorkChanges, vars, rows, job, Asked, TypeOK
<1>3. TypeOK'
  BY <1>1, <1>2 DEF TypeOK
<1> QED
  BY <1>1, <1>2, <1>3 DEF RefreshKept, RefreshInv, RequestHonest, OneLease

(***************************************************************************)
(* At most one request of the worker is out, with the lease of the source  *)
(* it asks, and a source the saved request calls completed has published   *)
(* an answer received after the click (Features.synchronize, enqueue,      *)
(* Book.claim, publish): whoever asks again, fails or dies meanwhile.      *)
(***************************************************************************)
THEOREM RefreshHonest == Spec => []RefreshInv
<1>1. Init => RefreshKept
  BY RefreshInit
<1>2. RefreshKept /\ [Next]_vars => RefreshKept'
  BY EnqueueStep, SynchronizeStep, LaunchStep, AskStep, SkipStep, AnswerStep, PublishStep, FailStep,
     FaultStep, OriginStep, SurroundingsStep, RefreshStutters DEF Next
<1>3. RefreshKept => RefreshInv
  BY DEF RefreshKept
<1> QED
  BY <1>1, <1>2, <1>3, PTL DEF Spec
=============================================================================
