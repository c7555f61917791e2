------------------------- MODULE ProviderGateProofs -------------------------
(***************************************************************************)
(* For every set of providers, every cadence, lease and backoff: the rows  *)
(* stay well formed, stored deadlines cover what was admitted and asked,   *)
(* admissions are paced and deadlines only recede.                         *)
(***************************************************************************)
EXTENDS ProviderGate, TLAPS

\* Backoff is a number of seconds (quote_book.fail's min(21600, ...)).
LEMMA BackoffNat ==
    ASSUME NEW p \in Providers, NEW n \in Nat
    PROVE  Backoff(p, n) \in Nat
<1>1. Smaller(n, FailCap) \in 0..FailCap
  BY GateAssumption DEF GateAssumption, Smaller
<1>2. 2 ^ Smaller(n, FailCap) \in Nat
  BY <1>1, PowersOfTwo
<1>3. Cadence[p] * 2 ^ Smaller(n, FailCap) \in Nat
  BY <1>2, GateAssumption DEF GateAssumption
<1>. QED
  BY <1>3, GateAssumption DEF GateAssumption, Backoff, Smaller

\* The larger of two numbers is a number and bounds both.
LEMMA LargerBounds ==
    ASSUME NEW a \in Int, NEW b \in Int
    PROVE  /\ Larger(a, b) \in {a, b}
           /\ Larger(a, b) >= a /\ Larger(a, b) >= b
BY DEF Larger

\* Readings of the clock are numbers.
LEMMA ReadingsNat == TypeOK => Readings \subseteq Nat
BY DEF TypeOK, Readings

\* Init: nothing admitted, nothing asked.
LEMMA InitGateInv == Init => GateInv
BY GateAssumption
   DEF GateAssumption, Init, InitOn, GateInv, TypeOK, Covered, Tokens, NoToken

\* What each outcome of Book.claim leaves behind.
LEMMA ClaimGateInv ==
    ASSUME GateInv, NEW p \in Providers,
           ClaimRecover(p) \/ ClaimSharedDefer(p) \/ ClaimRequest(p)
    PROVE  GateInv' /\ next' \in [Providers -> Nat]
<1>. USE GateAssumption DEF GateAssumption, GateInv
<1>1. CASE ClaimRecover(p)
  BY <1>1, ReadingsNat, LargerBounds
     DEF ClaimRecover, TypeOK, Covered, PacedFrom, Larger, NoToken, history
<1>2. CASE ClaimSharedDefer(p)
  BY <1>2, ReadingsNat DEF ClaimSharedDefer, TypeOK, Covered, Larger, history
<1>3. CASE ClaimRequest(p)
  <2>. PICK t \in Readings : MayAdmit(p, t) /\ Admit(p, t)
    BY <1>3 DEF ClaimRequest
  <2>1. t \in Nat
    BY ReadingsNat
  <2>2. issued + 1 \in Tokens
    BY DEF Admit, TypeOK, Tokens
  <2>3. calls' \subseteq Call
    BY <2>2 DEF Admit, TypeOK, Call, Phases
  <2>4. TypeOK'
    BY <2>1, <2>2, <2>3 DEF Admit, TypeOK, OriginAfter
  <2>5. Covered'
    BY <2>1 DEF Admit, MayAdmit, TypeOK, Covered, OriginAfter
  <2>. QED
    BY <2>4, <2>5 DEF TypeOK
<1>. QED
  BY <1>1, <1>2, <1>3

\* What closing a call leaves in the table of calls.
LEMMA SettledTyped ==
    ASSUME TypeOK, NEW c \in calls
    PROVE  /\ c \in Call /\ c.p \in Providers
           /\ Settled(c) \subseteq Call
BY DEF TypeOK, Settled, Call, Phases

\* Publishing, failing and csfloat's finish keep the invariant.
LEMMA CloseGateInv ==
    ASSUME GateInv, NEW c \in calls,
           \/ Answer(c) \/ Publish(c) \/ PublishReused(c) \/ LostOwnership(c)
           \/ OrphanEnds(c)
           \/ \E status \in Statuses, retry \in Retries : Fail(c, status, retry)
           \/ \E terminal \in BOOLEAN, rest \in Retries : CsfloatFinish(c, terminal, rest)
    PROVE  GateInv'
<1>. USE GateAssumption DEF GateAssumption, GateInv
<1>0. c \in Call /\ c.p \in Providers /\ Settled(c) \subseteq Call
  BY SettledTyped
<1>1. CASE Answer(c)
  <2>1. [p |-> c.p, token |-> c.token, age |-> 0, phase |-> "answered"] \in Call
    BY <1>0 DEF Call, Phases
  <2>2. calls' \subseteq Call
    BY <1>1, <2>1 DEF Answer, TypeOK
  <2>. QED
    BY <1>1, <2>2 DEF Answer, TypeOK, Covered, rows, history
<1>2. CASE Publish(c)
  BY <1>0, <1>2 DEF Publish, Release, TypeOK, Covered, NoToken, history
<1>3. CASE PublishReused(c)
  BY <1>0, <1>3 DEF PublishReused, Release, TypeOK, Covered, NoToken, history
<1>4. CASE LostOwnership(c)
  BY <1>4 DEF LostOwnership, TypeOK, Covered, rows, history
<1>5. CASE OrphanEnds(c)
  BY <1>5 DEF OrphanEnds, TypeOK, Covered, rows, history
<1>6. ASSUME NEW status \in Statuses, NEW retry \in Retries, Fail(c, status, retry)
      PROVE  GateInv'
  <2>. DEFINE n == failures[c.p] + 1
  <2>. PICK t \in Readings : 
         LET until == Larger(next[c.p], Larger(t + Backoff(c.p, n), t + retry)) IN
         /\ failures' = [failures EXCEPT ![c.p] = n]
         /\ next' = [p \in Providers |->
                      IF p \in Rested(c, status) THEN Larger(next[p], until) ELSE next[p]]
         /\ origin' = IF status = "limited" /\ c.p \in Skinport
                      THEN Larger(origin, until) ELSE origin
         /\ demanded' = [p \in Providers |->
                           IF p = c.p \/ (status = "limited" /\ {p, c.p} \subseteq Skinport)
                           THEN Larger(demanded[p], t + retry) ELSE demanded[p]]
    BY <1>6 DEF Fail
  <2>1. n \in Nat /\ t \in Nat /\ retry \in Nat /\ Backoff(c.p, n) \in Nat
    BY <1>0, ReadingsNat, BackoffNat DEF TypeOK
  <2>. DEFINE until == Larger(next[c.p], Larger(t + Backoff(c.p, n), t + retry))
  <2>2. until \in Nat /\ until >= t + retry
    BY <1>0, <2>1 DEF Larger, TypeOK
  <2>3. \A p \in Providers : next'[p] \in Nat /\ next'[p] >= next[p]
    BY <2>2 DEF Larger, TypeOK
  <2>4. \A p \in Providers :
          demanded'[p] \in Nat /\ demanded'[p] <= next'[p]
    <3>. TAKE p \in Providers
    <3>. DEFINE asked == p = c.p \/ (status = "limited" /\ {p, c.p} \subseteq Skinport)
    <3>1. next[p] \in Nat /\ demanded[p] \in Nat /\ demanded[p] <= next[p]
      BY DEF TypeOK, Covered
    <3>2. CASE asked
      <4>1. p \in Rested(c, status)
        BY <3>2 DEF Rested
      <4>2. next'[p] = Larger(next[p], until) /\ demanded'[p] = Larger(demanded[p], t + retry)
        BY <3>2, <4>1
      <4>. HIDE DEF until
      <4>. QED
        BY <2>1, <2>2, <3>1, <4>2 DEF Larger
    <3>3. CASE ~asked
      BY <2>3, <3>1, <3>3
    <3>. QED
      BY <3>2, <3>3
  <2>5. origin' \in Nat /\ origin' >= origin
    BY <2>2 DEF Larger, TypeOK
  <2>6. TypeOK'
    BY <1>0, <1>6, <2>1, <2>3, <2>4, <2>5 DEF Fail, Release, TypeOK, NoToken
  <2>7. Covered'
    <3>1. \A p \in Providers : next'[p] >= admitted[p] + Cadence[p]
      BY <2>3 DEF Covered, TypeOK
    <3>2. origin' >= originAdmit + OriginGap
      BY <2>5 DEF Covered, TypeOK
    <3>. QED
      BY <1>6, <2>4, <3>1, <3>2 DEF Covered, Fail, TypeOK
  <2>. QED
    BY <2>6, <2>7
<1>7. ASSUME NEW terminal \in BOOLEAN, NEW rest \in Retries, CsfloatFinish(c, terminal, rest)
      PROVE  GateInv'
  BY <1>0, <1>7, ReadingsNat
     DEF CsfloatFinish, HeaderDeadline, Larger, TypeOK, Covered
<1>. QED
  BY <1>1, <1>2, <1>3, <1>4, <1>5, <1>6, <1>7

\* The operator's switches, crashes and the clock keep the invariant.
LEMMA SurroundingsGateInv ==
    ASSUME GateInv,
           \/ \E p \in Providers :
                 Activate(p) \/ NothingToAsk(p) \/ \E on \in BOOLEAN : Enable(p, on)
           \/ Crash \/ Tick \/ ClockStep
    PROVE  GateInv'
<1>. USE GateAssumption DEF GateAssumption, GateInv
<1>1. ASSUME NEW p \in Providers, Activate(p)
      PROVE  GateInv'
  BY <1>1, ReadingsNat DEF Activate, Larger, TypeOK, Covered, history
<1>2. ASSUME NEW p \in Providers, NothingToAsk(p)
      PROVE  GateInv'
  BY <1>2, ReadingsNat DEF NothingToAsk, PacedFrom, Larger, TypeOK, Covered, history
<1>3. ASSUME NEW p \in Providers, NEW on \in BOOLEAN, Enable(p, on)
      PROVE  GateInv'
  BY <1>3 DEF Enable, TypeOK, Covered, history
<1>4. CASE Crash
  BY <1>4 DEF Crash, TypeOK, Covered, Call, Phases, rows, history
<1>5. CASE Tick
  <2>1. calls' \subseteq Call
    BY <1>5 DEF Tick, TypeOK, Call, OnWire
  <2>. QED
    BY <1>5, <2>1 DEF Tick, TypeOK, Covered, rows, history
<1>6. CASE ClockStep
  BY <1>6 DEF ClockStep, TypeOK, Covered, rows, history
<1>. QED
  BY <1>1, <1>2, <1>3, <1>4, <1>5, <1>6

LEMMA NextGateInv == GateInv /\ [Next]_vars => GateInv'
<1>. SUFFICES ASSUME GateInv, [Next]_vars PROVE GateInv'
  OBVIOUS
<1>1. CASE UNCHANGED vars
  BY <1>1 DEF GateInv, TypeOK, Covered, vars, rows, history
<1>2. CASE Next
  BY <1>2, ClaimGateInv, CloseGateInv, SurroundingsGateInv DEF Next
<1>. QED
  BY <1>1, <1>2

\* The rows stay well formed and every stored deadline covers what was
\* admitted and asked (quote_book.claim, fail, publish; csfloat_queue).
THEOREM GateInvariant == Spec => []GateInv
BY InitGateInv, NextGateInv, PTL DEF Spec

-----------------------------------------------------------------------------
(* The action properties, from the invariant.                              *)

\* Every step leaves each stored deadline where it is or later.
LEMMA StepRecedes ==
    ASSUME GateInv, [Next]_vars
    PROVE  (\A p \in Providers : next'[p] >= next[p]) /\ origin' >= origin
<1>. USE GateAssumption DEF GateAssumption, GateInv
<1>a. \A p \in Providers : next[p] \in Nat
  BY DEF TypeOK
<1>b. origin \in Nat
  BY DEF TypeOK
<1>c. \A c \in calls : c.p \in Providers
  BY SettledTyped
<1>1. ASSUME NEW p \in Providers,
             ClaimRecover(p) \/ ClaimSharedDefer(p) \/ Activate(p) \/ NothingToAsk(p)
      PROVE  (\A q \in Providers : next'[q] >= next[q]) /\ origin' >= origin
  BY <1>1, <1>a, <1>b, ReadingsNat
     DEF ClaimRecover, ClaimSharedDefer, Activate, NothingToAsk, PacedFrom, Larger, TypeOK
<1>2. ASSUME NEW p \in Providers, ClaimRequest(p)
      PROVE  (\A q \in Providers : next'[q] >= next[q]) /\ origin' >= origin
  BY <1>2, <1>a, <1>b, ReadingsNat
     DEF ClaimRequest, MayAdmit, Admit, OriginAfter, TypeOK
<1>3. ASSUME NEW c \in calls, NEW status \in Statuses, NEW retry \in Retries,
             Fail(c, status, retry)
      PROVE  (\A q \in Providers : next'[q] >= next[q]) /\ origin' >= origin
  <2>. PICK t \in Readings :
         LET until == Larger(next[c.p], Larger(t + Backoff(c.p, failures[c.p] + 1), t + retry)) IN
         /\ next' = [p \in Providers |->
                      IF p \in Rested(c, status) THEN Larger(next[p], until) ELSE next[p]]
         /\ origin' = IF status = "limited" /\ c.p \in Skinport
                      THEN Larger(origin, until) ELSE origin
    BY <1>3 DEF Fail
  <2>1. t \in Nat /\ retry \in Nat /\ Backoff(c.p, failures[c.p] + 1) \in Nat
    BY <1>c, ReadingsNat, BackoffNat DEF TypeOK
  <2>2. Larger(next[c.p], Larger(t + Backoff(c.p, failures[c.p] + 1), t + retry)) \in Nat
    BY <1>a, <1>c, <2>1 DEF Larger
  <2>. QED
    BY <1>a, <1>b, <2>2, LargerBounds DEF TypeOK
<1>4. ASSUME NEW c \in calls, NEW terminal \in BOOLEAN, NEW rest \in Retries,
             CsfloatFinish(c, terminal, rest)
      PROVE  (\A q \in Providers : next'[q] >= next[q]) /\ origin' >= origin
  BY <1>4, <1>a, <1>b, <1>c, ReadingsNat DEF CsfloatFinish, HeaderDeadline, Larger, TypeOK
<1>5. ASSUME UNCHANGED <<next, origin>>
      PROVE  (\A q \in Providers : next'[q] >= next[q]) /\ origin' >= origin
  BY <1>5, <1>a, <1>b
<1>6. ASSUME NEW c \in calls,
             Answer(c) \/ Publish(c) \/ PublishReused(c) \/ LostOwnership(c) \/ OrphanEnds(c)
      PROVE  UNCHANGED <<next, origin>>
  BY <1>6 DEF Answer, Publish, PublishReused, LostOwnership, OrphanEnds, rows
<1>7. ASSUME \/ \E p \in Providers, on \in BOOLEAN : Enable(p, on)
             \/ Crash \/ Tick \/ ClockStep \/ UNCHANGED vars
      PROVE  UNCHANGED <<next, origin>>
  BY <1>7 DEF Enable, Crash, Tick, ClockStep, vars, rows
<1>. QED
  BY <1>1, <1>2, <1>3, <1>4, <1>5, <1>6, <1>7 DEF Next

\* Only an admission hands a provider to a new token.
LEMMA OnlyRequestsAdmit ==
    ASSUME GateInv, [Next]_vars, NEW p \in Providers, Admits(p)
    PROVE  \E t \in Readings :
              /\ t \in Nat /\ MayAdmit(p, t)
              /\ admitted' = [admitted EXCEPT ![p] = t]
<1>. USE DEF GateInv, Admits, NoToken
<1>0. lease \in [Providers -> Tokens \cup {NoToken}]
  BY DEF TypeOK
<1>c. \A c \in calls : c.p \in Providers
  BY SettledTyped
<1>1. ASSUME NEW q \in Providers, ClaimRequest(q)
      PROVE  \E t \in Readings :
              /\ t \in Nat /\ MayAdmit(p, t)
              /\ admitted' = [admitted EXCEPT ![p] = t]
  <2>. PICK t \in Readings : MayAdmit(q, t) /\ Admit(q, t)
    BY <1>1 DEF ClaimRequest
  <2>1. q = p
    BY <1>0 DEF Admit
  <2>. QED
    BY <2>1, ReadingsNat DEF Admit
<1>2. ASSUME NEW q \in Providers, ClaimRecover(q)
      PROVE  FALSE
  BY <1>0, <1>2 DEF ClaimRecover
<1>3. ASSUME NEW c \in calls,
             \/ Publish(c) \/ PublishReused(c)
             \/ \E status \in Statuses, retry \in Retries : Fail(c, status, retry)
      PROVE  FALSE
  <2>1. Release(c.p)
    BY <1>3 DEF Publish, PublishReused, Fail
  <2>. QED
    BY <1>0, <1>c, <2>1 DEF Release
<1>4. ASSUME NEW q \in Providers,
             \/ ClaimSharedDefer(q) \/ Activate(q) \/ NothingToAsk(q)
             \/ \E on \in BOOLEAN : Enable(q, on)
      PROVE  FALSE
  BY <1>4 DEF ClaimSharedDefer, Activate, NothingToAsk, Enable
<1>5. ASSUME NEW c \in calls,
             \/ Answer(c) \/ LostOwnership(c) \/ OrphanEnds(c)
             \/ \E terminal \in BOOLEAN, rest \in Retries : CsfloatFinish(c, terminal, rest)
      PROVE  FALSE
  BY <1>5 DEF Answer, LostOwnership, OrphanEnds, CsfloatFinish, rows
<1>6. ASSUME Crash \/ Tick \/ ClockStep \/ UNCHANGED vars
      PROVE  FALSE
  BY <1>6 DEF Crash, Tick, ClockStep, vars, rows
<1>. QED
  BY <1>1, <1>2, <1>3, <1>4, <1>5, <1>6 DEF Next

\* An admission passes the gate only when every stored deadline is over, and
\* the invariant says what those deadlines cover.
LEMMA StepPaced ==
    ASSUME GateInv, [Next]_vars, NEW p \in Providers, Admits(p)
    PROVE  /\ admitted'[p] >= admitted[p] + Cadence[p]
           /\ admitted'[p] >= demanded[p]
           /\ p \in Skinport => admitted'[p] >= originAdmit + OriginGap
<1>. PICK t \in Readings :
       t \in Nat /\ MayAdmit(p, t) /\ admitted' = [admitted EXCEPT ![p] = t]
  BY OnlyRequestsAdmit
<1>1. admitted'[p] = t
  BY DEF GateInv, TypeOK
<1>2. t >= next[p] /\ (p \in Skinport => t >= origin)
  BY DEF MayAdmit, GateInv, TypeOK
<1>3. next[p] >= admitted[p] + Cadence[p] /\ next[p] >= demanded[p]
      /\ origin >= originAdmit + OriginGap
  BY DEF GateInv, Covered
<1>4. /\ next[p] \in Nat /\ admitted[p] \in Int
      /\ demanded[p] \in Nat /\ origin \in Nat /\ originAdmit \in Int
  BY DEF GateInv, TypeOK
<1>5. Cadence[p] \in Nat /\ OriginGap \in Nat
  BY GateAssumption DEF GateAssumption
<1>. QED
  BY <1>1, <1>2, <1>3, <1>4, <1>5

\* quote_book: no operation brings a deadline forward, with any clock.
THEOREM DeadlinesRecede == Spec => DeadlinesOnlyRecede
<1>1. GateInv /\ [Next]_vars =>
        [/\ \A p \in Providers : next'[p] >= next[p]
         /\ origin' >= origin]_vars
  BY StepRecedes
<1>. QED
  BY <1>1, GateInvariant, PTL DEF Spec, DeadlinesOnlyRecede

\* quote_book.claim: admissions are a cadence apart, keep the shared Skinport
\* gap and never precede a deadline a provider asked for.
THEOREM AdmissionsPaced == Spec => PacedAdmission
<1>1. GateInv /\ [Next]_vars =>
        [\A p \in Providers : Admits(p) =>
            /\ admitted'[p] >= admitted[p] + Cadence[p]
            /\ admitted'[p] >= demanded[p]
            /\ p \in Skinport => admitted'[p] >= originAdmit + OriginGap]_vars
  BY StepPaced
<1>. QED
  BY <1>1, GateInvariant, PTL DEF Spec, PacedAdmission
-----------------------------------------------------------------------------
(* One request of a provider on the wire.                                  *)

WireInv == GateInv /\ TokensOnce /\ LeasesOutlast /\ NoOverlap

\* Every call is a call.
LEMMA CallsTyped ==
    ASSUME TypeOK, NEW c \in calls
    PROVE  /\ c \in Call /\ c.p \in Providers /\ c.token \in Tokens /\ c.token # NoToken
           /\ c.age \in Nat /\ c.age <= WireMax /\ c.phase \in Phases
BY GateAssumption DEF GateAssumption, TypeOK, Call, Tokens, NoToken

\* A step that takes calls off the wire, and touches no lease but that of a
\* call that is not on it, keeps what is said of those that stay there.
LEMMA FewerOnWire ==
    ASSUME WireInv, TypeOK', NEW c \in calls, ~OnWire(c) \/ UNCHANGED <<lease, leaseUntil>>,
           steps' = steps, now' = now, issued' = issued,
           \A p \in Providers : next'[p] >= next[p],
           \A p \in Providers :
              lease[p] # c.token => lease'[p] = lease[p] /\ leaseUntil'[p] = leaseUntil[p],
           \A d \in calls' : \/ d \in calls
                             \/ ~OnWire(d) /\ d.token = c.token /\ c \notin calls'
                                 /\ \A e \in calls' : e.token = c.token => e = d
    PROVE  TokensOnce' /\ LeasesOutlast' /\ NoOverlap'
<1>. USE DEF WireInv, GateInv
<1>1. TokensOnce'
  BY DEF TokensOnce
<1>2. NoOverlap'
  BY DEF NoOverlap, OnWire
<1>3. ASSUME steps' = 0, NEW d \in calls', OnWire(d)
      PROVE  Outlasted(d)'
  <2>1. d \in calls /\ Outlasted(d) /\ d.p \in Providers
    BY <1>3, CallsTyped DEF LeasesOutlast
  <2>2. d.token # c.token \/ UNCHANGED <<lease, leaseUntil>>
    BY <1>3, <2>1 DEF TokensOnce
  <2>3. next[d.p] \in Nat /\ next'[d.p] \in Nat /\ next'[d.p] >= next[d.p]
    BY <2>1 DEF TypeOK
  <2>4. now \in Nat /\ d.age \in Nat /\ Cadence[d.p] \in Nat /\ LockWait \in Nat /\ Lease \in Nat
    BY <2>1, CallsTyped, GateAssumption DEF GateAssumption, TypeOK
  <2>5. CASE lease[d.p] = d.token
    BY <2>1, <2>2, <2>5, CallsTyped DEF Outlasted
  <2>6. CASE lease[d.p] # d.token
    BY <2>1, <2>2, <2>3, <2>4, <2>6, CallsTyped DEF Outlasted
  <2>. QED
    BY <2>5, <2>6
<1>. QED
  BY <1>1, <1>2, <1>3 DEF LeasesOutlast, OnWire

\* Steps that hand out no token and touch no lease.
LEMMA LeasesKept ==
    ASSUME WireInv, TypeOK', calls' \subseteq calls,
           UNCHANGED <<now, steps, issued, lease, leaseUntil>>,
           \A p \in Providers : next'[p] >= next[p]
    PROVE  TokensOnce' /\ LeasesOutlast' /\ NoOverlap'
<1>. USE DEF WireInv, GateInv
<1>1. TokensOnce' /\ NoOverlap'
  BY DEF TokensOnce, NoOverlap, OnWire
<1>2. ASSUME steps' = 0, NEW d \in calls', OnWire(d)
      PROVE  Outlasted(d)'
  <2>1. d \in calls /\ Outlasted(d) /\ d.p \in Providers
    BY <1>2, CallsTyped DEF LeasesOutlast
  <2>2. next[d.p] \in Nat /\ next'[d.p] \in Nat /\ next'[d.p] >= next[d.p]
    BY <2>1 DEF TypeOK
  <2>3. now \in Nat /\ d.age \in Nat /\ Cadence[d.p] \in Nat /\ LockWait \in Nat /\ Lease \in Nat
    BY <2>1, CallsTyped, GateAssumption DEF GateAssumption, TypeOK
  <2>. QED
    BY <2>1, <2>2, <2>3 DEF Outlasted
<1>. QED
  BY <1>1, <1>2 DEF LeasesOutlast, OnWire

\* Book.claim: a lease that is written off, or handed to a new request, is not
\* that of a call on the wire, and that call's provider is not admitted again.
LEMMA ClaimWireInv ==
    ASSUME WireInv, NEW p \in Providers,
           ClaimRecover(p) \/ ClaimSharedDefer(p) \/ ClaimRequest(p)
    PROVE  WireInv'
<1>. USE DEF WireInv
<1>0. GateInv' /\ TypeOK /\ TypeOK'
  BY ClaimGateInv DEF GateInv
<1>1. CASE ClaimSharedDefer(p)
  <2>1. \A q \in Providers : next'[q] >= next[q]
    BY <1>0, <1>1, StepRecedes DEF Next
  <2>. QED
    BY <1>0, <1>1, <2>1, LeasesKept DEF ClaimSharedDefer
<1>2. CASE ClaimRecover(p)
  <2>1. PICK t \in Readings :
           /\ LeaseExpired(p, t) /\ lease[p] # NoToken
           /\ lease' = [lease EXCEPT ![p] = NoToken]
           /\ next' = [next EXCEPT ![p] = PacedFrom(p, t)]
           /\ leaseUntil' = [leaseUntil EXCEPT ![p] = 0]
           /\ UNCHANGED <<now, steps, calls, issued>>
    BY <1>2 DEF ClaimRecover
  <2>2. t \in Nat /\ t <= now
    BY <1>0, ReadingsNat DEF Readings
  <2>3. TokensOnce' /\ NoOverlap'
    BY <2>1 DEF TokensOnce, NoOverlap, OnWire
  <2>4. ASSUME steps' = 0, NEW c \in calls, OnWire(c)
        PROVE  Outlasted(c)'
    <3>1. Outlasted(c) /\ c.p \in Providers /\ c.token # NoToken
      BY <1>0, <2>1, <2>4, CallsTyped DEF LeasesOutlast
    <3>2. CASE c.p # p
      BY <1>0, <2>1, <3>1, <3>2 DEF Outlasted, TypeOK
    <3>3. CASE c.p = p
      <4>1. leaseUntil[p] + LockWait >= now - c.age + Lease
        BY <2>1, <3>1, <3>3 DEF Outlasted
      <4>2. leaseUntil[p] <= t /\ lease'[p] = NoToken /\ next'[p] = PacedFrom(p, t)
        BY <1>0, <2>1 DEF LeaseExpired, TypeOK
      <4>3. next[p] \in Nat /\ leaseUntil[p] \in Nat /\ now \in Nat /\ c.age \in Nat
        BY <1>0, CallsTyped DEF TypeOK
      <4>4. Cadence[p] \in Nat /\ LockWait \in Nat /\ Lease \in Nat
        BY GateAssumption DEF GateAssumption
      <4>5. next'[p] >= t + Cadence[p] /\ next'[p] \in Nat
        BY <2>2, <4>2, <4>3, <4>4 DEF PacedFrom, Larger
      <4>6. next'[p] + LockWait >= now - c.age + Lease + Cadence[p]
        BY <2>2, <4>1, <4>2, <4>3, <4>4, <4>5
      <4>. QED
        BY <2>1, <3>3, <4>2, <4>6 DEF Outlasted
    <3>. QED
      BY <3>2, <3>3
  <2>. QED
    BY <1>0, <2>1, <2>3, <2>4 DEF LeasesOutlast, OnWire
<1>3. CASE ClaimRequest(p)
  <2>1. PICK t \in Readings : MayAdmit(p, t) /\ Admit(p, t)
    BY <1>3 DEF ClaimRequest
  <2>2. t \in Nat /\ t <= now /\ now <= t + LockWait /\ now \in Nat
    BY <1>0, ReadingsNat DEF Readings, TypeOK
  <2>. DEFINE new == [p |-> p, token |-> issued + 1, age |-> 0, phase |-> "wire"]
  <2>3. calls' = calls \cup {new} /\ UNCHANGED <<now, steps>>
    BY <2>1 DEF Admit
  <2>4. TokensOnce'
    BY <1>0, <2>1, <2>3, CallsTyped DEF TokensOnce, Admit, TypeOK, Tokens
  <2>5. ASSUME steps = 0, NEW c \in calls, OnWire(c)
        PROVE  c.p # p
    <3>1. SUFFICES ASSUME c.p = p PROVE FALSE
      OBVIOUS
    <3>2. Outlasted(c) /\ c.token # NoToken /\ c.age \in Nat /\ c.age <= WireMax
      BY <1>0, <2>5, CallsTyped DEF LeasesOutlast
    <3>3. lease[p] = NoToken /\ next[p] <= t /\ next[p] \in Nat
      BY <1>0, <2>1 DEF MayAdmit, TypeOK
    <3>4. next[p] + LockWait >= now - c.age + Lease + Cadence[p]
      BY <3>1, <3>2, <3>3 DEF Outlasted
    <3>5. /\ Cadence[p] \in Nat /\ LockWait \in Nat /\ Lease \in Nat /\ WireMax \in Nat
          /\ WireMax + LockWait < Lease + Cadence[p]
      BY GateAssumption, LeaseOutlasts DEF GateAssumption, LeaseOutlasts
    <3>. QED
      BY <2>2, <3>2, <3>3, <3>4, <3>5
  <2>6. NoOverlap'
    BY <2>3, <2>5 DEF NoOverlap, OnWire
  <2>7. ASSUME steps' = 0, NEW c \in calls', OnWire(c)
        PROVE  Outlasted(c)'
    <3>1. CASE c = new
      <4>1. lease'[p] = c.token /\ leaseUntil'[p] = t + Lease /\ c.age = 0 /\ c.p = p
        BY <1>0, <2>1, <3>1 DEF Admit, TypeOK
      <4>2. LockWait \in Nat /\ Lease \in Nat
        BY GateAssumption DEF GateAssumption
      <4>. QED
        BY <2>2, <2>3, <4>1, <4>2 DEF Outlasted
    <3>2. CASE c \in calls
      <4>1. Outlasted(c) /\ c.p # p /\ c.p \in Providers
        BY <1>0, <2>3, <2>5, <2>7, <3>2, CallsTyped DEF LeasesOutlast
      <4>. QED
        BY <1>0, <2>1, <2>3, <4>1 DEF Outlasted, Admit, TypeOK
    <3>. QED
      BY <2>3, <3>1, <3>2
  <2>. QED
    BY <1>0, <2>4, <2>6, <2>7 DEF LeasesOutlast, OnWire
<1>. QED
  BY <1>1, <1>2, <1>3

\* Book.publish, fail and csfloat's finish give up leases of answered calls only.
LEMMA CloseWireInv ==
    ASSUME WireInv, NEW c \in calls,
           \/ Answer(c) \/ Publish(c) \/ PublishReused(c) \/ LostOwnership(c)
           \/ OrphanEnds(c)
           \/ \E status \in Statuses, retry \in Retries : Fail(c, status, retry)
           \/ \E terminal \in BOOLEAN, rest \in Retries : CsfloatFinish(c, terminal, rest)
    PROVE  WireInv'
<1>. USE DEF WireInv
<1>0. GateInv' /\ TypeOK /\ TypeOK'
  BY CloseGateInv DEF GateInv
<1>1. \A p \in Providers : next'[p] >= next[p]
  BY StepRecedes DEF Next
<1>2. c \in Call /\ c.token \in Tokens /\ c.token # NoToken /\ c.phase \in Phases
  BY <1>0, CallsTyped
<1>3. CASE \/ LostOwnership(c) \/ OrphanEnds(c)
           \/ \E terminal \in BOOLEAN, rest \in Retries : CsfloatFinish(c, terminal, rest)
  BY <1>0, <1>1, <1>3, LeasesKept DEF LostOwnership, OrphanEnds, CsfloatFinish, rows
<1>4. CASE Answer(c)
  <2>1. \A d \in calls' : \/ d \in calls
                          \/ ~OnWire(d) /\ d.token = c.token /\ c \notin calls'
                              /\ \A e \in calls' : e.token = c.token => e = d
    BY <1>4 DEF Answer, OnWire, TokensOnce
  <2>2. /\ UNCHANGED <<lease, leaseUntil>>
        /\ steps' = steps /\ now' = now /\ issued' = issued
    BY <1>4 DEF Answer, rows
  <2>. QED
    BY <1>0, <1>1, <2>1, <2>2, FewerOnWire
<1>5. CASE \/ Publish(c) \/ PublishReused(c)
           \/ \E status \in Statuses, retry \in Retries : Fail(c, status, retry)
  <2>1. /\ c.phase = "answered" /\ Owns(c) /\ Release(c.p) /\ calls' = Settled(c)
        /\ steps' = steps /\ now' = now /\ issued' = issued
    BY <1>5 DEF Publish, PublishReused, Fail
  <2>2. ~OnWire(c)
    BY <2>1 DEF OnWire
  <2>3. \A d \in calls' : \/ d \in calls
                          \/ ~OnWire(d) /\ d.token = c.token /\ c \notin calls'
                              /\ \A e \in calls' : e.token = c.token => e = d
    <3>. DEFINE settling == [c EXCEPT !.phase = "settling"]
    <3>1. settling.token = c.token /\ settling.phase = "settling"
      BY <1>2 DEF Call
    <3>2. calls' \subseteq (calls \ {c}) \cup {settling}
      BY <2>1 DEF Settled
    <3>3. c # settling
      BY <2>1, <3>1
    <3>. QED
      BY <3>1, <3>2, <3>3 DEF TokensOnce, OnWire
  <2>4. \A p \in Providers :
          lease[p] # c.token => lease'[p] = lease[p] /\ leaseUntil'[p] = leaseUntil[p]
    BY <1>0, <2>1 DEF Owns, Release, TypeOK
  <2>. QED
    BY <1>0, <1>1, <2>1, <2>2, <2>3, <2>4, FewerOnWire
<1>. QED
  BY <1>3, <1>4, <1>5

\* The operator, a crash, the passing of time and a step of the clock.
LEMMA SurroundingsWireInv ==
    ASSUME WireInv,
           \/ \E p \in Providers :
                 Activate(p) \/ NothingToAsk(p) \/ \E on \in BOOLEAN : Enable(p, on)
           \/ Crash \/ Tick \/ ClockStep
    PROVE  WireInv'
<1>. USE DEF WireInv
<1>0. GateInv' /\ TypeOK /\ TypeOK'
  BY SurroundingsGateInv DEF GateInv
<1>1. CASE \E p \in Providers :
             Activate(p) \/ NothingToAsk(p) \/ \E on \in BOOLEAN : Enable(p, on)
  <2>1. \A p \in Providers : next'[p] >= next[p]
    BY <1>1, StepRecedes DEF Next
  <2>. QED
    BY <1>0, <1>1, <2>1, LeasesKept DEF Activate, NothingToAsk, Enable
<1>2. CASE Crash
  <2>1. \A d \in calls' : \E c \in calls :
           OnWire(c) /\ d.p = c.p /\ d.token = c.token /\ d.age = c.age /\ d = [c EXCEPT !.phase = "orphan"]
    BY <1>0, <1>2 DEF Crash, TypeOK, Call
  <2>2. UNCHANGED <<now, steps, rows, issued>>
    BY <1>2 DEF Crash
  <2>3. TokensOnce'
    BY <2>1, <2>2 DEF TokensOnce
  <2>4. NoOverlap'
    BY <2>1, <2>2 DEF NoOverlap
  <2>5. LeasesOutlast'
    BY <2>1, <2>2 DEF LeasesOutlast, Outlasted, rows
  <2>. QED
    BY <1>0, <2>3, <2>4, <2>5
<1>3. CASE Tick
  <2>1. \A d \in calls' : \E c \in calls :
           /\ d.p = c.p /\ d.token = c.token /\ d.phase = c.phase
           /\ d.age = IF OnWire(c) THEN c.age + 1 ELSE c.age
           /\ d = IF OnWire(c) THEN [c EXCEPT !.age = @ + 1] ELSE c
    BY <1>0, <1>3 DEF Tick, TypeOK, Call
  <2>2. UNCHANGED <<steps, rows, issued>> /\ now' = now + 1
    BY <1>3 DEF Tick
  <2>3. TokensOnce'
    BY <2>1, <2>2 DEF TokensOnce
  <2>4. NoOverlap'
    BY <2>1, <2>2 DEF NoOverlap, OnWire
  <2>5. ASSUME steps' = 0, NEW d \in calls', OnWire(d)
        PROVE  Outlasted(d)'
    <3>. PICK c \in calls :
           d.p = c.p /\ d.token = c.token /\ d.phase = c.phase
           /\ d.age = IF OnWire(c) THEN c.age + 1 ELSE c.age
      BY <2>1, <2>5
    <3>1. OnWire(c) /\ d.age = c.age + 1 /\ Outlasted(c)
      BY <2>2, <2>5 DEF OnWire, LeasesOutlast
    <3>2. now \in Nat /\ c.age \in Nat /\ Lease \in Nat /\ Cadence[c.p] \in Nat
      BY <1>0, CallsTyped, GateAssumption DEF GateAssumption, TypeOK
    <3>3. now' - d.age = now - c.age
      BY <2>2, <3>1, <3>2
    <3>. QED
      BY <2>2, <3>1, <3>3 DEF Outlasted, rows
  <2>. QED
    BY <1>0, <2>3, <2>4, <2>5 DEF LeasesOutlast, OnWire
<1>4. CASE ClockStep
  BY <1>0, <1>4 DEF ClockStep, TypeOK, TokensOnce, LeasesOutlast, NoOverlap, rows
<1>. QED
  BY <1>1, <1>2, <1>3, <1>4

\* quote_book.claim with the leases saved across crashes: as long as nobody
\* sets the clock, a provider has one request on the wire.
THEOREM NeverTwoOnWire == Spec => []NoOverlap
<1>1. Init => WireInv
  BY InitGateInv DEF Init, InitOn, WireInv, TokensOnce, LeasesOutlast, NoOverlap
<1>2. WireInv /\ [Next]_vars => WireInv'
  <2>. SUFFICES ASSUME WireInv, [Next]_vars PROVE WireInv'
    OBVIOUS
  <2>1. CASE UNCHANGED vars
    BY <2>1, NextGateInv
       DEF WireInv, TokensOnce, LeasesOutlast, NoOverlap, Outlasted, vars, rows
  <2>2. CASE Next
    BY <2>2, ClaimWireInv, CloseWireInv, SurroundingsWireInv DEF Next
  <2>. QED
    BY <2>1, <2>2
<1>3. WireInv => NoOverlap
  BY DEF WireInv
<1>. QED
  BY <1>1, <1>2, <1>3, PTL DEF Spec
=============================================================================
