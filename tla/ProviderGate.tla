---------------------------- MODULE ProviderGate ----------------------------
(***************************************************************************)
(* The durable request gate of the current-quote ledger (quote_book.py):   *)
(* who may put a request to a price provider on the wire, and when.        *)
(*                                                                         *)
(* Every provider row keeps an enabled flag, a next-allowed time, a lease  *)
(* (the token of the one admitted request) with its deadline, and a count  *)
(* of consecutive failures.  The two Skinport feeds also share one origin  *)
(* deadline.  The rows live in SQLite: a crash of the process loses the    *)
(* calls it was making but no row, and the Node child of a killed process  *)
(* may still be talking to the provider.                                   *)
(*                                                                         *)
(* Each operation reads the wall clock BEFORE it takes the ledger's lock,  *)
(* so it may act on a reading up to LockWait seconds old, and the clock    *)
(* may be stepped by the operating system.                                 *)
(***************************************************************************)
EXTENDS Integers, FiniteSets

CONSTANTS
    Providers,      \* provider ids
    Skinport,       \* those whose id starts with "skinport": one shared origin
    PerItem,        \* csfloat: one item a request, operator activation
    Switchable,     \* steam: the operator may pause and resume it
    Cadence,        \* seconds between two admissions of a provider
    Lease,          \* 45: seconds an admitted request owns its provider
    OriginGap,      \* 45: seconds between two Skinport admissions
    DelayCap,       \* 21600: longest backoff
    FailCap,        \* 8: failures after which the backoff stops doubling
    WireMax,        \* the transport's own deadline (20 s timer, 25 s kill)
    LockWait,       \* how old a clock reading may be when it is used
    Retries,        \* what answers ask for, in seconds from now
    MaxTime, MaxSteps, MaxTokens  \* bounds of the exploration

ASSUME GateAssumption ==
    /\ Skinport \subseteq Providers /\ PerItem \subseteq Providers
    /\ Switchable \subseteq Providers
    /\ Cadence \in [Providers -> Nat]
    /\ Lease \in Nat /\ OriginGap \in Nat /\ DelayCap \in Nat /\ FailCap \in Nat
    /\ WireMax \in Nat /\ LockWait \in Nat
    /\ MaxTime \in Nat /\ MaxSteps \in Nat /\ MaxTokens \in Nat
    /\ Retries \subseteq Nat

\* A lease and the pacing after it outlast a request that was let on the wire:
\* 25 s and half a second of waiting for the ledger, against 45 s and a minute.
ASSUME LeaseOutlasts ==
    \A p \in Providers : WireMax + LockWait < Lease + Cadence[p]

\* Arithmetic the proof backends do not have.
ASSUME PowersOfTwo == \A n \in 0..FailCap : 2 ^ n \in Nat

VARIABLES
    now,         \* the wall clock, in seconds
    steps,       \* how often the clock was stepped
    enabled, next, lease, leaseUntil, failures,   \* the provider rows
    origin,      \* meta.skinport_origin_next
    calls,       \* the requests somebody still holds or has on the wire
    issued,      \* tokens handed out (uuid4: never the same twice)
    \* History of what providers were asked and what they asked for.
    admitted,    \* clock reading of the last admission of each provider
    originAdmit, \* clock reading of the last Skinport admission
    demanded     \* latest deadline a provider's answers imposed on it

rows == <<enabled, next, lease, leaseUntil, failures, origin>>
history == <<admitted, originAdmit, demanded>>
vars == <<now, steps, rows, calls, issued, history>>

NoToken == 0
Tokens == 1..MaxTokens
Phases == {"wire", "answered", "settling", "orphan"}
Call == [p : Providers, token : Tokens, age : 0..WireMax, phase : Phases]

TypeOK ==
    /\ now \in Nat /\ steps \in Nat
    /\ enabled \in [Providers -> BOOLEAN]
    /\ next \in [Providers -> Nat]
    /\ lease \in [Providers -> Tokens \cup {NoToken}]
    /\ leaseUntil \in [Providers -> Nat]
    /\ failures \in [Providers -> Nat]
    /\ origin \in Nat
    /\ calls \subseteq Call
    /\ issued \in Nat
    /\ admitted \in [Providers -> Int]
    /\ originAdmit \in Int
    /\ demanded \in [Providers -> Nat]

Larger(a, b) == IF a < b THEN b ELSE a
Smaller(a, b) == IF a < b THEN a ELSE b

\* The readings of the clock an operation that runs now may be using.
Readings == {t \in 0..now : now <= t + LockWait}

\* How long a provider rests after its n-th failure in a row.
Backoff(p, n) == Smaller(DelayCap, Cadence[p] * 2 ^ Smaller(n, FailCap))

InitOn(on) ==
    /\ now = 0 /\ steps = 0
    /\ enabled = [p \in Providers |-> p \in on]
    /\ next = [p \in Providers |-> 0]
    /\ lease = [p \in Providers |-> NoToken]
    /\ leaseUntil = [p \in Providers |-> 0]
    /\ failures = [p \in Providers |-> 0]
    /\ origin = 0
    /\ calls = {}
    /\ issued = 0
    /\ admitted = [p \in Providers |-> -Cadence[p]]
    /\ originAdmit = -OriginGap
    /\ demanded = [p \in Providers |-> 0]

\* csfloat starts disabled, every other provider enabled.
Init == InitOn(Providers \ PerItem)

-----------------------------------------------------------------------------
(* Book.claim, one action for each outcome that writes the row.            *)

OnWire(c) == c.phase \in {"wire", "orphan"}

\* As if an unexpired lease could be written off.
LeaseExpired_Ignored(p, t) == TRUE

LeaseExpired(p, t) == leaseUntil[p] <= t

\* As if the saved deadline were overwritten instead of kept when later.
PacedFrom_Overwrite(p, t) == t + Cadence[p]

PacedFrom(p, t) == Larger(next[p], t + Cadence[p])

\* The lease outlived its deadline: nobody knows whether that request was
\* sent, so it is written off and the provider is paced before the next one.
ClaimRecover(p) ==
    \E t \in Readings :
        /\ enabled[p]
        /\ lease[p] # NoToken
        /\ LeaseExpired(p, t)
        /\ lease' = [lease EXCEPT ![p] = NoToken]
        /\ leaseUntil' = [leaseUntil EXCEPT ![p] = 0]
        /\ next' = [next EXCEPT ![p] = PacedFrom(p, t)]
        /\ UNCHANGED <<now, steps, enabled, failures, origin, calls, issued, history>>

\* A Skinport feed is due but the other one used the shared origin.
ClaimSharedDefer(p) ==
    \E t \in Readings :
        /\ enabled[p] /\ lease[p] = NoToken /\ next[p] <= t
        /\ p \in Skinport /\ origin > t
        /\ next' = [next EXCEPT ![p] = Larger(@, origin)]
        /\ UNCHANGED <<now, steps, enabled, lease, leaseUntil, failures, origin,
                       calls, issued, history>>

\* As if a feed looked at its own pacing only.
MayAdmit_NoOrigin(p, t) == enabled[p] /\ lease[p] = NoToken /\ next[p] <= t

MayAdmit(p, t) ==
    /\ enabled[p]
    /\ lease[p] = NoToken
    /\ next[p] <= t
    /\ p \in Skinport => origin <= t

\* As if an admission left the shared deadline alone.
OriginAfter_Unset(p, t) == origin

OriginAfter(p, t) == IF p \in Skinport THEN t + OriginGap ELSE origin

Admit(p, t) ==
    /\ issued < MaxTokens
    /\ issued' = issued + 1
    /\ lease' = [lease EXCEPT ![p] = issued + 1]
    /\ leaseUntil' = [leaseUntil EXCEPT ![p] = t + Lease]
    /\ next' = [next EXCEPT ![p] = t + Cadence[p]]
    /\ origin' = OriginAfter(p, t)
    /\ calls' = calls \cup {[p |-> p, token |-> issued + 1, age |-> 0, phase |-> "wire"]}
    /\ admitted' = [admitted EXCEPT ![p] = t]
    /\ originAdmit' = IF p \in Skinport THEN t ELSE originAdmit
    /\ UNCHANGED <<now, steps, enabled, failures, demanded>>

ClaimRequest(p) == \E t \in Readings : MayAdmit(p, t) /\ Admit(p, t)

-----------------------------------------------------------------------------
(* The answer, and the operations that close the lease with it.            *)

\* The transport returns: a response, an error or its own timeout.
Answer(c) ==
    /\ c.phase = "wire"
    /\ calls' = (calls \ {c})
          \cup {[p |-> c.p, token |-> c.token, age |-> 0, phase |-> "answered"]}
    /\ UNCHANGED <<now, steps, rows, issued, history>>

Owns(c) == lease[c.p] = c.token

\* A csfloat call still has csfloat_queue.finish to run; any other is over.
Settled(c) ==
    (calls \ {c}) \cup (IF c.p \in PerItem THEN {[c EXCEPT !.phase = "settling"]} ELSE {})

Release(p) ==
    /\ lease' = [lease EXCEPT ![p] = NoToken]
    /\ leaseUntil' = [leaseUntil EXCEPT ![p] = 0]

\* Book.publish of a new capture, and finish_request_without_quote.
Publish(c) ==
    /\ c.phase = "answered" /\ Owns(c)
    /\ Release(c.p)
    /\ failures' = [failures EXCEPT ![c.p] = 0]
    /\ calls' = Settled(c)
    /\ UNCHANGED <<now, steps, enabled, next, origin, issued, history>>

\* Book.publish of the capture it already holds: the lease goes, the failure
\* count stays.
PublishReused(c) ==
    /\ c.phase = "answered" /\ Owns(c)
    /\ Release(c.p)
    /\ calls' = Settled(c)
    /\ UNCHANGED <<now, steps, enabled, next, failures, origin, issued, history>>

\* Who a failed answer puts to rest: a 429 of one Skinport feed, them all.
Rested(c, status) ==
    IF status = "limited" /\ c.p \in Skinport THEN Skinport ELSE {c.p}

\* Book.fail: HTTP errors, transport errors and answers that do not qualify.
\* Each provider rests for its backoff and for what Retry-After asks; a 429
\* of one Skinport feed rests them all; 401 and 403 switch the provider off.
Fail(c, status, retry) ==
    \E t \in Readings :
        LET n == failures[c.p] + 1
            until == Larger(next[c.p], Larger(t + Backoff(c.p, n), t + retry))
        IN  /\ c.phase = "answered" /\ Owns(c)
            /\ Release(c.p)
            /\ failures' = [failures EXCEPT ![c.p] = n]
            /\ next' = [p \in Providers |->
                          IF p \in Rested(c, status) THEN Larger(next[p], until) ELSE next[p]]
            /\ origin' = IF status = "limited" /\ c.p \in Skinport
                         THEN Larger(origin, until) ELSE origin
            /\ enabled' = [enabled EXCEPT ![c.p] = @ /\ status # "denied"]
            /\ calls' = Settled(c)
            /\ demanded' = [p \in Providers |->
                              IF p = c.p \/ (status = "limited" /\ {p, c.p} \subseteq Skinport)
                              THEN Larger(demanded[p], t + retry)
                              ELSE demanded[p]]
            /\ UNCHANGED <<now, steps, issued, admitted, originAdmit>>

\* The lease was written off (or is another's): publish and fail both raise,
\* no row changes, and the result is thrown away.
LostOwnership(c) ==
    /\ c.phase = "answered" /\ ~Owns(c)
    /\ calls' = calls \ {c}
    /\ UNCHANGED <<now, steps, rows, issued, history>>

\* As if the endpoint's rate headers were not looked at.
HeaderDeadline_Ignored(p, t, rest) == t + Cadence[p]

\* csfloat_read.admission
HeaderDeadline(p, t, rest) == t + Larger(Cadence[p], rest)

\* csfloat_queue.finish: the endpoint's rate headers push the next request,
\* a terminal answer switches the provider off.
CsfloatFinish(c, terminal, rest) ==
    \E t \in Readings :
        /\ c.phase = "settling"
        /\ next' = [next EXCEPT ![c.p] = Larger(@, HeaderDeadline(c.p, t, rest))]
        /\ demanded' = [demanded EXCEPT ![c.p] = Larger(@, t + rest)]
        /\ enabled' = [enabled EXCEPT ![c.p] = @ /\ ~terminal]
        /\ calls' = calls \ {c}
        /\ UNCHANGED <<now, steps, lease, leaseUntil, failures, origin, issued,
                       admitted, originAdmit>>

-----------------------------------------------------------------------------
(* The operator, the coordinator, the process and the clock.               *)

\* Book.enable: pausing keeps leases, deadlines and saved prices.
Enable(p, on) ==
    /\ p \in Switchable
    /\ enabled' = [enabled EXCEPT ![p] = on]
    /\ UNCHANGED <<now, steps, next, lease, leaseUntil, failures, origin, calls,
                   issued, history>>

\* csfloat_queue.activate: refused while a request may be in flight.
Activate(p) ==
    \E t \in Readings :
        /\ p \in PerItem
        /\ lease[p] = NoToken \/ leaseUntil[p] <= t
        /\ enabled' = [enabled EXCEPT ![p] = TRUE]
        /\ next' = [next EXCEPT ![p] = Larger(@, t)]
        /\ UNCHANGED <<now, steps, lease, leaseUntil, failures, origin, calls,
                       issued, history>>

\* Pipeline._fetch finds no csfloat item worth a request.
NothingToAsk(p) ==
    \E t \in Readings :
        /\ p \in PerItem
        /\ next' = [next EXCEPT ![p] = PacedFrom(p, t)]
        /\ UNCHANGED <<now, steps, enabled, lease, leaseUntil, failures, origin,
                       calls, issued, history>>

\* The process dies and starts again.  What its children had on the wire
\* stays there until their own deadline; nobody reads the answer.
Crash ==
    /\ calls # {}
    /\ calls' = {[c EXCEPT !.phase = "orphan"] : c \in {d \in calls : OnWire(d)}}
    /\ UNCHANGED <<now, steps, rows, issued, history>>

OrphanEnds(c) ==
    /\ c.phase = "orphan"
    /\ calls' = calls \ {c}
    /\ UNCHANGED <<now, steps, rows, issued, history>>

\* A second passes; no transport outlives its deadline.
Tick ==
    /\ now < MaxTime
    /\ \A c \in calls : OnWire(c) => c.age < WireMax
    /\ now' = now + 1
    /\ calls' = {IF OnWire(c) THEN [c EXCEPT !.age = @ + 1] ELSE c : c \in calls}
    /\ UNCHANGED <<steps, rows, issued, history>>

\* The wall clock is set, forwards or backwards.
ClockStep ==
    /\ steps < MaxSteps
    /\ steps' = steps + 1
    /\ now' \in 0..MaxTime
    /\ UNCHANGED <<rows, calls, issued, history>>

Statuses == {"error", "limited", "denied"}

Next ==
    \/ \E p \in Providers :
          \/ ClaimRecover(p) \/ ClaimSharedDefer(p) \/ ClaimRequest(p)
          \/ Activate(p) \/ NothingToAsk(p)
          \/ \E on \in BOOLEAN : Enable(p, on)
    \/ \E c \in calls :
          \/ Answer(c) \/ Publish(c) \/ PublishReused(c) \/ LostOwnership(c)
          \/ OrphanEnds(c)
          \/ \E status \in Statuses, retry \in Retries : Fail(c, status, retry)
          \/ \E terminal \in BOOLEAN, rest \in Retries : CsfloatFinish(c, terminal, rest)
    \/ Crash \/ Tick \/ ClockStep

Spec == Init /\ [][Next]_vars

-----------------------------------------------------------------------------
\* A step that hands provider p to a new request.
Admits(p) == lease'[p] \notin {lease[p], NoToken}

\* quote_book.claim/fail: whatever happened in between -- answers, failures,
\* written-off leases, crashes, pauses, a clock set backwards -- two requests
\* to one provider are a cadence apart on the clock that admitted them, a
\* request never starts before a deadline the provider itself asked for, and
\* the Skinport feeds together keep the origin's gap and its 429 deadlines.
PacedAdmission ==
    [][\A p \in Providers : Admits(p) =>
          /\ admitted'[p] >= admitted[p] + Cadence[p]
          /\ admitted'[p] >= demanded[p]
          /\ p \in Skinport => admitted'[p] >= originAdmit + OriginGap]_vars

\* No operation, in any order and with any clock, brings a provider's next
\* request or the shared Skinport deadline forward: not even a recovery, an
\* operator's resume or activation, or a success.
DeadlinesOnlyRecede ==
    [][/\ \A p \in Providers : next'[p] >= next[p]
       /\ origin' >= origin]_vars

\* The lease is durable so that a restarted process does not put a second
\* request to a provider on the wire beside one its predecessor left there.
\* It is a promise about time, so it holds as long as nobody sets the clock.
NoOverlap ==
    steps = 0 => \A c, d \in calls :
        OnWire(c) /\ OnWire(d) /\ c.p = d.p => c.token = d.token

\* The facts that make admissions paced, and that the proofs rest on: a
\* provider's next time already covers its last admission and every deadline
\* asked of it, and the shared origin covers the last Skinport admission.
Covered ==
    /\ \A p \in Providers : next[p] >= admitted[p] + Cadence[p]
    /\ \A p \in Providers : next[p] >= demanded[p]
    /\ origin >= originAdmit + OriginGap

\* What NoOverlap rests on.  A token is handed out once, to one call.
TokensOnce ==
    /\ \A c \in calls : c.token <= issued
    /\ \A c, d \in calls : c.token = d.token => c = d

\* While the clock is not set, a call on the wire has its provider's lease,
\* which runs longer than the call may last; if it was written off, its
\* provider is paced until the call is over.
Outlasted(c) ==
    \/ lease[c.p] = c.token /\ leaseUntil[c.p] + LockWait >= now - c.age + Lease
    \/ lease[c.p] = NoToken /\ next[c.p] + LockWait >= now - c.age + Lease + Cadence[c.p]
LeasesOutlast == steps = 0 => \A c \in calls : OnWire(c) => Outlasted(c)

\* quote_book.fail/claim: every row is well formed and every deadline the
\* ledger stores covers what was admitted and what was asked, at all times.
GateInv == TypeOK /\ Covered

=============================================================================
