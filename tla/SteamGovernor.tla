---------------------------- MODULE SteamGovernor ----------------------------
(***************************************************************************)
(* The persisted admission of Steam requests (steam_request_governor.py).  *)
(* It is paused unless an operator grants one to three permits; a request  *)
(* is reserved, marked as started just before it goes on the wire, and     *)
(* finished with what came back.  A reservation is never stolen: one whose *)
(* holder died blocks everything until an operator looks at it.            *)
(*                                                                         *)
(* Every operation is one short transaction over the control record and    *)
(* one request's entry, and is given a clock reading taken before it: any  *)
(* reading, in any order, is possible.  Holders may die, call again what   *)
(* they already did, or call long after their reservation ran out.         *)
(***************************************************************************)
EXTENDS Integers, FiniteSets

CONSTANTS
    Requests,         \* digests of canonical requests
    CacheTtl,         \* 600 or 21600 by purpose: rest after a success
    MinInterval,      \* 60: MINIMUM_INTERVAL_SECONDS
    MaxInterval,      \* 31536000: MAXIMUM_INTERVAL_SECONDS
    OperatorIntervals,\* the minimum intervals an operator may ask for
    Lease,            \* 120: LEASE_SECONDS
    LimitedRest,      \* 3600: rest after a 429 that names no time
    MaxPermits,       \* 3
    Retries,          \* what answers ask for, in seconds from now
    MaxTime, MaxTokens   \* bounds: clock readings, reservations

ASSUME GovernorAssumption ==
    /\ CacheTtl \in [Requests -> Nat]
    /\ MinInterval \in Nat \ {0} /\ MaxInterval \in Nat /\ MinInterval <= MaxInterval
    /\ OperatorIntervals \subseteq MinInterval..MaxInterval
    /\ Lease \in Nat /\ LimitedRest \in Nat /\ MaxPermits \in Nat
    /\ Retries \subseteq Nat
    /\ MaxTime \in Nat /\ MaxTokens \in Nat

VARIABLES
    present,      \* the control record exists
    paused, reason, remaining, interval, nextAllowed, lastClock,
    lease,        \* the one reservation, or NoLease
    entry,        \* per request: its own deadlines, token and clock readings
    inspected,    \* the operator's copy of the record's revision is current
    held,         \* tokens callers hold, and call with
    issued,       \* tokens handed out (uuid4: never the same twice)
    \* History.
    permits,      \* what the last grant allowed
    attempts,     \* requests started since
    lastStart,    \* clock reading of the last start
    demanded      \* latest time an answer asked to wait for

control == <<present, paused, reason, remaining, interval, nextAllowed, lastClock>>
history == <<permits, attempts, lastStart, demanded>>
vars == <<control, lease, entry, inspected, held, issued, history>>

Readings == 0..MaxTime
Tokens == 1..MaxTokens
NoToken == 0
Never == -1          \* a reading that was not taken
NoHeader == -1       \* an answer without Retry-After
NoLease == [token |-> NoToken]
Leases == [token : Tokens, key : Requests, reservedAt : Nat, leaseUntil : Nat,
           startedAt : Nat \cup {Never}]
Reasons == {"operator_paused", "validation", "validation_budget_exhausted"}
Entries == [nextAllowed : Nat, cacheUntil : Nat, token : Tokens \cup {NoToken},
            latest : Nat]

TypeOK ==
    /\ present \in BOOLEAN /\ paused \in BOOLEAN /\ reason \in Reasons
    /\ remaining \in 0..MaxPermits
    /\ interval \in MinInterval..MaxInterval
    /\ nextAllowed \in Nat /\ lastClock \in Nat
    /\ lease \in Leases \cup {NoLease}
    /\ entry \in [Requests -> Entries]
    /\ inspected \in BOOLEAN
    /\ held \subseteq Tokens /\ issued \in 0..MaxTokens
    /\ permits \in 0..MaxPermits /\ attempts \in Nat
    /\ lastStart \in Nat \cup {-MinInterval} /\ demanded \in Nat

Larger(a, b) == IF a < b THEN b ELSE a
Smaller(a, b) == IF a < b THEN a ELSE b

\* No record is as good as a paused one without permits whose clock is zero;
\* the first control action writes it.
Init ==
    /\ present = FALSE /\ paused = TRUE /\ reason = "operator_paused"
    /\ remaining = 0 /\ interval = MinInterval /\ nextAllowed = 0 /\ lastClock = 0
    /\ lease = NoLease
    /\ entry = [k \in Requests |->
                  [nextAllowed |-> 0, cacheUntil |-> 0, token |-> NoToken, latest |-> 0]]
    /\ inspected = FALSE
    /\ held = {} /\ issued = 0
    /\ permits = 0 /\ attempts = 0 /\ lastStart = -MinInterval /\ demanded = 0

-----------------------------------------------------------------------------
Due(k, t) == t >= nextAllowed /\ t >= entry[k].nextAllowed /\ t >= entry[k].cacheUntil

\* As if a reservation that ran out could be taken over.
Free_Stolen(t) == lease # NoLease => t >= lease.leaseUntil

Free(t) == lease = NoLease

\* RequestGovernor.reserve.  The entry's readings are compared with t too,
\* besides the record's last clock.
Reserve(k, t) ==
    /\ present /\ t >= lastClock
    /\ Free(t)
    /\ ~paused /\ remaining > 0
    /\ entry[k].token = NoToken
    /\ entry[k].latest <= t
    /\ Due(k, t)
    /\ issued < MaxTokens
    /\ issued' = issued + 1
    /\ held' = held \cup {issued + 1}
    /\ nextAllowed' = Larger(nextAllowed, t + interval)
    /\ remaining' = remaining - 1
    /\ paused' = (remaining = 1)
    /\ reason' = IF remaining = 1 THEN "validation_budget_exhausted" ELSE reason
    /\ lease' = [token |-> issued + 1, key |-> k, reservedAt |-> t,
                 leaseUntil |-> t + Lease, startedAt |-> Never]
    /\ entry' = [entry EXCEPT ![k].token = issued + 1, ![k].latest = t,
                              ![k].nextAllowed = Larger(@, t + interval)]
    /\ lastClock' = t
    /\ inspected' = FALSE
    /\ UNCHANGED <<present, interval, history>>

\* RequestGovernor._claim: the caller's token is the reservation's.
Holds(token) == token \in held /\ lease.token = token

\* A pause that came after the reservation stops it; the pause that its own
\* last permit caused does not.
MayStart(t) ==
    /\ t >= lastClock
    /\ lease.startedAt = Never
    /\ t < lease.leaseUntil
    /\ paused => reason = "validation_budget_exhausted" /\ remaining = 0

\* RequestGovernor.mark_started
MarkStarted(token, t) ==
    /\ Holds(token)
    /\ MayStart(t)
    /\ lease' = [lease EXCEPT !.startedAt = t]
    /\ nextAllowed' = Larger(nextAllowed, t + interval)
    /\ entry' = [entry EXCEPT ![lease.key].latest = t,
                              ![lease.key].nextAllowed = Larger(@, nextAllowed')]
    /\ lastClock' = t
    /\ inspected' = FALSE
    /\ attempts' = attempts + 1
    /\ lastStart' = t
    /\ UNCHANGED <<present, paused, reason, remaining, interval, held, issued,
                   permits, demanded>>

\* The reservation closes, and its entry with it.
Close(t) ==
    /\ lease' = NoLease
    /\ lastClock' = t
    /\ inspected' = FALSE
    /\ UNCHANGED <<present, paused, reason, remaining, held, issued, permits, attempts, lastStart>>

\* RequestGovernor.finish of a request that never went on the wire.
Cancel(token, t) ==
    /\ Holds(token)
    /\ t >= lastClock
    /\ lease.startedAt = Never
    /\ entry' = [entry EXCEPT ![lease.key].token = NoToken, ![lease.key].latest = t,
                              ![lease.key].nextAllowed = Larger(@, nextAllowed)]
    /\ Close(t)
    /\ UNCHANGED <<interval, nextAllowed, demanded>>

Outcomes == {"success", "http_error", "rate_limited", "transient"}

\* As if the answer's own deadline were forgotten.
Wait_Forgotten(outcome, retry, t) == 0

\* How long the answer asks everybody to wait: its header, or an hour after a
\* 429 that names no time.
Wait(outcome, retry, t) ==
    IF retry # NoHeader THEN t + retry
    ELSE IF outcome = "rate_limited" THEN t + LimitedRest ELSE 0

\* RequestGovernor.finish of a started request.
Finish(token, t, outcome, retry) ==
    LET backsOff == outcome \in {"rate_limited", "transient"}
        wider == IF backsOff THEN Smaller(MaxInterval, interval * 2) ELSE interval
        rested == IF backsOff THEN Larger(nextAllowed, t + wider) ELSE nextAllowed
    IN  /\ Holds(token)
        /\ t >= lastClock
        /\ lease.startedAt # Never
        /\ interval' = wider
        /\ nextAllowed' = Larger(Larger(rested, entry[lease.key].nextAllowed),
                                 Wait(outcome, retry, t))
        /\ entry' = [entry EXCEPT
              ![lease.key].token = NoToken, ![lease.key].latest = t,
              ![lease.key].cacheUntil =
                 IF outcome = "success" THEN Larger(@, t + CacheTtl[lease.key]) ELSE @,
              ![lease.key].nextAllowed = Larger(@, nextAllowed')]
        /\ demanded' = Larger(demanded, IF retry # NoHeader THEN t + retry
                                        ELSE IF outcome = "rate_limited"
                                             THEN t + LimitedRest ELSE 0)
        /\ Close(t)

-----------------------------------------------------------------------------
\* RequestGovernor.control("pause") or a validation of zero requests: it may
\* ask for a wider interval, and is obeyed whatever the clock says.
Pause(t) ==
    /\ present' = TRUE
    /\ paused' = TRUE
    /\ reason' = "operator_paused"
    /\ \/ UNCHANGED <<interval, nextAllowed>>
       \/ \E least \in OperatorIntervals :
             /\ least > interval
             /\ interval' = least
             /\ nextAllowed' = Larger(nextAllowed, t + least)
    /\ lastClock' = Larger(t, lastClock)
    /\ inspected' = FALSE
    /\ UNCHANGED <<remaining, lease, entry, held, issued, history>>

\* RequestGovernor.status: the operator learns the record's revision.
Inspect ==
    /\ present
    /\ inspected' = TRUE
    /\ UNCHANGED <<control, lease, entry, held, issued, history>>

\* As if a validation could be granted beside an open reservation.
MayGrant_BesideLease(t) == present /\ inspected /\ t >= lastClock /\ t >= nextAllowed

MayGrant(t) ==
    /\ present /\ inspected
    /\ t >= lastClock
    /\ lease = NoLease
    /\ t >= nextAllowed

\* RequestGovernor.control("start_validation")
StartValidation(t, n) ==
    /\ MayGrant(t)
    /\ paused' = FALSE
    /\ reason' = "validation"
    /\ remaining' = n
    /\ interval' \in {interval} \cup {Larger(interval, least) : least \in OperatorIntervals}
    /\ lastClock' = t
    /\ inspected' = FALSE
    /\ permits' = n
    /\ attempts' = 0
    /\ UNCHANGED <<present, nextAllowed, lease, entry, held, issued, lastStart, demanded>>

\* The process dies: nobody holds a token any more, the reservation stays.
Crash ==
    /\ held # {}
    /\ held' = {}
    /\ inspected' = FALSE
    /\ UNCHANGED <<control, lease, entry, issued, history>>

Next ==
    \/ \E t \in Readings :
          \/ \E k \in Requests : Reserve(k, t)
          \/ \E token \in held :
                \/ MarkStarted(token, t) \/ Cancel(token, t)
                \/ \E outcome \in Outcomes, retry \in Retries \cup {NoHeader} :
                      Finish(token, t, outcome, retry)
          \/ Pause(t)
          \/ \E n \in 1..MaxPermits : StartValidation(t, n)
    \/ Inspect \/ Crash

Spec == Init /\ [][Next]_vars

-----------------------------------------------------------------------------
\* The record and the request entries agree on who has a reservation, and no
\* entry is ahead of the record's clock: the states reserve refuses as an
\* "orphan per-request reservation" or an entry's clock rollback never arise.
EntriesMatchLease ==
    /\ \A k \in Requests :
          entry[k].token = (IF lease # NoLease /\ lease.key = k THEN lease.token ELSE NoToken)
    /\ \A k \in Requests : entry[k].latest <= lastClock
    /\ lease # NoLease =>
          /\ lease.reservedAt <= lastClock /\ lease.startedAt <= lastClock
          /\ lease.startedAt # Never => lease.startedAt >= lease.reservedAt

\* _check_state: an open gate has permits; and the requests put on the wire
\* never exceed what the operator granted, reservations in hand included.
PermitsKept ==
    /\ ~paused => remaining > 0 /\ reason = "validation"
    /\ attempts + remaining
          + (IF lease # NoLease /\ lease.startedAt = Never THEN 1 ELSE 0) <= permits

\* The deadline on record covers the last start and every wait asked for.
DeadlineCovers ==
    /\ nextAllowed >= lastStart + MinInterval
    /\ nextAllowed >= demanded
    /\ lease # NoLease /\ lease.startedAt = Never =>
          /\ lease.reservedAt >= lastStart + MinInterval
          /\ lease.reservedAt >= demanded

\* steam_request_governor: the persisted record is one that _check_state
\* accepts, it agrees with the entries, and permits and deadlines are kept.
GovernorInv == TypeOK /\ EntriesMatchLease /\ PermitsKept /\ DeadlineCovers

\* mark_started: between any two requests put on the wire lies the minimum
\* interval, and none goes out before a time that an answer asked to wait
\* for, on the readings given -- over crashes, pauses, retried calls and
\* clocks that go backwards.
StartsPaced ==
    [][attempts' > attempts => lastStart' >= lastStart + MinInterval /\ lastStart' >= demanded]_vars

\* "no lease stealing": a reservation goes away only when a caller that still
\* holds its token closes it; no operator action, no expiry and no restart
\* makes room for another beside it.
NeverStolen ==
    [][lease # NoLease /\ lease'.token # lease.token
          => lease' = NoLease /\ lease.token \in held]_vars
=============================================================================
