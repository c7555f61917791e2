--------------------------- MODULE RefreshRequest ---------------------------
(***************************************************************************)
(* A refresh a user asks for, from the click to its end.                   *)
(*                                                                         *)
(* price_features.py keeps one durable request: the sources it waits for   *)
(* and what each of them had done when it was made.  Nobody serves it: the *)
(* coordinator (price_pipeline.py) goes on launching one refresh worker    *)
(* whenever a source is due, the worker asks the sources one after another *)
(* as the request gate lets it, and each turn of the coordinator compares  *)
(* the provider rows with the request.                                     *)
(*                                                                         *)
(* The clock is left out: a source is due or rests.  Its rest is at least  *)
(* 60 seconds and the coordinator turns every few, so a source that rests  *)
(* is seen by a turn before it is due again.  The sources of Skinport share *)
(* an origin: a claim of one closes it to all for 45 seconds, a 429 for as *)
(* long as that source backs off.                                          *)
(***************************************************************************)
EXTENDS Integers, FiniteSetsExt

CONSTANTS
    Order,        \* the sources, in the order the worker asks them
    Reference,    \* skinport_sales: a request waits for it only when useful
    PerItem,      \* csfloat: asked only when some item is worth a request
    Skinport,     \* the sources that share the Skinport origin
    MaxFaults     \* bound: crashes and failed jobs

Sources == {Order[i] : i \in DOMAIN Order}

ASSUME RefreshAssumption ==
    /\ DOMAIN Order \subseteq Nat
    /\ Reference \subseteq Sources /\ PerItem \subseteq Sources /\ Skinport \subseteq Sources
    /\ MaxFaults \in Nat

VARIABLES
    enabled,      \* provider.enabled
    turn,         \* per source: "resting", "seen" by a coordinator turn, "due";
                  \* in Skinport's gap: "claimed" it; "barred" until the origin
                  \* opens, "overdue" once a gap that put it off is over
    origin,       \* skinport_origin_next: "open", in the "gap" after a claim,
                  \* "refused" by a 429, in "backoff" once a turn has seen that
    lease,        \* per source: "none", "held" by the worker, "lost", "expired"
    error,        \* provider.last_error is set
    ever,         \* provider.last_received_us is set (asked of Reference only)
    tried,        \* provider.attempts is past the request's baseline
    newer,        \* provider.last_received_us is past the request's baseline
    after,        \* ... and not before the request was made
    request,      \* the request's state
    source,       \* the state of each source in it, or "absent"
    gap,          \* csfloat_queue.next_item has something to ask
    worker,       \* the sources the worker still has to ask
    call,         \* its request: "none", "wire", "answered", "early"; "off": no worker
    faults

rows == <<enabled, turn, origin, lease, error, ever, tried, newer, after>>
job == <<worker, call>>
vars == <<rows, request, source, gap, job, faults>>

Pending == {"queued", "fetching", "waiting"}
Ended == {"completed", "partial", "failed"}
Terminal == {"completed", "failed"}
Turns == {"resting", "seen", "due", "claimed", "barred", "overdue"}
Origins == {"open", "gap", "refused", "backoff"}

TypeOK ==
    /\ enabled \in [Sources -> BOOLEAN]
    /\ turn \in [Sources -> Turns] /\ origin \in Origins
    /\ lease \in [Sources -> {"none", "held", "lost", "expired"}]
    /\ \A f \in {error, ever, tried, newer, after} : f \in [Sources -> BOOLEAN]
    /\ request \in Pending \cup Ended \cup {"none"}
    /\ source \in [Sources -> {"absent", "queued", "waiting", "fetching"} \cup Terminal]
    /\ gap \in BOOLEAN
    /\ worker \subseteq Sources
    /\ call \in {"off", "none", "wire", "answered", "early"}
    /\ faults \in 0..MaxFaults

All(value) == [p \in Sources |-> value]

\* A bulk source may have been denied (401, 403) at its first attempt.
Init ==
    /\ enabled \in {f \in [Sources -> BOOLEAN] : \A p \in PerItem : ~f[p]}
    /\ turn = All("due") /\ origin = "open" /\ lease = All("none")
    /\ error = [p \in Sources |-> p \notin PerItem /\ ~enabled[p]] /\ ever = All(FALSE)
    /\ tried = All(FALSE) /\ newer = All(FALSE) /\ after = All(FALSE)
    /\ request = "none" /\ source = All("absent")
    /\ gap \in (IF PerItem = {} THEN {FALSE} ELSE BOOLEAN)
    /\ worker = {} /\ call = "off"
    /\ faults = 0

-----------------------------------------------------------------------------
(* The request.                                                            *)

Due(p) == turn[p] \in {"due", "overdue"}

WaitsFor(p) ==
    enabled[p] /\ (p \in Reference => ~ever[p] \/ Due(p))

\* Features.enqueue: one request at a time; a second click gets the same one.
\* An answer received before the request and not yet published is early.
Enqueue ==
    /\ request \notin Pending
    /\ request' = "queued"
    /\ source' = [p \in Sources |-> IF WaitsFor(p) THEN "queued" ELSE "absent"]
    /\ tried' = All(FALSE) /\ newer' = All(FALSE) /\ after' = All(FALSE)
    /\ call' = IF call = "answered" THEN "early" ELSE call
    /\ UNCHANGED <<enabled, turn, origin, lease, error, ever, gap, worker, faults>>

\* As if any capture newer than the last one would do.
Captured_AnyNewer(p) == newer[p]

Captured(p) == newer[p] /\ after[p]

\* As if a source that was switched off were still waited for.
GivenUp_OnlyErrors(p) == tried[p] /\ lease[p] = "none" /\ error[p]

GivenUp(p) == ~enabled[p] \/ (tried[p] /\ lease[p] = "none" /\ error[p])

Reconciled(p) ==
    IF source[p] \in {"absent"} \cup Terminal THEN source[p]
    ELSE IF Captured(p) THEN "completed"
    ELSE IF GivenUp(p) THEN "failed"
    ELSE IF lease[p] # "none" THEN "fetching" ELSE "waiting"

Outcome(states) ==
    IF states \subseteq Terminal
    THEN IF states \subseteq {"completed"} THEN "completed"
         ELSE IF "completed" \in states THEN "partial" ELSE "failed"
    ELSE IF "fetching" \in states THEN "fetching" ELSE "waiting"

\* Features.synchronize, once every turn of the coordinator.
Synchronize ==
    /\ IF request \in Pending
       THEN /\ source' = [p \in Sources |-> Reconciled(p)]
            /\ request' = Outcome({source'[p] : p \in Sources} \ {"absent"})
       ELSE UNCHANGED <<source, request>>
    /\ turn' = [p \in Sources |-> IF turn[p] = "resting" /\ lease[p] = "none"
                                  THEN "seen" ELSE turn[p]]
    /\ origin' = IF origin = "refused" THEN "backoff" ELSE origin
    /\ UNCHANGED <<enabled, lease, error, ever, tried, newer, after, gap, job, faults>>

-----------------------------------------------------------------------------
(* The worker.                                                             *)

\* Pipeline._loop and _launch; the worker asks the sources enabled now.
Launch ==
    /\ call = "off"
    /\ \E p \in Sources : enabled[p] /\ Due(p)
    /\ worker' = {p \in Sources : enabled[p]} /\ call' = "none"
    /\ UNCHANGED <<rows, request, source, gap, faults>>

Asking == call = "none" /\ worker # {}
Asked == Order[Min({i \in DOMAIN Order : Order[i] \in worker})]
Rests(p) == turn' = [turn EXCEPT ![p] = "resting"]
Claims(p) == turn' = [turn EXCEPT ![p] = IF p \in Skinport THEN "claimed" ELSE "resting"]

\* Book.claim admits the request.
Ask ==
    /\ Asking
    /\ Asked \in PerItem => gap
    /\ enabled[Asked] /\ lease[Asked] = "none" /\ Due(Asked)
    /\ Asked \in Skinport => origin = "open"
    /\ origin' = IF Asked \in Skinport THEN "gap" ELSE origin
    /\ lease' = [lease EXCEPT ![Asked] = "held"]
    /\ tried' = [tried EXCEPT ![Asked] = TRUE]
    /\ Claims(Asked)
    /\ call' = "wire"
    /\ UNCHANGED <<enabled, error, ever, newer, after, request, source, gap, worker, faults>>

\* Book.claim writes a lost lease off; the source rests for a cadence.
Recover ==
    /\ Asking
    /\ Asked \in PerItem => gap
    /\ enabled[Asked] /\ lease[Asked] = "expired"
    /\ lease' = [lease EXCEPT ![Asked] = "none"]
    /\ error' = [error EXCEPT ![Asked] = TRUE]
    /\ Rests(Asked)
    /\ worker' = worker \ {Asked}
    /\ UNCHANGED <<enabled, origin, ever, tried, newer, after, request, source, gap, call, faults>>

\* The source is off, or another's lease or its pacing defers it.
PassBy ==
    /\ Asking
    /\ Asked \in PerItem => gap
    /\ \/ ~enabled[Asked] \/ lease[Asked] = "lost"
       \/ lease[Asked] = "none" /\ ~Due(Asked)
    /\ worker' = worker \ {Asked}
    /\ UNCHANGED <<rows, request, source, gap, call, faults>>

\* The shared origin is closed: the source is put off until it opens.
Defer ==
    /\ Asking
    /\ enabled[Asked] /\ lease[Asked] = "none" /\ Due(Asked)
    /\ Asked \in Skinport /\ origin # "open"
    /\ turn' = [turn EXCEPT ![Asked] = "barred"]
    /\ worker' = worker \ {Asked}
    /\ UNCHANGED <<enabled, origin, lease, error, ever, tried, newer, after, request,
                   source, gap, call, faults>>

\* Pipeline._fetch: every watched item is priced or was asked for recently,
\* so csfloat rests without a request, and without a claim.
NothingToAsk ==
    /\ Asking
    /\ Asked \in PerItem /\ ~gap
    /\ Rests(Asked)
    /\ worker' = worker \ {Asked}
    /\ UNCHANGED <<enabled, origin, lease, error, ever, tried, newer, after, request,
                   source, gap, call, faults>>

\* The transport returns; the answer carries the time it was received.
Answer ==
    /\ call = "wire"
    /\ call' = "answered"
    /\ UNCHANGED <<rows, request, source, gap, worker, faults>>

Settle == call' = "none" /\ worker' = worker \ {Asked} /\ lease' = [lease EXCEPT ![Asked] = "none"]

\* Book.publish / publish_sales
Publish ==
    /\ call \in {"answered", "early"}
    /\ error' = [error EXCEPT ![Asked] = FALSE]
    /\ ever' = [ever EXCEPT ![Asked] = Asked \in Reference]
    /\ newer' = [newer EXCEPT ![Asked] = TRUE]
    /\ after' = [after EXCEPT ![Asked] = call = "answered"]
    /\ Settle
    /\ UNCHANGED <<enabled, turn, origin, tried, request, source, gap, faults>>

\* A 429 of a Skinport source closes the origin until that source is due again,
\* and puts off its siblings until then; one may rest longer.
Shut ==
    /\ origin' = "refused"
    /\ \E longer \in SUBSET {q \in Skinport \ {Asked} : turn[q] \in {"resting", "seen"}} :
         turn' = [q \in Sources |-> IF q \in Skinport \ longer THEN "barred" ELSE turn[q]]

\* Book.fail; 401 and 403 switch the source off.
Fail(status) ==
    /\ call \in {"answered", "early"}
    /\ error' = [error EXCEPT ![Asked] = TRUE]
    /\ enabled' = [enabled EXCEPT ![Asked] = status # "denied"]
    /\ IF status = "limited" /\ Asked \in Skinport THEN Shut ELSE UNCHANGED <<turn, origin>>
    /\ Settle
    /\ UNCHANGED <<ever, tried, newer, after, request, source, gap, faults>>

\* The worker has been through its sources.
Retire ==
    /\ call = "none" /\ worker = {}
    /\ call' = "off"
    /\ UNCHANGED <<rows, request, source, gap, worker, faults>>

-----------------------------------------------------------------------------
(* Surroundings.                                                           *)

\* The process dies, or an exception ends the job (the ledger busy, the
\* capacity guard): the sources left are not asked and a lease stays behind.
\* While the process is down for long, all rests end.
Fault ==
    /\ faults < MaxFaults
    /\ call # "off"
    /\ faults' = faults + 1
    /\ worker' = {} /\ call' = "off"
    /\ lease' = [p \in Sources |-> IF lease[p] = "held" THEN "lost" ELSE lease[p]]
    /\ \/ turn' = All("due") /\ origin' = "open"
       \/ UNCHANGED <<turn, origin>>
    /\ UNCHANGED <<enabled, error, ever, tried, newer, after, request, source, gap>>

LeaseExpires(p) ==
    /\ lease[p] = "lost"
    /\ lease' = [lease EXCEPT ![p] = "expired"]
    /\ UNCHANGED <<enabled, turn, origin, error, ever, tried, newer, after, request,
                   source, gap, job, faults>>

\* A rest after a claim is of five minutes at least, the gap after it of 45
\* seconds: a source that the gap put off is asked before the rest ends.
Precedes(q) == enabled[q] /\ (turn[q] = "overdue" \/ (turn[q] = "barred" /\ origin = "gap"))

\* A rest ends.  One that a lost lease covers ends whenever time passes.
BecomesDue(p) ==
    /\ \/ turn[p] = "seen" /\ (p \in Skinport => \A q \in Skinport : ~Precedes(q))
       \/ turn[p] = "resting" /\ lease[p] \in {"lost", "expired"}
    /\ turn' = [turn EXCEPT ![p] = "due"]
    /\ UNCHANGED <<enabled, origin, lease, error, ever, tried, newer, after, request,
                   source, gap, job, faults>>

\* The origin's deadline passes, and with it the rest of those it put off.
OriginOpens ==
    /\ origin \in {"gap", "backoff"}
    /\ origin' = "open"
    /\ turn' = [p \in Sources |-> CASE turn[p] = "claimed" -> "resting"
                                    [] turn[p] = "barred" -> IF origin = "gap" THEN "overdue"
                                                                              ELSE "due"
                                    [] OTHER -> turn[p]]
    /\ UNCHANGED <<enabled, lease, error, ever, tried, newer, after, request,
                   source, gap, job, faults>>

\* csfloat_queue.activate: an explicit operator step.
Activate(p) ==
    /\ p \in PerItem
    /\ lease[p] \in {"none", "expired"}
    /\ enabled' = [enabled EXCEPT ![p] = TRUE]
    /\ UNCHANGED <<turn, origin, lease, error, ever, tried, newer, after, request,
                   source, gap, job, faults>>

\* Quotes expire, holdings change, a user names an item: csfloat has work, or
\* has none.
WorkChanges ==
    /\ PerItem # {}
    /\ gap' = ~gap
    /\ UNCHANGED <<rows, request, source, job, faults>>

Statuses == {"error", "denied", "limited"}

Next ==
    \/ Enqueue \/ Synchronize
    \/ Launch \/ Ask \/ Recover \/ PassBy \/ Defer \/ NothingToAsk
    \/ Answer \/ Publish \/ (\E status \in Statuses : Fail(status)) \/ Retire
    \/ Fault \/ WorkChanges \/ OriginOpens
    \/ \E p \in Sources : LeaseExpires(p) \/ BecomesDue(p) \/ Activate(p)

Spec == Init /\ [][Next]_vars

\* What the code's threads and the passage of time do on their own: the
\* coordinator turns, the worker goes through its list, a transport returns,
\* leases and rests run out.  Users, faults and items are free not to.
WorkerStep ==
    \/ Ask \/ Recover \/ PassBy \/ Defer \/ NothingToAsk \/ Answer \/ Publish
    \/ (\E status \in Statuses : Fail(status)) \/ Retire

Fairness ==
    /\ WF_vars(Synchronize) /\ WF_vars(Launch) /\ WF_vars(WorkerStep) /\ WF_vars(OriginOpens)
    /\ WF_vars(\E p \in Sources : LeaseExpires(p))
    /\ \A p \in Sources : WF_vars(BecomesDue(p))

FairSpec == Spec /\ Fairness

-----------------------------------------------------------------------------
\* price_features.synchronize: what a request says of a source is true.  A
\* completed source published an answer received after the click -- an answer
\* that was already in hand does not count -- and a request has ended only
\* when all its sources have.
RequestHonest ==
    /\ \A p \in Sources : source[p] = "completed" => newer[p] /\ after[p]
    /\ request \in Ended => \A p \in Sources : source[p] \in Terminal \cup {"absent"}
    /\ request = "completed" => \A p \in Sources : source[p] # "failed"

\* The worker owns at most one lease, the one of the source it is asking.
OneLease ==
    \A p \in Sources : lease[p] = "held" <=> call \notin {"off", "none"} /\ p = Asked

\* price_pipeline/price_features: at most one request of the worker is out,
\* and what the saved request tells the user of its sources is true.
RefreshInv == TypeOK /\ RequestHonest /\ OneLease

Unresolved == {"queued", "waiting", "fetching"}

\* Book.claim and fail: each time the origin opens, another source of Skinport
\* is asked first and is told 429.
Starved(p) == p \in Skinport /\ []<><<Fail("limited") /\ Asked \in Skinport \ {p}>>_vars

\* synchronize with _loop, _refresh, claim, publish and fail: every bulk
\* source of a refresh ends, whatever it answers, whoever crashes, and
\* whatever was under way when the refresh was asked for; unless, for a source
\* of Skinport, the 429s of the other one never end.
BulkSourcesEnd ==
    \A p \in Sources \ PerItem :
        (source[p] \in Unresolved ~> source[p] \in Terminal \cup {"absent"}) \/ Starved(p)

\* "Queued within provider limits", the dashboard says of the sources of a
\* refresh that has not ended: then it ends once those limits let it.
EveryRequestEnds == request \in Pending ~> request \in Ended

BulkOnly == request \in Pending /\ \A p \in PerItem : source[p] = "absent"

\* A refresh that waits for bulk sources only ends (synchronize), unless 429s of
\* one source of Skinport keep another from being asked for ever.
BulkRequestEnds == (BulkOnly ~> request \in Ended) \/ \E p \in Skinport : Starved(p)
=============================================================================
