----------------------------- MODULE CashLane ------------------------------
(***************************************************************************)
(* Acquisition of the research basis' cash prices: CashPrices and          *)
(* CompactCash (cash_prices.py, compact_cash_service.py) admit one Skinport*)
(* request at a time through a saved control record, a worker thread       *)
(* fetches and publishes, and CashCadence (cash_cadence.py) repeats the    *)
(* latest saved portfolio.  A restart may leave the old process' worker    *)
(* running to its end.                                                     *)
(*                                                                         *)
(* Times are what is left of a deadline, or the age of a start.  What a    *)
(* capture publishes is CashFacts'.                                        *)
(***************************************************************************)
EXTENDS Integers, FiniteSets, FiniteSetsExt

CONSTANTS
    Folios, Versions,     \* portfolios; fingerprints of what one holds
    Owners,               \* service instances
    Ids,                  \* job identifiers
    None,
    Admission, Uncertain, \* five minutes, an hour; the cadence's interval is Admission
    RetryAfter,           \* deadlines of a 429
    MaxMoves              \* bound of operator moves, restarts and failures

CashAssumption ==
    /\ {Admission, Uncertain, MaxMoves} \subseteq Nat /\ RetryAfter \subseteq Nat
    /\ 0 < Admission /\ Admission <= Uncertain
    /\ \A r \in RetryAfter : r >= Admission
    /\ Owners \subseteq Nat /\ Ids \subseteq Nat /\ None \notin Folios \cup Ids \cup Owners
    /\ IsFiniteSet(Owners) /\ Owners # {} /\ IsFiniteSet(RetryAfter) /\ Versions # {}
    \* A new identifier is never one that is still in use.
    /\ IsFiniteSet(Ids) => Cardinality(Ids) > Cardinality(Owners) + 3

VARIABLES
    control,              \* nextAllowedAt, owner and job of the saved control record
    fetched,              \* lastSuccessfulFetch: the job it was for
    self,                 \* the running service instance
    worker,               \* each instance's worker thread
    cadence,              \* CashCadence: its step, the job it read, its own next attempt
    holdings,             \* what each portfolio holds now
    quiet,                \* history: how long the last request, answer or loss demands silence
    moves

vars == <<control, fetched, self, worker, cadence, holdings, quiet, moves>>

Active == {"queued", "fetching"}
Statuses == Active \cup {"completed", "paused", "failed", "interrupted"}
NoJob == [id |-> None, folio |-> None, version |-> None, status |-> "none", age |-> Uncertain,
          received |-> FALSE]
Idle == [pc |-> "off", id |-> None, folio |-> None, version |-> None, age |-> 0]
Left == 0 .. Max({Uncertain} \cup RetryAfter)

TypeOK ==
    /\ control.next \in Left /\ control.owner \in Owners \cup {None}
    /\ control.job = NoJob \/ /\ control.job.id \in Ids /\ control.job.folio \in Folios
                              /\ control.job.version \in Versions /\ control.job.status \in Statuses
                              /\ control.job.age \in 0 .. Uncertain /\ control.job.received \in BOOLEAN
    /\ fetched \in Ids \cup {None} /\ self \in Owners
    /\ \A o \in Owners : worker[o].pc \in {"off", "queued", "wire", "publish"}
    /\ cadence.pc \in {"wait", "act"} /\ cadence.id \in Ids \cup {None} /\ cadence.next \in 0 .. Admission
    /\ holdings \in [Folios -> Versions] /\ quiet \in Left /\ moves \in 0 .. MaxMoves

Init ==
    /\ control = [next |-> 0, owner |-> None, job |-> NoJob]
    /\ fetched = None /\ self = Min(Owners)
    /\ worker = [o \in Owners |-> Idle]
    /\ cadence = [pc |-> "wait", id |-> None, folio |-> None, next |-> 0]
    /\ holdings \in [Folios -> {CHOOSE v \in Versions : TRUE}]
    /\ quiet = 0 /\ moves = 0

Running == worker[self].pc # "off"
Costs == moves < MaxMoves /\ moves' = moves + 1
Doubt(age) == Max({Uncertain - age, 0})

\* An active job nobody here works on was interrupted: its request may still be on its way.
Interrupted_Mine == control.job.status \in Active /\ control.owner = self /\ ~Running
Interrupted == control.job.status \in Active /\ (control.owner # self \/ ~Running)
EffectiveNext == IF Interrupted THEN Max({control.next, Doubt(control.job.age)}) ELSE control.next
EffectiveStatus_Saved == control.job.status
EffectiveStatus == IF Interrupted THEN "interrupted" ELSE control.job.status

(* CashPrices.action: admission, in one transaction. *)

SameScope(folio) == control.job.folio = folio /\ control.job.version = holdings[folio]
FreshId == Min(Ids \ ({control.job.id, cadence.id, fetched} \cup {worker[o].id : o \in Owners}))

Admitted(folio, id) ==
    /\ ~Running /\ EffectiveNext = 0
    /\ control' = [next |-> Admission, owner |-> self,
                   job |-> [id |-> id, folio |-> folio, version |-> holdings[folio],
                            status |-> "queued", age |-> 0, received |-> FALSE]]
    /\ worker' = [worker EXCEPT ![self] =
                    [pc |-> "queued", id |-> id, folio |-> folio, version |-> holdings[folio], age |-> 0]]
    /\ quiet' = Max({quiet, Admission})
    /\ UNCHANGED <<fetched, self, holdings>>

Start(folio) == Costs /\ Admitted(folio, FreshId) /\ UNCHANGED cadence

\* Only the saved job of unchanged holdings, and not once it completed.
Resume ==
    /\ Costs /\ control.job # NoJob /\ control.job.status # "completed"
    /\ SameScope(control.job.folio)
    /\ Admitted(control.job.folio, control.job.id)
    /\ UNCHANGED cadence

\* The thread cannot be started.
StartFails(folio) ==
    /\ Costs /\ ~Running /\ EffectiveNext = 0
    /\ control' = [next |-> Admission, owner |-> self,
                   job |-> [id |-> FreshId, folio |-> folio, version |-> holdings[folio],
                            status |-> "failed", age |-> 0, received |-> FALSE]]
    /\ UNCHANGED <<fetched, self, worker, cadence, holdings, quiet>>

(* The worker of an instance. *)

Owned_Unchecked(o) == TRUE
Owned(o) == control.owner = o /\ control.job.id = worker[o].id
Ends(o) == worker' = [worker EXCEPT ![o] = Idle]
GoesOn(o, pc) == worker' = [worker EXCEPT ![o].pc = pc]
Marked(status) == [control EXCEPT !.job.status = status]

\* _fail: saved if the job is still its own and the database can be written.
Fails(o, status, retry) ==
    /\ Ends(o)
    /\ \/ /\ Owned(o)
          /\ control' = [Marked(status) EXCEPT !.next = Max({@, retry})]
          /\ quiet' = Max({quiet, retry})
          /\ UNCHANGED moves
       \/ Owned(o) /\ Costs /\ UNCHANGED control /\ quiet' = Max({quiet, Doubt(control.job.age)})
       \/ ~Owned(o) /\ UNCHANGED <<control, quiet, moves>>

\* Nothing held has an exact name: no request, and the last capture stays the last.
Nothing(o) ==
    /\ worker[o].pc = "queued" /\ Owned(o)
    /\ control' = Marked("completed")
    /\ Ends(o)
    /\ UNCHANGED <<fetched, self, cadence, holdings, quiet, moves>>

Fetch(o) ==
    /\ worker[o].pc = "queued"
    /\ \/ Owned(o) /\ control' = Marked("fetching") /\ GoesOn(o, "wire") /\ UNCHANGED <<quiet, moves>>
       \/ ~Owned(o) /\ Ends(o) /\ UNCHANGED <<control, quiet, moves>>
    /\ UNCHANGED <<fetched, self, cadence, holdings>>

\* The disk is too full, or the database locked: the job fails without a request.
FetchFails(o) ==
    /\ worker[o].pc = "queued" /\ Fails(o, "failed", 0)
    /\ UNCHANGED <<fetched, self, cadence, holdings>>

Answer(o) ==
    /\ worker[o].pc = "wire"
    /\ \/ GoesOn(o, "publish") /\ UNCHANGED <<control, quiet, moves>>
       \/ Fails(o, "failed", 0)
       \/ \E retry \in RetryAfter : Fails(o, "paused", retry)
    /\ UNCHANGED <<fetched, self, cadence, holdings>>

\* Facts, receipt and job commit together; an unqualified capture fails.
Publish(o) ==
    /\ worker[o].pc = "publish"
    /\ \/ /\ Owned(o)
          /\ control' = [Marked("completed") EXCEPT !.next = Max({@, Admission}), !.job.received = TRUE]
          /\ fetched' = worker[o].id /\ quiet' = Max({quiet, Admission})
          /\ Ends(o)
          /\ UNCHANGED moves
       \/ Fails(o, "failed", 0) /\ UNCHANGED fetched
    /\ UNCHANGED <<self, cadence, holdings>>

(* CashCadence.tick: the saved scope is read, later it is acted on. *)

Due == Max({EffectiveNext, Admission - Min({control.job.age, Admission}), cadence.next})

Poll ==
    /\ cadence.pc = "wait" /\ control.job # NoJob
    /\ ~Running /\ EffectiveStatus \notin Active /\ Due = 0
    /\ cadence' = [pc |-> "act", id |-> control.job.id, folio |-> control.job.folio, next |-> Admission]
    /\ UNCHANGED <<control, fetched, self, worker, holdings, quiet, moves>>

\* The expected job fences an explicit switch of portfolio in between.
Unswitched == control.job.id = cadence.id /\ control.job.folio = cadence.folio
Act ==
    /\ cadence.pc = "act"
    /\ cadence' = [cadence EXCEPT !.pc = "wait", !.id = None, !.folio = None]
    /\ \/ Unswitched /\ Admitted(cadence.folio, FreshId)
       \/ /\ ~Unswitched \/ Running \/ EffectiveNext > 0
          /\ UNCHANGED <<control, fetched, self, worker, holdings, quiet>>
    /\ UNCHANGED moves

\* The writer is busy, or something else fails before anything is reserved.
ActFails ==
    /\ cadence.pc = "act" /\ Costs
    /\ cadence' = [pc |-> "wait", id |-> None, folio |-> None, next |-> 1]
    /\ UNCHANGED <<control, fetched, self, worker, holdings, quiet>>

(* Around it. *)

Import(folio) ==
    /\ Costs
    /\ \E v \in Versions \ {holdings[folio]} : holdings' = [holdings EXCEPT ![folio] = v]
    /\ UNCHANGED <<control, fetched, self, worker, cadence, quiet>>

\* The old process may still finish its job.
Restart ==
    /\ Costs
    /\ \E o \in Owners \ {self, control.owner} : worker[o] = Idle /\ self' = o
    /\ cadence' = [pc |-> "wait", id |-> None, folio |-> None, next |-> 1]
    /\ UNCHANGED <<control, fetched, worker, holdings, quiet>>

Dies(o) ==
    /\ o # self /\ worker[o].pc # "off"
    /\ Ends(o)
    /\ quiet' = Max({quiet, Doubt(worker[o].age)})
    /\ UNCHANGED <<control, fetched, self, cadence, holdings, moves>>

Down(n) == IF n > 0 THEN n - 1 ELSE n
\* A request ends within a minute.
Tick ==
    /\ \A o \in Owners : worker[o].pc # "wire"
    /\ control' = [control EXCEPT !.next = Down(@), !.job.age = Min({@ + 1, Uncertain})]
    /\ worker' = [o \in Owners |-> IF worker[o].pc = "off" THEN Idle
                                 ELSE [worker[o] EXCEPT !.age = Min({@ + 1, Uncertain})]]
    /\ cadence' = [cadence EXCEPT !.next = Down(@)]
    /\ quiet' = Down(quiet)
    /\ UNCHANGED <<fetched, self, holdings, moves>>

WorkerStep(o) == Nothing(o) \/ Fetch(o) \/ FetchFails(o) \/ Answer(o) \/ Publish(o)
CadenceStep == Poll \/ Act
Next ==
    \/ \E folio \in Folios : Start(folio) \/ StartFails(folio) \/ Import(folio)
    \/ Resume \/ Restart \/ Tick
    \/ \E o \in Owners : WorkerStep(o) \/ Dies(o)
    \/ CadenceStep \/ ActFails

Spec == Init /\ [][Next]_vars
\* Time, workers and the cadence's poll go on.
Fairness == WF_vars(Tick) /\ WF_vars(CadenceStep) /\ \A o \in Owners : WF_vars(WorkerStep(o))
FairSpec == Spec /\ Fairness

----------------------------------------------------------------------------
(* CashInv: the saved job has received a capture exactly if the last       *)
(* successful fetch is its own, and is complete then; and the saved record *)
(* follows the worker that owns it, whatever workers of older instances do *)
(* (_owned, the single transaction of CompactCash._run).                   *)
CaptureIsOwn ==
    /\ control.job.received <=> control.job # NoJob /\ fetched = control.job.id
    /\ control.job.received => control.job.status = "completed"
CashInv ==
    /\ TypeOK
    /\ CaptureIsOwn
    /\ \A o \in Owners : worker[o].pc \in {"wire", "publish"} /\ Owned(o) => control.job.status = "fetching"

Admits(o) == worker[o].pc = "off" /\ worker'[o].pc = "queued"
(* CashSteps: a request is admitted only after the silence that the one    *)
(* before it demands - its interval, its 429, an hour if its outcome was   *)
(* lost or its worker may still be at it - and the cadence repeats the     *)
(* portfolio that was asked for last (action, _effective, _retry_deadline, *)
(* tick).                                                                  *)
CashStep ==
    /\ \A o \in Owners : Admits(o) =>
          quiet = 0 /\ \A p \in Owners : worker[p].pc # "off" => worker[p].age = Uncertain
    /\ cadence.pc = "act" /\ cadence'.pc = "wait" /\ control'.job.id # control.job.id
          => control'.job.folio = control.job.folio
CashSteps == [][CashStep]_vars

(* CadenceServes: once a portfolio has been asked for, it is asked for     *)
(* again and again: no failure, restart or switch stops the cadence.       *)
CadenceServes == []<>(control.job = NoJob \/ \E o \in Owners : worker[o].pc = "queued")
=============================================================================
