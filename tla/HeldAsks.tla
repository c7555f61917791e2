----------------------------- MODULE HeldAsks ------------------------------
(***************************************************************************)
(* Steam asks of held items (steam_held_asks.py and its part of server.py):*)
(* one resumable job over the holdings, worked by one thread, and single   *)
(* asks of HTTP threads share one leased row of SQLite, one in-memory gate *)
(* and one network slot with the history collector.                        *)
(*                                                                         *)
(* Times are what is left of a deadline, or the age of a receipt.          *)
(* Receipts are numbered in the order in which they were received.         *)
(***************************************************************************)
EXTENDS Integers, FiniteSets, FiniteSetsExt, Sequences

CONSTANTS
    Names,                \* held market hash names
    Worker, History,      \* the thread of the job, the history collector
    Singles,              \* HTTP threads that ask for one item
    Jobs,                 \* job slots
    None,
    Lease, Backoff, Negative, Fresh, CacheFor, Remember,   \* seconds, scaled down
    RetryAfter,           \* deadlines a 429 may name
    MaxReceipts, MaxMoves \* bounds

Askers == Singles \cup {Worker}
Callers == Askers \cup {History}
Unset == -1
Tokens == 1 .. Cardinality(Names) + Cardinality(Singles) + 1

AsksAssumption ==
    /\ {Lease, Backoff, Negative, Fresh, CacheFor, Remember} \subseteq Nat \ {0}
    /\ RetryAfter \subseteq Nat \ {0} /\ IsFiniteSet(RetryAfter) /\ MaxReceipts \in Nat /\ MaxMoves \in Nat
    /\ Worker \notin Singles /\ History \notin Askers /\ None \notin Names \cup Jobs
    /\ IsFiniteSet(Names) /\ IsFiniteSet(Singles) /\ IsFiniteSet(Jobs) /\ Jobs \subseteq Nat

VARIABLES
    control,              \* steam_ask_control: deadline, lease, whether a restart found it
    jobs, items,          \* steam_ask_jobs, steam_ask_job_items
    current,              \* steam_ask_current: receipt, failed attempt
    receipts,             \* every receipt, and whether steam_ask_observations has it
    call,                 \* each thread's place in its call, with its claim and result
    cache, gate, ready,   \* the process's own: SteamCurrentAskService.cache, the gate's
                          \* deadline, STEAM_ASK_PROCESS_READY
    owed, quiet,          \* history: requests sent under a lease whose outcome no transaction
                          \* has; how long answers and lost requests demand silence
    moves                 \* operator moves and faults so far

durable == <<control, jobs, items, current>>
process == <<cache, gate, ready>>
history == <<owed, quiet>>
vars == <<durable, receipts, call, process, history, moves>>

JobStates == {"none", "queued", "running", "paused", "complete", "partial", "cancelled"}
ItemStates == {"none", "pending", "leased", "success", "reused", "unpriced", "failed", "cancelled"}
Pcs == {"off", "lost", "barred", "loop", "look", "service", "asking", "slot", "wire", "done"}
Kinds == {"none", "good", "limited", "deferred", "busy", "unavailable", "failed"}
Left == Unset .. Max({Backoff, Negative} \cup RetryAfter)

Result(kind, receipt, cached, retry) ==
    [kind |-> kind, receipt |-> receipt, cached |-> cached, retry |-> retry]
NoResult == Result("none", 0, FALSE, Unset)
Call(pc, name, job, token) == [pc |-> pc, name |-> name, job |-> job, token |-> token, result |-> NoResult]
At(pc) == Call(pc, None, None, 0)
Unleased(state) == [state |-> state, token |-> 0, until |-> 0]

TypeOK ==
    /\ control \in [retry : Left, token : Tokens \cup {0}, orphan : BOOLEAN, until : 0 .. Lease]
    /\ jobs \in [Jobs -> [state : JobStates, retry : Left]]
    /\ items \in [Jobs -> [Names -> [state : ItemStates, token : Tokens \cup {0}, until : 0 .. Lease]]]
    /\ current \in [Names -> [receipt : 0 .. MaxReceipts, retry : Left, failed : BOOLEAN]]
    /\ \A r \in DOMAIN receipts : receipts[r] \in [name : Names, age : 0 .. Fresh + 1, saved : BOOLEAN]
    /\ \A c \in Callers : call[c].pc \in Pcs /\ call[c].result.kind \in Kinds
    /\ \A n \in Names : cache[n].until \in 0 .. Max({Remember, Negative}) /\ cache[n].result.kind \in Kinds
    /\ gate \in Left /\ ready \in BOOLEAN
    /\ owed \subseteq Askers /\ quiet \in Left /\ moves \in 0 .. MaxMoves

Init ==
    /\ control = [retry |-> 0, token |-> 0, orphan |-> FALSE, until |-> 0]
    /\ jobs = [j \in Jobs |-> [state |-> "none", retry |-> Unset]]
    /\ items = [j \in Jobs |-> [n \in Names |-> Unleased("none")]]
    /\ current = [n \in Names |-> [receipt |-> 0, retry |-> 0, failed |-> FALSE]]
    /\ receipts = <<>>
    /\ call = [c \in Callers |-> At("off")]
    /\ cache = [n \in Names |-> [until |-> 0, result |-> NoResult]]
    /\ gate = 0 /\ ready = FALSE
    /\ owed = {} /\ quiet = 0 /\ moves = 0

(* Deadlines and leases. *)

Raised_Lowered(retry) == IF retry <= 0 THEN Backoff ELSE retry

Raised(retry) == Max({control.retry, IF retry <= 0 THEN Backoff ELSE retry})
Age(n) == receipts[current[n].receipt].age
FreshFor(n, bound) == current[n].receipt > 0 /\ Age(n) < bound

InUse == {control.token} \cup {call[c].token : c \in Askers}
         \cup {items[j][n].token : j \in Jobs, n \in Names}
\* Tokens are random: one that is in use never comes again.
NextToken == Min(Tokens \ InUse)
Granted(token) == [control EXCEPT !.token = token, !.orphan = FALSE, !.until = Lease]
Dropped(c) == [c EXCEPT !.token = 0, !.orphan = FALSE, !.until = 0]
Released(c, token) == IF c.token = token /\ ~c.orphan THEN Dropped(c) ELSE c

Holds(token) == control.token = token /\ ~control.orphan

\* What AskStore.cooldown says to the holder of a token: nothing, or until when.
Blocks(token) == \/ control.retry > 0
                 \/ /\ control.token # 0
                    /\ control.token # token \/ control.orphan \/ control.until = 0
BlockedUntil == IF control.retry > 0 THEN control.retry ELSE Unset

(* The job. *)

Active == {j \in Jobs : jobs[j].state \in {"queued", "running", "paused"}}
ItemsIn(j, states) == {n \in Names : items[j][n].state \in states}
Paused(js, j, retry) ==
    IF js[j].state = "cancelled" THEN js ELSE [js EXCEPT ![j] = [state |-> "paused", retry |-> retry]]
\* As if a cancelled job were closed like any other.
Progressed_Revived(js, its, j) ==
    LET having(states) == {n \in Names : its[j][n].state \in states} IN
    IF having({"pending", "leased"}) # {} THEN js
    ELSE [js EXCEPT ![j] =
            [state |-> IF having({"unpriced", "failed"}) # {} THEN "partial" ELSE "complete", retry |-> Unset]]

Progressed(js, its, j) ==
    LET having(states) == {n \in Names : its[j][n].state \in states} IN
    IF js[j].state = "cancelled" \/ having({"pending", "leased"}) # {} THEN js
    ELSE [js EXCEPT ![j] =
            [state |-> IF having({"unpriced", "failed"}) # {} THEN "partial" ELSE "complete", retry |-> Unset]]
Goes(c, pc) == call' = [call EXCEPT ![c] = At(pc)]
GoesOn(c, pc) == call' = [call EXCEPT ![c].pc = pc]
Answers(c, result) == call' = [call EXCEPT ![c].pc = "done", ![c].result = result]
Costs == moves < MaxMoves /\ moves' = moves + 1

\* A new process looks once for a lease its predecessor left.
Reconcile ==
    /\ ~ready
    /\ ready' = TRUE
    /\ IF control.token = 0 \/ control.orphan THEN UNCHANGED <<control, jobs>>
       ELSE /\ control' = [control EXCEPT !.retry = Raised(Backoff), !.orphan = TRUE]
            /\ jobs' = [j \in Jobs |->
                 IF j \in Active /\ \E n \in ItemsIn(j, {"leased"}) : items[j][n].token = control.token
                 THEN [state |-> "paused", retry |-> Unset] ELSE jobs[j]]
    /\ UNCHANGED <<items, current, receipts, call, cache, gate, history, moves>>

(* AskWorker: the claim of its next item. *)

Claims == call[Worker].pc = "loop" /\ ready /\ UNCHANGED <<current, receipts, process, history, moves>>

ClaimIdle == Claims /\ Active = {} /\ Goes(Worker, "off") /\ UNCHANGED <<control, jobs, items>>

\* A leased item is never taken over: the worker ends.
ClaimLeased(j) ==
    /\ Claims /\ j \in Active
    /\ \E n \in ItemsIn(j, {"leased"}) :
         jobs' = IF items[j][n].until = 0 THEN Paused(jobs, j, Unset) ELSE jobs
    /\ Goes(Worker, "barred")
    /\ UNCHANGED <<control, items>>

ClaimPaused(j) ==
    /\ Claims /\ j \in Active /\ ItemsIn(j, {"leased"}) = {}
    /\ jobs[j] = [state |-> "paused", retry |-> Unset]
    /\ Goes(Worker, "off")
    /\ UNCHANGED <<control, jobs, items>>

Deadline(j) == Max({control.retry, jobs[j].retry})
Going(j) == Claims /\ j \in Active /\ ItemsIn(j, {"leased"}) = {}
            /\ jobs[j] # [state |-> "paused", retry |-> Unset]

Rested(j) == Paused(jobs, j, Deadline(j))
\* The worker waits and claims again.
ClaimCooling(j) ==
    /\ Going(j) /\ Deadline(j) > 0
    /\ jobs' = Rested(j)
    /\ UNCHANGED <<control, items, call>>

\* Another request holds the lease: the worker ends and leaves the job as it is.
ClaimBarred(j) ==
    /\ Going(j) /\ Deadline(j) <= 0 /\ control.token # 0
    /\ Goes(Worker, "barred")
    /\ UNCHANGED <<control, jobs, items>>

ClaimReused(j, n) ==
    /\ Going(j) /\ Deadline(j) <= 0 /\ control.token = 0
    /\ n \in ItemsIn(j, {"pending"}) /\ FreshFor(n, Fresh + 1)
    /\ items' = [items EXCEPT ![j][n] = Unleased("reused")]
    /\ jobs' = Progressed(jobs, items', j)
    /\ UNCHANGED <<control, call>>

ClaimLease(j, n) ==
    /\ Going(j) /\ Deadline(j) <= 0 /\ control.token = 0
    /\ n \in ItemsIn(j, {"pending"}) /\ ~FreshFor(n, Fresh + 1) /\ Tokens \ InUse # {}
    /\ items' = [items EXCEPT ![j][n] = [state |-> "leased", token |-> NextToken, until |-> Lease]]
    /\ control' = Granted(NextToken)
    /\ jobs' = [jobs EXCEPT ![j] = [state |-> "running", retry |-> Unset]]
    /\ call' = [call EXCEPT ![Worker] = Call("look", n, j, NextToken)]

(* durable_steam_current_ask: answered from the tables, or one request.    *)

Saved(n) ==
    IF FreshFor(n, CacheFor) THEN {Result("good", current[n].receipt, TRUE, Unset)}
    ELSE IF current[n].retry > 0
         THEN {Result(IF current[n].failed THEN "failed" ELSE "unavailable", 0, TRUE, Unset)}
    ELSE {}
\* The governor defers: until it is told otherwise, or for a while.
Deferrals == {Result("deferred", 0, FALSE, retry) : retry \in {Unset} \cup RetryAfter}

Still == UNCHANGED <<durable, receipts, process, history>>

Look ==
    /\ call[Worker].pc = "look" /\ Still
    /\ LET saved == Saved(call[Worker].name) IN
       IF saved # {} THEN \E result \in saved : Answers(Worker, result) /\ UNCHANGED moves
       ELSE \/ GoesOn(Worker, "service") /\ UNCHANGED moves
            \/ Costs /\ \E result \in Deferrals : Answers(Worker, result)

SingleClaim(s, n) ==
    /\ ready /\ call[s].pc = "off" /\ Saved(n) = {}
    /\ control.retry = 0 /\ control.token = 0 /\ Tokens \ InUse # {}
    /\ control' = Granted(NextToken)
    /\ call' = [call EXCEPT ![s] = Call("service", n, None, NextToken)]
    /\ UNCHANGED <<jobs, items, current, receipts, process, history, moves>>

Serving == {c \in Askers : call[c].pc \in {"asking", "slot", "wire"}}
\* SteamCurrentAskService.fetch up to its request.
Enter(c) ==
    /\ call[c].pc = "service" /\ Still /\ UNCHANGED moves
    /\ LET kept == cache[call[c].name] IN
       \/ Serving # {} /\ Answers(c, Result("busy", 0, FALSE, Unset))
       \/ Serving = {} /\ kept.until > 0 /\ Answers(c, [kept.result EXCEPT !.cached = TRUE])
       \/ Serving = {} /\ kept.until = 0 /\ gate > 0 /\ Answers(c, Result("limited", 0, FALSE, gate))
       \/ Serving = {} /\ kept.until = 0 /\ gate = 0 /\ GoesOn(c, "asking")

(* steam_network_open: one slot for asks and history. *)

GateAfter(demand) == Max({gate, demand})
SlotFree == \A c \in Callers : call[c].pc \notin {"slot", "wire"}

Admit(c) ==
    /\ call[c].pc = "asking" /\ SlotFree
    /\ UNCHANGED <<durable, receipts, cache, ready, history>>
    /\ IF Blocks(call[c].token)
       THEN /\ gate' = GateAfter(BlockedUntil)
            /\ Answers(c, Result("limited", 0, FALSE, BlockedUntil))
            /\ UNCHANGED moves
       ELSE /\ UNCHANGED gate
            /\ \/ GoesOn(c, "slot") /\ UNCHANGED moves
               \/ Costs /\ \E result \in Deferrals : Answers(c, result)

\* History waits behind any holdings job.
HistoryOpens ==
    /\ ready /\ call[History].pc = "off" /\ SlotFree
    /\ IF Blocks(0) THEN gate' = GateAfter(BlockedUntil) /\ UNCHANGED call
       ELSE UNCHANGED gate /\ Active = {} /\ GoesOn(History, "slot")
    /\ UNCHANGED <<durable, receipts, cache, ready, history, moves>>

Send(c) ==
    /\ call[c].pc = "slot"
    /\ IF gate > 0
       THEN /\ IF c = History THEN Goes(c, "off") ELSE Answers(c, Result("limited", 0, FALSE, gate))
            /\ UNCHANGED owed
       ELSE /\ GoesOn(c, "wire")
            /\ owed' = IF c \in Askers /\ Holds(call[c].token) THEN owed \cup {c} ELSE owed
    /\ UNCHANGED <<durable, receipts, process, quiet, moves>>

Remembered(c, result, span) == cache' = [cache EXCEPT ![call[c].name] = [until |-> span, result |-> result]]

AnswerGood(c) ==
    /\ c \in Askers /\ call[c].pc = "wire" /\ Len(receipts) < MaxReceipts
    /\ receipts' = Append(receipts, [name |-> call[c].name, age |-> 0, saved |-> FALSE])
    /\ LET result == Result("good", Len(receipts'), FALSE, Unset) IN
       Remembered(c, result, Remember) /\ Answers(c, result)
    /\ UNCHANGED <<durable, gate, ready, history, moves>>

AnswerBad(c) ==
    /\ c \in Askers /\ call[c].pc = "wire"
    /\ \E kind \in {"unavailable", "failed"} :
         LET result == Result(kind, 0, FALSE, Unset) IN Remembered(c, result, Negative) /\ Answers(c, result)
    /\ UNCHANGED <<durable, receipts, gate, ready, history, moves>>

HistoryAnswered ==
    /\ call[History].pc = "wire" /\ Goes(History, "off")
    /\ Still /\ UNCHANGED moves

\* The gate is raised first; its deadline is saved at once, if the database can be written.
Limited(c) ==
    /\ call[c].pc = "wire" /\ Costs
    /\ \E demand \in RetryAfter \cup {Backoff} :
         gate' = GateAfter(demand) /\ quiet' = Max({quiet, demand})
    /\ \E written \in BOOLEAN : control' = IF written THEN [control EXCEPT !.retry = Raised(gate')] ELSE control
    /\ IF c = History THEN Goes(c, "off") ELSE Answers(c, Result("limited", 0, FALSE, gate'))
    /\ UNCHANGED <<jobs, items, current, receipts, cache, ready, owed>>

(* The outcome: one transaction. *)

Stored(r) ==
    /\ receipts' = [receipts EXCEPT ![r].saved = TRUE]
    /\ current' = LET n == receipts[r].name IN
                  IF ~receipts[r].saved /\ r > current[n].receipt
                  THEN [current EXCEPT ![n] = [receipt |-> r, retry |-> 0, failed |-> FALSE]] ELSE current
Missed(n, kind) ==
    /\ current' = [current EXCEPT ![n].retry = Negative, ![n].failed = kind = "failed"]
    /\ UNCHANGED receipts
Outcome(n, result) ==
    CASE result.kind = "good" -> Stored(result.receipt)
      [] result.kind \in {"unavailable", "failed"} -> Missed(n, result.kind)
      [] OTHER -> UNCHANGED <<current, receipts>>
ControlAfter(result) ==
    IF result.kind = "limited" THEN [control EXCEPT !.retry = Raised(result.retry)] ELSE control

FinishSingle(s) ==
    /\ call[s].pc = "done"
    /\ Outcome(call[s].name, call[s].result)
    /\ control' = Released(ControlAfter(call[s].result), call[s].token)
    /\ Goes(s, "off")
    /\ owed' = owed \ {s}
    /\ UNCHANGED <<jobs, items, process, quiet, moves>>

ItemAfter(kind, cached, cancelled) ==
    CASE kind = "good" -> IF cached THEN "reused" ELSE "success"
      [] kind = "deferred" -> IF cancelled THEN "cancelled" ELSE "pending"
      [] kind \in {"limited", "busy"} -> "pending"
      [] kind = "unavailable" -> "unpriced"
      [] kind = "failed" -> "failed"
JobsAfter(j, result) ==
    CASE result.kind = "deferred" -> Paused(jobs, j, IF result.retry > 0 THEN result.retry ELSE Unset)
      [] result.kind = "limited" -> Paused(jobs, j, Raised(result.retry))
      [] result.kind = "busy" -> Paused(jobs, j, Unset)
      [] result.kind = "failed" -> Paused(jobs, j, Negative)
      [] OTHER -> jobs

OwnsItem == LET own == call[Worker] IN
            items[own.job][own.name].state = "leased" /\ items[own.job][own.name].token = own.token

Finish ==
    LET own == call[Worker]
        result == own.result
    IN  /\ own.pc = "done" /\ OwnsItem
        /\ Outcome(own.name, result)
        /\ items' = [items EXCEPT ![own.job][own.name] =
                       Unleased(ItemAfter(result.kind, result.cached, jobs[own.job].state = "cancelled"))]
        /\ jobs' = Progressed(JobsAfter(own.job, result), items', own.job)
        /\ control' = Released(ControlAfter(result), own.token)
        /\ Goes(Worker, "loop")
        /\ owed' = owed \ {Worker}
        /\ UNCHANGED <<process, quiet, moves>>

\* The item was taken back meanwhile: only a receipt is kept.
FinishStale ==
    LET own == call[Worker] IN
    /\ own.pc = "done" /\ ~OwnsItem
    /\ IF own.result.kind = "good" THEN Stored(own.result.receipt) ELSE UNCHANGED <<current, receipts>>
    /\ Goes(Worker, "loop")
    /\ owed' = owed \ {Worker}
    /\ UNCHANGED <<control, jobs, items, process, quiet, moves>>

\* The transaction fails and its lease stays; the worker tries to pause the job, and ends.
FinishFails(c) ==
    /\ call[c].pc = "done" /\ Costs
    /\ IF c # Worker THEN Goes(c, "off") /\ UNCHANGED jobs
       ELSE \/ /\ jobs' = [j \in Jobs |-> IF j \in Active THEN [state |-> "paused", retry |-> Unset] ELSE jobs[j]]
               /\ Goes(c, "off")
            \/ UNCHANGED jobs /\ Goes(c, "lost")
    /\ UNCHANGED <<control, items, current, receipts, process, history>>

(* The operator. *)

Kicked == call' = IF call[Worker].pc \in {"off", "lost", "barred"}
                  THEN [call EXCEPT ![Worker] = At("loop")] ELSE call

Unused(j) == /\ j \notin Active /\ ItemsIn(j, {"leased"}) = {}
             /\ \A c \in Callers : call[c].job # j
\* unresolved: holdings without one exact Steam name.  The slots of ended jobs are reused.
Start(unresolved) ==
    /\ ready /\ Costs /\ Active = {} /\ \E k \in Jobs : Unused(k)
    /\ LET j == Min({k \in Jobs : Unused(k)}) IN
       /\ items' = [k \in Jobs |-> [n \in Names |->
            IF k # j THEN IF Unused(k) THEN Unleased("none") ELSE items[k][n]
            ELSE Unleased(IF n \in unresolved THEN "unpriced"
                          ELSE IF FreshFor(n, Fresh + 1) THEN "reused"
                          ELSE IF current[n].retry > 0 THEN "unpriced" ELSE "pending")]]
       /\ jobs' = Progressed([k \in Jobs |->
            [state |-> IF k = j THEN "queued" ELSE IF Unused(k) THEN "none" ELSE jobs[k].state,
             retry |-> IF k = j \/ Unused(k) THEN Unset ELSE jobs[k].retry]], items', j)
    /\ Kicked
    /\ UNCHANGED <<control, current, receipts, process, history>>

\* The same holdings again: the active job is returned, and the worker started.
StartAgain ==
    /\ ready /\ Costs /\ Active # {} /\ call[Worker].pc \in {"off", "lost", "barred"}
    /\ Kicked
    /\ UNCHANGED <<durable, receipts, process, history>>

\* An interrupted request may have met a 429 nobody saved.
Floor(suspect) ==
    IF suspect /\ ~control.orphan THEN [control EXCEPT !.retry = Raised(Backoff)] ELSE control
TakenForLost == /\ owed' = {}
                /\ quiet' = IF owed # {} THEN Max({quiet, Backoff}) ELSE quiet

Resume(j) ==
    /\ ready /\ Costs /\ j \in Active
    /\ control.until = 0 /\ \A n \in ItemsIn(j, {"leased"}) : items[j][n].until = 0
    /\ control' = Dropped(Floor(control.token # 0 \/ ItemsIn(j, {"leased"}) # {}))
    /\ items' = [items EXCEPT ![j] = [n \in Names |->
                   IF items[j][n].state = "leased" THEN Unleased("pending") ELSE items[j][n]]]
    /\ jobs' = [jobs EXCEPT ![j] = [state |-> "queued", retry |-> Unset]]
    /\ Kicked /\ TakenForLost
    /\ UNCHANGED <<current, receipts, process>>

Cancel(j) ==
    /\ ready /\ Costs /\ j \in Active
    /\ jobs' = [jobs EXCEPT ![j].state = "cancelled"]
    /\ items' = [items EXCEPT ![j] = [n \in Names |->
                   IF items[j][n].state = "pending" THEN Unleased("cancelled") ELSE items[j][n]]]
    /\ UNCHANGED <<control, current, receipts, call, process, history>>

\* clear_interrupted_single_lease.
ClearLease ==
    /\ Costs /\ control.token # 0 /\ control.until = 0
    /\ \A j \in Jobs : ItemsIn(j, {"leased"}) # {} => jobs[j].state = "cancelled"
    /\ items' = [j \in Jobs |-> [n \in Names |->
         IF items[j][n].state = "leased" /\ items[j][n].until = 0 THEN Unleased("cancelled") ELSE items[j][n]]]
    /\ control' = Dropped(Floor(TRUE))
    /\ TakenForLost
    /\ UNCHANGED <<jobs, current, receipts, call, process>>

(* Time and crashes. *)

Down(n) == IF n > 0 THEN n - 1 ELSE n
\* A request ends within six seconds; a unit of time is at least a minute.  A call held up
\* for so long elsewhere counts as a fault.
Tick ==
    /\ \A c \in Callers : call[c].pc # "wire"
    /\ IF \E c \in Callers : call[c].pc \in {"look", "service", "asking", "slot", "done"} THEN Costs
       ELSE UNCHANGED moves
    /\ control' = [control EXCEPT !.retry = Down(@), !.until = Down(@)]
    /\ jobs' = [j \in Jobs |-> [jobs[j] EXCEPT !.retry = Down(@)]]
    /\ items' = [j \in Jobs |-> [n \in Names |-> [items[j][n] EXCEPT !.until = Down(@)]]]
    /\ current' = [n \in Names |-> [current[n] EXCEPT !.retry = Down(@)]]
    /\ receipts' = [r \in DOMAIN receipts |-> [receipts[r] EXCEPT !.age = Min({@ + 1, Fresh + 1})]]
    /\ call' = [c \in Callers |-> [call[c] EXCEPT !.result.retry = Down(@)]]
    /\ cache' = [n \in Names |-> IF cache[n].until > 1 THEN [cache[n] EXCEPT !.until = Down(@)]
                                 ELSE [until |-> 0, result |-> NoResult]]
    /\ gate' = Down(gate) /\ quiet' = Down(quiet)
    /\ UNCHANGED <<ready, owed>>

\* Of what the gate knew, what the database has; a request whose outcome nobody saved
\* demands Backoff.
Crash ==
    /\ Costs
    /\ call' = [c \in Callers |->
                  At(IF c = Worker /\ call[c].pc \notin {"off", "barred"} THEN "lost"
                     ELSE IF c = Worker THEN call[c].pc ELSE "off")]
    /\ cache' = [n \in Names |-> [until |-> 0, result |-> NoResult]]
    /\ gate' = 0 /\ ready' = FALSE
    /\ quiet' = Max({Min({quiet, control.retry}), IF owed # {} THEN Backoff ELSE 0})
    /\ owed' = {}
    /\ UNCHANGED <<durable, receipts>>

WorkerClaims ==
    \/ ClaimIdle
    \/ \E j \in Jobs : ClaimLeased(j) \/ ClaimPaused(j) \/ ClaimCooling(j) \/ ClaimBarred(j)
    \/ \E j \in Jobs, n \in Names : ClaimReused(j, n) \/ ClaimLease(j, n)
AskStep(c) == Enter(c) \/ Admit(c) \/ Send(c) \/ AnswerGood(c) \/ AnswerBad(c) \/ Limited(c)
WorkerStep == WorkerClaims \/ Look \/ AskStep(Worker) \/ Finish \/ FinishStale
SingleStep(s) == AskStep(s) \/ FinishSingle(s)
HistoryStep == Send(History) \/ HistoryAnswered \/ Limited(History)
OperatorStep ==
    \/ \E unresolved \in SUBSET Names : Start(unresolved)
    \/ StartAgain \/ ClearLease \/ \E j \in Jobs : Resume(j) \/ Cancel(j)

Next ==
    \/ Tick \/ Crash \/ Reconcile
    \/ WorkerStep
    \/ \E s \in Singles : SingleStep(s) \/ \E n \in Names : SingleClaim(s, n)
    \/ HistoryOpens \/ HistoryStep
    \/ \E c \in Askers : FinishFails(c)
    \/ OperatorStep

Spec == Init /\ [][Next]_vars
\* Threads go on and time passes; nobody need ask, and the operator need do nothing.
Fairness ==
    /\ WF_vars(Tick) /\ WF_vars(Reconcile) /\ WF_vars(WorkerStep)
    /\ (\A s \in Singles : WF_vars(SingleStep(s))) /\ WF_vars(HistoryStep)
FairSpec == Spec /\ Fairness

----------------------------------------------------------------------------
(* A job that works has items left, one that ended has none, and its state *)
(* says whether every item got a price (_refresh_progress).                *)
JobsTrue ==
    /\ Cardinality(Active) <= 1
    /\ \A j \in Jobs :
         /\ j \in Active => ItemsIn(j, {"pending", "leased"}) # {}
         /\ jobs[j].state \in {"complete", "partial"} =>
              /\ ItemsIn(j, {"pending", "leased", "cancelled"}) = {}
              /\ jobs[j].state = "partial" <=> ItemsIn(j, {"unpriced", "failed"}) # {}

\* The item a job has asked for holds the provider's lease until it is resumed or finished.
LeaseHeld ==
    \A j \in Active :
        /\ Cardinality(ItemsIn(j, {"leased"})) <= 1
        /\ \A n \in ItemsIn(j, {"leased"}) : control.token = items[j][n].token

\* The current receipt of an item is the latest one saved, whoever saved it last.
LatestKept ==
    \A n \in Names :
        LET saved == {r \in DOMAIN receipts : receipts[r].name = n /\ receipts[r].saved} IN
        current[n].receipt = Max(saved \cup {0})

(* AsksInv: the saved state is whole between any two transactions, crashes *)
(* and stale answers included.                                             *)
AsksInv == TypeOK /\ JobsTrue /\ LeaseHeld /\ LatestKept

(* QuietKept: nothing goes to Steam while a 429 or an interrupted request  *)
(* demands silence, across failed writes, resumes and restarts             *)
(* (reconcile_startup, resume, note_429, _persist_cooldown).               *)
QuietKept == [][\A c \in Callers : call[c].pc = "slot" /\ call'[c].pc = "wire" => quiet = 0]_vars

\* The job is paused until an operator resumes it.
AwaitsOperator == \E j \in Active : jobs[j] = [state |-> "paused", retry |-> Unset]

\* Nobody works on the job, and its saved state need not say so: the process died, the
\* outcome and then the pause could not be written, or the worker met a lease at its
\* claim and returned (claim and _run), which may leave the job queued or running.
Abandoned == call[Worker].pc \in {"lost", "barred"}

=============================================================================
