----------------------------- MODULE DataTasks -----------------------------
(***************************************************************************)
(* The explicit data tasks of the research server (server.py): HTTP        *)
(* requests start, pause, cancel and resume a task, a worker thread runs   *)
(* it unit by unit, every event is copied under DATA_TASK_LOCK and written *)
(* to SQLite later, and a restarted process restores what was written.     *)
(*                                                                         *)
(* One action is one section under DATA_TASK_LOCK.  A worker's plan is the *)
(* sequence of sections it still has to run.  Of a saved task only the     *)
(* status and the control request are kept.                                *)
(***************************************************************************)
EXTENDS Integers, Sequences

CONSTANTS
    Tasks, Clients,       \* task identifiers, HTTP threads
    Clashing,             \* tasks whose options name a parameter of data_task_event
    Mistyped,             \* tasks whose mode or pullMode is not a text
    ResumeAtStart,        \* CS2DASH_RESUME_RESEARCH_TASKS
    Workers,              \* worker threads
    Boot,                 \* the main thread, while it resumes a saved task
    Nobody,
    MaxCalls, MaxCrashes, MaxLocked   \* bounds

Requesters == Clients \cup {Boot}
Actors == Requesters \cup Workers
Live == {"queued", "running", "waiting"}
Resumable == {"paused", "pending", "error", "queued", "partial"}
Statuses == Live \cup Resumable \cup {"none", "cancelled", "complete"}
Controls == {"none", "paused", "cancelled"}

ASSUME TasksAssumption ==
    /\ ResumeAtStart \in BOOLEAN
    /\ MaxCalls \in Nat
    /\ MaxCrashes \in Nat /\ MaxLocked \in Nat
    /\ {Boot, Nobody} \cap (Clients \cup Workers) = {} /\ Clients \cap Workers = {}
    /\ Nobody \notin {Boot} \cup Tasks
    /\ Clashing \subseteq Tasks /\ Mistyped \subseteq Tasks

VARIABLES
    status, control,      \* DATA_TASKS[t]['status'], ['options']['_control']
    active,               \* ACTIVE_DATA_TASK_ID
    registered,           \* DATA_TASK_WORKERS
    plan, job, stage,     \* each worker's remaining sections, its task and its stage
    late,                 \* units a worker began under a request to stop it since it last looked
    client,               \* what each requester still has to do
    stopping,             \* DATA_TASK_STOP_EVENT
    writer,               \* who holds SQLITE_WRITE_LOCK
    saving,               \* the copy each actor is about to write
    row,                  \* data_tasks
    calls, crashes, locked

memory == <<status, control, active, registered>>
journal == <<saving, writer, row, locked>>
workers == <<plan, job, stage, late>>
vars == <<memory, workers, client, stopping, journal, calls, crashes>>

Saved == [status : Statuses, control : Controls]
Record == [task : Tasks, status : Statuses, control : Controls]
NoSave == [task |-> Nobody]
Sections == {"begin", "check", "hold", "sync", "commit", "result", "item", "defer", "wait",
             "wake", "next", "finish", "pend", "fail", "tell", "end"}

TypeOK ==
    /\ status \in [Tasks -> Statuses]
    /\ control \in [Tasks -> Controls]
    /\ active \in Tasks \cup {Nobody}
    /\ registered \in [Tasks -> Workers \cup {Nobody}]
    /\ plan \in [Workers -> Seq(Sections)]
    /\ job \in [Workers -> Tasks \cup {Nobody}]
    /\ stage \in [Workers -> {"work", "paused", "cancelled"}]
    /\ late \in [Workers -> 0..2]
    /\ client \in [Requesters -> [step : {"idle", "register", "tell", "answer", "list"},
                                  task : Tasks \cup {Nobody}]]
    /\ stopping \in BOOLEAN
    /\ writer \in Actors \cup {Nobody}
    /\ saving \in [Actors -> Record \cup {NoSave}]
    /\ row \in [Tasks -> Saved]
    /\ calls \in 0..MaxCalls /\ crashes \in 0..MaxCrashes
    /\ locked \in 0..MaxLocked

Idle == [step |-> "idle", task |-> Nobody]
NoRow == [status |-> "none", control |-> "none"]

Init ==
    /\ row = [t \in Tasks |-> NoRow]
    /\ status = [t \in Tasks |-> "none"] /\ control = [t \in Tasks |-> "none"]
    /\ active = Nobody /\ registered = [t \in Tasks |-> Nobody]
    /\ plan = [w \in Workers |-> << >>] /\ job = [w \in Workers |-> Nobody]
    /\ stage = [w \in Workers |-> "work"] /\ late = [w \in Workers |-> 0]
    /\ client = [c \in Requesters |-> Idle]
    /\ stopping = FALSE /\ writer = Nobody
    /\ saving = [a \in Actors |-> NoSave]
    /\ calls = 0 /\ crashes = 0 /\ locked = 0

Alive(w) == plan[w] # << >>

\* latest_data_task_active
LatestActive == active # Nobody /\ status[active] \in Live

----------------------------------------------------------------------------
(* Persistence                                                             *)

\* _record_data_task_event: the task is copied under the lock and saved later.
Copy(t) == [task |-> t, status |-> status[t], control |-> control[t]]
Event(a, t) == saving' = [saving EXCEPT ![a] = Copy(t)]
Saves(a) == saving[a] # NoSave

\* The caller waits for SQLITE_WRITE_LOCK; a record the database was too busy
\* to take stays in memory, and goes with the process.
Persist(a) ==
    /\ Saves(a) /\ writer = Nobody
    /\ \/ row' = [row EXCEPT ![saving[a].task] = [status |-> saving[a].status,
                                                  control |-> saving[a].control]]
          /\ UNCHANGED locked
       \/ locked < MaxLocked /\ locked' = locked + 1 /\ UNCHANGED row
    /\ saving' = [saving EXCEPT ![a] = NoSave]
    /\ UNCHANGED <<memory, workers, client, stopping, writer, calls, crashes>>

----------------------------------------------------------------------------
(* The worker                                                              *)

Stopped(t) == stopping \/ control[t] # "none"
Control(t) == IF stopping THEN "queued" ELSE control[t]

\* Stage and status disagree: progress drops the event of a stopped task.
Dropped(w) == status[job[w]] \in {"paused", "cancelled"} /\ stage[w] # status[job[w]]

\* A worker goes on only after persist_data_task_update has returned.
At(w, section) == Alive(w) /\ Head(plan[w]) = section /\ ~Saves(w)
Then(w, sections) == plan' = [plan EXCEPT ![w] = sections \o Tail(@)]
Instead(w, sections) == plan' = [plan EXCEPT ![w] = sections]
Says(w, s, st) ==
    /\ status' = [status EXCEPT ![job[w]] = s]
    /\ stage' = [stage EXCEPT ![w] = st]

\* The options are read before the task is said to run and before the handler
\* that concludes a failure: a worker that cannot read them just dies.
Misread(w) ==
    /\ At(w, "begin") /\ job[w] \in Mistyped
    /\ Instead(w, << >>)
    /\ UNCHANGED <<memory, job, stage, late, journal>>

Begin(w) ==
    /\ At(w, "begin") /\ job[w] \notin Mistyped
    /\ Says(w, "running", "work")
    /\ \E rest \in {<<"tell", "check", "sync">>, <<"tell", "check", "item">>, <<"fail">>} :
         Instead(w, rest)
    /\ UNCHANGED <<control, active, registered, job, late, journal>>

Tell(w) ==
    /\ At(w, "tell")
    /\ IF Dropped(w) THEN UNCHANGED saving ELSE Event(w, job[w])
    /\ Then(w, << >>)
    /\ UNCHANGED <<memory, job, stage, late, writer, row, locked>>

\* stop_if_requested, and what the caller does when it returns False.
CheckAgain(w) ==
    IF plan[w][2] \in {"item", "defer"}
    THEN <<"tell", "check", "pend">> ELSE <<"tell", "end">>
Check_Status(w) ==
    /\ At(w, "check")
    /\ IF stopping \/ status[job[w]] \in {"paused", "cancelled"}
         THEN /\ Says(w, Control(job[w]), IF stopping THEN "work" ELSE control[job[w]])
              /\ Instead(w, CheckAgain(w))
              /\ UNCHANGED late
         ELSE Then(w, << >>) /\ late' = [late EXCEPT ![w] = 0] /\ UNCHANGED <<status, stage>>
    /\ UNCHANGED <<control, active, registered, job, journal>>

Check(w) ==
    /\ At(w, "check")
    /\ IF Stopped(job[w])
         THEN /\ Says(w, Control(job[w]), IF stopping THEN "work" ELSE control[job[w]])
              /\ Instead(w, CheckAgain(w))
              /\ UNCHANGED late
         ELSE Then(w, << >>) /\ late' = [late EXCEPT ![w] = 0] /\ UNCHANGED <<status, stage>>
    /\ UNCHANGED <<control, active, registered, job, journal>>

\* Two are enough to tell that a request was missed.
BeginUnit(w) == late' = [late EXCEPT ![w] = IF Stopped(job[w]) THEN (IF @ = 2 THEN 2 ELSE @ + 1) ELSE 0]

\* market_universe_bulk_sync: the fetch, then one writer transaction.
Sync(w) ==
    /\ At(w, "sync")
    /\ writer = Nobody
    /\ BeginUnit(w)
    /\ writer' = w
    /\ Then(w, <<"commit">>)
    /\ UNCHANGED <<memory, job, stage, saving, row, locked>>

AfterSync == <<"check", "result">>
Commit(w) ==
    /\ At(w, "commit")
    /\ writer' = Nobody
    /\ \E rest \in {AfterSync, <<"fail">>} : Instead(w, rest)
    /\ UNCHANGED <<memory, job, stage, late, saving, row, locked>>

Result(w) ==
    /\ At(w, "result")
    /\ \E rest \in {<<"fail">>, <<"pend">>, <<"tell", "next">>} : Instead(w, rest)
    /\ UNCHANGED <<memory, job, stage, late, journal>>

\* One Steam chart: saved, failed, or deferred by the shared Steam deadline.
Item(w) ==
    /\ At(w, "item")
    /\ BeginUnit(w)
    /\ \E rest \in {<<"tell", "next">>, <<"fail">>, <<"check", "defer">>} : Instead(w, rest)
    /\ UNCHANGED <<memory, job, stage, journal>>

\* pause_provider: the operator paused Steam, or the wait used its budget.
Hold(w) ==
    /\ At(w, "hold") \/ At(w, "defer")
    /\ Says(w, "paused", "paused")
    /\ control' = [control EXCEPT ![job[w]] = "paused"]
    /\ Instead(w, <<"tell", "check", "pend">>)
    /\ UNCHANGED <<active, registered, job, late, journal>>

\* wait_for_provider: no deadline to wait for, or a wait that looks at the
\* control each minute.
Park(w) ==
    /\ At(w, "defer")
    /\ \/ Instead(w, <<"check", "pend">>) /\ UNCHANGED <<status, stage>>
       \/ Says(w, "waiting", "work") /\ Instead(w, <<"tell", "wait">>)
    /\ UNCHANGED <<control, active, registered, job, late, journal>>

Wait(w) ==
    /\ At(w, "wait")
    /\ IF Stopped(job[w])
         THEN /\ Says(w, Control(job[w]), IF stopping THEN "work" ELSE control[job[w]])
              /\ Instead(w, <<"tell", "check", "pend">>)
         ELSE /\ \E rest \in {<<"hold">>, <<"wake">>} : Instead(w, rest)
              /\ UNCHANGED <<status, stage>>
    /\ UNCHANGED <<control, active, registered, job, late, journal>>

Wake(w) ==
    /\ At(w, "wake")
    /\ Says(w, "running", "work")
    /\ Instead(w, <<"tell", "check", "item">>)
    /\ UNCHANGED <<control, active, registered, job, late, journal>>

NextUnit_Unchecked(w) ==
    /\ At(w, "next")
    /\ \E section \in {"sync", "item"} : Instead(w, <<section>>)
    /\ UNCHANGED <<memory, job, stage, late, journal>>

\* The next batch, the next cycle, or the end of the task.
NextUnit(w) ==
    /\ At(w, "next")
    /\ \E section \in {"sync", "item", "finish"} : Instead(w, <<"check", section>>)
    /\ UNCHANGED <<memory, job, stage, late, journal>>

Concludes(section) ==
    CASE section = "finish" -> {"complete", "partial"}
      [] section = "pend"   -> {"pending"}
      [] section = "fail"   -> {"error"}
Conclude(w) ==
    \E section \in {"finish", "pend", "fail"} :
        /\ At(w, section)
        /\ \E s \in Concludes(section) : Says(w, s, "work")
        /\ Instead(w, <<"tell", "end">>)
        /\ UNCHANGED <<control, active, registered, job, late, journal>>

End_Active(w) ==
    /\ At(w, "end")
    /\ registered' = [registered EXCEPT ![job[w]] = Nobody]
    /\ Instead(w, << >>)
    /\ UNCHANGED <<status, control, active, job, stage, late, journal>>

End(w) ==
    /\ At(w, "end")
    /\ registered' = [registered EXCEPT ![job[w]] = Nobody]
    /\ active' = IF active = job[w] THEN Nobody ELSE active
    /\ Instead(w, << >>)
    /\ UNCHANGED <<status, control, job, stage, late, journal>>

Work(w) ==
    /\ \/ Misread(w) \/ Begin(w) \/ Tell(w) \/ Check(w) \/ Sync(w) \/ Commit(w)
       \/ Result(w) \/ Item(w) \/ Hold(w) \/ Park(w) \/ Wait(w) \/ Wake(w) \/ NextUnit(w)
       \/ Conclude(w) \/ End(w)
    /\ UNCHANGED <<client, stopping, calls, crashes>>

----------------------------------------------------------------------------
(* The HTTP requests                                                       *)

Asks(c) == c \in Clients /\ client[c].step = "idle" /\ ~Saves(c) /\ calls < MaxCalls /\ calls' = calls + 1
Does(c, step, t) == client' = [client EXCEPT ![c] = [step |-> step, task |-> t]]
requests == <<workers, stopping, crashes>>

\* start_data_task: admission and the new identifier come before the lock is taken.
Admits == ~stopping /\ ~LatestActive
Start(c, t) ==
    /\ Asks(c) /\ Admits
    /\ status[t] = "none"
    /\ Does(c, "register", t)
    /\ UNCHANGED <<memory, journal, requests>>

\* The first event carries the options: where they clash with its parameters
\* the request fails after the task has become the active one.
Register(c) ==
    /\ client[c].step = "register"
    /\ LET t == client[c].task IN
        /\ status' = [status EXCEPT ![t] = "queued"]
        /\ control' = [control EXCEPT ![t] = "none"]
        /\ active' = t
        /\ IF t \in Clashing THEN client' = [client EXCEPT ![c] = Idle] ELSE Does(c, "tell", t)
    /\ UNCHANGED <<registered, journal, requests, calls>>

Request(c, t, request) ==
    /\ Asks(c)
    /\ status[t] \notin {"none", "complete", "cancelled"}
    /\ control' = [control EXCEPT ![t] = request]
    /\ status' = [status EXCEPT ![t] = request]
    /\ Does(c, "answer", t)
    /\ UNCHANGED <<active, registered, journal, requests>>

Runs(t) == registered[t] # Nobody /\ Alive(registered[t])
Resume(c, t) ==
    /\ Asks(c)
    /\ ~Runs(t) /\ status[t] \in Resumable /\ ~LatestActive
    /\ control' = [control EXCEPT ![t] = "none"]
    /\ status' = [status EXCEPT ![t] = "queued"]
    /\ active' = t
    /\ Does(c, "tell", t)
    /\ UNCHANGED <<registered, journal, requests>>

\* data_task_event, whose record is the state of the task by then.
Announce(c) ==
    /\ client[c].step \in {"tell", "answer"}
    /\ Event(c, client[c].task)
    /\ client' = [client EXCEPT ![c].step = IF @ = "tell" THEN "list" ELSE "idle"]
    /\ UNCHANGED <<memory, writer, row, locked, requests, calls>>

\* The worker is listed and started: a listed thread that has not started is
\* not alive, so nobody can tell the two apart.
StartWorker(c) ==
    /\ client[c].step = "list" /\ ~Saves(c)
    /\ \E v \in Workers : job[v] = Nobody
    /\ LET w == CHOOSE v \in Workers : job[v] = Nobody IN
        /\ registered' = [registered EXCEPT ![client[c].task] = w]
        /\ job' = [job EXCEPT ![w] = client[c].task]
        /\ plan' = [plan EXCEPT ![w] = <<"begin">>]
    /\ client' = [client EXCEPT ![c] = Idle]
    /\ UNCHANGED <<status, control, active, stage, late, stopping, journal, calls, crashes>>

Finishes(c) == Announce(c) \/ StartWorker(c)

----------------------------------------------------------------------------
(* Stop, crash and restart                                                 *)

\* stop_data_tasks; the process ends when its workers have or after 40 seconds.
Shutdown ==
    /\ ~stopping /\ stopping' = TRUE
    /\ UNCHANGED <<memory, workers, client, journal, calls, crashes>>

\* restore_data_tasks_from_db and, if it is configured, resume_persisted_data_task.
Restored(young) ==
    [t \in Tasks |-> IF row[t].status \notin Live THEN row[t].status
                     ELSE IF t \in young THEN "queued" ELSE "error"]
Candidates(young) == {t \in young : row[t].status \in Live}
\* The event of a resumption carries the options too: where they clash the main
\* thread ends, and the process serves nobody.
Down(t) == ResumeAtStart /\ t \in Clashing
Restart ==
    /\ crashes < MaxCrashes /\ crashes' = crashes + 1
    /\ \E young \in SUBSET Tasks :
       \E resumed \in IF Candidates(young) = {} THEN {Nobody} ELSE Candidates(young) :
        /\ row' = [t \in Tasks |-> [row[t] EXCEPT !.status = Restored(young)[t]]]
        /\ stopping' = Down(resumed)
        /\ IF Down(resumed)
             THEN active' = Nobody /\ status' = [t \in Tasks |-> "none"]
             ELSE active' = resumed /\ status' = Restored(young)
        /\ client' = [c \in Requesters |->
                        IF c = Boot /\ ResumeAtStart /\ active' # Nobody
                        THEN [step |-> "tell", task |-> active'] ELSE Idle]
    /\ control' = [t \in Tasks |-> row[t].control]
    /\ registered' = [t \in Tasks |-> Nobody]
    /\ plan' = [w \in Workers |-> << >>]
    /\ writer' = Nobody
    /\ saving' = [a \in Actors |-> NoSave]
    /\ UNCHANGED <<job, stage, late, calls, locked>>

----------------------------------------------------------------------------

Next ==
    \/ \E c \in Clients, t \in Tasks :
        \/ Start(c, t) \/ Resume(c, t)
        \/ Request(c, t, "paused") \/ Request(c, t, "cancelled")
    \/ \E c \in Clients : Register(c)
    \/ \E c \in Requesters : Finishes(c)
    \/ \E w \in Workers : Work(w)
    \/ \E a \in Actors : Persist(a)
    \/ Shutdown \/ Restart

Spec == Init /\ [][Next]_vars

\* Threads run on, and a thread that waits for the writer gets it.
Fairness ==
    /\ \A w \in Workers : WF_vars(Work(w) \/ Persist(w))
    /\ \A c \in Requesters : WF_vars(Persist(c))
FairSpec == Spec /\ Fairness

----------------------------------------------------------------------------
(* Properties                                                              *)

\* A task shown as running or waiting has a worker that will end that state.
Worked(t) == \E w \in Workers : Alive(w) /\ job[w] = t
ShownRunning == \A t \in Tasks : status[t] \in {"running", "waiting"} => Worked(t)

\* After a pause, a cancellation or the stop of the server a worker begins at
\* most the one unit it had already decided to begin.
OneUnitAfterStop == \A w \in Workers : late[w] <= 1

OnItsWay(t) ==
    \/ Worked(t)
    \/ \E c \in Requesters : client[c].task = t /\ client[c].step \in {"tell", "list"}
LeftBehind(t) == t \in Clashing \cup Mistyped /\ status[t] = "queued"
\* The task that keeps others from starting has a worker, or a request or the
\* main thread is about to give it one (server.py:11423: "Explicit dashboard
\* tasks remain available with shared admission") - unless its options are of a
\* kind on which the code fails between the registration and the worker's handler.
\* Such a task stays queued and keeps others out until it is paused or cancelled.
ActiveIsRun == LatestActive => OnItsWay(active) \/ LeftBehind(active)

TasksInv == TypeOK /\ ShownRunning /\ OneUnitAfterStop

\* The workers of a task that is asked to stop close, unless it is resumed first.
StopHonoured ==
    \A t \in Tasks :
        (Stopped(t) /\ Worked(t)) ~> (~Stopped(t) \/ ~Worked(t))
=============================================================================
