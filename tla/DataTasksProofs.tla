-------------------------- MODULE DataTasksProofs --------------------------
(***************************************************************************)
(* Proofs about the data tasks: TasksInv and, where saved tasks are        *)
(* resumed, ActiveIsRun, for any tasks, HTTP threads and workers.          *)
(*                                                                         *)
(* TasksInv is not inductive: a worker that runs beside another one of its *)
(* task may end while the status still says running.  TasksKept adds what  *)
(* plans a worker can have, that a status of running was written by a      *)
(* worker that has not concluded, and that a unit begins right after a     *)
(* look at the control.                                                    *)
(***************************************************************************)
EXTENDS DataTasks, SequenceTheorems, TLAPS

Told == {<<"tell", "check", "sync">>, <<"tell", "check", "item">>, <<"tell", "check", "pend">>,
         <<"tell", "next">>, <<"tell", "wait">>, <<"tell", "end">>}
Checked == {<<"check", "sync">>, <<"check", "item">>, <<"check", "result">>, <<"check", "defer">>,
            <<"check", "pend">>, <<"check", "finish">>}
Single == {<<s>> : s \in Sections \ {"tell", "check"}}
Plans == {<<>>} \cup Told \cup Checked \cup Single
\* What is left of a worker that has written its last status, or none yet.
Ending == {<<>>, <<"tell", "end">>, <<"end">>, <<"begin">>}
Units == {<<"sync">>, <<"item">>}

\* Tuples of a worker's plan, apart and taken apart.
LEMMA Tuples ==
    ASSUME NEW a, NEW b, NEW c
    PROVE  /\ Head(<<a, b, c>>) = a /\ Head(<<a, b>>) = a /\ Head(<<a>>) = a
           /\ Tail(<<a, b, c>>) = <<b, c>> /\ Tail(<<a, b>>) = <<b>> /\ Tail(<<a>>) = <<>>
           /\ \A d : /\ <<a, b, c>> # <<d>> /\ <<a, b>> # <<d>> /\ <<a>> # <<>> /\ <<a, b>> # <<>>
                    /\ (<<a>> = <<d>> <=> a = d) /\ <<a, b, c>> # <<a, d>> /\ <<a, b, c>> # <<>>
           /\ \A d, e : <<a, b>> = <<d, e>> <=> a = d /\ b = e
OBVIOUS

LEMMA SectionsIn ==
    ASSUME NEW a \in Sections, NEW b \in Sections, NEW c \in Sections
    PROVE  <<a, b, c>> \in Seq(Sections) /\ <<a, b>> \in Seq(Sections) /\ <<a>> \in Seq(Sections) /\ <<>> \in Seq(Sections)
OBVIOUS

LEMMA PlanShapes ==
    ASSUME NEW p \in Plans
    PROVE  /\ p \in Seq(Sections)
           /\ p # <<>> => /\ Head(p) = "tell" => /\ p \in Told /\ Tail(p) \in Plans \ (Units \cup {<<>>})
                                                 /\ Tail(p) \in Ending <=> p \in Ending
                          /\ Head(p) = "check" => p \in Checked /\ Tail(p) \in Plans \ Ending
                          /\ Head(p) \notin {"tell", "check"} => p = <<Head(p)>> /\ Tail(p) = <<>>
<1>1. CASE p = <<>>
  BY <1>1, SectionsIn DEF Sections
<1>2. CASE p \in Told
  <2>1. CASE p = <<"tell", "check", "sync">>
    <3>1. Head(p) = "tell" /\ Tail(p) = <<"check", "sync">> /\ p \in Seq(Sections)
      BY <2>1, Tuples, SectionsIn DEF Sections
    <3>2. <<"check", "sync">> \in Checked
      BY DEF Checked, Sections
    <3>3. <<"check", "sync">> \notin Units \cup {<<>>}
      BY Tuples DEF Units
    <3>4. <<"check", "sync">> \in Ending <=> <<"tell", "check", "sync">> \in Ending
      BY Tuples DEF Ending
    <3> QED
      BY <1>2, <2>1, <3>1, <3>2, <3>3, <3>4 DEF Plans
  <2>2. CASE p = <<"tell", "check", "item">>
    <3>1. Head(p) = "tell" /\ Tail(p) = <<"check", "item">> /\ p \in Seq(Sections)
      BY <2>2, Tuples, SectionsIn DEF Sections
    <3>2. <<"check", "item">> \in Checked
      BY DEF Checked, Sections
    <3>3. <<"check", "item">> \notin Units \cup {<<>>}
      BY Tuples DEF Units
    <3>4. <<"check", "item">> \in Ending <=> <<"tell", "check", "item">> \in Ending
      BY Tuples DEF Ending
    <3> QED
      BY <1>2, <2>2, <3>1, <3>2, <3>3, <3>4 DEF Plans
  <2>3. CASE p = <<"tell", "check", "pend">>
    <3>1. Head(p) = "tell" /\ Tail(p) = <<"check", "pend">> /\ p \in Seq(Sections)
      BY <2>3, Tuples, SectionsIn DEF Sections
    <3>2. <<"check", "pend">> \in Checked
      BY DEF Checked, Sections
    <3>3. <<"check", "pend">> \notin Units \cup {<<>>}
      BY Tuples DEF Units
    <3>4. <<"check", "pend">> \in Ending <=> <<"tell", "check", "pend">> \in Ending
      BY Tuples DEF Ending
    <3> QED
      BY <1>2, <2>3, <3>1, <3>2, <3>3, <3>4 DEF Plans
  <2>4. CASE p = <<"tell", "next">>
    <3>1. Head(p) = "tell" /\ Tail(p) = <<"next">> /\ p \in Seq(Sections)
      BY <2>4, Tuples, SectionsIn DEF Sections
    <3>2. <<"next">> \in Single
      BY DEF Single, Sections
    <3>3. <<"next">> \notin Units \cup {<<>>}
      BY Tuples DEF Units
    <3>4. <<"next">> \in Ending <=> <<"tell", "next">> \in Ending
      BY Tuples DEF Ending
    <3> QED
      BY <1>2, <2>4, <3>1, <3>2, <3>3, <3>4 DEF Plans
  <2>5. CASE p = <<"tell", "wait">>
    <3>1. Head(p) = "tell" /\ Tail(p) = <<"wait">> /\ p \in Seq(Sections)
      BY <2>5, Tuples, SectionsIn DEF Sections
    <3>2. <<"wait">> \in Single
      BY DEF Single, Sections
    <3>3. <<"wait">> \notin Units \cup {<<>>}
      BY Tuples DEF Units
    <3>4. <<"wait">> \in Ending <=> <<"tell", "wait">> \in Ending
      BY Tuples DEF Ending
    <3> QED
      BY <1>2, <2>5, <3>1, <3>2, <3>3, <3>4 DEF Plans
  <2>6. CASE p = <<"tell", "end">>
    <3>1. Head(p) = "tell" /\ Tail(p) = <<"end">> /\ p \in Seq(Sections)
      BY <2>6, Tuples, SectionsIn DEF Sections
    <3>2. <<"end">> \in Single
      BY DEF Single, Sections
    <3>3. <<"end">> \notin Units \cup {<<>>}
      BY Tuples DEF Units
    <3>4. <<"end">> \in Ending <=> <<"tell", "end">> \in Ending
      BY Tuples DEF Ending
    <3> QED
      BY <1>2, <2>6, <3>1, <3>2, <3>3, <3>4 DEF Plans
  <2> QED
    BY <1>2, <2>1, <2>2, <2>3, <2>4, <2>5, <2>6 DEF Told
<1>3. CASE p \in Checked
  <2>1. CASE p = <<"check", "sync">>
    <3>1. Head(p) = "check" /\ Tail(p) = <<"sync">> /\ p \in Seq(Sections)
      BY <2>1, Tuples, SectionsIn DEF Sections
    <3>2. <<"sync">> \in Single /\ <<"sync">> \notin Ending
      BY Tuples DEF Single, Sections, Ending
    <3> QED
      BY <1>3, <3>1, <3>2 DEF Plans
  <2>2. CASE p = <<"check", "item">>
    <3>1. Head(p) = "check" /\ Tail(p) = <<"item">> /\ p \in Seq(Sections)
      BY <2>2, Tuples, SectionsIn DEF Sections
    <3>2. <<"item">> \in Single /\ <<"item">> \notin Ending
      BY Tuples DEF Single, Sections, Ending
    <3> QED
      BY <1>3, <3>1, <3>2 DEF Plans
  <2>3. CASE p = <<"check", "result">>
    <3>1. Head(p) = "check" /\ Tail(p) = <<"result">> /\ p \in Seq(Sections)
      BY <2>3, Tuples, SectionsIn DEF Sections
    <3>2. <<"result">> \in Single /\ <<"result">> \notin Ending
      BY Tuples DEF Single, Sections, Ending
    <3> QED
      BY <1>3, <3>1, <3>2 DEF Plans
  <2>4. CASE p = <<"check", "defer">>
    <3>1. Head(p) = "check" /\ Tail(p) = <<"defer">> /\ p \in Seq(Sections)
      BY <2>4, Tuples, SectionsIn DEF Sections
    <3>2. <<"defer">> \in Single /\ <<"defer">> \notin Ending
      BY Tuples DEF Single, Sections, Ending
    <3> QED
      BY <1>3, <3>1, <3>2 DEF Plans
  <2>5. CASE p = <<"check", "pend">>
    <3>1. Head(p) = "check" /\ Tail(p) = <<"pend">> /\ p \in Seq(Sections)
      BY <2>5, Tuples, SectionsIn DEF Sections
    <3>2. <<"pend">> \in Single /\ <<"pend">> \notin Ending
      BY Tuples DEF Single, Sections, Ending
    <3> QED
      BY <1>3, <3>1, <3>2 DEF Plans
  <2>6. CASE p = <<"check", "finish">>
    <3>1. Head(p) = "check" /\ Tail(p) = <<"finish">> /\ p \in Seq(Sections)
      BY <2>6, Tuples, SectionsIn DEF Sections
    <3>2. <<"finish">> \in Single /\ <<"finish">> \notin Ending
      BY Tuples DEF Single, Sections, Ending
    <3> QED
      BY <1>3, <3>1, <3>2 DEF Plans
  <2> QED
    BY <1>3, <2>1, <2>2, <2>3, <2>4, <2>5, <2>6 DEF Checked
<1>4. CASE p \in Single
  <2>1. PICK a \in Sections \ {"tell", "check"} : p = <<a>>
    BY <1>4 DEF Single
  <2>2. Head(p) = a /\ Tail(p) = <<>> /\ p \in Seq(Sections)
    BY <2>1, Tuples, SectionsIn
  <2> QED
    BY <2>1, <2>2
<1> QED
  BY <1>1, <1>2, <1>3, <1>4 DEF Plans

Showing == {"running", "waiting"}
\* A status of running is the work of a worker that has not concluded.
Held(t) == \E w \in Workers : job[w] = t /\ plan[w] \notin Ending
WorkerKept(w) ==
    /\ plan[w] \in Plans /\ (plan[w] # <<>> => job[w] \in Tasks)
    /\ late[w] \in {0, 1} /\ (plan[w] \in Units => late[w] = 0)
ClientKept(c) == client[c].step # "idle" => client[c].task \in Tasks
TasksKept ==
    /\ TypeOK
    /\ \A w \in Workers : WorkerKept(w)
    /\ \A c \in Requesters : ClientKept(c)
    /\ \A t \in Tasks : status[t] \in Showing => Held(t)

LEMMA PlansTyped == \A p \in Plans : p \in Seq(Sections)
BY PlanShapes

\* A worker moves on: what it says of its task decides whether it may stop holding it.
LEMMA Moves ==
    ASSUME TasksKept, NEW w \in Workers, job[w] \in Tasks, UNCHANGED <<job, client, stopping, calls, crashes>>,
           NEW p \in Plans, plan' = [plan EXCEPT ![w] = p],
           NEW s \in Statuses, status' = [status EXCEPT ![job[w]] = s],
           s \in Showing => p \notin Ending \/ (s = status[job[w]] /\ plan[w] \in Ending),
           NEW n \in {0, 1}, late' = [late EXCEPT ![w] = n], p \in Units => n = 0,
           control' \in [Tasks -> Controls], active' \in Tasks \cup {Nobody},
           registered' \in [Tasks -> Workers \cup {Nobody}], stage' \in [Workers -> {"work", "paused", "cancelled"}],
           writer' \in Actors \cup {Nobody}, saving' \in [Actors -> Record \cup {NoSave}],
           row' \in [Tasks -> Saved], locked' \in 0..MaxLocked
    PROVE  TasksKept'
<1>1. TypeOK
  BY DEF TasksKept
<1>2. /\ plan' \in [Workers -> Seq(Sections)] /\ plan'[w] = p /\ \A v \in Workers \ {w} : plan'[v] = plan[v]
  BY <1>1, PlansTyped DEF TypeOK
<1>3. /\ status' \in [Tasks -> Statuses] /\ status'[job[w]] = s /\ \A t \in Tasks \ {job[w]} : status'[t] = status[t]
  BY <1>1 DEF TypeOK
<1>4. /\ late' \in [Workers -> 0..2] /\ late'[w] = n /\ \A v \in Workers \ {w} : late'[v] = late[v]
  BY <1>1 DEF TypeOK
<1>5. TypeOK'
  BY <1>1, <1>2, <1>3, <1>4 DEF TypeOK
<1>6. \A v \in Workers : WorkerKept(v)'
  <2>1. WorkerKept(w)'
    BY <1>2, <1>4 DEF WorkerKept
  <2>2. ASSUME NEW v \in Workers \ {w} PROVE WorkerKept(v)'
    BY <1>2, <1>4 DEF WorkerKept, TasksKept
  <2> QED
    BY <2>1, <2>2
<1>7. \A c \in Requesters : ClientKept(c)'
  BY DEF ClientKept, TasksKept
<1>8. ASSUME NEW t \in Tasks, status'[t] \in Showing PROVE Held(t)'
  <2>1. CASE t # job[w]
    <3>1. status[t] \in Showing
      BY <1>3, <1>8, <2>1
    <3>2. PICK v \in Workers : job[v] = t /\ plan[v] \notin Ending
      BY <3>1 DEF TasksKept, Held
    <3>3. plan'[v] = plan[v] /\ job'[v] = job[v]
      BY <1>2, <2>1, <3>2
    <3> QED
      BY <3>2, <3>3 DEF Held
  <2>2. CASE t = job[w] /\ p \notin Ending
    BY <1>2, <2>2 DEF Held
  <2>3. CASE t = job[w] /\ s = status[job[w]] /\ plan[w] \in Ending
    <3>1. PICK v \in Workers : job[v] = t /\ plan[v] \notin Ending
      BY <1>3, <1>8, <2>3 DEF TasksKept, Held
    <3>2. plan'[v] = plan[v] /\ job'[v] = job[v]
      BY <1>2, <2>3, <3>1
    <3> QED
      BY <3>1, <3>2 DEF Held
  <2> QED
    BY <1>3, <1>8, <2>1, <2>2, <2>3
<1> QED
  BY <1>5, <1>6, <1>7, <1>8 DEF TasksKept

\* Where a worker is tells its plan.
LEMMA AtFacts ==
    ASSUME TasksKept, NEW w \in Workers, NEW section, At(w, section)
    PROVE  /\ job[w] \in Tasks /\ plan[w] \in Plans /\ plan[w] \in Seq(Sections) /\ plan[w] # <<>>
           /\ status[job[w]] \in Statuses /\ control[job[w]] \in Controls /\ late[w] \in {0, 1}
           /\ plan[w] \in Units => late[w] = 0
           /\ section = "tell" => /\ plan[w] \in Told /\ Tail(plan[w]) \in Plans \ (Units \cup {<<>>})
                                  /\ Tail(plan[w]) \in Ending <=> plan[w] \in Ending
           /\ section = "check" => plan[w] \in Checked /\ Tail(plan[w]) \in Plans \ Ending
           /\ section \notin {"tell", "check"} => plan[w] = <<section>> /\ Tail(plan[w]) = <<>>
<1>1. plan[w] \in Plans /\ plan[w] # <<>> /\ job[w] \in Tasks /\ late[w] \in {0, 1} /\ (plan[w] \in Units => late[w] = 0)
      /\ Head(plan[w]) = section
  BY DEF TasksKept, WorkerKept, At, Alive
<1>2. status[job[w]] \in Statuses /\ control[job[w]] \in Controls
  BY <1>1 DEF TasksKept, TypeOK
<1> HIDE DEF Plans, Told, Checked, Ending, Units
<1>3. plan[w] \in Seq(Sections)
  BY <1>1, PlansTyped
<1> QED
  BY <1>1, <1>2, <1>3, PlanShapes

\* Plans of a worker that goes on, and does not begin a unit now.
Going == Plans \ (Ending \cup Units)
LEMMA GoingPlans ==
    /\ Told \ {<<"tell", "end">>} \subseteq Going /\ Checked \subseteq Going
    /\ \A s \in Sections \ {"tell", "check", "begin", "end", "sync", "item"} : <<s>> \in Going
    /\ <<"tell", "end">> \in Plans \ Units /\ <<>> \in Plans \ Units /\ <<"begin">> \in Plans \ Units
    /\ <<"sync">> \in Plans \ Ending /\ <<"item">> \in Plans \ Ending
<1>1. ASSUME NEW p \in Told \ {<<"tell", "end">>} PROVE p \in Going
  <2>1. p # <<>> /\ \A s : p # <<s>>
    BY Tuples DEF Told
  <2> QED
    BY <2>1 DEF Going, Plans, Ending, Units
<1>2. ASSUME NEW p \in Checked PROVE p \in Going
  <2>1. p # <<>> /\ (\A s : p # <<s>>) /\ p # <<"tell", "end">>
    BY Tuples DEF Checked
  <2> QED
    BY <2>1 DEF Going, Plans, Ending, Units
<1>3. ASSUME NEW s \in Sections \ {"tell", "check", "begin", "end", "sync", "item"} PROVE <<s>> \in Going
  <2>1. <<s>> \in Single
    BY DEF Single
  <2>2. <<s>> \notin Ending \cup Units
    BY Tuples DEF Ending, Units
  <2> QED
    BY <2>1, <2>2 DEF Going, Plans
<1>4. <<"tell", "end">> \notin Units /\ <<>> \notin Units /\ <<"tell", "end">> \in Told
  BY Tuples DEF Units, Told
<1>5. <<"begin">> \notin Units /\ <<"begin">> \in Single
  BY Tuples DEF Units, Single, Sections
<1>6. <<"sync">> \notin Ending /\ <<"item">> \notin Ending /\ <<"sync">> \in Single /\ <<"item">> \in Single
  BY Tuples DEF Ending, Single, Sections
<1> QED
  BY <1>1, <1>2, <1>3, <1>4, <1>5, <1>6 DEF Plans

LEMMA Frame ==
    ASSUME TasksKept
    PROVE  /\ control' = control => control' \in [Tasks -> Controls]
           /\ active' = active => active' \in Tasks \cup {Nobody}
           /\ registered' = registered => registered' \in [Tasks -> Workers \cup {Nobody}]
           /\ stage' = stage => stage' \in [Workers -> {"work", "paused", "cancelled"}]
           /\ saving' = saving => saving' \in [Actors -> Record \cup {NoSave}]
           /\ writer' = writer => writer' \in Actors \cup {Nobody}
           /\ row' = row => row' \in [Tasks -> Saved]
           /\ locked' = locked => locked' \in 0..MaxLocked
           /\ \A w \in Workers : /\ status = [status EXCEPT ![job[w]] = status[job[w]]]
                                 /\ late = [late EXCEPT ![w] = late[w]]
BY DEF TasksKept, TypeOK

LEMMA SaysFacts ==
    ASSUME TasksKept, NEW w \in Workers, NEW s \in Statuses, NEW st \in {"work", "paused", "cancelled"}, Says(w, s, st)
    PROVE  /\ status' = [status EXCEPT ![job[w]] = s] /\ stage' \in [Workers -> {"work", "paused", "cancelled"}]
BY DEF TasksKept, TypeOK, Says

HIDE DEF Plans, Told, Checked, Single

LEMMA BeginKept ==
    ASSUME TasksKept, NEW w \in Workers, Begin(w), UNCHANGED <<client, stopping, calls, crashes>>
    PROVE  TasksKept'
<1>1. job[w] \in Tasks /\ late[w] \in {0, 1}
  BY AtFacts DEF Begin
<1>2. PICK p \in {<<"tell", "check", "sync">>, <<"tell", "check", "item">>, <<"fail">>} : plan' = [plan EXCEPT ![w] = p]
  BY DEF Begin, Instead
<1>3. p \in Going
  <2>1. {<<"tell", "check", "sync">>, <<"tell", "check", "item">>} \subseteq Told \ {<<"tell", "end">>}
    BY Tuples DEF Told
  <2> QED
    BY <2>1, GoingPlans DEF Sections
<1>4. /\ status' = [status EXCEPT ![job[w]] = "running"]
      /\ stage' \in [Workers -> {"work", "paused", "cancelled"}]
      /\ "running" \in Statuses
  BY SaysFacts DEF Begin, Statuses, Live
<1>5. UNCHANGED <<control, active, registered, job, late, saving, writer, row, locked>>
  BY DEF Begin, journal
<1> QED
  BY <1>1, <1>2, <1>3, <1>4, <1>5, Frame, Moves DEF Going

\* A worker that goes on with its task; it may say something new of it.
LEMMA GoesOn ==
    ASSUME TasksKept, NEW w \in Workers, NEW section, At(w, section), NEW p \in Going, Instead(w, p),
           UNCHANGED <<job, late, saving, writer, row, locked, active, registered, client, stopping, calls, crashes>>,
           control' \in [Tasks -> Controls],
           \/ UNCHANGED <<status, stage>>
           \/ \E s \in Statuses, st \in {"work", "paused", "cancelled"} : Says(w, s, st)
    PROVE  TasksKept'
<1>1. job[w] \in Tasks /\ late[w] \in {0, 1} /\ status[job[w]] \in Statuses
  BY AtFacts
<1>2. plan' = [plan EXCEPT ![w] = p] /\ p \in Plans /\ p \notin Ending /\ p \notin Units
  BY DEF Instead, Going
<1>3. \E s \in Statuses : /\ status' = [status EXCEPT ![job[w]] = s]
                          /\ stage' \in [Workers -> {"work", "paused", "cancelled"}]
  BY <1>1, Frame, SaysFacts
<1> QED
  BY <1>1, <1>2, <1>3, Frame, Moves

LEMMA AtUnits ==
    ASSUME TasksKept, NEW w \in Workers, NEW section \in {"sync", "item", "begin", "end"}, At(w, section)
    PROVE  (section \in {"sync", "item"} => late[w] = 0) /\ (section \in {"begin", "end"} => plan[w] \in Ending)
<1>1. plan[w] = <<section>> /\ (plan[w] \in Units => late[w] = 0)
  <2>1. section \notin {"tell", "check"}
    OBVIOUS
  <2> QED
    BY <2>1, AtFacts
<1> QED
  BY <1>1 DEF Units, Ending

LEMMA ThenFacts ==
    ASSUME TasksKept, NEW w \in Workers, NEW section, At(w, section)
    PROVE  /\ Then(w, << >>) => plan' = [plan EXCEPT ![w] = Tail(plan[w])]
           /\ section = "sync" /\ Then(w, <<"commit">>) => plan' = [plan EXCEPT ![w] = <<"commit">>]
<1>1. plan[w] \in Seq(Sections) /\ plan[w] # <<>>
  BY AtFacts
<1>2. <<>> \o Tail(plan[w]) = Tail(plan[w])
  BY <1>1
<1>3. section = "sync" => <<"commit">> \o Tail(plan[w]) = <<"commit">>
  <2>1. <<"commit">> \o <<>> = <<"commit">>
    OBVIOUS
  <2> QED
    BY <2>1, AtFacts
<1> QED
  BY <1>2, <1>3 DEF Then

LEMMA TellKept ==
    ASSUME TasksKept, NEW w \in Workers, Tell(w), UNCHANGED <<client, stopping, calls, crashes>>
    PROVE  TasksKept'
<1>1. At(w, "tell")
  BY DEF Tell
<1>2. /\ job[w] \in Tasks /\ late[w] \in {0, 1} /\ status[job[w]] \in Statuses /\ control[job[w]] \in Controls
      /\ Tail(plan[w]) \in Plans /\ Tail(plan[w]) \notin Units /\ (Tail(plan[w]) \in Ending => plan[w] \in Ending)
  BY <1>1, AtFacts
<1>3. plan' = [plan EXCEPT ![w] = Tail(plan[w])]
  BY <1>1, ThenFacts DEF Tell
<1>4. saving' \in [Actors -> Record \cup {NoSave}]
  <2>1. Copy(job[w]) \in Record /\ saving \in [Actors -> Record \cup {NoSave}]
    BY <1>2 DEF Copy, Record, TasksKept, TypeOK
  <2> QED
    BY <2>1 DEF Tell, Event
<1>5. UNCHANGED <<status, control, active, registered, job, stage, late, writer, row, locked>>
  BY DEF Tell, memory
<1> QED
  BY <1>2, <1>3, <1>4, <1>5, Frame, Moves

\* A request to stop, or the server's, is what the worker says.
LEMMA StopFacts ==
    ASSUME TasksKept, NEW w \in Workers, job[w] \in Tasks, Stopped(job[w])
    PROVE  /\ Control(job[w]) \in Statuses \ Showing
           /\ (IF stopping THEN "work" ELSE control[job[w]]) \in {"work", "paused", "cancelled"}
BY DEF TasksKept, TypeOK, Stopped, Control, Controls, Statuses, Resumable, Showing

LEMMA CheckKept ==
    ASSUME TasksKept, NEW w \in Workers, Check(w), UNCHANGED <<client, stopping, calls, crashes>>
    PROVE  TasksKept'
<1>1. At(w, "check")
  BY DEF Check
<1>2. /\ job[w] \in Tasks /\ late[w] \in {0, 1} /\ status[job[w]] \in Statuses
      /\ Tail(plan[w]) \in Plans /\ Tail(plan[w]) \notin Ending
  BY <1>1, AtFacts
<1>3. UNCHANGED <<control, active, registered, job, saving, writer, row, locked>>
  BY DEF Check, journal
<1>4. CASE Stopped(job[w])
  <2>1. PICK p \in Plans \ Units : plan' = [plan EXCEPT ![w] = p]
    <3>1. <<"tell", "check", "pend">> \in Plans \ Units /\ <<"tell", "end">> \in Plans \ Units
      BY GoingPlans, Tuples DEF Told, Going
    <3> QED
      BY <1>4, <3>1 DEF Check, CheckAgain, Instead
  <2>2. /\ status' = [status EXCEPT ![job[w]] = Control(job[w])]
        /\ stage' \in [Workers -> {"work", "paused", "cancelled"}] /\ late' = late
    BY <1>2, <1>4, StopFacts, SaysFacts DEF Check
  <2> QED
    BY <1>2, <1>3, <1>4, <2>1, <2>2, StopFacts, Frame, Moves
<1>5. CASE ~Stopped(job[w])
  <2>1. plan' = [plan EXCEPT ![w] = Tail(plan[w])] /\ late' = [late EXCEPT ![w] = 0] /\ UNCHANGED <<status, stage>>
    BY <1>1, <1>5, ThenFacts DEF Check
  <2> QED
    BY <1>2, <1>3, <2>1, Frame, Moves
<1> QED
  BY <1>4, <1>5

\* A unit begins with no unit missed.
LEMMA BeginUnitFacts ==
    ASSUME TasksKept, NEW w \in Workers, late[w] = 0, BeginUnit(w)
    PROVE  \E n \in {0, 1} : late' = [late EXCEPT ![w] = n]
<1>1. Stopped(job[w]) => late' = [late EXCEPT ![w] = 1]
  BY DEF BeginUnit, TasksKept, TypeOK
<1>2. ~Stopped(job[w]) => late' = [late EXCEPT ![w] = 0]
  BY DEF BeginUnit
<1> QED
  BY <1>1, <1>2

LEMMA SyncKept ==
    ASSUME TasksKept, NEW w \in Workers, Sync(w), UNCHANGED <<client, stopping, calls, crashes>>
    PROVE  TasksKept'
<1>1. At(w, "sync")
  BY DEF Sync
<1>2. job[w] \in Tasks /\ status[job[w]] \in Statuses /\ late[w] = 0
  BY <1>1, AtFacts, AtUnits
<1>3. plan' = [plan EXCEPT ![w] = <<"commit">>]
  BY <1>1, ThenFacts DEF Sync
<1>4. <<"commit">> \in Going
  BY GoingPlans DEF Sections
<1>5. \E n \in {0, 1} : late' = [late EXCEPT ![w] = n]
  BY <1>2, BeginUnitFacts DEF Sync
<1>6. writer' \in Actors \cup {Nobody} /\ UNCHANGED <<status, control, active, registered, job, stage, saving, row, locked>>
  BY DEF Sync, memory, Actors
<1> QED
  BY <1>2, <1>3, <1>4, <1>5, <1>6, Frame, Moves DEF Going

LEMMA CommitKept ==
    ASSUME TasksKept, NEW w \in Workers, Commit(w), UNCHANGED <<client, stopping, calls, crashes>>
    PROVE  TasksKept'
<1>1. job[w] \in Tasks /\ status[job[w]] \in Statuses /\ late[w] \in {0, 1}
  BY AtFacts DEF Commit
<1>2. PICK p \in {<<"check", "result">>, <<"fail">>} : plan' = [plan EXCEPT ![w] = p]
  BY DEF Commit, AfterSync, Instead
<1>3. p \in Going
  BY GoingPlans DEF Sections, Checked
<1>4. writer' \in Actors \cup {Nobody}
      /\ UNCHANGED <<status, control, active, registered, job, stage, late, saving, row, locked>>
  BY DEF Commit, memory
<1> QED
  BY <1>1, <1>2, <1>3, <1>4, Frame, Moves DEF Going

LEMMA ResultKept ==
    ASSUME TasksKept, NEW w \in Workers, Result(w), UNCHANGED <<client, stopping, calls, crashes>>
    PROVE  TasksKept'
<1>1. PICK p \in {<<"fail">>, <<"pend">>, <<"tell", "next">>} : Instead(w, p)
  BY DEF Result
<1>2. p \in Going
  BY GoingPlans, Tuples DEF Sections, Told
<1>3. At(w, "result") /\ UNCHANGED <<status, control, active, registered, job, stage, late, saving, writer, row, locked>>
  BY DEF Result, memory, journal
<1> QED
  BY <1>1, <1>2, <1>3, Frame, GoesOn

LEMMA ItemKept ==
    ASSUME TasksKept, NEW w \in Workers, Item(w), UNCHANGED <<client, stopping, calls, crashes>>
    PROVE  TasksKept'
<1>1. job[w] \in Tasks /\ status[job[w]] \in Statuses /\ late[w] = 0
  BY AtFacts, AtUnits DEF Item
<1>2. PICK p \in {<<"tell", "next">>, <<"fail">>, <<"check", "defer">>} : plan' = [plan EXCEPT ![w] = p]
  BY DEF Item, Instead
<1>3. p \in Going
  BY GoingPlans, Tuples DEF Sections, Told, Checked
<1>4. \E n \in {0, 1} : late' = [late EXCEPT ![w] = n]
  BY <1>1, BeginUnitFacts DEF Item
<1>5. UNCHANGED <<status, control, active, registered, job, stage, saving, writer, row, locked>>
  BY DEF Item, memory, journal
<1> QED
  BY <1>1, <1>2, <1>3, <1>4, <1>5, Frame, Moves DEF Going

LEMMA HoldKept ==
    ASSUME TasksKept, NEW w \in Workers, Hold(w), UNCHANGED <<client, stopping, calls, crashes>>
    PROVE  TasksKept'
<1>1. PICK section \in {"hold", "defer"} : At(w, section)
  BY DEF Hold
<1>2. <<"tell", "check", "pend">> \in Going
  BY GoingPlans, Tuples DEF Told
<1>3. Instead(w, <<"tell", "check", "pend">>) /\ Says(w, "paused", "paused") /\ "paused" \in Statuses
      /\ UNCHANGED <<active, registered, job, late, saving, writer, row, locked>>
  BY DEF Hold, journal, Statuses, Resumable
<1>4. control' \in [Tasks -> Controls]
  BY DEF Hold, TasksKept, TypeOK, Controls
<1> QED
  BY <1>1, <1>2, <1>3, <1>4, GoesOn

LEMMA ParkKept ==
    ASSUME TasksKept, NEW w \in Workers, Park(w), UNCHANGED <<client, stopping, calls, crashes>>
    PROVE  TasksKept'
<1>1. At(w, "defer") /\ UNCHANGED <<control, active, registered, job, late, saving, writer, row, locked>>
  BY DEF Park, journal
<1>2. <<"check", "pend">> \in Going /\ <<"tell", "wait">> \in Going
  BY GoingPlans, Tuples DEF Told, Checked
<1>3. "waiting" \in Statuses
  BY DEF Statuses, Live
<1>4. CASE Instead(w, <<"check", "pend">>) /\ UNCHANGED <<status, stage>>
  BY <1>1, <1>2, <1>4, Frame, GoesOn
<1>5. CASE Says(w, "waiting", "work") /\ Instead(w, <<"tell", "wait">>)
  BY <1>1, <1>2, <1>3, <1>5, Frame, GoesOn
<1> QED
  BY <1>4, <1>5 DEF Park

LEMMA WaitKept ==
    ASSUME TasksKept, NEW w \in Workers, Wait(w), UNCHANGED <<client, stopping, calls, crashes>>
    PROVE  TasksKept'
<1>1. At(w, "wait") /\ UNCHANGED <<control, active, registered, job, late, saving, writer, row, locked>>
  BY DEF Wait, journal
<1>2. <<"tell", "check", "pend">> \in Going /\ <<"hold">> \in Going /\ <<"wake">> \in Going
  BY GoingPlans, Tuples DEF Told, Sections
<1>3. CASE Stopped(job[w])
  <2>1. Says(w, Control(job[w]), IF stopping THEN "work" ELSE control[job[w]]) /\ Instead(w, <<"tell", "check", "pend">>)
    BY <1>3 DEF Wait
  <2>2. /\ Control(job[w]) \in Statuses
        /\ (IF stopping THEN "work" ELSE control[job[w]]) \in {"work", "paused", "cancelled"}
    BY <1>1, <1>3, AtFacts, StopFacts
  <2>3. \E s \in Statuses, st \in {"work", "paused", "cancelled"} : Says(w, s, st)
    BY <2>1, <2>2
  <2> QED
    BY <1>1, <1>2, <2>1, <2>3, Frame, GoesOn
<1>4. CASE ~Stopped(job[w])
  BY <1>1, <1>2, <1>4, Frame, GoesOn DEF Wait
<1> QED
  BY <1>3, <1>4

LEMMA WakeKept ==
    ASSUME TasksKept, NEW w \in Workers, Wake(w), UNCHANGED <<client, stopping, calls, crashes>>
    PROVE  TasksKept'
<1>1. At(w, "wake") /\ UNCHANGED <<control, active, registered, job, late, saving, writer, row, locked>>
  BY DEF Wake, journal
<1>2. <<"tell", "check", "item">> \in Going
  BY GoingPlans, Tuples DEF Told
<1>3. Says(w, "running", "work") /\ "running" \in Statuses /\ Instead(w, <<"tell", "check", "item">>)
  BY DEF Wake, Statuses, Live
<1> QED
  BY <1>1, <1>2, <1>3, Frame, GoesOn

LEMMA NextKept ==
    ASSUME TasksKept, NEW w \in Workers, NextUnit(w), UNCHANGED <<client, stopping, calls, crashes>>
    PROVE  TasksKept'
<1>1. At(w, "next") /\ UNCHANGED <<status, control, active, registered, job, stage, late, saving, writer, row, locked>>
  BY DEF NextUnit, memory, journal
<1>2. PICK section \in {"sync", "item", "finish"} : Instead(w, <<"check", section>>)
  BY DEF NextUnit
<1>3. <<"check", section>> \in Going
  BY GoingPlans DEF Checked
<1> QED
  BY <1>1, <1>2, <1>3, Frame, GoesOn

LEMMA ConcludeKept ==
    ASSUME TasksKept, NEW w \in Workers, Conclude(w), UNCHANGED <<client, stopping, calls, crashes>>
    PROVE  TasksKept'
<1>1. PICK section \in {"finish", "pend", "fail"} :
        /\ At(w, section) /\ (\E s \in Concludes(section) : Says(w, s, "work")) /\ Instead(w, <<"tell", "end">>)
        /\ UNCHANGED <<control, active, registered, job, late, saving, writer, row, locked>>
  BY DEF Conclude, journal
<1>2. PICK s \in {"complete", "partial", "pending", "error"} : Says(w, s, "work")
  BY <1>1 DEF Concludes
<1>3. s \in Statuses /\ s \notin Showing
  BY <1>2 DEF Statuses, Resumable, Showing
<1>4. job[w] \in Tasks /\ late[w] \in {0, 1}
  BY <1>1, AtFacts
<1>5. <<"tell", "end">> \in Plans \ Units /\ plan' = [plan EXCEPT ![w] = <<"tell", "end">>]
  BY <1>1, GoingPlans DEF Instead
<1>6. status' = [status EXCEPT ![job[w]] = s] /\ stage' \in [Workers -> {"work", "paused", "cancelled"}]
  BY <1>2, <1>3, SaysFacts
<1> QED
  BY <1>1, <1>3, <1>4, <1>5, <1>6, Frame, Moves

LEMMA EndKept ==
    ASSUME TasksKept, NEW w \in Workers, End(w), UNCHANGED <<client, stopping, calls, crashes>>
    PROVE  TasksKept'
<1>1. At(w, "end") /\ UNCHANGED <<status, control, job, stage, late, saving, writer, row, locked>>
  BY DEF End, journal
<1>2. job[w] \in Tasks /\ late[w] \in {0, 1} /\ status[job[w]] \in Statuses /\ plan[w] \in Ending
  BY <1>1, AtFacts, AtUnits
<1>3. <<>> \in Plans \ Units /\ plan' = [plan EXCEPT ![w] = <<>>]
  BY GoingPlans DEF End, Instead
<1>4. registered' \in [Tasks -> Workers \cup {Nobody}] /\ active' \in Tasks \cup {Nobody}
  BY DEF End, TasksKept, TypeOK
<1> QED
  BY <1>1, <1>2, <1>3, <1>4, Frame, Moves

\* A worker that cannot read its options had said nothing yet.
LEMMA MisreadKept ==
    ASSUME TasksKept, NEW w \in Workers, Misread(w), UNCHANGED <<client, stopping, calls, crashes>>
    PROVE  TasksKept'
<1>1. At(w, "begin") /\ UNCHANGED <<status, control, active, registered, job, stage, late, saving, writer, row, locked>>
  BY DEF Misread, memory, journal
<1>2. job[w] \in Tasks /\ late[w] \in {0, 1} /\ status[job[w]] \in Statuses /\ plan[w] \in Ending
  BY <1>1, AtFacts, AtUnits
<1>3. <<>> \in Plans \ Units /\ plan' = [plan EXCEPT ![w] = <<>>]
  BY GoingPlans DEF Misread, Instead
<1> QED
  BY <1>1, <1>2, <1>3, Frame, Moves

LEMMA WorkKept ==
    ASSUME TasksKept, NEW w \in Workers, Work(w)
    PROVE  TasksKept'
BY MisreadKept, BeginKept, TellKept, CheckKept, SyncKept, CommitKept, ResultKept, ItemKept, HoldKept, ParkKept, WaitKept,
   WakeKept, NextKept, ConcludeKept, EndKept DEF Work

\* A request leaves the workers alone, and shows no task as running that was not.
LEMMA RequestKept ==
    ASSUME TasksKept, UNCHANGED <<plan, job, stage, late>>, TypeOK', \A c \in Requesters : ClientKept(c)',
           \A t \in Tasks : status'[t] \in Showing => status[t] \in Showing
    PROVE  TasksKept'
BY DEF TasksKept, WorkerKept, Held

LEMMA DoesFacts ==
    ASSUME TasksKept, NEW c \in Requesters, NEW step \in {"register", "tell", "answer", "list"}, NEW t \in Tasks,
           Does(c, step, t)
    PROVE  /\ client' \in [Requesters -> [step : {"idle", "register", "tell", "answer", "list"}, task : Tasks \cup {Nobody}]]
           /\ \A d \in Requesters : ClientKept(d)'
           /\ client'[c].step = step /\ client'[c].task = t /\ \A d \in Requesters \ {c} : client'[d] = client[d]
<1>1. client \in [Requesters -> [step : {"idle", "register", "tell", "answer", "list"}, task : Tasks \cup {Nobody}]]
  BY DEF TasksKept, TypeOK
<1>2. /\ client' \in [Requesters -> [step : {"idle", "register", "tell", "answer", "list"}, task : Tasks \cup {Nobody}]]
      /\ client'[c] = [step |-> step, task |-> t] /\ \A d \in Requesters \ {c} : client'[d] = client[d]
  BY <1>1 DEF Does
<1>3. ASSUME NEW d \in Requesters PROVE ClientKept(d)'
  BY <1>2 DEF ClientKept, TasksKept
<1> QED
  BY <1>2, <1>3

LEMMA AsksFacts ==
    ASSUME TasksKept, NEW c, Asks(c)
    PROVE  c \in Clients /\ c \in Requesters /\ client[c].step = "idle" /\ calls' \in 0..MaxCalls
BY TasksAssumption DEF Asks, Requesters, TasksKept, TypeOK

LEMMA StartKept ==
    ASSUME TasksKept, NEW c \in Clients, NEW t \in Tasks, Start(c, t)
    PROVE  TasksKept'
<1>1. c \in Requesters /\ calls' \in 0..MaxCalls /\ Does(c, "register", t)
  BY AsksFacts DEF Start
<1>2. UNCHANGED <<status, control, active, registered, plan, job, stage, late, stopping, saving, writer, row, locked, crashes>>
  BY DEF Start, memory, journal, requests, workers
<1>3. TypeOK'
  BY <1>1, <1>2, DoesFacts DEF TasksKept, TypeOK
<1> QED
  BY <1>1, <1>2, <1>3, DoesFacts, RequestKept

LEMMA GivesUp ==
    ASSUME TasksKept, NEW c \in Requesters, client' = [client EXCEPT ![c] = Idle]
    PROVE  /\ client' \in [Requesters -> [step : {"idle", "register", "tell", "answer", "list"}, task : Tasks \cup {Nobody}]]
           /\ \A d \in Requesters : client'[d].step # "idle" => client'[d] = client[d]
           /\ \A d \in Requesters : ClientKept(d)'
BY DEF TasksKept, TypeOK, Idle, ClientKept

LEMMA RegisterKept ==
    ASSUME TasksKept, NEW c \in Clients, Register(c)
    PROVE  TasksKept'
<1> DEFINE t == client[c].task
<1>1. c \in Requesters /\ t \in Tasks
  BY DEF Register, Requesters, TasksKept, ClientKept
<1>2. /\ active' = t /\ status' = [status EXCEPT ![t] = "queued"] /\ control' = [control EXCEPT ![t] = "none"]
      /\ UNCHANGED <<registered, plan, job, stage, late, stopping, saving, writer, row, locked, calls, crashes>>
  BY DEF Register, journal, requests, workers
<1>3. /\ client' \in [Requesters -> [step : {"idle", "register", "tell", "answer", "list"}, task : Tasks \cup {Nobody}]]
      /\ \A d \in Requesters : ClientKept(d)'
  <2>1. CASE t \in Clashing
    BY <1>1, <2>1, GivesUp DEF Register
  <2>2. CASE t \notin Clashing
    BY <1>1, <2>2, DoesFacts DEF Register
  <2> QED
    BY <2>1, <2>2
<1> HIDE DEF t
<1>4. status' \in [Tasks -> Statuses] /\ \A u \in Tasks : status'[u] \in Showing => status[u] \in Showing
  BY <1>1, <1>2 DEF TasksKept, TypeOK, Statuses, Live, Showing
<1>5. control' \in [Tasks -> Controls]
  BY <1>1, <1>2 DEF TasksKept, TypeOK, Controls
<1>6. TypeOK'
  BY <1>1, <1>2, <1>4, <1>5, <1>3 DEF TasksKept, TypeOK
<1> QED
  BY <1>2, <1>4, <1>6, <1>3, RequestKept

LEMMA AskedKept ==
    ASSUME TasksKept, NEW c \in Clients, NEW t \in Tasks, NEW request \in {"paused", "cancelled"}, Request(c, t, request)
    PROVE  TasksKept'
<1>1. c \in Requesters /\ calls' \in 0..MaxCalls /\ Does(c, "answer", t)
  BY AsksFacts DEF Request
<1>2. /\ status' = [status EXCEPT ![t] = request] /\ control' = [control EXCEPT ![t] = request]
      /\ UNCHANGED <<active, registered, plan, job, stage, late, stopping, saving, writer, row, locked, crashes>>
  BY DEF Request, journal, requests, workers
<1>3. status' \in [Tasks -> Statuses] /\ \A u \in Tasks : status'[u] \in Showing => status[u] \in Showing
  BY <1>2 DEF TasksKept, TypeOK, Statuses, Resumable, Showing
<1>4. control' \in [Tasks -> Controls]
  BY <1>2 DEF TasksKept, TypeOK, Controls
<1>5. TypeOK'
  BY <1>1, <1>2, <1>3, <1>4, DoesFacts DEF TasksKept, TypeOK
<1> QED
  BY <1>1, <1>2, <1>3, <1>5, DoesFacts, RequestKept

LEMMA ResumeKept ==
    ASSUME TasksKept, NEW c \in Clients, NEW t \in Tasks, Resume(c, t)
    PROVE  TasksKept'
<1>1. c \in Requesters /\ calls' \in 0..MaxCalls /\ Does(c, "tell", t)
  BY AsksFacts DEF Resume
<1>2. /\ status' = [status EXCEPT ![t] = "queued"] /\ control' = [control EXCEPT ![t] = "none"] /\ active' = t
      /\ UNCHANGED <<registered, plan, job, stage, late, stopping, saving, writer, row, locked, crashes>>
  BY DEF Resume, journal, requests, workers
<1>3. status' \in [Tasks -> Statuses] /\ \A u \in Tasks : status'[u] \in Showing => status[u] \in Showing
  BY <1>2 DEF TasksKept, TypeOK, Statuses, Live, Showing
<1>4. control' \in [Tasks -> Controls]
  BY <1>2 DEF TasksKept, TypeOK, Controls
<1>5. TypeOK'
  BY <1>1, <1>2, <1>3, <1>4, DoesFacts DEF TasksKept, TypeOK
<1> QED
  BY <1>1, <1>2, <1>3, <1>5, DoesFacts, RequestKept

LEMMA AnnounceKept ==
    ASSUME TasksKept, NEW c \in Requesters, Announce(c)
    PROVE  TasksKept'
<1> DEFINE t == client[c].task
<1>1. t \in Tasks
  BY DEF Announce, TasksKept, ClientKept
<1>2. saving' \in [Actors -> Record \cup {NoSave}]
  <2>1. Copy(t) \in Record /\ saving \in [Actors -> Record \cup {NoSave}]
    BY <1>1 DEF Copy, Record, TasksKept, TypeOK
  <2> QED
    BY <2>1 DEF Announce, Event
<1>3. UNCHANGED <<status, control, active, registered, plan, job, stage, late, stopping, writer, row, locked, calls, crashes>>
  BY DEF Announce, memory, requests, workers
<1>4. /\ client' \in [Requesters -> [step : {"idle", "register", "tell", "answer", "list"}, task : Tasks \cup {Nobody}]]
      /\ \A d \in Requesters : client'[d].task = client[d].task /\ (client'[d].step # "idle" => client[d].step # "idle")
  BY DEF Announce, TasksKept, TypeOK
<1>5. TypeOK'
  BY <1>2, <1>3, <1>4 DEF TasksKept, TypeOK
<1>6. \A d \in Requesters : ClientKept(d)'
  BY <1>4 DEF ClientKept, TasksKept
<1> QED
  BY <1>3, <1>5, <1>6, RequestKept

LEMMA NobodyIsNot == Nobody \notin Tasks /\ Nobody \notin Workers /\ Nobody \notin Clients
BY TasksAssumption

\* The thread that is started was nobody's.
LEMMA StartWorkerFacts ==
    ASSUME TasksKept, NEW c \in Requesters, StartWorker(c)
    PROVE  /\ client[c].step = "list" /\ client[c].task \in Tasks
           /\ \E w \in Workers : /\ job[w] = Nobody /\ registered' = [registered EXCEPT ![client[c].task] = w]
                                 /\ job' = [job EXCEPT ![w] = client[c].task]
                                 /\ plan' = [plan EXCEPT ![w] = <<"begin">>]
           /\ client' = [client EXCEPT ![c] = Idle]
           /\ UNCHANGED <<status, control, active, stage, late, stopping, saving, writer, row, locked, calls, crashes>>
<1> DEFINE w == CHOOSE v \in Workers : job[v] = Nobody
<1>1. w \in Workers /\ job[w] = Nobody
  BY DEF StartWorker
<1> QED
  BY <1>1 DEF StartWorker, TasksKept, ClientKept, journal

LEMMA StartWorkerKept ==
    ASSUME TasksKept, NEW c \in Requesters, StartWorker(c)
    PROVE  TasksKept'
<1> DEFINE t == client[c].task
<1>1. /\ client[c].step = "list" /\ t \in Tasks /\ client' = [client EXCEPT ![c] = Idle]
      /\ UNCHANGED <<status, control, active, stage, late, stopping, saving, writer, row, locked, calls, crashes>>
  BY StartWorkerFacts
<1>2. PICK w \in Workers : /\ job[w] = Nobody /\ registered' = [registered EXCEPT ![t] = w]
                           /\ job' = [job EXCEPT ![w] = t] /\ plan' = [plan EXCEPT ![w] = <<"begin">>]
  BY StartWorkerFacts
<1> HIDE DEF t
<1>3. <<"begin">> \in Plans \ Units
  BY GoingPlans
<1>4. /\ plan' \in [Workers -> Seq(Sections)] /\ plan'[w] = <<"begin">> /\ job'[w] = t
      /\ \A v \in Workers \ {w} : plan'[v] = plan[v] /\ job'[v] = job[v]
      /\ job' \in [Workers -> Tasks \cup {Nobody}]
  BY <1>1, <1>2, <1>3, PlansTyped DEF TasksKept, TypeOK
<1>5. registered' \in [Tasks -> Workers \cup {Nobody}]
  BY <1>1, <1>2 DEF TasksKept, TypeOK
<1>6. /\ client' \in [Requesters -> [step : {"idle", "register", "tell", "answer", "list"}, task : Tasks \cup {Nobody}]]
      /\ \A d \in Requesters : client'[d].step # "idle" => client'[d] = client[d]
  BY <1>1 DEF TasksKept, TypeOK, Idle
<1>7. TypeOK'
  BY <1>1, <1>4, <1>5, <1>6 DEF TasksKept, TypeOK
<1>8. \A d \in Requesters : ClientKept(d)'
  BY <1>6 DEF ClientKept, TasksKept
<1>9. ASSUME NEW v \in Workers PROVE WorkerKept(v)'
  <2>1. CASE v = w
    BY <1>1, <1>3, <1>4, <2>1 DEF WorkerKept, TasksKept
  <2>2. CASE v # w
    BY <1>1, <1>4, <2>2 DEF WorkerKept, TasksKept
  <2> QED
    BY <2>1, <2>2
<1>10. ASSUME NEW u \in Tasks, status'[u] \in Showing PROVE Held(u)'
  <2>1. PICK v \in Workers : job[v] = u /\ plan[v] \notin Ending
    BY <1>1, <1>10 DEF TasksKept, Held
  <2>2. v # w
    BY <1>2, <2>1, NobodyIsNot
  <2> QED
    BY <1>4, <2>1, <2>2 DEF Held
<1> QED
  BY <1>7, <1>8, <1>9, <1>10 DEF TasksKept

LEMMA PersistKept ==
    ASSUME TasksKept, NEW a \in Actors, Persist(a)
    PROVE  TasksKept'
<1>1. UNCHANGED <<status, control, active, registered, plan, job, stage, late, client, stopping, writer, calls, crashes>>
  BY DEF Persist, memory, workers
<1>2. saving \in [Actors -> Record \cup {NoSave}] /\ row \in [Tasks -> Saved] /\ locked \in 0..MaxLocked
  BY DEF TasksKept, TypeOK
<1>3. saving[a] \in Record
  BY <1>2 DEF Persist, Saves
<1>4. saving' \in [Actors -> Record \cup {NoSave}]
  BY <1>2 DEF Persist
<1>5. row' \in [Tasks -> Saved] /\ locked' \in 0..MaxLocked
  BY <1>2, <1>3, TasksAssumption DEF Persist, Record, Saved
<1>6. TypeOK'
  BY <1>1, <1>4, <1>5 DEF TasksKept, TypeOK
<1>7. \A c \in Requesters : ClientKept(c)'
  BY <1>1 DEF ClientKept, TasksKept
<1> QED
  BY <1>1, <1>6, <1>7, RequestKept

LEMMA ShutdownKept ==
    ASSUME TasksKept, Shutdown
    PROVE  TasksKept'
BY DEF Shutdown, memory, workers, journal, TasksKept, TypeOK, WorkerKept, ClientKept, Held

\* No restored task is shown as running.
LEMMA RestoredFacts ==
    ASSUME TasksKept, NEW young
    PROVE  /\ Restored(young) \in [Tasks -> Statuses] /\ \A t \in Tasks : Restored(young)[t] \notin Showing
<1>1. ASSUME NEW t \in Tasks
      PROVE  /\ (IF row[t].status \notin Live THEN row[t].status ELSE IF t \in young THEN "queued" ELSE "error") \in Statuses
             /\ (IF row[t].status \notin Live THEN row[t].status ELSE IF t \in young THEN "queued" ELSE "error") \notin Showing
  <2>1. row[t].status \in Statuses
    BY DEF TasksKept, TypeOK, Saved
  <2> QED
    BY <2>1 DEF Statuses, Live, Resumable, Showing
<1> QED
  BY <1>1 DEF Restored

LEMMA RestartFacts ==
    ASSUME TasksKept, Restart
    PROVE  /\ active' \in Tasks \cup {Nobody} /\ stopping' \in BOOLEAN
           /\ client' = [c \in Requesters |-> IF c = Boot /\ ResumeAtStart /\ active' # Nobody
                                              THEN [step |-> "tell", task |-> active'] ELSE Idle]
           /\ \E young \in SUBSET Tasks :
                /\ status' \in {Restored(young), [t \in Tasks |-> "none"]}
                /\ row' = [t \in Tasks |-> [row[t] EXCEPT !.status = Restored(young)[t]]]
<1>1. PICK young \in SUBSET Tasks :
      \E resumed \in IF Candidates(young) = {} THEN {Nobody} ELSE Candidates(young) :
        /\ row' = [t \in Tasks |-> [row[t] EXCEPT !.status = Restored(young)[t]]]
        /\ stopping' = Down(resumed)
        /\ IF Down(resumed)
             THEN active' = Nobody /\ status' = [t \in Tasks |-> "none"]
             ELSE active' = resumed /\ status' = Restored(young)
        /\ client' = [c \in Requesters |->
                        IF c = Boot /\ ResumeAtStart /\ active' # Nobody
                        THEN [step |-> "tell", task |-> active'] ELSE Idle]
  BY DEF Restart
<1>2. Down(Nobody) \in BOOLEAN /\ \A t \in Tasks : Down(t) \in BOOLEAN
  BY DEF Down
<1> QED
  BY <1>1, <1>2 DEF Candidates

LEMMA RestartKept ==
    ASSUME TasksKept, Restart
    PROVE  TasksKept'
<1>1. PICK young \in SUBSET Tasks :
        /\ status' \in {Restored(young), [t \in Tasks |-> "none"]}
        /\ row' = [t \in Tasks |-> [row[t] EXCEPT !.status = Restored(young)[t]]]
  BY RestartFacts
<1>2. status' \in [Tasks -> Statuses] /\ \A t \in Tasks : status'[t] \notin Showing
  <2>1. "none" \in Statuses \ Showing
    BY DEF Statuses, Showing
  <2> QED
    BY <1>1, <2>1, RestoredFacts
<1>3. row' \in [Tasks -> Saved] /\ control' \in [Tasks -> Controls]
  <2>1. row \in [Tasks -> Saved]
    BY DEF TasksKept, TypeOK
  <2>2. ASSUME NEW t \in Tasks PROVE [row[t] EXCEPT !.status = Restored(young)[t]] \in Saved
    BY <2>1, RestoredFacts DEF Saved
  <2>3. row' \in [Tasks -> Saved]
    BY <1>1, <2>2
  <2>4. control' = [t \in Tasks |-> row[t].control] /\ \A t \in Tasks : row[t].control \in Controls
    BY <2>1 DEF Restart, Saved
  <2> QED
    BY <2>3, <2>4
<1>4. /\ client' \in [Requesters -> [step : {"idle", "register", "tell", "answer", "list"}, task : Tasks \cup {Nobody}]]
      /\ \A c \in Requesters : client'[c].step # "idle" => client'[c].task \in Tasks
  BY RestartFacts DEF Idle
<1>5. /\ registered' = [t \in Tasks |-> Nobody] /\ plan' = [w \in Workers |-> << >>]
      /\ writer' = Nobody /\ saving' = [a \in Actors |-> NoSave]
      /\ UNCHANGED <<job, stage, late, calls, locked>> /\ crashes < MaxCrashes /\ crashes' = crashes + 1
  BY DEF Restart
<1>6. plan' \in [Workers -> Seq(Sections)] /\ <<>> \in Plans \ Units
  BY <1>5, GoingPlans
<1>7. TypeOK'
  <2>1. /\ job' \in [Workers -> Tasks \cup {Nobody}] /\ stage' \in [Workers -> {"work", "paused", "cancelled"}]
        /\ late' \in [Workers -> 0..2] /\ calls' \in 0..MaxCalls /\ locked' \in 0..MaxLocked
        /\ crashes' \in 0..MaxCrashes
    BY <1>5, TasksAssumption DEF TasksKept, TypeOK
  <2>2. /\ registered' \in [Tasks -> Workers \cup {Nobody}] /\ saving' \in [Actors -> Record \cup {NoSave}]
        /\ stopping' \in BOOLEAN /\ writer' \in Actors \cup {Nobody}
    BY <1>5, RestartFacts
  <2> QED
    BY <1>2, <1>3, <1>4, <1>6, <2>1, <2>2, RestartFacts DEF TypeOK
<1>8. \A w \in Workers : WorkerKept(w)'
  BY <1>5, <1>6 DEF WorkerKept, TasksKept
<1> QED
  BY <1>2, <1>4, <1>7, <1>8 DEF TasksKept, ClientKept

LEMMA TasksInit == Init => TasksKept
<1> SUFFICES ASSUME Init PROVE TasksKept
  OBVIOUS
<1>1. <<>> \in Plans \ Units /\ <<>> \in Seq(Sections)
  BY GoingPlans
<1>2. "none" \in Statuses /\ "none" \in Controls
  BY DEF Statuses, Controls
<1>3. TypeOK
  <2>1. /\ status \in [Tasks -> Statuses] /\ control \in [Tasks -> Controls] /\ row \in [Tasks -> Saved]
    BY <1>2 DEF Init, NoRow, Saved
  <2>2. /\ plan \in [Workers -> Seq(Sections)] /\ job \in [Workers -> Tasks \cup {Nobody}]
        /\ stage \in [Workers -> {"work", "paused", "cancelled"}] /\ late \in [Workers -> 0..2]
    BY <1>1 DEF Init
  <2>3. client \in [Requesters -> [step : {"idle", "register", "tell", "answer", "list"}, task : Tasks \cup {Nobody}]]
    BY DEF Init, Idle
  <2>4. saving \in [Actors -> Record \cup {NoSave}] /\ calls \in 0..MaxCalls /\ crashes \in 0..MaxCrashes
        /\ locked \in 0..MaxLocked
    BY TasksAssumption DEF Init
  <2>5. /\ active \in Tasks \cup {Nobody} /\ registered \in [Tasks -> Workers \cup {Nobody}] /\ stopping \in BOOLEAN
        /\ writer \in Actors \cup {Nobody}
    BY DEF Init
  <2> QED
    BY <2>1, <2>2, <2>3, <2>4, <2>5 DEF TypeOK
<1>4. \A w \in Workers : WorkerKept(w)
  BY <1>1 DEF Init, WorkerKept
<1>5. \A t \in Tasks : status[t] \notin Showing
  BY DEF Init, Showing
<1>6. \A c \in Requesters : ClientKept(c)
  BY DEF Init, ClientKept, Idle
<1> QED
  BY <1>3, <1>4, <1>5, <1>6 DEF TasksKept

LEMMA TasksStep == TasksKept /\ [Next]_vars => TasksKept'
<1> SUFFICES ASSUME TasksKept, [Next]_vars PROVE TasksKept'
  OBVIOUS
<1>1. ASSUME NEW c \in Clients, NEW t \in Tasks,
             Start(c, t) \/ Resume(c, t) \/ Request(c, t, "paused") \/ Request(c, t, "cancelled")
      PROVE  TasksKept'
  BY <1>1, StartKept, ResumeKept, AskedKept
<1>2. ASSUME NEW c \in Clients, Register(c) PROVE TasksKept'
  BY <1>2, RegisterKept
<1>3. ASSUME NEW c \in Requesters, Finishes(c) PROVE TasksKept'
  BY <1>3, AnnounceKept, StartWorkerKept DEF Finishes
<1>4. ASSUME NEW w \in Workers, Work(w) PROVE TasksKept'
  BY <1>4, WorkKept
<1>5. ASSUME NEW a \in Actors, Persist(a) PROVE TasksKept'
  BY <1>5, PersistKept
<1>6. CASE UNCHANGED vars
  BY <1>6 DEF vars, memory, workers, journal, TasksKept, TypeOK, WorkerKept, ClientKept, Held
<1> QED
  BY <1>1, <1>2, <1>3, <1>4, <1>5, <1>6, ShutdownKept, RestartKept DEF Next

LEMMA TasksTold == TasksKept => TasksInv
<1> SUFFICES ASSUME TasksKept PROVE TasksInv
  OBVIOUS
<1>1. ShownRunning
  BY DEF TasksKept, ShownRunning, Showing, Held, Worked, Alive, Ending
<1>2. OneUnitAfterStop
  BY DEF TasksKept, WorkerKept, OneUnitAfterStop
<1> QED
  BY <1>1, <1>2 DEF TasksInv, TasksKept

(***************************************************************************)
(* TasksInv of every behaviour: a task shown as running has a worker that  *)
(* will end that, also when two of its workers overlap, and after a        *)
(* request to stop or the server's a worker begins at most the unit it had *)
(* decided to begin (run_data_accumulation_task, start_data_task).          *)
(***************************************************************************)
THEOREM TasksInvariant == Spec => []TasksInv
<1> QED
  BY TasksInit, TasksStep, TasksTold, PTL DEF Spec

(* Where a restarted process resumes what it restored: the task that keeps  *)
(* others from starting is on its way to its end, unless its options are of *)
(* a kind on which the code fails before its worker's handler.              *)
ActiveKept == active # Nobody /\ active \notin Clashing \cup Mistyped => OnItsWay(active)

LEMMA OthersOnTheirWay ==
    ASSUME active' = active, NEW w \in Workers, ActiveKept, UNCHANGED <<job, client>>,
           \A v \in Workers \ {w} : plan'[v] = plan[v], plan'[w] # <<>> \/ active # job[w] \/ active \in Mistyped
    PROVE  ActiveKept'
BY DEF ActiveKept, OnItsWay, Worked, Alive

\* A worker that moves on is not at its end, or it ends.
LEMMA WorkActive ==
    ASSUME TasksKept, ActiveKept, NEW w \in Workers, Work(w)
    PROVE  ActiveKept'
<1>1. client' = client /\ job' = job
  BY DEF Work, Misread, Begin, Tell, Check, Sync, Commit, Result, Item, Hold, Park, Wait, Wake, NextUnit, Conclude, End
<1>2. CASE End(w)
  <2>1. \A v \in Workers \ {w} : plan'[v] = plan[v]
    BY <1>2 DEF End, Instead, TasksKept, TypeOK
  <2>2. CASE active = job[w]
    BY <1>2, <2>2 DEF End, ActiveKept
  <2>3. CASE active # job[w]
    BY <1>1, <1>2, <2>1, <2>3, OthersOnTheirWay DEF End
  <2> QED
    BY <2>2, <2>3
<1>3. CASE Misread(w)
  <2>1. (\A v \in Workers \ {w} : plan'[v] = plan[v]) /\ active' = active /\ job[w] \in Mistyped
    BY <1>3 DEF Misread, Instead, memory, TasksKept, TypeOK
  <2> QED
    BY <1>1, <2>1, OthersOnTheirWay
<1>4. CASE Tell(w)
  <2>1. plan' = [plan EXCEPT ![w] = Tail(plan[w])] /\ Tail(plan[w]) # <<>>
    BY <1>4, ThenFacts, AtFacts DEF Tell
  <2>2. plan'[w] # <<>> /\ (\A v \in Workers \ {w} : plan'[v] = plan[v]) /\ active' = active
    BY <1>4, <2>1 DEF Tell, memory, TasksKept, TypeOK
  <2> QED
    BY <1>1, <2>2, OthersOnTheirWay
<1>5. CASE Check(w)
  <2>1. \E p : p # <<>> /\ plan' = [plan EXCEPT ![w] = p]
    <3>1. Then(w, << >>) => plan' = [plan EXCEPT ![w] = Tail(plan[w])]
      BY <1>5, ThenFacts DEF Check
    <3>2. Tail(plan[w]) # <<>>
      BY <1>5, AtFacts DEF Check, Ending
    <3>3. <<"tell", "check", "pend">> # <<>> /\ <<"tell", "end">> # <<>>
      OBVIOUS
    <3>4. Instead(w, <<"tell", "check", "pend">>) \/ Instead(w, <<"tell", "end">>) \/ Then(w, << >>)
      BY <1>5 DEF Check, CheckAgain
    <3> QED
      BY <3>1, <3>2, <3>3, <3>4 DEF Instead
  <2>2. plan'[w] # <<>> /\ (\A v \in Workers \ {w} : plan'[v] = plan[v]) /\ active' = active
    BY <1>5, <2>1 DEF Check, TasksKept, TypeOK
  <2> QED
    BY <1>1, <2>2, OthersOnTheirWay
<1>6. CASE Sync(w)
  <2>1. plan' = [plan EXCEPT ![w] = <<"commit">>] /\ <<"commit">> # <<>>
    BY <1>6, ThenFacts DEF Sync
  <2>2. plan'[w] # <<>> /\ (\A v \in Workers \ {w} : plan'[v] = plan[v]) /\ active' = active
    BY <1>6, <2>1 DEF Sync, memory, TasksKept, TypeOK
  <2> QED
    BY <1>1, <2>2, OthersOnTheirWay
<1>7. CASE Begin(w) \/ Commit(w) \/ Result(w) \/ Item(w) \/ Hold(w) \/ Park(w) \/ Wait(w) \/ Wake(w) \/ NextUnit(w)
           \/ Conclude(w)
  <2>1. active' = active
    BY <1>7 DEF Begin, Commit, Result, Item, Hold, Park, Wait, Wake, NextUnit, Conclude, memory
  <2>2. \A a, b, c : <<a>> # <<>> /\ <<a, b>> # <<>> /\ <<a, b, c>> # <<>>
    OBVIOUS
  <2>3. \E p : p # <<>> /\ Instead(w, p)
    <3>1. CASE Begin(w) \/ Commit(w) \/ Result(w)
      BY <2>2, <3>1 DEF Begin, Commit, Result, AfterSync
    <3>2. CASE Item(w) \/ Hold(w) \/ Park(w)
      BY <2>2, <3>2 DEF Item, Hold, Park
    <3>3. CASE Wait(w) \/ Wake(w) \/ NextUnit(w) \/ Conclude(w)
      BY <2>2, <3>3 DEF Wait, Wake, NextUnit, Conclude
    <3> QED
      BY <1>7, <3>1, <3>2, <3>3
  <2>4. plan'[w] # <<>> /\ (\A v \in Workers \ {w} : plan'[v] = plan[v])
    BY <2>3 DEF Instead, TasksKept, TypeOK
  <2> QED
    BY <1>1, <2>1, <2>4, OthersOnTheirWay
<1> QED
  BY <1>2, <1>3, <1>4, <1>5, <1>6, <1>7 DEF Work

\* A request that goes on leaves the other requests and the workers alone.
LEMMA RequestActive ==
    ASSUME TasksKept, ActiveKept, NEW c \in Requesters, UNCHANGED <<plan, job>>,
           NEW step, NEW t \in Tasks, Does(c, step, t),
           \/ active' = active /\ client[c].step \notin {"tell", "list"}
           \/ active' = t /\ step = "tell"
    PROVE  ActiveKept'
<1>1. client'[c] = [step |-> step, task |-> t] /\ \A d \in Requesters \ {c} : client'[d] = client[d]
  BY DEF Does, TasksKept, TypeOK
<1> QED
  BY <1>1 DEF ActiveKept, OnItsWay, Worked, Alive

LEMMA AnnounceActive ==
    ASSUME TasksKept, ActiveKept, NEW c \in Requesters, Announce(c)
    PROVE  ActiveKept'
<1>1. UNCHANGED <<active, plan, job>>
  BY DEF Announce, memory, requests, workers
<1>2. \A d \in Requesters : /\ client'[d].task = client[d].task
                            /\ client[d].step \in {"tell", "list"} => client'[d].step \in {"tell", "list"}
  BY DEF Announce, TasksKept, TypeOK
<1> QED
  BY <1>1, <1>2 DEF ActiveKept, OnItsWay, Worked, Alive

LEMMA StartWorkerActive ==
    ASSUME TasksKept, ActiveKept, NEW c \in Requesters, StartWorker(c)
    PROVE  ActiveKept'
<1> DEFINE t == client[c].task
<1>1. PICK w \in Workers : job[w] = Nobody /\ job' = [job EXCEPT ![w] = t] /\ plan' = [plan EXCEPT ![w] = <<"begin">>]
  BY StartWorkerFacts
<1>2. client' = [client EXCEPT ![c] = Idle] /\ active' = active
  BY StartWorkerFacts
<1>3. /\ plan'[w] # <<>> /\ job'[w] = t /\ \A v \in Workers \ {w} : plan'[v] = plan[v] /\ job'[v] = job[v]
  BY <1>1 DEF TasksKept, TypeOK
<1>4. \A d \in Requesters \ {c} : client'[d] = client[d]
  BY <1>2 DEF TasksKept, TypeOK
<1>5. CASE active # Nobody /\ active \notin Clashing \cup Mistyped
  <2>1. CASE active = t
    BY <1>2, <1>3, <2>1 DEF ActiveKept, OnItsWay, Worked, Alive
  <2>2. CASE active # t /\ Worked(active)
    <3>1. PICK v \in Workers : plan[v] # <<>> /\ job[v] = active
      BY <2>2 DEF Worked, Alive
    <3>2. v # w
      BY <1>1, <1>5, <3>1
    <3> QED
      BY <1>2, <1>3, <3>1, <3>2 DEF ActiveKept, OnItsWay, Worked, Alive
  <2>3. CASE active # t /\ \E d \in Requesters : client[d].task = active /\ client[d].step \in {"tell", "list"}
    BY <1>2, <1>4, <2>3 DEF ActiveKept, OnItsWay
  <2> QED
    BY <1>5, <2>1, <2>2, <2>3 DEF ActiveKept, OnItsWay
<1> QED
  BY <1>2, <1>5 DEF ActiveKept

LEMMA RestartActive ==
    ASSUME TasksKept, ResumeAtStart, Restart
    PROVE  ActiveKept'
<1>1. client' = [c \in Requesters |-> IF c = Boot /\ ResumeAtStart /\ active' # Nobody
                                      THEN [step |-> "tell", task |-> active'] ELSE Idle]
  BY RestartFacts
<1>2. Boot \in Requesters
  BY DEF Requesters
<1>3. active' # Nobody => client'[Boot].task = active' /\ client'[Boot].step = "tell"
  BY <1>1, <1>2
<1> QED
  BY <1>2, <1>3 DEF ActiveKept, OnItsWay

LEMMA ActiveStep == ResumeAtStart /\ TasksKept /\ ActiveKept /\ [Next]_vars => ActiveKept'
<1> SUFFICES ASSUME ResumeAtStart, TasksKept, ActiveKept, [Next]_vars PROVE ActiveKept'
  OBVIOUS
<1>1. ASSUME NEW c \in Clients, NEW t \in Tasks,
             Start(c, t) \/ Resume(c, t) \/ Request(c, t, "paused") \/ Request(c, t, "cancelled")
      PROVE  ActiveKept'
  <2>1. c \in Requesters /\ client[c].step \notin {"tell", "list"}
    BY <1>1, AsksFacts DEF Start, Resume, Request
  <2>2. UNCHANGED <<plan, job>>
    BY <1>1 DEF Start, Resume, Request, requests, workers
  <2>3. CASE Start(c, t)
    BY <2>1, <2>2, <2>3, RequestActive DEF Start, memory
  <2>4. CASE Resume(c, t)
    BY <2>1, <2>2, <2>4, RequestActive DEF Resume
  <2>5. CASE Request(c, t, "paused") \/ Request(c, t, "cancelled")
    BY <2>1, <2>2, <2>5, RequestActive DEF Request
  <2> QED
    BY <1>1, <2>3, <2>4, <2>5
<1>2. ASSUME NEW c \in Clients, Register(c) PROVE ActiveKept'
  <2>1. c \in Requesters /\ client[c].task \in Tasks
    BY <1>2 DEF Register, Requesters, TasksKept, ClientKept
  <2>2. active' = client[c].task /\ UNCHANGED <<plan, job>>
    BY <1>2 DEF Register, requests, workers
  <2>3. CASE client[c].task \in Clashing
    BY <2>2, <2>3 DEF ActiveKept
  <2>4. CASE client[c].task \notin Clashing
    BY <1>2, <2>1, <2>2, <2>4, RequestActive DEF Register
  <2> QED
    BY <2>3, <2>4
<1>3. ASSUME NEW c \in Requesters, Finishes(c) PROVE ActiveKept'
  BY <1>3, AnnounceActive, StartWorkerActive DEF Finishes
<1>4. ASSUME NEW w \in Workers, Work(w) PROVE ActiveKept'
  BY <1>4, WorkActive
<1>5. CASE (\E a \in Actors : Persist(a)) \/ Shutdown \/ UNCHANGED vars
  <2>1. UNCHANGED <<active, plan, job, client>>
    BY <1>5 DEF Persist, Shutdown, vars, memory, workers
  <2> QED
    BY <2>1 DEF ActiveKept, OnItsWay, Worked, Alive
<1> QED
  BY <1>1, <1>2, <1>3, <1>4, <1>5, RestartActive DEF Next

(***************************************************************************)
(* ActiveIsRun of every behaviour of a server that resumes what it         *)
(* restored: a task that keeps others from starting has a worker, or a     *)
(* request or the main thread is about to give it one                      *)
(* (latest_data_task_active, resume_persisted_data_task), or else it is a  *)
(* queued task with options on which start_data_task, or the worker before *)
(* its handler, fails.                                                     *)
(***************************************************************************)
THEOREM ActiveRuns ==
    ASSUME ResumeAtStart
    PROVE  Spec => []ActiveIsRun
<1>1. Init => ActiveKept
  BY DEF Init, ActiveKept
<1>2. TasksKept /\ ActiveKept => ActiveIsRun
  <2> SUFFICES ASSUME TasksKept, ActiveKept, LatestActive PROVE OnItsWay(active) \/ LeftBehind(active)
    BY DEF ActiveIsRun
  <2>1. active \in Tasks /\ status[active] \in Live
    BY DEF LatestActive, TasksKept, TypeOK
  <2>2. CASE status[active] \in Showing
    BY <2>1, <2>2, TasksTold DEF TasksInv, ShownRunning, Showing, OnItsWay
  <2>3. CASE status[active] = "queued"
    BY <2>1, <2>3, NobodyIsNot DEF ActiveKept, LeftBehind
  <2> QED
    BY <2>1, <2>2, <2>3 DEF Live, Showing
<1>3. TasksKept /\ ActiveKept /\ [Next]_vars => ActiveKept'
  BY ActiveStep
<1> QED
  BY <1>1, <1>2, <1>3, TasksInit, TasksStep, PTL DEF Spec
=============================================================================
