----------------------------- MODULE ThreadPool -----------------------------
(***************************************************************************)
(* The thread pool (one class in several copies): commit, shutdown and     *)
(* restart from other threads, the workers' get_one_task and schedule, and *)
(* the destructor.  The test of the wait predicate and the sleep are two   *)
(* steps with the mutex kept between them; the destructor writes m_exit    *)
(* without the mutex.                                                      *)
(***************************************************************************)
EXTENDS Sequences, Naturals

CONSTANTS Workers,    \* threads of the pool
          Committers, \* threads that commit
          Tasks,      \* the tasks they commit
          NotifyAll,  \* commit uses notify_all (webserver's copy) or notify_one
          Destroys,   \* whether the pool is destroyed
          NoOne       \* nobody holds the mutex

ASSUME WorkersAssumption == Workers # {} /\ NoOne \notin Workers
ASSUME VariantAssumption == NotifyAll \in BOOLEAN /\ Destroys \in BOOLEAN

VARIABLES tasks,    \* the queue
          stop,     \* commit is closed
          m_exit,   \* the workers are to return
          lock,     \* the worker that keeps m_task between two steps, or NoOne
          wpc,      \* each worker: "lock" (about to lock m_task), "tested",
                    \* "wait" (asleep in cv_task), "run" or "done"
          cpc,      \* each client: "idle", "push" or "notify"
          task,     \* the task a client is committing
          dpc,      \* the destructor: "no", "exit", "notify", "join", "done"
          pushed,   \* history: tasks in the order they were queued
          started   \* history: tasks in the order they were taken

poolVars == <<tasks, stop, m_exit, lock, wpc, cpc, task, dpc, pushed, started>>

clientVars == <<cpc, task>>
history == <<pushed, started>>

Elements(s) == {s[i] : i \in DOMAIN s}

\* Tasks nobody has committed yet.
Fresh == Tasks \ (Elements(pushed) \cup {task[c] : c \in {d \in Committers : cpc[d] = "push"}})

PoolTypeOK ==
  /\ tasks \in Seq(Tasks)
  /\ stop \in BOOLEAN
  /\ m_exit \in BOOLEAN
  /\ lock \in Workers \cup {NoOne}
  /\ wpc \in [Workers -> {"lock", "tested", "wait", "run", "done"}]
  /\ cpc \in [Committers -> {"idle", "push", "notify"}]
  /\ task \in [Committers -> Tasks]
  /\ dpc \in {"no", "exit", "notify", "join", "done"}
  /\ pushed \in Seq(Tasks)
  /\ started \in Seq(Tasks)

PoolInit ==
  /\ tasks = <<>>
  /\ stop = FALSE
  /\ m_exit = FALSE
  /\ lock = NoOne
  /\ wpc = [w \in Workers |-> "lock"]
  /\ cpc = [c \in Committers |-> "idle"]
  /\ task \in [Committers -> Tasks]
  /\ dpc = "no"
  /\ pushed = <<>>
  /\ started = <<>>

-----------------------------------------------------------------------------
(* commit, shutdown and restart.                                           *)

\* commit: the test of stop (a closed pool throws and nothing changes).
CheckStop(c) ==
  /\ dpc = "no"
  /\ cpc[c] = "idle" /\ ~stop
  /\ \E t \in Fresh : task' = [task EXCEPT ![c] = t]
  /\ cpc' = [cpc EXCEPT ![c] = "push"]
  /\ UNCHANGED <<tasks, stop, m_exit, lock, wpc, dpc, history>>

\* Mutant of Push: at the front of the queue.
PushFront(c) ==
  /\ lock = NoOne
  /\ cpc[c] = "push"
  /\ tasks' = <<task[c]>> \o tasks
  /\ pushed' = Append(pushed, task[c])
  /\ cpc' = [cpc EXCEPT ![c] = "notify"]
  /\ UNCHANGED <<stop, m_exit, lock, wpc, task, dpc, started>>

\* commit: the task enters the queue, under the mutex.
Push(c) ==
  /\ lock = NoOne
  /\ cpc[c] = "push"
  /\ tasks' = Append(tasks, task[c])
  /\ pushed' = Append(pushed, task[c])
  /\ cpc' = [cpc EXCEPT ![c] = "notify"]
  /\ UNCHANGED <<stop, m_exit, lock, wpc, task, dpc, started>>

Waiting == {w \in Workers : wpc[w] = "wait"}

\* The sleepers in S wake up and go for the mutex.
Wake(S) == wpc' = [w \in Workers |-> IF w \in S THEN "lock" ELSE wpc[w]]

\* Mutant of Notify: nobody is notified.
NotifyNobody(c) ==
  /\ cpc[c] = "notify"
  /\ cpc' = [cpc EXCEPT ![c] = "idle"]
  /\ UNCHANGED <<tasks, stop, m_exit, lock, wpc, task, dpc, history>>

\* commit: notify_one or notify_all, after the mutex was released.
Notify(c) ==
  /\ cpc[c] = "notify"
  /\ IF NotifyAll \/ Waiting = {}
     THEN Wake(Waiting)
     ELSE \E w \in Waiting : Wake({w})
  /\ cpc' = [cpc EXCEPT ![c] = "idle"]
  /\ UNCHANGED <<tasks, stop, m_exit, lock, task, dpc, history>>

Shutdown ==
  /\ dpc = "no"
  /\ stop' = TRUE
  /\ UNCHANGED <<tasks, m_exit, lock, wpc, clientVars, dpc, history>>

Restart ==
  /\ dpc = "no"
  /\ stop' = FALSE
  /\ UNCHANGED <<tasks, m_exit, lock, wpc, clientVars, dpc, history>>

-----------------------------------------------------------------------------
(* The workers: schedule and get_one_task.                                 *)

\* m_exit: get_one_task returns nullptr and schedule ends.
Leave(w) ==
  /\ lock = NoOne
  /\ wpc[w] = "lock" /\ m_exit
  /\ wpc' = [wpc EXCEPT ![w] = "done"]
  /\ UNCHANGED <<tasks, stop, m_exit, lock, clientVars, dpc, history>>

\* A task is taken and run.
TakeTask(w) ==
  /\ lock = NoOne
  /\ wpc[w] = "lock" /\ ~m_exit /\ tasks # <<>>
  /\ tasks' = Tail(tasks)
  /\ started' = Append(started, Head(tasks))
  /\ wpc' = [wpc EXCEPT ![w] = "run"]
  /\ UNCHANGED <<stop, m_exit, lock, clientVars, dpc, pushed>>

\* The predicate is false; the mutex is kept until the thread sleeps.
TestFails(w) ==
  /\ lock = NoOne
  /\ wpc[w] = "lock" /\ ~m_exit /\ tasks = <<>>
  /\ wpc' = [wpc EXCEPT ![w] = "tested"]
  /\ lock' = w
  /\ UNCHANGED <<tasks, stop, m_exit, clientVars, dpc, history>>

Sleep(w) ==
  /\ wpc[w] = "tested"
  /\ wpc' = [wpc EXCEPT ![w] = "wait"]
  /\ lock' = NoOne
  /\ UNCHANGED <<tasks, stop, m_exit, clientVars, dpc, history>>

SpuriousWakeup(w) ==
  /\ wpc[w] = "wait"
  /\ wpc' = [wpc EXCEPT ![w] = "lock"]
  /\ UNCHANGED <<tasks, stop, m_exit, lock, clientVars, dpc, history>>

FinishTask(w) ==
  /\ wpc[w] = "run"
  /\ wpc' = [wpc EXCEPT ![w] = "lock"]
  /\ UNCHANGED <<tasks, stop, m_exit, lock, clientVars, dpc, history>>

-----------------------------------------------------------------------------
(* The destructor.  No client is inside commit when it begins.             *)

Destroy ==
  /\ Destroys /\ dpc = "no"
  /\ \A c \in Committers : cpc[c] = "idle"
  /\ stop' = TRUE
  /\ dpc' = "exit"
  /\ UNCHANGED <<tasks, m_exit, lock, wpc, clientVars, history>>

SetExit ==
  /\ dpc = "exit"
  /\ m_exit' = TRUE
  /\ dpc' = "notify"
  /\ UNCHANGED <<tasks, stop, lock, wpc, clientVars, history>>

NotifyExit ==
  /\ dpc = "notify"
  /\ Wake(Waiting)
  /\ dpc' = "join"
  /\ UNCHANGED <<tasks, stop, m_exit, lock, clientVars, history>>

Join ==
  /\ dpc = "join"
  /\ \A w \in Workers : wpc[w] = "done"
  /\ dpc' = "done"
  /\ UNCHANGED <<tasks, stop, m_exit, lock, wpc, clientVars, history>>

-----------------------------------------------------------------------------
Committer(c) == CheckStop(c) \/ Push(c) \/ Notify(c)
Worker(w) == Leave(w) \/ TakeTask(w) \/ TestFails(w) \/ Sleep(w) \/ FinishTask(w)
Destructor == Destroy \/ SetExit \/ NotifyExit \/ Join

PoolNext ==
  \/ \E c \in Committers : Committer(c)
  \/ Shutdown \/ Restart
  \/ \E w \in Workers : Worker(w) \/ SpuriousWakeup(w)
  \/ Destructor

\* A commit that began goes on, the workers run, tasks end and the destructor
\* goes on; nobody is obliged to commit, to restart or to wake spuriously.
\* The mutex is handed to a thread that keeps asking (strong fairness), so
\* that spurious wakeups of others cannot keep it away for ever.
Fairness ==
  /\ \A c \in Committers : SF_poolVars(Push(c)) /\ WF_poolVars(Notify(c))
  /\ \A w \in Workers : SF_poolVars(Leave(w) \/ TakeTask(w) \/ TestFails(w))
                        /\ WF_poolVars(Sleep(w)) /\ WF_poolVars(FinishTask(w))
  /\ WF_poolVars(SetExit \/ NotifyExit \/ Join)

PoolSpec == PoolInit /\ [][PoolNext]_poolVars /\ Fairness

-----------------------------------------------------------------------------
(* Properties.                                                             *)

\* No task waits in the queue while every worker is asleep: one is awake or a
\* notify is still to come, whatever the order of pushes, notifications and
\* workers that are just falling asleep.
NoIdleWithWork ==
  tasks # <<>> /\ ~m_exit =>
    \/ \E w \in Workers : wpc[w] \in {"lock", "run"}
    \/ \E c \in Committers : cpc[c] = "notify"

\* Tasks are taken in the order they were queued, each once, none lost.
TakenInOrder == started \o tasks = pushed

\* The workers' predicate stays true to the queue while they fall asleep.
ThreadsInv ==
  /\ PoolTypeOK
  /\ \A w \in Workers : wpc[w] = "tested" => lock = w /\ tasks = <<>>
  /\ \A w \in Workers : wpc[w] = "done" => m_exit
  /\ NoIdleWithWork
  /\ TakenInOrder

\* Every committed task is run, as long as the pool is not destroyed.
EveryTaskRuns ==
  \A t \in Tasks :
    t \in Elements(pushed) ~> (t \in Elements(started) \/ dpc # "no")

\* "The flag that makes the threads exit smoothly": the destructor's join
\* returns.
DestructorReturns == dpc = "join" ~> dpc = "done"
=============================================================================
