------------------------------ MODULE AsyncPool ------------------------------
(***************************************************************************)
(* The pool of asynchronous tasks (projects/stargazer/async_pool.h and     *)
(* .cpp): one worker thread, a queue behind a mutex and a condition        *)
(* variable.  The steps of the worker are those other threads can fall     *)
(* between: the predicate of m_cond.wait is evaluated with m_mutex held,   *)
(* which keeps enqueue out, but not stop, which only sets the stop token   *)
(* and notifies.                                                           *)
(***************************************************************************)
EXTENDS Naturals, Sequences

CONSTANT MaxTasks       \* bound on the tasks handed over

ASSUME MaxTasksAssumption == MaxTasks \in Nat

VARIABLES
    m_tasks, tasks,     \* the queue, and the part the worker took out of it
    executed,           \* tasks that have run
    next,               \* number of the next task
    worker,             \* where the worker thread is
    stopRequested,
    notifies,           \* calls of notify_all that enqueue and stop have still to make
    missed              \* stop notified between the worker's predicate and its wait

callers == <<next, stopRequested, notifies, missed>>
vars    == <<m_tasks, tasks, executed, worker, callers>>

\* The worker holds m_mutex in "holding" (predicate not evaluated yet) and
\* "decided" (it was false; the wait, which releases m_mutex, has not begun).
locked   == worker \in {"holding", "decided"}
joinable == worker # "none"

Init ==
    /\ m_tasks = <<>> /\ tasks = <<>> /\ executed = <<>> /\ next = 1
    /\ worker = "none" /\ stopRequested = FALSE /\ notifies = 0 /\ missed = FALSE

start ==
    /\ ~joinable
    /\ worker' = "locking"
    /\ UNCHANGED <<m_tasks, tasks, executed, callers>>

\* Mutant: stop does not notify.
stopSilently ==
    /\ joinable /\ ~stopRequested
    /\ stopRequested' = TRUE
    /\ UNCHANGED <<m_tasks, tasks, executed, next, worker, notifies, missed>>

\* The server stops the pool once (main.cpp:408).
stop ==
    /\ joinable /\ ~stopRequested
    /\ stopRequested' = TRUE
    /\ notifies' = notifies + 1
    /\ UNCHANGED <<m_tasks, tasks, executed, next, worker, missed>>

enqueue ==
    /\ next <= MaxTasks /\ ~locked
    /\ m_tasks' = Append(m_tasks, next)
    /\ next' = next + 1
    /\ notifies' = notifies + 1
    /\ UNCHANGED <<tasks, executed, worker, stopRequested, missed>>

\* m_cond.notify_all(), called without m_mutex, wakes the worker if, and only
\* if, it waits.
Notify ==
    /\ notifies > 0
    /\ notifies' = notifies - 1
    /\ worker' = IF worker = "waiting" THEN "locking" ELSE worker
    /\ missed' = (missed \/ (stopRequested /\ worker = "decided"))
    /\ UNCHANGED <<m_tasks, tasks, executed, next, stopRequested>>

-----------------------------------------------------------------------------
\* The worker acquires m_mutex, at the top of the loop or after a wake-up.
Acquire ==
    /\ worker = "locking"
    /\ worker' = "holding"
    /\ UNCHANGED <<m_tasks, tasks, executed, callers>>

\* Mutant: the worker takes the queue although it was told to stop.
EvaluateTakesAll ==
    /\ worker = "holding"
    /\ IF m_tasks = <<>> /\ ~stopRequested
         THEN worker' = "decided" /\ UNCHANGED <<m_tasks, tasks>>
         ELSE worker' = (IF m_tasks = <<>> THEN "done" ELSE "running")
              /\ tasks' = m_tasks /\ m_tasks' = <<>>
    /\ UNCHANGED <<executed, callers>>

\* The predicate, and what follows when it is true.
Evaluate ==
    /\ worker = "holding"
    /\ \/ /\ m_tasks = <<>> /\ ~stopRequested
          /\ worker' = "decided"
          /\ UNCHANGED <<m_tasks, tasks>>
       \/ /\ stopRequested
          /\ worker' = "done"
          /\ UNCHANGED <<m_tasks, tasks>>
       \/ /\ m_tasks # <<>> /\ ~stopRequested
          /\ worker' = "running"
          /\ tasks' = m_tasks /\ m_tasks' = <<>>
    /\ UNCHANGED <<executed, callers>>

Wait ==
    /\ worker = "decided"
    /\ worker' = "waiting"
    /\ UNCHANGED <<m_tasks, tasks, executed, callers>>

\* A condition variable may wake without a notification.
SpuriousWakeup ==
    /\ worker = "waiting"
    /\ worker' = "locking"
    /\ UNCHANGED <<m_tasks, tasks, executed, callers>>

RunTask ==
    /\ worker = "running"
    /\ IF tasks = <<>>
         THEN worker' = "locking" /\ UNCHANGED <<tasks, executed>>
         ELSE /\ executed' = Append(executed, Head(tasks))
              /\ tasks' = Tail(tasks)
              /\ UNCHANGED worker
    /\ UNCHANGED <<m_tasks, callers>>

run  == Acquire \/ Evaluate \/ Wait \/ RunTask
Next == start \/ stop \/ enqueue \/ Notify \/ run \/ SpuriousWakeup

Spec == Init /\ [][Next]_vars

\* The worker is scheduled and a caller finishes its call; nothing makes
\* anybody call the pool, and wake-ups without a cause cannot be relied on.
FairSpec == Spec /\ WF_vars(run) /\ WF_vars(Notify)
-----------------------------------------------------------------------------
\* Types, and the tasks in their places.
TypeOK ==
    /\ {m_tasks, tasks, executed} \subseteq Seq(1 .. MaxTasks)
    /\ next \in 1 .. MaxTasks + 1
    /\ worker \in {"none", "locking", "holding", "decided", "waiting", "running", "done"}
    /\ notifies \in Nat
    /\ stopRequested \in BOOLEAN /\ missed \in BOOLEAN
    /\ worker # "running" => tasks = <<>>

\* The pool keeps the promise of TaskQueue: one task at a time, in order, at
\* most once, and none that was handed over after stop.
Promise == INSTANCE TaskQueue WITH
    Tasks <- 1 .. MaxTasks, open <- ~stopRequested,
    pending <- IF stopRequested THEN tasks ELSE tasks \o m_tasks

KeepsPromise == Promise!Spec

\* A started pool runs every task it was handed before it was stopped
\* (tests/test_async_pool.cpp, AfterStart): no wake-up is lost between
\* enqueue and the worker's wait.
TasksRun ==
    \A t \in 1 .. MaxTasks :
        (joinable /\ next > t) ~> (stopRequested \/ t \in {executed[i] : i \in DOMAIN executed})

\* A stopped worker ends, which ~jthread waits for, unless the request fell
\* between its look at the stop token and its wait (async_pool.cpp:33).
StopEndsWorker == stopRequested ~> (worker = "done" \/ missed)

\* Neither a task nor the worker is left waiting (async_pool.cpp).
PoolEnds == TasksRun /\ StopEndsWorker
=============================================================================
