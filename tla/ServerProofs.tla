---------------------------- MODULE ServerProofs ----------------------------
(***************************************************************************)
(* The server process and its pool of tasks.                               *)
(*                                                                         *)
(* The pool implements the task queue for any number of tasks: the queue   *)
(* is what the worker has taken followed by what waits, and a step of the  *)
(* pool is a step of the queue or none.                                    *)
(*                                                                         *)
(* The life of the process is orderly for any number of executers, plugins *)
(* and files.  OrderlyLife speaks only of a server that is up; it is not   *)
(* inductive.  ChildrenInv says of every moment which pids main() keeps,   *)
(* and that nobody is told to stop before main() tells them, for otherwise *)
(* a reaped executer could be told.  ParentInv adds that a parent that is  *)
(* past its own removal of the start file sees one only from a server that *)
(* came up.                                                                *)
(***************************************************************************)
EXTENDS AsyncPool, TLAPS, SequenceTheorems, FiniteSets

Numbers == 1 .. MaxTasks

\* The initial state has its types.
LEMMA TypeInit == Init => TypeOK
<1> SUFFICES ASSUME Init PROVE TypeOK
  OBVIOUS
<1>1. <<>> \in Seq(Numbers)
  BY EmptySeq
<1>2. {m_tasks, tasks, executed} \subseteq Seq(Numbers)
  BY <1>1 DEF Init
<1>3. next \in 1 .. MaxTasks + 1 /\ notifies \in Nat
  BY MaxTasksAssumption DEF Init
<1>4. worker = "none" /\ stopRequested \in BOOLEAN /\ missed \in BOOLEAN /\ tasks = <<>>
  BY DEF Init
<1> QED BY <1>2, <1>3, <1>4 DEF TypeOK, Numbers

\* Every step keeps the types, and the worker's own tasks empty unless it runs.
LEMMA TypeStep == TypeOK /\ [Next]_vars => TypeOK'
<1> SUFFICES ASSUME TypeOK, [Next]_vars PROVE TypeOK'
  OBVIOUS
<1> USE MaxTasksAssumption
<1>e. <<>> \in Seq(Numbers)
  BY EmptySeq
<1>t. {m_tasks, tasks, executed} \subseteq Seq(Numbers)
  BY DEF TypeOK, Numbers
<1>1. CASE start
  BY <1>1 DEF start, TypeOK, callers, joinable
<1>2. CASE stop
  BY <1>2 DEF stop, TypeOK
<1>3. CASE enqueue
  <2>1. next \in Numbers /\ next' \in 1 .. MaxTasks + 1 /\ notifies' \in Nat
    BY <1>3 DEF enqueue, TypeOK, Numbers
  <2>2. m_tasks' \in Seq(Numbers)
    BY <1>3, <1>t, <2>1 DEF enqueue
  <2> QED BY <1>3, <2>1, <2>2 DEF enqueue, TypeOK, Numbers
<1>4. CASE Notify
  <2>1. notifies' \in Nat /\ missed' \in BOOLEAN
    BY <1>4 DEF Notify, TypeOK
  <2> QED BY <1>4, <2>1 DEF Notify, TypeOK
<1>5. CASE Acquire
  BY <1>5 DEF Acquire, TypeOK, callers
<1>6. CASE Evaluate
  <2>1. {m_tasks', tasks'} \subseteq Seq(Numbers)
        /\ worker' \in {"decided", "done", "running"} /\ (worker' # "running" => tasks' = <<>>)
    BY <1>6, <1>e, <1>t DEF Evaluate, TypeOK
  <2> QED BY <1>6, <2>1 DEF Evaluate, TypeOK, callers, Numbers
<1>7. CASE Wait
  BY <1>7 DEF Wait, TypeOK, callers
<1>8. CASE RunTask
  <2>1. {tasks', executed'} \subseteq Seq(Numbers)
        /\ worker' \in {"locking", "running"} /\ (worker' # "running" => tasks' = <<>>)
    <3>1. CASE tasks = <<>>
      BY <1>8, <1>t, <3>1 DEF RunTask
    <3>2. CASE tasks # <<>>
      <4>1. Head(tasks) \in Numbers /\ Tail(tasks) \in Seq(Numbers)
        BY <1>t, <3>2, HeadTailProperties
      <4>2. executed' = Append(executed, Head(tasks)) /\ tasks' = Tail(tasks)
            /\ worker' = "running"
        BY <1>8, <3>2 DEF RunTask
      <4>3. Append(executed, Head(tasks)) \in Seq(Numbers)
        BY <1>t, <4>1, AppendProperties
      <4> QED BY <4>1, <4>2, <4>3
    <3> QED BY <3>1, <3>2
  <2> QED BY <1>8, <2>1 DEF RunTask, TypeOK, callers, Numbers
<1>9. CASE SpuriousWakeup
  BY <1>9 DEF SpuriousWakeup, TypeOK, callers
<1>10. CASE UNCHANGED vars
  BY <1>10 DEF vars, callers, TypeOK
<1> QED
  BY <1>1, <1>2, <1>3, <1>4, <1>5, <1>6, <1>7, <1>8, <1>9, <1>10 DEF Next, run

\* Every step of the pool is a step of the task queue or leaves it alone.
LEMMA StepSimulation ==
    TypeOK /\ TypeOK' /\ [Next]_vars => [Promise!Next]_(Promise!vars)
<1> SUFFICES ASSUME TypeOK, TypeOK', [Next]_vars PROVE [Promise!Next]_(Promise!vars)
  OBVIOUS
<1> DEFINE q == IF stopRequested THEN tasks ELSE tasks \o m_tasks
<1>t. {m_tasks, tasks, executed} \subseteq Seq(Numbers)
  BY DEF TypeOK, Numbers
<1>s. ASSUME q' = q, executed' = executed, stopRequested' = stopRequested
      PROVE  [Promise!Next]_(Promise!vars)
  BY <1>s DEF Promise!vars
<1>1. CASE start \/ Notify \/ Acquire \/ Wait \/ SpuriousWakeup \/ UNCHANGED vars
  <2>1. UNCHANGED <<m_tasks, tasks, executed, stopRequested>>
    BY <1>1 DEF start, Notify, Acquire, Wait, SpuriousWakeup, vars, callers
  <2> QED BY <2>1, <1>s
<1>2. CASE stop
  <2>1. ~stopRequested /\ stopRequested' = TRUE
        /\ tasks' = tasks /\ m_tasks' = m_tasks /\ executed' = executed
    BY <1>2 DEF stop, TypeOK
  <2>2. tasks = SubSeq(tasks \o m_tasks, 1, Len(tasks)) /\ Len(tasks) \in 0 .. Len(tasks \o m_tasks)
    BY <1>t
  <2>3. q = tasks \o m_tasks /\ q' = tasks
    BY <2>1
  <2>4. Promise!Stop
    BY <2>1, <2>2, <2>3 DEF Promise!Stop
  <2> QED BY <2>4 DEF Promise!Next
<1>3. CASE enqueue
  <2>1. m_tasks' = Append(m_tasks, next) /\ tasks' = tasks /\ executed' = executed
        /\ stopRequested' = stopRequested /\ next \in Numbers
    BY <1>3, MaxTasksAssumption DEF enqueue, TypeOK, Numbers
  <2>2. tasks \o Append(m_tasks, next) = Append(tasks \o m_tasks, next)
    <3>1. m_tasks \in Seq(Numbers) /\ tasks \in Seq(Numbers) /\ next \in Numbers
      BY <1>t, <2>1
    <3> QED BY <3>1
  <2>3. Promise!Enqueue(next)
    BY <2>1, <2>2 DEF Promise!Enqueue
  <2> QED BY <2>1, <2>3 DEF Promise!Next, Numbers
<1>4. CASE Evaluate
  <2>1. tasks = <<>> /\ executed' = executed /\ stopRequested' = stopRequested
    BY <1>4 DEF Evaluate, TypeOK, callers
  <2>2. CASE UNCHANGED <<m_tasks, tasks>>
    BY <2>1, <2>2, <1>s
  <2>3. CASE ~stopRequested /\ tasks' = m_tasks /\ m_tasks' = <<>>
    <3>1. <<>> \o m_tasks = m_tasks /\ m_tasks \o <<>> = m_tasks
      BY <1>t
    <3>2. q' = q
      BY <2>1, <2>3, <3>1
    <3> QED BY <2>1, <3>2, <1>s
  <2> QED BY <1>4, <2>2, <2>3 DEF Evaluate
<1>5. CASE RunTask
  <2>1. m_tasks' = m_tasks /\ stopRequested' = stopRequested
    BY <1>5 DEF RunTask, callers
  <2>2. CASE tasks = <<>>
    BY <1>5, <2>1, <2>2, <1>s DEF RunTask
  <2>3. CASE tasks # <<>>
    <3>1. executed' = Append(executed, Head(tasks)) /\ tasks' = Tail(tasks)
      BY <1>5, <2>3 DEF RunTask
    <3>2. /\ tasks \o m_tasks # <<>> /\ Head(tasks \o m_tasks) = Head(tasks)
          /\ Tail(tasks \o m_tasks) = Tail(tasks) \o m_tasks
      BY <1>t, <2>3
    <3>3. q # <<>> /\ Head(q) = Head(tasks) /\ q' = Tail(q)
      BY <2>1, <2>3, <3>1, <3>2
    <3>4. Promise!Execute
      BY <2>1, <3>1, <3>3 DEF Promise!Execute
    <3> QED BY <3>4 DEF Promise!Next
  <2> QED BY <2>2, <2>3
<1> QED BY <1>1, <1>2, <1>3, <1>4, <1>5 DEF Next, run

\* The pool implements the task queue: tasks run in order, at most once, and
\* not at all once handed over after stop, whatever the interleaving.
THEOREM PoolIsTaskQueue == Spec => KeepsPromise
<1>1. Init => Promise!Init
  <2> SUFFICES ASSUME Init PROVE Promise!Init
    OBVIOUS
  <2>1. tasks = <<>> /\ m_tasks = <<>> /\ executed = <<>> /\ stopRequested = FALSE
    BY DEF Init
  <2>2. <<>> \o <<>> = <<>>
    OBVIOUS
  <2> QED BY <2>1, <2>2 DEF Promise!Init
<1> QED BY <1>1, TypeInit, TypeStep, StepSimulation, PTL DEF Spec, KeepsPromise, Promise!Spec

\* The types hold throughout.
THEOREM PoolTypes == Spec => []TypeOK
BY TypeInit, TypeStep, PTL DEF Spec

-----------------------------------------------------------------------------
CONSTANTS Pids, Modules, Files, QLEN, MaxEvents
VARIABLES pc, parent, startFile, file, settings, executers, procs, queue, pend, mod, conf, turn,
          on, events

S == INSTANCE Server

\* An executer that has not been told to stop.
Untold == {"none", "loop", "test", "msgrcv", "system", "dead", "reaped"}
ToldStates == {"loop_told", "test_told", "msgrcv_told", "system_told"}

\* The executers main() keeps are those it has not waited for, and only a
\* server past "kill" has told them to stop.
ChildrenInv ==
    /\ procs \in [Pids -> Untold \cup ToldStates]
    /\ executers = {p \in Pids : procs[p] \notin {"none", "reaped"}}
    /\ (queue = -1 \/ queue \in Nat)
    /\ pc \notin {"stop timer", "destroy", "exited"} => procs \in [Pids -> Untold]

\* What the parent saw, or may see next, comes from a server that is up.
ParentInv ==
    /\ parent = "exit 0" => S!Up
    /\ parent = "waiting" /\ startFile => S!Up

\* The executers have been told to stop.
Late == {"stop timer", "destroy", "exited"}

\* The start, step by step up to where main() waits, and the stop.
MainGoesOn == /\ S!Up => S!Up'
              /\ pc' \notin Late => pc \notin Late

\* Steps that leave the executers and the parent alone.
LEMMA ElsewhereKeeps ==
    ASSUME ChildrenInv, ParentInv, MainGoesOn,
           UNCHANGED <<parent, startFile, executers, procs>>, (queue' = -1 \/ queue' \in Nat)
    PROVE  ChildrenInv' /\ ParentInv'
BY DEF ChildrenInv, ParentInv, MainGoesOn, Late

\* A queue that is not full has room for one more.
LEMMA QueueGrows == ASSUME QLEN \in Nat, NEW q \in 0..(QLEN - 1) PROVE q + 1 \in Nat
OBVIOUS

\* The steps of main() that start and stop its parts, the plugins, the signals
\* and the scripts are among these.
LEMMA Elsewhere ==
    ASSUME QLEN \in Nat, ChildrenInv,
           \/ S!StartTimer \/ S!LoadStore \/ S!StartUsers \/ S!StartTraffCounter
           \/ S!LoadModules \/ S!StartModule \/ S!Hup \/ S!Term \/ S!Pipe
           \/ S!StopModule \/ S!StopPool \/ S!StopTraffCounter \/ S!StopUsers
           \/ S!RemoveQueue \/ S!StopTimer \/ S!Exit
           \/ S!Signal \/ S!Edit \/ S!ScriptExec \/ UNCHANGED S!vars
           \/ \E m \in Modules : S!ThreadRuns(m)
    PROVE  /\ MainGoesOn /\ UNCHANGED <<parent, startFile, executers, procs>>
           /\ (queue' = -1 \/ queue' \in Nat)
<1> USE DEF MainGoesOn, Late, S!Up, S!shell, S!scripts, S!plugins, ChildrenInv
<1>1. CASE S!StartTimer \/ S!LoadStore \/ S!StartUsers \/ S!StartTraffCounter
  BY <1>1 DEF S!StartTimer, S!LoadStore, S!StartUsers, S!StartTraffCounter, S!Boot
<1>2. CASE S!LoadModules
  BY <1>2 DEF S!LoadModules
<1>3. CASE S!StartModule
  BY <1>3 DEF S!StartModule
<1>4. CASE S!Hup \/ S!Pipe \/ S!Term
  BY <1>4 DEF S!Hup, S!Pipe, S!Term, S!ToStop
<1>5. CASE S!StopModule
  BY <1>5 DEF S!StopModule
<1>6. CASE S!StopPool \/ S!StopTraffCounter \/ S!StopUsers
  BY <1>6 DEF S!StopPool, S!StopTraffCounter, S!StopUsers, S!StopPart
<1>7. CASE S!RemoveQueue
  BY <1>7 DEF S!RemoveQueue
<1>8. CASE S!StopTimer
  BY <1>8 DEF S!StopTimer
<1>9. CASE S!Exit
  BY <1>9 DEF S!Exit
<1>10. CASE S!Signal \/ S!Edit
  BY <1>10 DEF S!Signal, S!Edit
<1>11. CASE S!ScriptExec
  <2>1. queue \in 0..(QLEN - 1) /\ queue' = queue + 1 /\ UNCHANGED <<pc, parent, startFile, executers, procs>>
    BY <1>11 DEF S!ScriptExec
  <2>2. queue' \in Nat
    BY <2>1, QueueGrows
  <2> QED BY <2>1, <2>2
<1>12. CASE UNCHANGED S!vars
  BY <1>12 DEF S!vars
<1>13. ASSUME NEW m \in Modules, S!ThreadRuns(m)
       PROVE  /\ MainGoesOn /\ UNCHANGED <<parent, startFile, executers, procs>>
              /\ (queue' = -1 \/ queue' \in Nat)
  BY <1>13 DEF S!ThreadRuns
<1> QED BY <1>1, <1>2, <1>3, <1>4, <1>5, <1>6, <1>7, <1>8, <1>9, <1>10, <1>11, <1>12, <1>13

\* The parent believes a start file only after it has removed the old one.
LEMMA ParentKeeps ==
    ASSUME ChildrenInv, ParentInv, S!ForkAndWait \/ S!Parent \/ S!Started
    PROVE  ChildrenInv' /\ ParentInv'
<1> USE DEF S!Up, S!shell, S!scripts, S!plugins
<1>1. CASE S!ForkAndWait
  BY <1>1 DEF S!ForkAndWait, ChildrenInv, ParentInv
<1>2. CASE S!Parent
  BY <1>2 DEF S!Parent, ChildrenInv, ParentInv
<1>3. CASE S!Started
  BY <1>3 DEF S!Started, ChildrenInv, ParentInv
<1> QED BY <1>1, <1>2, <1>3

\* Executers are started, live and die, are waited for, and are told to stop.
LEMMA ChildrenKeep ==
    ASSUME ChildrenInv, ParentInv,
           \/ S!StartScriptExecuter \/ S!Chld \/ S!KillExecuters
           \/ \E p \in Pids : S!Executer(p) \/ S!ExecuterDies(p)
    PROVE  ChildrenInv' /\ ParentInv'
<1> USE DEF S!Up, S!shell, S!scripts, S!plugins, Untold, ToldStates
<1>1. CASE S!StartScriptExecuter
  <2>1. ParentInv'
    BY <1>1 DEF S!StartScriptExecuter, ParentInv
  <2>4. pc = "executers" /\ pc' \in {"failed", "timer", "executers"} /\ UNCHANGED queue
    BY <1>1 DEF S!StartScriptExecuter
  <2>2. CASE UNCHANGED <<executers, procs>>
    BY <2>1, <2>2, <2>4 DEF ChildrenInv
  <2>3. ASSUME NEW p \in Pids, executers' = executers \cup {p}, procs' = [procs EXCEPT ![p] = "loop"]
        PROVE  ChildrenInv'
    BY <2>3, <2>4 DEF ChildrenInv
  <2> QED BY <1>1, <2>1, <2>2, <2>3 DEF S!StartScriptExecuter
<1>2. CASE S!Chld
  <2>1. PICK p \in Pids : S!Reap(p)
    BY <1>2 DEF S!Chld
  <2>2. /\ pc = "wait" /\ pc' \in {"wait", "stop"}
        /\ UNCHANGED <<parent, startFile, queue>>
    BY <1>2 DEF S!Chld, S!ToStop
  <2>3. ChildrenInv'
    BY <2>1, <2>2 DEF S!Reap, ChildrenInv
  <2> QED BY <2>2, <2>3 DEF ParentInv
<1>3. CASE S!KillExecuters
  <2>1. /\ pc = "kill" /\ pc' = "stop timer" /\ UNCHANGED <<parent, startFile, queue, executers>>
        /\ procs' = [p \in Pids |-> IF p \in executers /\ S!Alive(p) THEN S!Told[procs[p]] ELSE procs[p]]
    BY <1>3 DEF S!KillExecuters
  <2>2. ASSUME NEW p \in Pids
        PROVE  /\ procs'[p] \in Untold \cup ToldStates
               /\ procs'[p] \in {"none", "reaped"} <=> procs[p] \in {"none", "reaped"}
    <3>1. procs[p] \in Untold
      BY <2>1 DEF ChildrenInv
    <3>2. S!Alive(p) => procs[p] \in {"loop", "test", "msgrcv", "system"}
      BY <3>1 DEF S!Alive
    <3>3. S!Alive(p) => S!Told[procs[p]] \in ToldStates
      BY <3>2 DEF S!Told
    <3> QED BY <2>1, <3>1, <3>3 DEF S!Alive
  <2>3. ChildrenInv'
    BY <2>1, <2>2 DEF ChildrenInv
  <2> QED BY <2>1, <2>3 DEF ParentInv
<1>4. ASSUME NEW p \in Pids, S!Executer(p) \/ S!ExecuterDies(p) PROVE ChildrenInv' /\ ParentInv'
  <2>1. UNCHANGED <<pc, parent, startFile, executers>>
    BY <1>4 DEF S!Executer, S!ExecuterDies
  <2>2. /\ procs[p] \notin {"none", "reaped"} /\ procs' = [procs EXCEPT ![p] = procs'[p]]
        /\ procs'[p] \notin {"none", "reaped"} /\ (queue' = -1 \/ queue' \in Nat)
        /\ procs'[p] \in Untold \cup ToldStates
        /\ procs[p] \in Untold => procs'[p] \in Untold
    <3>1. CASE S!ExecuterDies(p)
      BY <3>1 DEF S!ExecuterDies, S!Alive, ChildrenInv
    <3>2. CASE procs[p] \in DOMAIN S!ExecuterStep /\ procs' = [procs EXCEPT ![p] = S!ExecuterStep[@]]
               /\ UNCHANGED queue
      <4>1. S!ExecuterStep[procs[p]] \in (Untold \cup ToldStates) \ {"none", "reaped"}
            /\ (procs[p] \in Untold => S!ExecuterStep[procs[p]] \in Untold)
            /\ procs[p] \notin {"none", "reaped"}
        BY <3>2 DEF S!ExecuterStep
      <4> QED BY <3>2, <4>1 DEF ChildrenInv
    <3>3. CASE S!Executer(p) /\ procs[p] \in {"msgrcv", "msgrcv_told"} /\ queue # 0
      <4>1. procs[p] \notin DOMAIN S!ExecuterStep
        BY <3>3 DEF S!ExecuterStep
      <4>2. queue = -1 \/ queue > 0
        <5>1. queue # 0 /\ (queue = -1 \/ queue \in Nat)
          BY <3>3 DEF ChildrenInv
        <5>2. ASSUME NEW q \in Nat, q # 0 PROVE q > 0 /\ q - 1 \in Nat
          BY <5>2
        <5> QED BY <5>1, <5>2
      <4>3. \E s \in {"loop", "loop_told", "system", "system_told"} :
               /\ procs' = [procs EXCEPT ![p] = s]
               /\ procs[p] = "msgrcv" => s \in {"loop", "system"}
        BY <3>3, <4>1, <4>2 DEF S!Executer
      <4>4. (queue' = -1 \/ queue' \in Nat)
        <5>1. queue' = IF queue = -1 THEN queue ELSE queue - 1
          BY <3>3, <4>1 DEF S!Executer
        <5>2. queue # 0 /\ (queue = -1 \/ queue \in Nat)
          BY <3>3 DEF ChildrenInv
        <5>3. ASSUME NEW q \in Nat, q # 0 PROVE q - 1 \in Nat
          BY <5>3
        <5> QED BY <5>1, <5>2, <5>3
      <4> QED BY <3>3, <4>3, <4>4 DEF ChildrenInv
    <3> QED BY <1>4, <3>1, <3>2, <3>3 DEF S!Executer
  <2>3. ChildrenInv'
    BY <2>1, <2>2 DEF ChildrenInv
  <2> QED BY <2>1, <2>3 DEF ParentInv
<1> QED BY <1>1, <1>2, <1>3, <1>4

\* The pids main() keeps and will signal are those of the children it has not
\* waited for, and the parent exits with 0 only when the server came up,
\* whatever start file was left behind (main.cpp:95-196, 352-400).
THEOREM LifeIsOrderly == ASSUME QLEN \in Nat PROVE S!Spec => []S!OrderlyLife
<1>1. S!Init => ChildrenInv /\ ParentInv
  <2> SUFFICES ASSUME S!Init PROVE ChildrenInv /\ ParentInv
    OBVIOUS
  <2>1. executers = {} /\ procs = [p \in Pids |-> "none"] /\ queue = 0 /\ parent \in {"none", "forked"}
    BY DEF S!Init
  <2> QED BY <2>1 DEF ChildrenInv, ParentInv, Untold
<1>2. ChildrenInv /\ ParentInv /\ [S!Next]_S!vars => (ChildrenInv /\ ParentInv)'
  BY Elsewhere, ElsewhereKeeps, ParentKeeps, ChildrenKeep DEF S!Next, S!MainStep
<1>3. ChildrenInv /\ ParentInv => S!OrderlyLife
  BY DEF ChildrenInv, ParentInv, S!OrderlyLife
<1> QED BY <1>1, <1>2, <1>3, PTL DEF S!Spec
=============================================================================
