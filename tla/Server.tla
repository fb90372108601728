------------------------------- MODULE Server -------------------------------
(***************************************************************************)
(* The life of the server process (main.cpp): the daemon and the parent    *)
(* that waits for it, the script executers and their message queue         *)
(* (scriptexecuter.c), the settings and their reload (settings_impl.cpp),  *)
(* the plugin manager (plugin_mgr.cpp, plugin_runner.cpp), the signals and *)
(* the shutdown.                                                           *)
(*                                                                         *)
(* The executers are processes that take scripts from a System V message   *)
(* queue; what a script says is abstracted away.  A plugin has a thread of *)
(* its own: Start creates it, and the thread itself sets isRunning when it *)
(* comes to run.  A file gives a value to an option or leaves it "unset".  *)
(***************************************************************************)
EXTENDS Integers, Sequences, FiniteSets

CONSTANTS
    Pids,       \* the processes there can be
    Modules,    \* the plugins, as naturals: they start and stop by position
    Files,      \* the contents stargazer.conf may have
    QLEN,       \* scripts the message queue holds
    MaxEvents   \* bound on what comes from outside

VARIABLES
    pc,         \* where main() is
    parent,     \* the process that was started from the shell
    startFile,  \* START_FILE exists
    file, settings,
    executers,  \* the pids main() keeps
    procs,      \* the executers themselves
    queue,      \* how many scripts wait in the queue, -1 when it is gone
    pend,       \* signals pending for sigwait
    mod, conf,  \* what the thread of a plugin does, the settings it was given
    turn,       \* the plugins manager.stop() has still to come to
    on,         \* the parts of the server that run
    events

plugins == <<mod, conf, turn>>
scripts == <<executers, procs, queue>>
shell   == <<parent, startFile>>
vars    == <<pc, shell, file, settings, scripts, pend, plugins, on, events>>

(* The file is there, it parses, and no required option is missing. *)
Readable(f) == f.good

Defaults == [log |-> "default", num |-> 1, mods |-> <<>>, params |-> <<>>]

Option(new, old) == IF new = "unset" THEN old ELSE new

(* ReadSettings into a copy: what the file sets replaces what was there,   *)
(* the list of modules is replaced, ScriptParams are added to those that   *)
(* were read before.                                                       *)
ReadSettings(old, f) ==
    [log    |-> Option(f.log, old.log),
     num    |-> f.num,
     mods   |-> f.mods,
     params |-> old.params \o f.params]

Init ==
    /\ pc = "fork" /\ parent \in {"none", "forked"}
    /\ startFile \in BOOLEAN /\ (startFile => parent = "forked")
    /\ file \in {f \in Files : Readable(f)}
    /\ settings = ReadSettings(Defaults, file)
    /\ executers = {} /\ procs = [p \in Pids |-> "none"] /\ queue = 0 /\ pend = {}
    /\ mod = [m \in Modules |-> "absent"] /\ conf = [m \in Modules |-> "none"] /\ turn = {}
    /\ on = {} /\ events = 0

Event == events < MaxEvents /\ events' = events + 1

----------------------------------------------------------------------------
(* Starting. *)

(* ForkAndWait: the daemon and its parent each remove a start file that    *)
(* was left behind, each when it comes to it; then the parent polls for    *)
(* two minutes.  In the foreground there is no parent and no start file.   *)
ForkAndWait ==
    /\ pc = "fork"
    /\ pc' = "executers"
    /\ startFile' = (startFile /\ parent = "none")
    /\ UNCHANGED <<parent, file, settings, scripts, pend, plugins, on, events>>

ParentTrusts ==
    /\ \/ parent = "forked" /\ parent' = "waiting" /\ UNCHANGED startFile
       \/ parent = "waiting" /\ startFile /\ parent' = "exit 0" /\ startFile' = FALSE
       \/ parent = "waiting" /\ parent' = "exit 1" /\ startFile' = FALSE
    /\ UNCHANGED <<pc, file, settings, scripts, pend, plugins, on, events>>

Parent ==
    /\ \/ parent = "forked" /\ parent' = "waiting" /\ startFile' = FALSE
       \/ parent = "waiting" /\ startFile /\ parent' = "exit 0" /\ startFile' = FALSE
       \/ parent = "waiting" /\ parent' = "exit 1" /\ startFile' = FALSE
    /\ UNCHANGED <<pc, file, settings, scripts, pend, plugins, on, events>>

(* StartScriptExecuter: a fork, and the pid is kept; a step that fails     *)
(* leaves main() at once, and the executers to themselves.                 *)
StartScriptExecuter ==
    /\ pc = "executers"
    /\ \/ pc' = "failed" /\ UNCHANGED <<executers, procs>>
       \/ \E p \in Pids \ executers :
             /\ executers' = executers \cup {p}
             /\ procs' = [procs EXCEPT ![p] = "loop"]
             /\ pc' = IF Cardinality(executers') = settings.num THEN "timer" ELSE pc
    /\ UNCHANGED <<shell, file, settings, queue, pend, plugins, on, events>>

Boot(at, part, then) ==
    /\ pc = at
    /\ \/ pc' = "failed" /\ UNCHANGED on
       \/ pc' = then /\ on' = on \cup {part}
    /\ UNCHANGED <<shell, file, settings, scripts, pend, plugins, events>>

StartTimer == Boot("timer", "timer", "store")

(* The pool is started, the store loaded and the tables are read. *)
LoadStore == Boot("store", "pool", "users")

StartUsers == Boot("users", "users", "traff")

StartTraffCounter == Boot("traff", "traff", "load")

(* PluginManager: a module of the settings that cannot be loaded is left   *)
(* out; the rest are started in order, and one that fails stays loaded.    *)
LoadModules ==
    /\ pc = "load"
    /\ \E loaded \in SUBSET DOMAIN settings.mods :
          /\ mod' = [m \in Modules |-> IF m \in loaded THEN "loaded" ELSE "absent"]
          /\ conf' = [m \in Modules |-> IF m \in loaded THEN settings.mods[m] ELSE "none"]
    /\ pc' = "start"
    /\ UNCHANGED <<shell, file, settings, scripts, pend, turn, on, events>>

Loaded == {m \in Modules : mod[m] = "loaded"}

StartModule ==
    /\ pc = "start"
    /\ \E m \in Loaded :
          /\ \A k \in Loaded : m <= k
          /\ \E st \in {"starting", "not started"} : mod' = [mod EXCEPT ![m] = st]
    /\ UNCHANGED <<pc, shell, file, settings, scripts, pend, conf, turn, on, events>>

Started ==
    /\ pc = "start" /\ Loaded = {}
    /\ pc' = "wait"
    /\ startFile' = (startFile \/ parent # "none")
    /\ UNCHANGED <<parent, file, settings, scripts, pend, plugins, on, events>>

(* The thread of a plugin comes to run, or ends by itself. *)
ThreadRuns(m) ==
    /\ pc \notin {"failed", "exited"}
    /\ \/ mod[m] = "starting" /\ mod' = [mod EXCEPT ![m] = "running"]
       \/ mod[m] = "running" /\ mod' = [mod EXCEPT ![m] = "ended"]
    /\ UNCHANGED <<pc, shell, file, settings, scripts, pend, conf, turn, on, events>>

----------------------------------------------------------------------------
(* The executers. *)

Alive(p) == procs[p] \notin {"none", "dead", "reaped"}

(* ScriptExec: msgsnd waits while the queue is full, and fails when it is  *)
(* gone.                                                                   *)
ScriptExec ==
    /\ Event /\ "users" \in on
    /\ queue \in 0..(QLEN - 1)
    /\ queue' = queue + 1
    /\ UNCHANGED <<pc, shell, file, settings, executers, procs, pend, plugins, on>>

(* The loop of an executer.  It tests nonstop, then waits for a message,   *)
(* then runs the script.  "told" states are those in which SIGUSR1 has     *)
(* cleared nonstop: a signal that comes between the test and msgrcv does   *)
(* not end the msgrcv.                                                     *)
ExecuterStep == [loop |-> "test", test |-> "msgrcv", system |-> "loop",
                 loop_told |-> "dead", test_told |-> "msgrcv_told", system_told |-> "loop_told"]

Executer(p) ==
    /\ \/ /\ procs[p] \in DOMAIN ExecuterStep
          /\ procs' = [procs EXCEPT ![p] = ExecuterStep[@]]
          /\ UNCHANGED queue
       \/ /\ procs[p] \in {"msgrcv", "msgrcv_told"} /\ queue # 0
          /\ procs' = [procs EXCEPT ![p] =
                         CASE queue = -1 /\ @ = "msgrcv" -> "loop"
                           [] queue = -1 /\ @ = "msgrcv_told" -> "loop_told"
                           [] queue > 0 /\ @ = "msgrcv" -> "system"
                           [] queue > 0 /\ @ = "msgrcv_told" -> "system_told"]
          /\ queue' = IF queue = -1 THEN queue ELSE queue - 1
    /\ pend' = IF procs'[p] = "dead" THEN pend \cup {"CHLD"} ELSE pend
    /\ UNCHANGED <<pc, shell, file, settings, executers, plugins, on, events>>

(* An executer is killed.  However many die, one SIGCHLD is pending; before *)
(* the signals are blocked nobody hears it.                                *)
ExecuterDies(p) ==
    /\ Event /\ Alive(p)
    /\ procs' = [procs EXCEPT ![p] = "dead"]
    /\ pend' = IF pc = "executers" THEN pend ELSE pend \cup {"CHLD"}
    /\ UNCHANGED <<pc, shell, file, settings, executers, queue, plugins, on>>

----------------------------------------------------------------------------
(* Signals. *)

Signal ==
    /\ pc = "wait" /\ Event
    /\ \E s \in {"HUP", "TERM", "PIPE"} : pend' = pend \cup {s}
    /\ UNCHANGED <<pc, shell, file, settings, scripts, plugins, on>>

Edit ==
    /\ pc = "wait" /\ Event
    /\ file' \in Files \ {file}
    /\ UNCHANGED <<pc, shell, settings, scripts, pend, plugins, on>>

(* SIGHUP: the settings are read into a copy that is dropped when the file *)
(* is bad; then the modules that the settings name are given their         *)
(* settings, and one whose Reload fails keeps what it had.                 *)
HupReads(s) ==
    LET told == {m \in Modules : mod[m] # "absent"} \cap DOMAIN s.mods
    IN  /\ settings' = s
        /\ \E ok \in SUBSET told :
              conf' = [m \in Modules |-> IF m \in ok THEN s.mods[m] ELSE conf[m]]

Hup ==
    /\ pc = "wait" /\ "HUP" \in pend
    /\ pend' = pend \ {"HUP"}
    /\ HupReads(IF Readable(file) THEN ReadSettings(settings, file) ELSE settings)
    /\ UNCHANGED <<pc, shell, file, scripts, mod, turn, on, events>>

(* SIGCHLD: one child is waited for.  There is one: a signal is pending    *)
(* only after a death, and this is the only place where a child is waited  *)
(* for while the server runs.                                              *)
Reap(p) ==
    /\ procs[p] = "dead"
    /\ procs' = [procs EXCEPT ![p] = "reaped"]
    /\ executers' = executers \ {p}

ToStop == pc' = "stop" /\ turn' = {m \in Modules : mod[m] # "absent"}

Chld ==
    /\ pc = "wait" /\ "CHLD" \in pend
    /\ pend' = pend \ {"CHLD"}
    /\ \E p \in Pids : Reap(p)
    /\ IF executers' = {} THEN ToStop ELSE UNCHANGED <<pc, turn>>
    /\ UNCHANGED <<shell, file, settings, queue, mod, conf, on, events>>

Term ==
    /\ pc = "wait" /\ "TERM" \in pend
    /\ pend' = pend \ {"TERM"}
    /\ ToStop
    /\ UNCHANGED <<shell, file, settings, scripts, mod, conf, on, events>>

Pipe ==
    /\ pc = "wait" /\ "PIPE" \in pend
    /\ pend' = pend \ {"PIPE"}
    /\ UNCHANGED <<pc, shell, file, settings, scripts, plugins, on, events>>

----------------------------------------------------------------------------
(* Stopping. *)

(* PluginManager::stop, from main() and again from the destructor: the     *)
(* modules in order, but for those that do not say they run; a Stop that   *)
(* gives up after some seconds detaches the thread.                        *)
StopModule ==
    /\ pc \in {"stop", "destroy"} /\ turn # {}
    /\ \E m \in turn :
          /\ \A k \in turn : m >= k
          /\ turn' = turn \ {m}
          /\ IF mod[m] = "running"
             THEN \E st \in {"stopped", "detached"} : mod' = [mod EXCEPT ![m] = st]
             ELSE UNCHANGED mod
    /\ UNCHANGED <<pc, shell, file, settings, scripts, pend, conf, on, events>>

StopPart(at, part, then) ==
    /\ pc = at /\ turn = {}
    /\ pc' = then /\ on' = on \ {part}
    /\ UNCHANGED <<shell, file, settings, scripts, pend, plugins, events>>

StopPool == StopPart("stop", "pool", "stop traff")

StopTraffCounter == StopPart("stop traff", "traff", "stop users")

StopUsers == StopPart("stop users", "users", "remove queue")

RemoveQueueFails ==
    /\ pc = "remove queue" /\ pc' = "kill"
    /\ UNCHANGED <<queue, shell, file, settings, executers, procs, pend, plugins, on, events>>

(* msgctl(IPC_RMID): what is queued is lost, and every msgrcv fails. *)
RemoveQueue ==
    /\ pc = "remove queue" /\ pc' = "kill"
    /\ queue' = -1
    /\ UNCHANGED <<shell, file, settings, executers, procs, pend, plugins, on, events>>

(* kill(SIGUSR1): the handler clears nonstop, and a msgrcv that waits      *)
(* returns.                                                                *)
Told == [loop |-> "loop_told", test |-> "test_told", msgrcv |-> "loop_told",
         system |-> "system_told"]

KillExecuters ==
    /\ pc = "kill" /\ pc' = "stop timer"
    /\ procs' = [p \in Pids |-> IF p \in executers /\ Alive(p) THEN Told[procs[p]] ELSE procs[p]]
    /\ UNCHANGED <<shell, file, settings, executers, queue, pend, plugins, on, events>>

StopTimer ==
    /\ pc = "stop timer" /\ pc' = "destroy"
    /\ on' = on \ {"timer"}
    /\ turn' = {m \in Modules : mod[m] # "absent"}
    /\ UNCHANGED <<shell, file, settings, scripts, pend, mod, conf, events>>

(* ~PluginManager unloads the modules, and main() returns. *)
Exit ==
    /\ pc = "destroy" /\ turn = {}
    /\ pc' = "exited"
    /\ UNCHANGED <<shell, file, settings, scripts, pend, plugins, on, events>>

----------------------------------------------------------------------------
MainStep ==
    \/ ForkAndWait \/ StartScriptExecuter
    \/ StartTimer \/ LoadStore \/ StartUsers \/ StartTraffCounter
    \/ LoadModules \/ StartModule \/ Started
    \/ Hup \/ Chld \/ Term \/ Pipe
    \/ StopModule \/ StopPool \/ StopTraffCounter \/ StopUsers
    \/ RemoveQueue \/ KillExecuters \/ StopTimer \/ Exit

Next ==
    \/ MainStep
    \/ Parent \/ Signal \/ Edit \/ ScriptExec
    \/ \E m \in Modules : ThreadRuns(m)
    \/ \E p \in Pids : Executer(p) \/ ExecuterDies(p)

(* Threads and processes are scheduled. *)
Fairness == WF_vars(MainStep) /\ \A p \in Pids : WF_vars(Executer(p))

Spec == Init /\ [][Next]_vars /\ Fairness

----------------------------------------------------------------------------
Up == pc \in {"wait", "stop", "stop traff", "stop users", "remove queue", "kill", "stop timer",
              "destroy", "exited"}

(* What the server keeps of itself is true.  The pids main() keeps, and    *)
(* will signal, are exactly the children it has not waited for: a pid that *)
(* was waited for may by then be another's process, and main() stops when  *)
(* the set is empty.  The parent exits with 0 only when the server came    *)
(* up, whatever start file an earlier server left.                         *)
OrderlyLife ==
    /\ Up => executers = {p \in Pids : procs[p] \notin {"none", "reaped"}}
    /\ parent = "exit 0" => Up

(* A server that stops in order leaves no executer behind: the queue is    *)
(* removed before the executers are told to stop, so that one that has     *)
(* tested nonstop and just goes to wait for a message is not left there.   *)
ExecutersEnd ==
    (pc = "kill") ~> (\A p \in Pids : ~Alive(p))
=============================================================================
