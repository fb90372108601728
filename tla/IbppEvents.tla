----------------------------- MODULE IbppEvents -----------------------------
(***************************************************************************)
(* The two parts of the Firebird client library (libs/ibpp) in which the   *)
(* server acts on its own: the events, which it posts through a callback   *)
(* on a thread of its own, and the service manager, which runs a task      *)
(* while the library waits for its lines of output.                        *)
(*                                                                         *)
(* An entry of the event buffers is a record: the count the program knows  *)
(* of (mEventBuffer), the count of the last callback (mResultsBuffer), and *)
(* two that only the properties use: the count the entry started from and  *)
(* what its handler was told since.  Unknown is the count 0xFFFFFFFF of a  *)
(* new entry.                                                              *)
(***************************************************************************)
EXTENDS Integers, Sequences, SequencesExt, FiniteSets

CONSTANTS Names,                \* the names of events
          MaxEntries, MaxPosts, \* entries of the buffers; posts of each event
          MaxChanges,           \* calls of Add, Drop and Clear
          MaxLines,             \* lines a task of the service manager prints
          MaxFaults             \* failing calls in one history

VARIABLES entries,              \* the buffers
          queued, trapped,      \* mQueued and mTrapped
          attached, connected,  \* mDatabase and its handle
          request,              \* the counts the server was last asked to exceed
          posted,               \* how often each event was posted
          changes,              \* calls of Add, Drop and Clear so far
          svc,                  \* the service: its handle, its call, the task of the server
          faults

events == <<entries, queued, trapped, attached, connected, request, posted, changes>>
vars == <<events, svc, faults>>

Unknown == -1
NoRequest == <<>>

Fault == faults < MaxFaults /\ faults' = faults + 1
NoFault == UNCHANGED faults

----------------------------------------------------------------------------
(* Events.  A call on an Events object whose database has gone follows a   *)
(* null pointer; no action models it.                                      *)

Change == changes < MaxChanges /\ changes' = changes + 1
Counts(es) == [i \in DOMAIN es |-> [name |-> es[i].name, count |-> es[i].count]]

\* Cancel fails: the request stays queued and the call ends there
CancelFails ==
    /\ queued /\ Fault
    /\ trapped' = FALSE
    /\ UNCHANGED <<entries, queued, request>>

\* the server is asked for posts after those of the last callback, told or not
QueueKnowing(es) ==
    \/ connected /\ NoFault /\ queued' = TRUE /\ trapped' = FALSE
        /\ request' = [i \in DOMAIN es |-> [name |-> es[i].name, count |-> es[i].result]]
    \/ connected /\ Fault /\ queued' = FALSE /\ trapped' = FALSE /\ request' = NoRequest
    \/ ~connected /\ NoFault /\ UNCHANGED <<queued, trapped, request>>

\* Queue of the buffers es, when no request is queued
Queue(es) ==
    \/ connected /\ NoFault /\ queued' = TRUE /\ trapped' = FALSE /\ request' = Counts(es)
    \/ connected /\ Fault /\ queued' = FALSE /\ trapped' = FALSE /\ request' = NoRequest
    \/ ~connected /\ NoFault /\ UNCHANGED <<queued, trapped, request>>

\* Cancel, then es becomes the buffers, then Queue
CancelThen(es) ==
    /\ attached /\ Change
    /\ CancelFails \/ (entries' = es /\ Queue(es))
    /\ UNCHANGED <<attached, connected, posted>>

Add(n) ==
    /\ Len(entries) < MaxEntries
    /\ CancelThen(Append(entries, [name |-> n, count |-> Unknown, result |-> Unknown, base |-> Unknown, told |-> 0]))

\* The first entry of that name; the request is queued again if there is none
DropEvent(n) ==
    /\ entries # <<>>
    /\ LET at == {i \in DOMAIN entries : entries[i].name = n}
       IN CancelThen(IF at = {} THEN entries ELSE RemoveAt(entries, CHOOSE i \in at : \A j \in at : i <= j))

ClearAll ==
    /\ NoFault
    /\ entries' = <<>> /\ queued' = FALSE /\ request' = NoRequest
    /\ trapped' = (trapped /\ ~queued)

Clear ==
    /\ attached /\ Change
    /\ ClearAll \/ CancelFails
    /\ UNCHANGED <<attached, connected, posted>>

\* The counts are unsigned: Unknown is the largest
Exceeds(new, old) == old # Unknown /\ (new = Unknown \/ new > old)

\* The action of one entry: its handler is told the difference, the count is copied
Fired(e) ==
    IF Exceeds(e.result, e.count) THEN [e EXCEPT !.told = @ + (e.result - e.count), !.count = e.result]
    ELSE [e EXCEPT !.base = IF e.count = Unknown THEN e.result ELSE @, !.count = e.result]

\* the count is not copied when the handler throws
FireForgets(upto, throws) ==
    [i \in DOMAIN entries |->
        IF i > upto THEN entries[i]
        ELSE IF i = upto /\ throws THEN [Fired(entries[i]) EXCEPT !.count = entries[i].count]
        ELSE Fired(entries[i])]

\* FireActions, up to the entry whose handler throws
FireActions(upto, throws) == [i \in DOMAIN entries |-> IF i <= upto THEN Fired(entries[i]) ELSE entries[i]]

\* A handler that throws ends Dispatch; otherwise the request is queued again
Dispatch ==
    /\ entries # <<>> /\ attached
    /\ \/ \E i \in DOMAIN entries :
            /\ trapped /\ Exceeds(entries[i].result, entries[i].count)
            /\ Fault
            /\ entries' = FireActions(i, TRUE)
            /\ UNCHANGED <<queued, trapped, request>>
       \/ LET fired == IF trapped THEN FireActions(Len(entries), FALSE) ELSE entries
          IN /\ entries' = fired
             /\ IF queued THEN NoFault /\ UNCHANGED <<queued, trapped, request>> ELSE Queue(fired)
    /\ UNCHANGED <<attached, connected, posted, changes>>

\* The server calls back once for a request, when a count exceeds the one it
\* was given; a callback that finds mQueued false is dismissed
EventHandler ==
    /\ queued
    /\ \E i \in DOMAIN request : posted[request[i].name] > request[i].count
    /\ entries' = [i \in DOMAIN entries |-> [entries[i] EXCEPT !.result = posted[request[i].name]]]
    /\ trapped' = TRUE /\ queued' = FALSE
    /\ request' = NoRequest
    /\ UNCHANGED <<attached, connected, posted, changes, faults>>

\* Some program posts the event
Post(n) ==
    /\ attached
    /\ posted[n] < MaxPosts
    /\ posted' = [posted EXCEPT ![n] = @ + 1]
    /\ UNCHANGED <<entries, queued, trapped, attached, connected, request, changes, faults>>

DatabaseConnects ==
    /\ attached /\ ~connected
    /\ connected' = TRUE
    /\ UNCHANGED <<entries, queued, trapped, attached, request, posted, changes, faults>>

\* Database::Disconnect clears and detaches the events
DatabaseGoes ==
    /\ connected /\ attached
    /\ \/ ClearAll /\ attached' = FALSE /\ connected' = FALSE
       \/ CancelFails /\ UNCHANGED <<attached, connected>>
    /\ UNCHANGED <<posted, changes>>

EventsNext ==
    /\ \/ \E n \in Names : Add(n) \/ DropEvent(n) \/ Post(n)
       \/ Clear \/ Dispatch \/ EventHandler \/ DatabaseConnects \/ DatabaseGoes
    /\ UNCHANGED svc

----------------------------------------------------------------------------
(* The service manager.                                                    *)

NoTask == [op |-> "none", lines |-> 0]
Idle == "idle"

\* isc_service_start, which the server refuses while a task runs.  "then" is
\* what the library does next.
Begin(op, then) ==
    /\ svc.call = Idle
    /\ \/ ~svc.handle /\ NoFault /\ svc' = [svc EXCEPT !.threw = TRUE]
       \/ svc.handle /\ svc.task # NoTask /\ NoFault /\ svc' = [svc EXCEPT !.threw = TRUE]
       \/ svc.handle /\ svc.task = NoTask /\ Fault /\ svc' = [svc EXCEPT !.threw = TRUE]
       \/ /\ svc.handle /\ svc.task = NoTask /\ NoFault
          /\ \E n \in 0..MaxLines : svc' = [svc EXCEPT !.task = [op |-> op, lines |-> n], !.call = then, !.threw = FALSE]

SvcConnect ==
    /\ svc.call = Idle /\ ~svc.handle
    /\ \/ NoFault /\ svc' = [svc EXCEPT !.handle = TRUE]
       \/ Fault /\ svc' = [svc EXCEPT !.threw = TRUE]

\* The server ends the task with the connection
SvcDisconnect ==
    /\ svc.call = Idle /\ svc.handle
    /\ svc' = [svc EXCEPT !.handle = FALSE, !.task = NoTask]
    /\ NoFault \/ Fault

ManageUser == \E op \in {"AddUser", "ModifyUser", "RemoveUser"} : Begin(op, "wait")
DisplayUsers == Begin("GetUsers", "users")
SetProperty == Begin("properties", "wait")

ShutdownOrRepair == Begin("repair", "wait")
StartBackup == Begin("backup", Idle)
StartRestore == Begin("restore", Idle)

\* One round of Wait: a line, the end of the task, or an error of the query
Wait ==
    /\ svc.call = "wait"
    /\ \/ svc.task.lines > 0 /\ NoFault /\ svc' = [svc EXCEPT !.task.lines = @ - 1]
       \/ svc.task.lines = 0 /\ NoFault /\ svc' = [svc EXCEPT !.task = NoTask, !.call = Idle]
       \/ Fault /\ svc' = [svc EXCEPT !.call = Idle, !.threw = TRUE]

\* The answer of the server to isc_info_svc_get_users ends the task
ReadUsers ==
    /\ svc.call = "users"
    /\ \/ NoFault /\ svc' = [svc EXCEPT !.task = NoTask, !.call = Idle]
       \/ Fault /\ svc' = [svc EXCEPT !.call = Idle, !.threw = TRUE]

\* The program asks for a line itself
WaitMsg ==
    /\ svc.call = Idle /\ svc.handle /\ svc.task # NoTask
    /\ \/ svc.task.lines > 0 /\ NoFault /\ svc' = [svc EXCEPT !.task.lines = @ - 1]
       \/ svc.task.lines = 0 /\ NoFault /\ svc' = [svc EXCEPT !.task = NoTask]
       \/ Fault /\ svc' = [svc EXCEPT !.threw = TRUE]

\* GetVersion asks the server and changes nothing
GetVersion == svc.call = Idle /\ svc.handle /\ Fault /\ svc' = [svc EXCEPT !.threw = TRUE]

ServiceNext ==
    /\ \/ SvcConnect \/ SvcDisconnect \/ ManageUser \/ DisplayUsers \/ SetProperty \/ ShutdownOrRepair
       \/ StartBackup \/ StartRestore \/ Wait \/ ReadUsers \/ WaitMsg \/ GetVersion
    /\ UNCHANGED events

\* A program uses the events or the service manager
Init ==
    /\ entries = <<>> /\ queued = FALSE /\ trapped = FALSE
    /\ attached \in BOOLEAN /\ connected = FALSE
    /\ request = NoRequest
    /\ posted = [n \in Names |-> 0] /\ changes = 0
    /\ svc = [handle |-> FALSE, call |-> IF attached THEN "none" ELSE Idle, task |-> NoTask, threw |-> FALSE]
    /\ faults = 0

Next == EventsNext \/ ServiceNext

\* The server delivers its callbacks and the program goes on dispatching
Spec == /\ Init /\ [][Next]_vars
        /\ WF_vars(EventHandler /\ UNCHANGED svc)
        /\ WF_vars(Dispatch /\ UNCHANGED svc)

----------------------------------------------------------------------------
(* Properties.                                                             *)

(***************************************************************************)
(* What the handler of an event was told adds up to what was posted since  *)
(* the entry was first reported: nothing twice, nothing that was not       *)
(* posted, across Add, Drop, Dispatch, failing calls and handlers that     *)
(* throw.                                                                  *)
(***************************************************************************)
EventsCounted ==
    \A i \in DOMAIN entries :
        entries[i].count # Unknown =>
            /\ entries[i].count = entries[i].base + entries[i].told
            /\ entries[i].count <= posted[entries[i].name]

(***************************************************************************)
(* A call of the service manager other than StartBackup and StartRestore   *)
(* has returned normally only when the server has ended its task.          *)
(***************************************************************************)
WaitedOut ==
    svc.call = Idle /\ svc.task # NoTask => svc.threw \/ svc.task.op \in {"backup", "restore"}

\* An entry whose handler has not been told of all posts
Behind == \E i \in DOMAIN entries :
            entries[i].base # Unknown /\ entries[i].base + entries[i].told < posted[entries[i].name]

(***************************************************************************)
(* Every post is told in the end, or the entry is dropped: a callback that *)
(* was trapped before an Add, a Drop or a failed call is not forgotten.    *)
(***************************************************************************)
EventsTold == []<>~Behind
=============================================================================
