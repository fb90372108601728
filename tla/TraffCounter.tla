----------------------------- MODULE TraffCounter -----------------------------
(***************************************************************************)
(* The traffic counter (projects/stargazer/traffcounter_impl.cpp).  The    *)
(* capture plugins call process for every packet; the counter's own thread *)
(* calls FlushAndRemove; the users' address changes reach it as tasks of   *)
(* the asynchronous pool, so they are applied late, in order, while        *)
(* packets keep coming.  Every method runs under m_mutex and is one step.  *)
(* The registry of users appears as its address index: an address and the  *)
(* user that holds it change together, under the registry's own mutex.     *)
(*                                                                         *)
(* A packet has two sides: "U", seen from the user at its source, and "D", *)
(* from the user at its destination.  The code treats them alike.          *)
(***************************************************************************)
EXTENDS Naturals, Sequences, FiniteSets

CONSTANTS
    Users, NoUser,
    Addrs,              \* addresses users may hold
    Keys,               \* keys of packets: [src, dst, proto, sport, dport]
    RuleLists,          \* rule files: sequences of rules
    FlushTime, RemoveTime,
    MaxTime, MaxSeen, MaxTasks      \* bounds

ASSUME TraffCounterConstants ==
    /\ NoUser \notin Users
    /\ FlushTime \in Nat /\ RemoveTime \in Nat
    /\ FlushTime < RemoveTime

VARIABLES
    stgTime,
    ipIndex,            \* [Addrs -> Users or NoUser]: the registry's index
    notified,           \* users whose address changes are observed
    tasks,              \* queue of the asynchronous pool
    rules,
    packets,            \* the packets tree
    running,
    seen,               \* bytes of each key that passed through process
    reported,           \* bytes of each side of a key reported to a user
    missed              \* addresses whose last change no task announces

registry == <<ipIndex, notified, tasks, missed>>
ledger   == <<seen, reported>>
vars     == <<stgTime, registry, rules, packets, running, ledger>>

Sides == {"U", "D"}
NULL  == "NULL"         \* the direction that is not counted

FindByIPIdx(a) == IF a \in Addrs THEN ipIndex[a] ELSE NoUser

AddrOf(key, side) == IF side = "U" THEN key.src ELSE key.dst
CurrIPs(u) == {a \in Addrs : ipIndex[a] = u}

-----------------------------------------------------------------------------
(***************************************************************************)
(* DeterminateDir: the first rule that matches the far end of the packet.  *)
(* The last rule of every list matches everything and counts nothing.      *)
(***************************************************************************)
RuleMatches(rule, key, side) ==
    LET port == IF side = "U" THEN key.dport ELSE key.sport
    IN  /\ AddrOf(key, IF side = "U" THEN "D" ELSE "U") \in rule.net
        /\ \/ rule.proto = "all"
           \/ rule.proto = "icmp" /\ key.proto = "icmp"
           \/ /\ key.proto \in {"tcp", "udp"}
              /\ rule.proto \in {key.proto, "tcp_udp"}
              /\ port \in rule.ports

DeterminateDir(key, side) ==
    LET hits == {i \in DOMAIN rules : RuleMatches(rules[i], key, side)}
    IN  IF hits = {} THEN NULL ELSE rules[CHOOSE i \in hits : \A j \in hits : i <= j].dir

\* PacketExtraData of a new packet: whoever holds its addresses now.
NewPacket(key, len) ==
    [flushTime |-> stgTime, updateTime |-> stgTime,
     dir     |-> [s \in Sides |-> DeterminateDir(key, s)],
     len     |-> [s \in Sides |-> len],
     present |-> [s \in Sides |-> FindByIPIdx(AddrOf(key, s)) # NoUser],
     user    |-> [s \in Sides |-> FindByIPIdx(AddrOf(key, s))]]

\* The packet p after len more bytes.
Grown(p, len) == [p EXCEPT !.len = [s \in Sides |-> p.len[s] + len], !.updateTime = stgTime]

process(key, len) ==
    /\ running
    /\ seen[key] + len <= MaxSeen
    /\ seen' = [seen EXCEPT ![key] = @ + len]
    /\ IF key \in DOMAIN packets
         THEN packets' = [packets EXCEPT ![key] = Grown(packets[key], len)]
         ELSE LET new == NewPacket(key, len)
              IN  packets' = IF \E s \in Sides : new.present[s]
                               THEN [k \in DOMAIN packets \cup {key} |->
                                       IF k = key THEN new ELSE packets[k]]
                               ELSE packets
    /\ UNCHANGED <<stgTime, registry, rules, running, reported>>

\* AddTraffStatU or AddTraffStatD is called for this side.
Reports(p, side) == p.present[side] /\ p.dir[side] # NULL

DueForFlush(p) == stgTime - p.flushTime > FlushTime
Stays(p)       == stgTime - p.updateTime < RemoveTime

Flushed(p) ==
    IF DueForFlush(p) /\ \E s \in Sides : p.present[s]
      THEN [p EXCEPT !.len = [s \in Sides |-> IF p.present[s] THEN 0 ELSE p.len[s]],
                     !.flushTime = stgTime]
      ELSE p

\* Mutant: a packet is removed before it is flushed.
RemoveAndFlush ==
    /\ reported' = [k \in Keys |-> [s \in Sides |->
           IF k \in DOMAIN packets /\ Stays(packets[k]) /\ DueForFlush(packets[k])
              /\ Reports(packets[k], s)
             THEN reported[k][s] + packets[k].len[s] ELSE reported[k][s]]]
    /\ packets' = [k \in {j \in DOMAIN packets : Stays(packets[j])} |-> Flushed(packets[k])]
    /\ UNCHANGED <<stgTime, registry, rules, seen>>

FlushAndRemove ==
    /\ reported' = [k \in Keys |-> [s \in Sides |->
           IF k \in DOMAIN packets /\ DueForFlush(packets[k]) /\ Reports(packets[k], s)
             THEN reported[k][s] + packets[k].len[s] ELSE reported[k][s]]]
    /\ packets' = [k \in {j \in DOMAIN packets : Stays(packets[j])} |-> Flushed(packets[k])]
    /\ UNCHANGED <<stgTime, registry, rules, seen>>

\* The counter's thread: a flush now and then, and one when it is stopped,
\* unless the request arrives while a flush is under way.
Run  == running /\ FlushAndRemove /\ UNCHANGED running
Stop ==
    /\ running /\ running' = FALSE
    /\ \/ FlushAndRemove
       \/ UNCHANGED <<stgTime, registry, rules, packets, ledger>>

Reload ==
    /\ running
    /\ rules' \in RuleLists
    /\ UNCHANGED <<stgTime, registry, packets, running, ledger>>

-----------------------------------------------------------------------------
(***************************************************************************)
(* The tasks.  The index from addresses to packets holds every packet      *)
(* under both its addresses: the erase at the end of DelUser gets an empty *)
(* range.  AddUser asks for the user's address when it runs, which may be  *)
(* another one, or none, by then.                                          *)
(***************************************************************************)

\* Mutant: the bytes that came before the user are not forgotten.
TakenWithBytes(p, mine, u) ==
    [p EXCEPT !.user    = [s \in Sides |-> IF s \in mine THEN u ELSE p.user[s]],
              !.present = [s \in Sides |-> s \in mine \/ p.present[s]]]

\* The packet p when the user u takes these sides of it, and when they are
\* left by their user.
Taken(p, mine, u) ==
    [p EXCEPT !.len     = [s \in Sides |-> IF s \in mine THEN 0 ELSE p.len[s]],
              !.user    = [s \in Sides |-> IF s \in mine THEN u ELSE p.user[s]],
              !.present = [s \in Sides |-> s \in mine \/ p.present[s]]]

Left(p, sides) == [p EXCEPT !.present = [s \in Sides |-> s \notin sides /\ p.present[s]]]

SidesAt(key, addrs) == {s \in Sides : AddrOf(key, s) \in addrs}

AddUser(u) ==
    /\ packets' = [k \in DOMAIN packets |-> Taken(packets[k], SidesAt(k, CurrIPs(u)), u)]
    /\ UNCHANGED reported

DelUser(addrs) ==
    /\ reported' = [k \in Keys |-> [s \in Sides |->
           IF k \in DOMAIN packets /\ AddrOf(k, s) \in addrs /\ Reports(packets[k], s)
             THEN reported[k][s] + packets[k].len[s] ELSE reported[k][s]]]
    /\ packets' = [k \in DOMAIN packets |-> Left(packets[k], SidesAt(k, addrs))]

\* UnSetUserNotifiers: remove_if overwrites the connections of the user with
\* those behind them, which does not disconnect them.  The callbacks stay,
\* unless the user is the last of m_onIPConns.
Disconnected(u) == {notified \ {u}} \cup (IF notified = {u} THEN {} ELSE {notified})

\* The pool runs the task at the head of its queue.  main stops the pool
\* before the counter.
RunTask ==
    /\ running /\ tasks # <<>>
    /\ LET task == Head(tasks)
       IN  \/ /\ task.op = "AddUser"
              /\ AddUser(task.user) /\ UNCHANGED <<notified, missed>>
           \/ /\ task.op = "DelUser"
              /\ DelUser({task.addr}) /\ UNCHANGED <<notified, missed>>
           \/ /\ task.op = "SetUserNotifiers"
              /\ notified' = notified \cup {task.user}
              /\ UNCHANGED <<packets, reported, missed>>
           \/ /\ task.op = "UnSetUserNotifiers"
              /\ notified' \in Disconnected(task.user)
              /\ missed' = missed \cup CurrIPs(task.user)
              /\ DelUser(CurrIPs(task.user))
    /\ tasks' = Tail(tasks)
    /\ UNCHANGED <<stgTime, ipIndex, rules, running, seen>>

Enqueue(task) == Len(tasks) < MaxTasks /\ tasks' = Append(tasks, task)

\* An address change of an observed user enqueues a task, others nothing.
Announce(u, a, task) ==
    IF u \in notified
      THEN Enqueue(task) /\ missed' = missed \ {a}
      ELSE UNCHANGED tasks /\ missed' = missed \cup {a}

afterIPChange(u, a) ==
    /\ running
    /\ CurrIPs(u) = {} /\ ipIndex[a] = NoUser
    /\ ipIndex' = [ipIndex EXCEPT ![a] = u]
    /\ Announce(u, a, [op |-> "AddUser", user |-> u])
    /\ UNCHANGED <<stgTime, notified, rules, packets, running, ledger>>

\* Mutant: an address that is given up is not announced.
beforeIPChangeSilently(u, a) ==
    /\ running
    /\ ipIndex[a] = u
    /\ ipIndex' = [ipIndex EXCEPT ![a] = NoUser]
    /\ missed' = missed \ {a}
    /\ UNCHANGED <<stgTime, notified, tasks, rules, packets, running, ledger>>

beforeIPChange(u, a) ==
    /\ running
    /\ ipIndex[a] = u
    /\ ipIndex' = [ipIndex EXCEPT ![a] = NoUser]
    /\ Announce(u, a, [op |-> "DelUser", addr |-> a])
    /\ UNCHANGED <<stgTime, notified, rules, packets, running, ledger>>

Pending(task) == \E i \in DOMAIN tasks : tasks[i] = task

\* Users are added and removed while the server runs.  The authorisers have
\* withdrawn a user before the counter hears of its removal, but until the
\* removal is complete it may be authorised again.
onImplAdd(u) ==
    LET task == [op |-> "SetUserNotifiers", user |-> u]
    IN  /\ running
        /\ u \notin notified /\ CurrIPs(u) = {} /\ ~Pending(task)
        /\ Enqueue(task)
        /\ UNCHANGED <<stgTime, ipIndex, notified, missed, rules, packets, running, ledger>>

onImplDel(u) ==
    LET task == [op |-> "UnSetUserNotifiers", user |-> u]
    IN  /\ running
        /\ u \in notified /\ CurrIPs(u) = {} /\ ~Pending(task)
        /\ Enqueue(task)
        /\ UNCHANGED <<stgTime, ipIndex, notified, missed, rules, packets, running, ledger>>

Tick ==
    /\ running /\ stgTime < MaxTime
    /\ stgTime' = stgTime + 1
    /\ UNCHANGED <<registry, rules, packets, running, ledger>>

-----------------------------------------------------------------------------
Init ==
    /\ stgTime = 0
    /\ ipIndex = [a \in Addrs |-> NoUser]
    /\ notified = Users /\ missed = {} /\ tasks = <<>>
    /\ rules \in RuleLists
    /\ packets = [k \in {} |-> <<>>]
    /\ running = TRUE
    /\ seen = [k \in Keys |-> 0]
    /\ reported = [k \in Keys |-> [s \in Sides |-> 0]]

Next ==
    \/ \E k \in Keys : process(k, 1)
    \/ Run \/ Stop \/ Reload \/ RunTask \/ Tick
    \/ \E u \in Users, a \in Addrs : afterIPChange(u, a) \/ beforeIPChange(u, a)
    \/ \E u \in Users : onImplAdd(u) \/ onImplDel(u)

Spec == Init /\ [][Next]_vars

-----------------------------------------------------------------------------
TypeOK ==
    /\ stgTime \in Nat /\ running \in BOOLEAN
    /\ ipIndex \in [Addrs -> Users \cup {NoUser}]
    /\ \A a, b \in Addrs : ipIndex[a] = ipIndex[b] => a = b \/ ipIndex[a] = NoUser
    /\ notified \subseteq Users /\ missed \subseteq Addrs
    /\ DOMAIN packets \subseteq Keys
    /\ \A k \in DOMAIN packets :
         /\ packets[k].len \in [Sides -> Nat]
         /\ packets[k].present \in [Sides -> BOOLEAN]
         /\ packets[k].flushTime <= stgTime /\ packets[k].updateTime <= stgTime
         /\ \A s \in Sides : packets[k].present[s] => packets[k].user[s] \in Users

\* Bytes that wait in a packet to be reported to the user of a side.
PendingBytes(k, s) ==
    IF k \in DOMAIN packets /\ Reports(packets[k], s) THEN packets[k].len[s] ELSE 0

\* No byte is charged twice, however late the pool applies the changes of
\* addresses: what was reported of one side of a flow, and what is still to
\* be reported, is never more than what passed through process.  DelUser
\* reports and leaves the length, so this rests on AddUser starting from
\* zero (traffcounter_impl.cpp:369, 379, 399-434).
NoDoubleCharge ==
    \A k \in Keys, s \in Sides : reported[k][s] + PendingBytes(k, s) <= seen[k]

\* FlushAndRemove drops an idle packet only with nothing left to report: a
\* packet idle for REMOVE_TIME was idle for FLUSH_TIME before, and what it
\* held for an attached user is reported in the same pass.
NothingLostOnExpiry ==
    [][\A k \in DOMAIN packets \ DOMAIN packets', s \in Sides :
         reported'[k][s] = reported[k][s] + PendingBytes(k, s)]_vars

\* Once the pool has applied every change, each packet is attached to exactly
\* the user that holds its address, and to nobody where nobody holds it:
\* the tasks of AddUser and DelUser, applied late and in order while packets
\* appear and expire, converge to the registry's index.
Attached ==
    running /\ tasks = <<>> =>
      \A k \in DOMAIN packets, s \in Sides :
        AddrOf(k, s) \notin missed =>
          /\ packets[k].present[s] <=> FindByIPIdx(AddrOf(k, s)) # NoUser
          /\ packets[k].present[s] => packets[k].user[s] = FindByIPIdx(AddrOf(k, s))
=============================================================================
