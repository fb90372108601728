--------------------------------- MODULE Ping ---------------------------------
(***************************************************************************)
(* The plugin ping (projects/stargazer/plugins/other/ping) and the pinger  *)
(* it drives (libs/pinger).  The pinger's sender pings every address of    *)
(* m_pingIPs, its receiver stamps the entries of an address that answers;  *)
(* the plugin's thread walks over usersList and gives the stamps to the    *)
(* users.  The addresses follow the users by callbacks: on the lists of    *)
(* users, which the server runs under the lock of the list of callbacks    *)
(* (include/stg/subscriptions.h), and on a user's address, which run in    *)
(* the thread that changes it.                                             *)
(***************************************************************************)
EXTENDS Naturals, Sequences, SequencesExt, FiniteSets

CONSTANTS
    Users,
    Addrs,              \* positive numbers; 0 is no address
    MaxTime, MaxChanges \* bounds

VARIABLES
    fixed,              \* [Users -> the only address it may have, or 0]
    currIP,             \* [Users -> its address now, or 0]
    pingTime,           \* [Users -> the time the server reports]
    known,              \* the server's users
    telling,            \* address changes whose callbacks are still to run
    usersList,
    m_conns,
    hooked,             \* users whose callbacks call the plugin
    m_pingIPs,          \* entries [ip, time], equal keys in the order they came
    walker,             \* the plugin's thread: [at, iter, wild]
    recver, sender,     \* the pinger's threads
    main,               \* how far Stop is
    admin,              \* the thread that adds and removes users
    clock, changes

people == <<fixed, currIP, pingTime, known>>
plugin == <<usersList, m_conns, hooked>>
pinger == <<m_pingIPs, recver, sender>>
limits == <<clock, changes>>
vars   == <<people, telling, plugin, pinger, walker, main, admin, limits>>

(* Who holds PING::m_mutex between two steps: only Stop does. *)
Locked == main \in {"pinger", "wait", "add", "del"}

Nobody == [op |-> "none"]

-----------------------------------------------------------------------------
AddIP(s, ip) == Append(s, [ip |-> ip, time |-> 0])

HasIP(s, ip) == \E i \in DOMAIN s : s[i].ip = ip

(* Mutant: every entry of the address goes. *)
DelAllOfIP(s, ip) == SelectSeq(s, LAMBDA e : e.ip # ip)

(* Of several entries the first one goes. *)
DelIP(s, ip) ==
    IF HasIP(s, ip) THEN RemoveAt(s, SelectInSeq(s, LAMBDA e : e.ip = ip)) ELSE s

updateCurrIP(s, old, new) ==
    LET rest == DelIP(s, old) IN IF new = 0 THEN rest ELSE AddIP(rest, new)

updateIPs(s, old, new) ==
    LET rest == IF old = 0 THEN s ELSE DelIP(s, old)
    IN  IF new = 0 THEN rest ELSE AddIP(rest, new)

(***************************************************************************)
(* The users.  The property has its new value when the callback runs.      *)
(***************************************************************************)
Tell(change) ==
    /\ changes < MaxChanges /\ changes' = changes + 1
    /\ \A t \in telling : t.user # change.user
    /\ telling' = IF change.user \in hooked THEN telling \cup {change} ELSE telling

SetCurrIP(u, ip) ==
    /\ u \in known /\ currIP[u] # ip
    /\ currIP' = [currIP EXCEPT ![u] = ip]
    /\ Tell([user |-> u, of |-> "curr", old |-> currIP[u], new |-> ip])
    /\ UNCHANGED <<fixed, pingTime, known, plugin, pinger, walker, main, admin, clock>>

SetIPs(u, ip) ==
    /\ u \in known /\ fixed[u] # ip
    /\ fixed' = [fixed EXCEPT ![u] = ip]
    /\ Tell([user |-> u, of |-> "ips", old |-> fixed[u], new |-> ip])
    /\ UNCHANGED <<currIP, pingTime, known, plugin, pinger, walker, main, admin, clock>>

Told(t) ==
    /\ telling' = telling \ {t}
    /\ m_pingIPs' = IF t.of = "curr" THEN updateCurrIP(m_pingIPs, t.old, t.new)
                                     ELSE updateIPs(m_pingIPs, t.old, t.new)
    /\ UNCHANGED <<people, plugin, recver, sender, walker, main, admin, limits>>

(***************************************************************************)
(* The lists of callbacks.  notify holds the list's lock while they run,   *)
(* so admin.op says which of the two lists is locked.  Add holds the       *)
(* registry too: nobody finds the user before it ends.  A login that was   *)
(* removed may come back as a new user.  The thread is one of the          *)
(* configuration plugins': they are stopped before this plugin, and one    *)
(* that did not end in time may still be at work during Stop.              *)
(***************************************************************************)
AddBegins(u) ==
    /\ admin = Nobody /\ u \notin known /\ changes < MaxChanges
    /\ currIP[u] = 0 /\ \A t \in telling : t.user # u
    /\ changes' = changes + 1
    /\ fixed' = [fixed EXCEPT ![u] = 0]
    /\ pingTime' = [pingTime EXCEPT ![u] = 0]
    /\ hooked' = hooked \ {u}
    /\ admin' = [op |-> "add", user |-> u]
    /\ UNCHANGED <<currIP, known, telling, usersList, m_conns, pinger, walker, main, clock>>

DelBegins(u) ==
    /\ admin = Nobody /\ u \in known /\ changes < MaxChanges
    /\ changes' = changes + 1
    /\ admin' = [op |-> "del", user |-> u]
    /\ UNCHANGED <<people, telling, plugin, pinger, walker, main, clock>>

(* Whether the plugin is still on the list that is being gone through. *)
Subscribed == main \in {"on", "pinger", "wait", "add"} \/ (main = "del" /\ admin.op = "del")

AddUser ==
    /\ admin.op = "add"
    /\ IF Subscribed
       THEN /\ ~Locked
            /\ m_conns' = Append(m_conns, admin.user)
            /\ hooked' = hooked \cup {admin.user}
            /\ usersList' = Append(usersList, admin.user)
       ELSE UNCHANGED plugin
    /\ known' = known \cup {admin.user}
    /\ admin' = Nobody
    /\ UNCHANGED <<fixed, currIP, pingTime, telling, pinger, walker, main, limits>>

(***************************************************************************)
(* remove_if moves the later connections over the one that goes, and a     *)
(* connection that is overwritten is not disconnected: the user's          *)
(* callbacks stay unless it is the last one.                               *)
(***************************************************************************)
UnSetUserNotifiers(u) ==
    /\ m_conns' = RemoveFirst(m_conns, u)
    /\ hooked' = IF m_conns # <<>> /\ Last(m_conns) = u THEN hooked \ {u} ELSE hooked

(* The user disconnects once the callbacks are through; its addresses stay *)
(* in the pinger.                                                          *)
DelUser ==
    /\ admin.op = "del"
    /\ IF Subscribed
       THEN /\ ~Locked
            /\ UnSetUserNotifiers(admin.user)
            /\ usersList' = RemoveFirst(usersList, admin.user)
            /\ walker' = IF walker.at = "begun" /\ walker.iter = admin.user
                         THEN [walker EXCEPT !.wild = TRUE] ELSE walker
       ELSE UNCHANGED <<plugin, walker>>
    /\ known' = known \ {admin.user}
    /\ admin' = Nobody
    /\ UNCHANGED <<fixed, currIP, pingTime, telling, pinger, main, limits>>

(* A user that was removed and is still connected ends its session. *)
Disconnects(u) ==
    /\ u \notin known /\ currIP[u] # 0 /\ admin = Nobody
    /\ \A t \in telling : t.user # u
    /\ currIP' = [currIP EXCEPT ![u] = 0]
    /\ telling' = IF u \notin hooked THEN telling
                  ELSE telling \cup {[user |-> u, of |-> "curr", old |-> currIP[u], new |-> 0]}
    /\ UNCHANGED <<fixed, pingTime, known, plugin, pinger, walker, main, admin, limits>>

(***************************************************************************)
(* The plugin's thread.  usersList.begin() is taken before the lock.  The  *)
(* result of GetIPTime is compared with 0, so what is handed on is the     *)
(* time of an address that is NOT in the pinger: an uninitialised value.   *)
(***************************************************************************)
Begin ==
    /\ walker.at = "idle" /\ main \notin {"wait", "add", "del", "done"}
    /\ walker' = [at |-> "begun", wild |-> FALSE,
                  iter |-> IF usersList = <<>> THEN 0 ELSE Head(usersList)]
    /\ UNCHANGED <<people, telling, plugin, pinger, main, admin, limits>>

GetIPTime(ip) == HasIP(m_pingIPs, ip)

Asked(u) == IF fixed[u] # 0 THEN fixed[u] ELSE currIP[u]

Walk ==
    /\ walker.at = "begun" /\ ~Locked /\ ~walker.wild
    /\ \E t \in 0 .. MaxTime :
         pingTime' = [u \in Users |->
             IF walker.iter # 0 /\ u \in ToSet(usersList) /\ Asked(u) # 0
                /\ ~GetIPTime(Asked(u)) /\ t # 0
             THEN t ELSE pingTime[u]]
    /\ walker' = [walker EXCEPT !.at = "idle"]
    /\ UNCHANGED <<fixed, currIP, known, telling, plugin, pinger, main, admin, limits>>

RunEnds ==
    /\ walker.at = "idle" /\ main \in {"wait", "add", "del", "done"}
    /\ walker' = [walker EXCEPT !.at = "ended"]
    /\ UNCHANGED <<people, telling, plugin, pinger, main, admin, limits>>

(* The pinger's threads: an answer stamps every entry of its address. *)
RunSendPing ==
    /\ sender = "on" /\ main = "wait"
    /\ sender' = "ended"
    /\ UNCHANGED <<people, telling, plugin, m_pingIPs, recver, walker, main, admin, limits>>

RunRecvPing(ip) ==
    /\ recver = "on" /\ HasIP(m_pingIPs, ip)
    /\ clock < MaxTime /\ clock' = clock + 1
    /\ m_pingIPs' = [i \in DOMAIN m_pingIPs |->
           IF m_pingIPs[i].ip = ip THEN [m_pingIPs[i] EXCEPT !.time = clock + 1] ELSE m_pingIPs[i]]
    /\ UNCHANGED <<people, telling, plugin, recver, sender, walker, main, admin, changes>>

(***************************************************************************)
(* PING::Stop.  The pinger's socket is closed under its receiver, which is *)
(* not asked to stop and reads on; each wait lasts at most five seconds.   *)
(***************************************************************************)
StopLocks ==
    /\ main = "on" /\ main' = "pinger"
    /\ UNCHANGED <<people, telling, plugin, pinger, walker, admin, limits>>

PingerStops ==
    /\ main = "pinger" /\ main' = "wait"
    /\ recver' = "spins"
    /\ UNCHANGED <<people, telling, plugin, m_pingIPs, sender, walker, admin, limits>>

WaitEnds ==
    /\ main = "wait" /\ main' = "add"
    /\ UNCHANGED <<people, telling, plugin, pinger, walker, admin, limits>>

DisconnectAdd ==
    /\ main = "add" /\ admin.op # "add" /\ main' = "del"
    /\ UNCHANGED <<people, telling, plugin, pinger, walker, admin, limits>>

(* The connections that are left are disconnected in order; a thread that  *)
(* has not ended is detached.                                              *)
DisconnectDel ==
    /\ main = "del" /\ admin.op # "del" /\ main' = "done"
    /\ m_conns' = <<>> /\ hooked' = hooked \ ToSet(m_conns)
    /\ UNCHANGED <<people, telling, usersList, pinger, walker, admin, limits>>

Stop == StopLocks \/ PingerStops \/ WaitEnds \/ DisconnectAdd \/ DisconnectDel

-----------------------------------------------------------------------------
(* PING::Start: it is the first plugin of those that know of users, nobody *)
(* is connected yet; GetUsers takes the users the server has.              *)
GetUsers(us) ==
    /\ usersList = us /\ m_conns = us /\ hooked = ToSet(us)
    /\ m_pingIPs = FoldLeft(LAMBDA s, u : IF fixed[u] = 0 THEN s ELSE AddIP(s, fixed[u]), <<>>, us)

Init ==
    /\ fixed \in [Users -> Addrs \cup {0}]
    /\ currIP = [u \in Users |-> 0] /\ pingTime = [u \in Users |-> 0]
    /\ known \in SUBSET Users
    /\ \E us \in SetToSeqs(known) : GetUsers(us)
    /\ telling = {}
    /\ walker = [at |-> "idle", iter |-> 0, wild |-> FALSE]
    /\ recver = "on" /\ sender = "on" /\ main = "on" /\ admin = Nobody
    /\ clock = 0 /\ changes = 0

Threads ==
    \/ \E t \in telling : Told(t)
    \/ AddUser \/ DelUser
    \/ \E u \in Users : Disconnects(u)
    \/ Begin \/ Walk \/ RunEnds \/ RunSendPing

Next ==
    \/ \E u \in Users, ip \in Addrs \cup {0} : SetCurrIP(u, ip) \/ SetIPs(u, ip)
    \/ \E u \in Users : AddBegins(u) \/ DelBegins(u)
    \/ \E ip \in Addrs : RunRecvPing(ip)
    \/ Threads \/ Stop

(* Every thread gets its turn; users come, change and answer as they like. *)
Spec == Init /\ [][Next]_vars /\ WF_vars(Threads)

-----------------------------------------------------------------------------
Entries(ip) == Cardinality({i \in DOMAIN m_pingIPs : m_pingIPs[i].ip = ip})

(* Every address of a user the plugin serves is pinged: its only one, and  *)
(* the one it is connected at, whoever else had or has the same address    *)
(* and whichever entry went when they changed it (ping.cpp, updateCurrIP   *)
(* and updateIPs, pinger.cpp, AddIP and DelIP of a multimap).              *)
AllWatched ==
    main = "on" /\ telling = {} =>
      \A ip \in Addrs :
        Entries(ip) >= Cardinality({u \in ToSet(usersList) : currIP[u] = ip})
                         + Cardinality({u \in ToSet(usersList) : fixed[u] = ip})
=============================================================================
