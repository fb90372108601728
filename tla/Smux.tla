--------------------------------- MODULE Smux ---------------------------------
(***************************************************************************)
(* The plugin smux (projects/stargazer/plugins/other/smux), the agent that *)
(* serves the server's figures to snmpd: its thread keeps the connection   *)
(* and registers the tree; the sensors are the leaves of the tree, and the *)
(* table of tariffs is rebuilt by whoever changes a user or a tariff.      *)
(* Object identifiers are written without the prefix all of them share,    *)
(* .1.3.6.1.4.1.38313.1.                                                   *)
(***************************************************************************)
EXTENDS Naturals, Sequences, SequencesExt, FiniteSets

CONSTANTS
    Users,
    Tariffs,            \* names of tariffs, as numbers in their order
    MaxTimeout,         \* the longest wait between two attempts
    MaxChanges, MaxFaults   \* bounds

VARIABLES
    tariffs,            \* the server's tariffs
    tariffOf,           \* [the server's users -> tariff]
    traits,             \* [Users -> what its properties say of a user]
    changing,           \* a change whose callbacks are still to run
    sensors,            \* set of object identifiers with a sensor of their own
    table,              \* [object identifiers of the table -> value]
    snmpd,              \* the daemon: "up" or "down"
    registered,         \* it has the tree of this agent
    asked,              \* whether it waits for an answer: "no", "waits", "dropped"
    sock,               \* "none", "connected" or "closed" by the daemon
    needReconnect, reconnectTimeout,
    pause,              \* what is left of the timeout
    thread, stopping, main,
    changes, faults

data == <<tariffs, tariffOf, traits, changing>>
tree == <<sensors, table>>
link == <<snmpd, registered, asked, sock, needReconnect, reconnectTimeout, pause>>
vars == <<data, tree, link, thread, stopping, main, changes, faults>>

-----------------------------------------------------------------------------
(* The order of object identifiers. *)
OIDLess(a, b) ==
    LET min  == IF Len(a) < Len(b) THEN Len(a) ELSE Len(b)
        diff == {i \in 1 .. min : a[i] # b[i]}
    IN  IF diff = {} THEN Len(a) < Len(b)
        ELSE LET i == CHOOSE i \in diff : \A j \in diff : i <= j IN a[i] < b[i]

(* The order in which an identifier equals everything below it. *)
PrefixLess(a, b) ==
    LET min  == IF Len(a) < Len(b) THEN Len(a) ELSE Len(b)
        diff == {i \in 1 .. min : a[i] # b[i]}
    IN  /\ diff # {}
        /\ LET i == CHOOSE i \in diff : \A j \in diff : i <= j IN a[i] < b[i]

UpperBound(S, oid) ==
    LET above == {o \in S : OIDLess(oid, o)}
    IN  CHOOSE o \in above : \A x \in above : ~OIDLess(x, o)

-----------------------------------------------------------------------------
(***************************************************************************)
(* The sensors: how many users there are, and how many of each trait.      *)
(***************************************************************************)
UserTraits == <<"all", "connected", "authorized", "alwaysOnline", "noCash", "noDetailStat",
                "disabled", "passive", "credit", "freeMb", "nextTariff", "active">>

Fixed == {<<1, i>> : i \in 1 .. Len(UserTraits)} \cup {<<i, 1>> : i \in 2 .. 6}

UserPredicate(u, trait) ==
    IF trait = "active" THEN {"connected", "traffic"} \subseteq traits[u]
    ELSE trait = "all" \/ trait \in traits[u]

GetValue(oid) ==
    CASE oid \in DOMAIN table -> table[oid]
      [] oid[1] = 1 -> Cardinality({u \in DOMAIN tariffOf : UserPredicate(u, UserTraits[oid[2]])})
      [] oid = <<2, 1>> -> Cardinality(tariffs)
      [] OTHER -> 0

(* The table of tariffs: a row for each tariff there is or a user has, in  *)
(* the order of the names; column 2 is the name, column 3 the users.       *)
Prefix == <<2, 2>>

copyWithSuffix(oid, a, b) == oid \o <<a, b>>

UpdateSensors(ts, of) ==
    LET names == SetToSortSeq(ts \cup {of[u] : u \in DOMAIN of}, LAMBDA a, b : a < b)
        rows  == DOMAIN names
    IN  [o \in {copyWithSuffix(Prefix, c, i) : c \in {2, 3}, i \in rows} |->
           IF o[3] = 2 THEN names[o[4]]
           ELSE Cardinality({u \in DOMAIN of : of[u] = names[o[4]]})]

(* Mutant: the rows that were there are not erased. *)
NoneOf(S) == {}

(* equal_range with PrefixLess: what the table's prefix equals. *)
OfTable(S) == {o \in S : ~PrefixLess(o, Prefix) /\ ~PrefixLess(Prefix, o)}

UpdateTables ==
    LET new  == UpdateSensors(tariffs, tariffOf)
        left == (sensors \cup DOMAIN table) \ OfTable(sensors \cup DOMAIN table)
    IN  /\ table' = [o \in (left \cap DOMAIN table) \cup DOMAIN new |->
                       IF o \in left THEN table[o] ELSE new[o]]
        /\ sensors' = left \ DOMAIN table

(***************************************************************************)
(* The answers to a list of identifiers: a value for each of them, or an   *)
(* error for the first that cannot be served.                              *)
(***************************************************************************)
Error(status, i) == [error |-> status, index |-> i, bindings |-> <<>>]
Response(bs)     == [error |-> "noError", index |-> 0, bindings |-> bs]

Leaves == sensors \cup DOMAIN table

GetRequestHandler(oids) ==
    LET missing == {i \in DOMAIN oids : oids[i] \notin Leaves}
    IN  IF missing # {} THEN Error("noSuchName", (CHOOSE i \in missing : \A j \in missing : i <= j) - 1)
        ELSE Response([i \in DOMAIN oids |-> <<oids[i], GetValue(oids[i])>>])

GetNextRequestHandler(oids) ==
    LET missing == {i \in DOMAIN oids : \A o \in Leaves : ~OIDLess(oids[i], o)}
    IN  IF missing # {} THEN Error("noSuchName", (CHOOSE i \in missing : \A j \in missing : i <= j) - 1)
        ELSE Response([i \in DOMAIN oids |->
                         LET o == UpperBound(Leaves, oids[i]) IN <<o, GetValue(o)>>])

SetRequestHandler(oids) == Error("readOnly", 0)

-----------------------------------------------------------------------------
(***************************************************************************)
(* The server's data, one thread that changes them, and the callbacks.     *)
(***************************************************************************)
Change ==
    /\ main = "on" /\ ~changing /\ changes < MaxChanges
    /\ changes' = changes + 1 /\ changing' = TRUE
    /\ \/ \E t \in Tariffs \ tariffs : tariffs' = tariffs \cup {t} /\ UNCHANGED tariffOf
       \/ \E t \in tariffs : tariffs' = tariffs \ {t} /\ UNCHANGED tariffOf
       \/ /\ \E u \in Users, t \in Tariffs :
               tariffOf' = [x \in DOMAIN tariffOf \cup {u} |-> IF x = u THEN t ELSE tariffOf[x]]
          /\ tariffOf' # tariffOf /\ UNCHANGED tariffs
       \/ /\ \E u \in DOMAIN tariffOf : tariffOf' = [x \in DOMAIN tariffOf \ {u} |-> tariffOf[x]]
          /\ UNCHANGED tariffs
    /\ UNCHANGED <<traits, tree, link, thread, stopping, main, faults>>

Notified ==
    /\ changing /\ changing' = FALSE
    /\ IF main = "on" THEN UpdateTables ELSE UNCHANGED tree
    /\ UNCHANGED <<tariffs, tariffOf, traits, link, thread, stopping, main, changes, faults>>

(***************************************************************************)
(* The connection.                                                         *)
(***************************************************************************)
PrepareNet == IF snmpd = "up" THEN "connected" ELSE "none"

(* The wait doubles up to a minute. *)
Backoff(timeout) == IF timeout < MaxTimeout THEN timeout * 2 ELSE timeout

(* Mutant: the attempt that fails is not repeated. *)
ReconnectOnce ==
    /\ ~needReconnect
    /\ sock' = PrepareNet /\ needReconnect' = (PrepareNet = "none")
    /\ asked' = IF asked = "waits" THEN "dropped" ELSE asked
    /\ registered' = (PrepareNet = "connected")
    /\ UNCHANGED <<snmpd, reconnectTimeout, pause>>

(* The connection is made anew, opened and registered. *)
Reconnect ==
    /\ ~needReconnect \/ pause = 0
    /\ sock' = PrepareNet
    /\ asked' = IF asked = "waits" THEN "dropped" ELSE asked
    /\ \/ /\ PrepareNet = "connected"
          /\ registered' = TRUE
          /\ needReconnect' = FALSE /\ reconnectTimeout' = 1 /\ pause' = 1
       \/ /\ PrepareNet = "none"
          /\ registered' = FALSE
          /\ needReconnect' = TRUE
          /\ reconnectTimeout' = IF needReconnect THEN Backoff(reconnectTimeout)
                                                  ELSE reconnectTimeout
          /\ pause' = reconnectTimeout'
    /\ UNCHANGED snmpd

Start ==
    /\ main = "off" /\ main' = "on"
    /\ sock' = PrepareNet
    /\ needReconnect' = (needReconnect \/ PrepareNet = "none")
    /\ sensors' = Fixed /\ table' = UpdateSensors(tariffs, tariffOf)
    /\ thread' = "starts" /\ stopping' = FALSE
    /\ UNCHANGED <<data, snmpd, registered, asked, reconnectTimeout, pause, changes, faults>>

(* Run: open and register; a write to a connection the daemon has closed   *)
(* may still succeed;                                                      *)
RunStarts ==
    /\ thread = "starts" /\ thread' = "loop"
    /\ \/ sock # "none" /\ registered' = (sock = "connected") /\ UNCHANGED needReconnect
       \/ sock # "connected" /\ needReconnect' = TRUE /\ UNCHANGED registered
    /\ UNCHANGED <<data, tree, snmpd, asked, sock, reconnectTimeout, pause, stopping, main, changes, faults>>

(* RecvSMUXPDUs: the decoder is given a copy of the pointer, and the       *)
(* pointer itself, still NULL, is what is returned: the handlers above are *)
(* reached by no request.                                                  *)
RecvSMUXPDUs == "NULL"

(* a request or the end of the connection is read, *)
RunReads ==
    /\ thread = "loop" /\ ~stopping /\ ~needReconnect
    /\ asked = "waits" \/ sock = "closed"
    /\ RecvSMUXPDUs = "NULL" /\ Reconnect
    /\ UNCHANGED <<data, tree, thread, stopping, main, changes, faults>>

(* or the connection is tried again. *)
RunRetries ==
    /\ thread = "loop" /\ ~stopping /\ needReconnect /\ pause = 0
    /\ Reconnect
    /\ UNCHANGED <<data, tree, thread, stopping, main, changes, faults>>

RunEnds ==
    /\ thread = "loop" /\ stopping /\ thread' = "ended"
    /\ registered' = FALSE
    /\ UNCHANGED <<data, tree, snmpd, asked, sock, needReconnect, reconnectTimeout, pause,
                   stopping, main, changes, faults>>

(* Stop waits for the thread; Reload is Stop and Start. *)
StopAsks ==
    /\ main = "on" /\ ~stopping /\ changes < MaxChanges
    /\ stopping' = TRUE /\ changes' = changes + 1
    /\ UNCHANGED <<data, tree, link, thread, main, faults>>

StopEnds ==
    /\ stopping /\ thread = "ended" /\ main = "on"
    /\ main' = "off" /\ thread' = "none"
    /\ sensors' = {} /\ table' = <<>>
    /\ sock' = "none" /\ asked' = "no"
    /\ UNCHANGED <<data, snmpd, registered, needReconnect, reconnectTimeout, pause, stopping, changes, faults>>

(***************************************************************************)
(* The daemon and the time.                                                *)
(***************************************************************************)
SnmpdFalls ==
    /\ snmpd = "up" /\ faults < MaxFaults /\ faults' = faults + 1
    /\ snmpd' = "down" /\ registered' = FALSE /\ asked' = "no"
    /\ sock' = IF sock = "connected" THEN "closed" ELSE sock
    /\ UNCHANGED <<data, tree, needReconnect, reconnectTimeout, pause, thread, stopping, main, changes>>

SnmpdComes ==
    /\ snmpd = "down" /\ snmpd' = "up"
    /\ UNCHANGED <<data, tree, registered, asked, sock, needReconnect, reconnectTimeout, pause,
                   thread, stopping, main, changes, faults>>

SnmpdAsks ==
    /\ registered /\ asked # "waits" /\ sock = "connected" /\ asked' = "waits"
    /\ UNCHANGED <<data, tree, snmpd, registered, sock, needReconnect, reconnectTimeout, pause,
                   thread, stopping, main, changes, faults>>

Tick ==
    /\ pause > 0 /\ pause' = pause - 1
    /\ UNCHANGED <<data, tree, snmpd, registered, asked, sock, needReconnect, reconnectTimeout,
                   thread, stopping, main, changes, faults>>

-----------------------------------------------------------------------------
Init ==
    /\ tariffs \in {{}, Tariffs} /\ tariffOf = <<>>
    /\ traits = [u \in Users |-> {"connected", "credit"}]
    /\ changing = FALSE /\ sensors = {} /\ table = <<>>
    /\ snmpd \in {"up", "down"} /\ registered = FALSE /\ asked = "no" /\ sock = "none"
    /\ needReconnect = FALSE /\ reconnectTimeout = 1 /\ pause = 0
    /\ thread = "none" /\ stopping = FALSE /\ main = "off"
    /\ changes = 0 /\ faults = 0

Run == RunStarts \/ RunReads \/ RunRetries \/ RunEnds

Next ==
    \/ Change \/ Notified \/ Start \/ Run \/ StopAsks \/ StopEnds
    \/ SnmpdFalls \/ SnmpdComes \/ SnmpdAsks \/ Tick

(* The threads and the clock go on. *)
Spec == Init /\ [][Next]_vars /\ WF_vars(Run) /\ WF_vars(Tick) /\ WF_vars(Start)

-----------------------------------------------------------------------------
(* Identifiers in the order of SNMP. *)
Before(a, b) ==
    \E n \in 0 .. Len(a) :
      /\ n < Len(b) /\ SubSeq(a, 1, n) = SubSeq(b, 1, n)
      /\ n = Len(a) \/ a[n + 1] < b[n + 1]

(* A walk over the tree meets every figure once and in order, ends after   *)
(* the last one, and reads of each what a request for it alone reads; and  *)
(* the table in it is the table of the tariffs and users there are, however *)
(* the rows moved when one was added or removed (handlers.cpp, types.cpp   *)
(* and UpdateTables of smux.cpp).                                          *)
WalkIsWhole ==
    main = "on" =>
      /\ Fixed \subseteq Leaves
      /\ ~changing => table = UpdateSensors(tariffs, tariffOf)
      /\ \A o \in Leaves \cup {<<>>} :
           LET r == GetNextRequestHandler(<<o>>)
           IN  IF \E x \in Leaves : Before(o, x)
               THEN /\ r.error = "noError" /\ Before(o, r.bindings[1][1])
                    /\ \A x \in Leaves : Before(o, x) => ~Before(x, r.bindings[1][1])
                    /\ GetRequestHandler(<<r.bindings[1][1]>>) = r
               ELSE r.error = "noSuchName"

(* The agent comes back: it does not stay unregistered beside a daemon     *)
(* that stays up, whenever the daemon fell and however long the wait       *)
(* between two attempts had grown (smux.cpp, Run and Reconnect).           *)
ComesBack == []<>(registered \/ snmpd = "down" \/ main = "off" \/ stopping)
=============================================================================
