----------------------------- MODULE MCServices -----------------------------
(***************************************************************************)
(* What goes on beside the accounts: the pool of callbacks (AsyncPool),    *)
(* the messages to a user (Messages), the SNMP agent (Smux) and a client   *)
(* that keeps its session over a network that loses packets (IAClient).  A *)
(* behaviour is about one of them, the part; the others do nothing.        *)
(***************************************************************************)
EXTENDS AsyncPool

VARIABLES part,
    stgTime, messages, store, it, sent, online, failures, asked, sends,
    tariffs, tariffOf, traits, changing, sensors, table, snmpd, registered, wanted, sock,
    needReconnect, reconnectTimeout, pause, thread, stopping, main, changes, faults,
    ip2user, enabledDirs, currIP, granted, password, blocked, exists, running, requests,
    replies, client

messageVars == <<stgTime, messages, store, it, sent, online, failures, asked, sends>>
agentVars   == <<tariffs, tariffOf, traits, changing, sensors, table, snmpd, registered, wanted,
                 sock, needReconnect, reconnectTimeout, pause, thread, stopping, main, changes,
                 faults>>
sessionVars == <<ip2user, enabledDirs, currIP, granted, password, blocked, exists, running,
                 requests, replies, client>>
allVars     == <<part, vars, messageVars, agentVars, sessionVars>>

-----------------------------------------------------------------------------
Ids == {"m1", "m2"}

M == INSTANCE Messages WITH
       Repeats <- {0, 2}, MessageTimeout <- 2, MaxTime <- 3, MaxFailures <- 1

A == INSTANCE Smux WITH
       Users <- {1, 2}, Tariffs <- {1, 2}, MaxTimeout <- 2, MaxChanges <- 2, MaxFaults <- 1,
       asked <- wanted

c == [user |-> "u1", ip |-> "a1", dirs |-> "all"]

I == INSTANCE IAClient WITH
       Users <- {"u1"}, Addrs <- {"a1"}, NoAddr <- "none", UserAddrs <- [u \in {"u1"} |-> {"a1"}],
       Dirs <- {"all"}, Passwords <- {"p1"}, NoKey <- "none", Rnds <- 1..4, NoRnd <- 0,
       MayDuplicate <- FALSE, MayRefuse <- FALSE, MaxPackets <- 1, Clients <- {c},
       Reconnect <- TRUE

\* What the theorems about Messages and IAClient ask of the constants.
ASSUME M!MsgConstants /\ I!Proper

-----------------------------------------------------------------------------
NoMessages ==
    /\ stgTime = 0 /\ messages = 0 /\ store = 0 /\ it = 0 /\ sent = 0 /\ online = 0
    /\ failures = 0 /\ asked = 0 /\ sends = 0

NoAgent ==
    /\ tariffs = 0 /\ tariffOf = 0 /\ traits = 0 /\ changing = 0 /\ sensors = 0 /\ table = 0
    /\ snmpd = 0 /\ registered = 0 /\ wanted = 0 /\ sock = 0 /\ needReconnect = 0
    /\ reconnectTimeout = 0 /\ pause = 0 /\ thread = 0 /\ stopping = 0 /\ main = 0
    /\ changes = 0 /\ faults = 0

NoSession ==
    /\ ip2user = 0 /\ enabledDirs = 0 /\ currIP = 0 /\ granted = 0 /\ password = 0 /\ blocked = 0
    /\ exists = 0 /\ running = 0 /\ requests = 0 /\ replies = 0 /\ client = 0

MCInit ==
    /\ Init
    /\ \/ part = "pool" /\ NoMessages /\ NoAgent /\ NoSession
       \/ part = "messages" /\ M!Init /\ NoAgent /\ NoSession
       \/ part = "agent" /\ NoMessages /\ A!Init /\ NoSession
       \/ part = "session" /\ NoMessages /\ NoAgent /\ I!Init

Pool     == part = "pool" /\ UNCHANGED <<part, messageVars, agentVars, sessionVars>>
Messages == part = "messages" /\ UNCHANGED <<part, vars, agentVars, sessionVars>>
Agent    == part = "agent" /\ UNCHANGED <<part, vars, messageVars, sessionVars>>
Session  == part = "session" /\ UNCHANGED <<part, vars, messageVars, agentVars>>

MCNext ==
    \/ Pool /\ Next
    \/ Messages /\ M!Next
    \/ Agent /\ A!Next
    \/ Session /\ I!Next

\* The fairness of the part the behaviour is about: of AsyncPool!FairSpec,
\* Messages!FairSpec, Smux!Spec and IAClient!FairSpec.  Since the part does
\* not change, the fairness of a disjunction is that of its own disjunct.
MCFairness ==
    /\ WF_allVars(\/ Pool /\ run
                  \/ Messages /\ M!Tick
                  \/ Agent /\ A!Run
                  \/ Session /\ I!TimePasses("a1") /\ UNCHANGED client)
    /\ WF_allVars(\/ Pool /\ Notify
                  \/ Messages /\ M!ScanMessage
                  \/ Agent /\ A!Tick
                  \/ Session /\ I!Timeouter("a1") /\ UNCHANGED client)
    /\ WF_allVars(\/ Messages /\ M!Overrun
                  \/ Agent /\ A!Start
                  \/ Session /\ I!ClientTimePasses(c))
    /\ WF_allVars(Session /\ I!Run(c))
    /\ SF_allVars(\/ Messages /\ M!ScanBegins
                  \/ Session /\ I!Arrives(c, "CONN_SYN"))
    /\ SF_allVars(\/ Messages /\ M!Sending
                  \/ Session /\ I!Arrives(c, "CONN_ACK"))
    /\ SF_allVars(Session /\ I!Reaches(c))

MCSpec == MCInit /\ [][MCNext]_allVars /\ MCFairness

-----------------------------------------------------------------------------
\* Messages are stored as long as they are needed and sent as often as asked
\* (Messages!MessagesKept, user_impl.cpp:1273-1387).
MessagesKept == part = "messages" => M!MessagesKept

Online     == part = "messages" /\ online
Waiting(i) == part = "messages" /\ M!Waiting(i)

\* A message that waits is sent or times out (Messages!Delivered,
\* user_impl.cpp:1273-1387).
Delivered == \A i \in Ids : []<>Online => (Waiting(i) ~> ~Waiting(i))

\* A walk over the agent's tree meets every figure (Smux!WalkIsWhole,
\* plugins/other/smux).
WalkIsWhole == part = "agent" => A!WalkIsWhole

Served == part = "agent" => registered \/ snmpd = "down" \/ main = "off" \/ stopping

\* The agent registers again after the daemon fell (Smux!ComesBack, smux.cpp).
ComesBack == []<>Served

Silent    == part = "session" => I!Silent(c)
AtRest    == part = "session" /\ c.ip \in DOMAIN ip2user => ip2user[c.ip].phase = 1
Wanting   == part = "session" => client[c].on /\ ~client[c].first
Connected == part = "session" => I!Connected(c)

\* A session ends after its client and comes back with it: it is not left in
\* a phase of its own when the client is gone, and a client that lost it gets
\* it again (IAClient!SessionsEnd and Reconnects, inetaccess.cpp:635-717 and
\* ia.cpp:440-541).
SessionFollowsClient == /\ <>[]Silent => <>[]AtRest
                        /\ <>[]Wanting => []<>Connected

SessionSpec == MCInit /\ part = "session" /\ [][MCNext]_allVars /\ MCFairness

Withdrawn == part = "session" => currIP[c.user] = "none"

\* "If authorizer does not respond during this time, the user will be
\* disconnected" (mod_ia.conf:16-17): a user whose client is silent for ever
\* does not stay authorised (inetaccess.cpp:635-717).
SilentIsDisconnected == <>[]Silent => <>[]Withdrawn
=============================================================================
