------------------------------ MODULE MCTraffic ------------------------------
(***************************************************************************)
(* The way of a packet into the accounts and the watch over the users, in  *)
(* one run: the capture plugins (Captures), the traffic counter            *)
(* (TraffCounter) and the plugin that pings the users (Ping).  They run    *)
(* side by side without touching each other's state; part says which one a *)
(* behaviour is about.                                                     *)
(***************************************************************************)
EXTENDS TraffCounter, TLC

VARIABLES
    part,
    kind, conf, pc, th, isRunning, stop, sock, wire, arrived, held, buf, counted, passed, blanks,
    faults,                                                                     \* Captures
    fixed, currIP, pingTime, known, telling, usersList, m_conns, hooked, m_pingIPs, walker,
    recver, sender, main, admin, clock, changes                                 \* Ping

captureVars == <<kind, conf, pc, th, isRunning, stop, sock, wire, arrived, held, buf, counted,
                 passed, blanks, faults>>
pingVars == <<fixed, currIP, pingTime, known, telling, usersList, m_conns, hooked, m_pingIPs,
              walker, recver, sender, main, admin, clock, changes>>

-----------------------------------------------------------------------------
Symmetry == Permutations(Users)

Local == {"a1", "a2"}
Anywhere   == {"a1", "a2", "ext"}

Out == [src |-> "a1", dst |-> "ext", proto |-> "tcp", sport |-> 2, dport |-> 1]
OneFlow == {Out}

Rule(proto, net, ports, dir) == [proto |-> proto, net |-> net, ports |-> ports, dir |-> dir]
LastRule == Rule("all", Anywhere, {1, 2}, NULL)

\* Web traffic apart, the narrow rule first; local traffic is not counted.
WebApart == <<Rule("tcp_udp", {"ext"}, {1}, "DIR1"), Rule("all", {"ext"}, {1, 2}, "DIR0"),
              LastRule>>
\* Everything in one direction.
AllSame  == <<Rule("tcp", {"ext"}, {2}, "DIR1"), Rule("icmp", {"ext"}, {1, 2}, "DIR1"),
              Rule("all", Anywhere, {1, 2}, "DIR0"), LastRule>>

BothLists == {WebApart, AllSame}

C == INSTANCE Captures
       WITH Plugins <- {"ether", "pcap", "nfqueue", "divert", "bpf", "nf_udp", "nf_tcp"},
            MaxPackets <- 3, MaxFaults <- 1

P == INSTANCE Ping WITH Users <- {1, 2}, Addrs <- {1, 2}, MaxTime <- 1, MaxChanges <- 2

-----------------------------------------------------------------------------
NoCapture ==
    /\ kind = 0 /\ conf = 0 /\ pc = 0 /\ th = 0 /\ isRunning = 0 /\ stop = 0 /\ sock = 0 /\ wire = 0
    /\ arrived = 0 /\ held = 0 /\ buf = 0 /\ counted = 0 /\ passed = 0 /\ blanks = 0 /\ faults = 0

NoPing ==
    /\ fixed = 0 /\ currIP = 0 /\ pingTime = 0 /\ known = 0 /\ telling = 0 /\ usersList = 0
    /\ m_conns = 0 /\ hooked = 0 /\ m_pingIPs = 0 /\ walker = 0 /\ recver = 0 /\ sender = 0
    /\ main = 0 /\ admin = 0 /\ clock = 0 /\ changes = 0

MCInit ==
    \/ part = "counter" /\ Init /\ NoCapture /\ NoPing
    \/ part = "capture" /\ Init /\ rules = WebApart /\ C!Init /\ NoPing
    \/ part = "ping" /\ Init /\ rules = WebApart /\ NoCapture /\ P!Init

MCNext ==
    \/ part = "counter" /\ Next /\ UNCHANGED <<part, captureVars, pingVars>>
    \/ part = "capture" /\ C!Next /\ UNCHANGED <<part, vars, pingVars>>
    \/ part = "ping" /\ P!Next /\ UNCHANGED <<part, vars, captureVars>>

MCSpec == MCInit /\ [][MCNext]_<<part, vars, captureVars, pingVars>>

-----------------------------------------------------------------------------
\* A capture plugin gives the traffic counter every packet it reads, once
\* (Captures: CountedAsItCame).
CountedAsItCame == part = "capture" => C!CountedAsItCame

\* The pinger has the address of every user that is to be watched (Ping:
\* AllWatched).
AllWatched == part = "ping" => P!AllWatched
=============================================================================
