------------------------------ MODULE Captures ------------------------------
(***************************************************************************)
(* The capture plugins (plugins/capture): each opens a source of packets,  *)
(* has a thread that reads it and gives what it read to process() of the   *)
(* traffic counter.  What they have in common is the life of the thread;   *)
(* they differ in how they read, and in what they do when a read brings    *)
(* nothing.                                                                *)
(*                                                                         *)
(* A message of the wire carries packets: one for a frame, several for a   *)
(* NetFlow datagram.  Its class is "ip", "other" (not IP, not version 5)   *)
(* or "short" (too short for the plugin, or without payload).              *)
(***************************************************************************)
EXTENDS Integers, Sequences, FiniteSets

CONSTANTS
    Plugins,    \* the plugins to look at
    MaxPackets, \* bound on the packets
    MaxFaults   \* bound on errors, empty reads and duplicates

VARIABLES
    kind,       \* the plugin
    conf,       \* its settings: "good", "bad" or "none"
    pc,         \* what the plugin manager did with it
    th,         \* the thread: none, created, loop, reading, ended
    isRunning, stop,
    sock,       \* "none", "open", "bad" or "closed"
    wire,       \* messages that wait in the kernel
    arrived,    \* how often each packet arrived
    held,       \* packets read in one go that are still to be looked at
    buf,        \* the packets in the buffer of the loop
    counted,    \* how often each packet was given to the traffic counter
    passed,     \* packets let through (divert and nfqueue hold them up)
    blanks,     \* reads that brought no packet and yet were used
    faults

thread == <<th, isRunning, stop>>
net    == <<wire, arrived>>
data   == <<held, buf, counted, passed, blanks>>
vars   == <<kind, conf, pc, thread, sock, net, data, faults>>

Packets == 1..MaxPackets

Classes == {"ip", "other", "short"}

Msg(ps, c) == [ps |-> ps, c |-> c]

Init ==
    /\ kind \in Plugins /\ conf \in {"good", "bad", "none"}
    /\ pc = "none" /\ th = "none" /\ isRunning = FALSE /\ stop = FALSE /\ sock = "none"
    /\ wire = <<>> /\ arrived = [p \in Packets |-> 0]
    /\ held = <<>> /\ buf = <<>> /\ counted = [p \in Packets |-> 0] /\ passed = {} /\ blanks = 0
    /\ faults = 0

Fault == faults < MaxFaults /\ faults' = faults + 1

----------------------------------------------------------------------------
(* The plugin manager: ParseSettings, Start and Stop. *)

(* Which settings are accepted: cap_pcap has a device for every case,      *)
(* cap_bpf needs its list of interfaces, the others have defaults.         *)
PcapSettings    == TRUE
NfqueueSettings == conf # "bad"
DivertSettings  == conf # "bad"
BpfSettings     == conf = "good"
NfSettings      == conf # "bad"

Accepted ==
    CASE kind = "ether"   -> TRUE
      [] kind = "pcap"    -> PcapSettings
      [] kind = "nfqueue" -> NfqueueSettings
      [] kind = "divert"  -> DivertSettings
      [] kind = "bpf"     -> BpfSettings
      [] OTHER            -> NfSettings

ParseSettings ==
    /\ pc = "none"
    /\ pc' = IF Accepted THEN "loaded" ELSE "failed"
    /\ UNCHANGED <<kind, conf, thread, sock, net, data, faults>>

Opened(s) == pc' = "started" /\ th' = "created" /\ sock' = s

Refused(s) == pc' = "failed" /\ sock' = s /\ UNCHANGED th

StartEther == Opened("open") \/ Refused("none")

(* Several devices, or several calls: what was opened before the failure   *)
(* stays open.                                                             *)
StartPcap == Opened("open") \/ Refused("none") \/ Refused("open")

StartNfqueue == Opened("open") \/ Refused("none") \/ Refused("open")

(* Nobody looks whether the divert socket could be opened. *)
StartDivert == Opened("open") \/ Opened("bad")

(* A list of interfaces without a name opens nothing, and that is well. *)
StartBpf == Opened("open") \/ Opened("bad") \/ Refused("none") \/ Refused("open")

(* Without a port there is nothing to open. *)
StartNf ==
    IF conf = "none" THEN pc' = "started" /\ UNCHANGED <<th, sock>>
    ELSE Opened("open") \/ Refused("none")

Start ==
    /\ pc = "loaded"
    /\ \/ kind = "ether" /\ StartEther
       \/ kind = "pcap" /\ StartPcap
       \/ kind = "nfqueue" /\ StartNfqueue
       \/ kind = "divert" /\ StartDivert
       \/ kind = "bpf" /\ StartBpf
       \/ kind \in {"nf_udp", "nf_tcp"} /\ StartNf
    /\ UNCHANGED <<kind, conf, isRunning, stop, net, data, faults>>

(* A thread that does not say it runs is left alone, *)
StopIdle ==
    /\ pc = "started" /\ ~isRunning
    /\ pc' = "stopped"
    /\ stop' = (stop \/ kind \in {"nf_udp", "nf_tcp"})
    /\ UNCHANGED <<kind, conf, th, isRunning, sock, net, data, faults>>

(* one that runs is told to stop and waited for, five seconds at most.     *)
(* The socket is closed before it is told in cap_divert and cap_bpf, after *)
(* it in cap_nf, and after the wait in the others.                         *)
Shut == sock' = IF sock = "open" THEN "closed" ELSE sock

TellAndWait == pc' = "stopping" /\ stop' = TRUE /\ UNCHANGED sock

ShutAndTell == pc' = "shut" /\ Shut /\ UNCHANGED stop

TellAndShut == pc' = "told" /\ stop' = TRUE /\ UNCHANGED sock

StopEther   == kind = "ether" /\ TellAndWait
StopPcap    == kind = "pcap" /\ TellAndWait
StopNfqueue == kind = "nfqueue" /\ TellAndWait
StopDivert  == kind = "divert" /\ ShutAndTell
StopBpf     == kind = "bpf" /\ ShutAndTell
StopNf      == kind \in {"nf_udp", "nf_tcp"} /\ TellAndShut

Stop ==
    /\ pc = "started" /\ isRunning
    /\ StopEther \/ StopPcap \/ StopNfqueue \/ StopDivert \/ StopBpf \/ StopNf
    /\ UNCHANGED <<kind, conf, th, isRunning, net, data, faults>>

StopProceeds ==
    /\ \/ pc = "shut" /\ stop' = TRUE /\ UNCHANGED sock
       \/ pc = "told" /\ Shut /\ UNCHANGED stop
    /\ pc' = "stopping"
    /\ UNCHANGED <<kind, conf, th, isRunning, net, data, faults>>

(* and joined, or detached when it still runs. *)
StopReturns ==
    /\ pc = "stopping"
    /\ pc' = IF isRunning THEN "detached" ELSE "stopped"
    /\ Shut
    /\ UNCHANGED <<kind, conf, thread, net, data, faults>>

----------------------------------------------------------------------------
(* The thread. *)

RunBegins ==
    /\ th = "created"
    /\ th' = "loop" /\ isRunning' = TRUE
    /\ UNCHANGED <<kind, conf, pc, stop, sock, net, data, faults>>

LoopTop ==
    /\ th = "loop"
    /\ th' = IF stop THEN "ended" ELSE "reading"
    /\ isRunning' = ~stop
    /\ UNCHANGED <<kind, conf, pc, stop, sock, net, data, faults>>

Occurs(ps, p) == Cardinality({i \in DOMAIN ps : ps[i] = p})

(* TraffCounter::process for each of the packets. *)
Process(ps) == counted' = [p \in Packets |-> counted[p] + Occurs(ps, p)]

Again == th' = "loop" /\ UNCHANGED <<isRunning, stop>>

Unread == UNCHANGED net

Received == wire # <<>> /\ sock = "open" /\ wire' = Tail(wire) /\ UNCHANGED arrived

Frame == Head(wire)

(* EthCapRead and Run of cap_ether: a wait that ends without a packet, and *)
(* an error, go back to the top.                                           *)
ReadEther ==
    \/ /\ Unread /\ Again /\ UNCHANGED <<data, faults>>
       /\ wire = <<>> \/ sock # "open"
    \/ /\ Received /\ Again
       /\ buf' = Frame.ps
       /\ IF Frame.c = "ip" THEN Process(Frame.ps) ELSE UNCHANGED counted
       /\ UNCHANGED <<held, passed, blanks, faults>>

(* TryReadDev of cap_pcap: pcap_next_ex may find nothing after all, and    *)
(* the pointer to the packet is then not set: it points to where an        *)
(* earlier packet was, to something else, or nowhere.                      *)
ReadPcap ==
    \/ /\ Unread /\ Again /\ UNCHANGED <<data, faults>>
       /\ wire = <<>> \/ sock # "open"
    \/ /\ Received /\ Again
       /\ buf' = Frame.ps
       /\ IF Frame.c = "ip" THEN Process(Frame.ps) ELSE UNCHANGED counted
       /\ UNCHANGED <<held, passed, blanks, faults>>
    \/ /\ Fault /\ sock = "open" /\ Unread
       /\ blanks' = blanks + 1
       /\ \/ Process(buf) /\ Again
          \/ UNCHANGED counted /\ Again
          \/ UNCHANGED <<counted, isRunning, stop>> /\ th' = "crashed"
       /\ UNCHANGED <<held, buf, passed>>

(* Callback of cap_nfqueue: counted, then accepted; without a payload      *)
(* there is no verdict.                                                    *)
Callback ==
    IF Frame.c = "short" THEN UNCHANGED <<counted, passed>>
    ELSE Process(Frame.ps) /\ passed' = passed \cup {Frame.ps[i] : i \in DOMAIN Frame.ps}

(* A read that fails ends the loop. *)
ReadNfqueue ==
    \/ /\ Unread /\ Again /\ UNCHANGED <<data, faults>>
       /\ wire = <<>> \/ sock # "open"
    \/ Received /\ Again /\ Callback /\ UNCHANGED <<held, buf, blanks, faults>>
    \/ /\ Fault /\ Unread /\ sock = "open"
       /\ th' = "ended" /\ isRunning' = FALSE
       /\ UNCHANGED <<stop, data>>

(* DivertCapRead: what is read and long enough is copied and sent on,      *)
(* unless forwarding is disabled.  A closed socket ends every wait at      *)
(* once; a socket that was never opened ends none.                         *)
DivertCapRead ==
    \/ /\ Received /\ Frame.c # "short"
       /\ buf' = Frame.ps
       /\ \/ passed' = passed \cup {Frame.ps[i] : i \in DOMAIN Frame.ps}
          \/ UNCHANGED passed
       /\ UNCHANGED <<blanks, faults>>
    \/ /\ \/ Received /\ Frame.c = "short" /\ UNCHANGED faults
          \/ sock = "closed" /\ Unread /\ Fault
       /\ blanks' = blanks + 1
       /\ UNCHANGED <<buf, passed>>

(* Whatever came of the read, the buffer is counted. *)
ReadDivert == DivertCapRead /\ Process(buf') /\ Again /\ UNCHANGED held

(* BPFCapRead and Run of cap_bpf: one read brings all that is there, and   *)
(* one packet of it is looked at each time poll says there is more; an     *)
(* empty read leaves the last packet in the buffer, and it is counted.     *)
Looked(fs) ==
    /\ buf' = Head(fs).ps
    /\ IF Head(fs).c = "ip" THEN Process(Head(fs).ps) ELSE UNCHANGED counted

BpfReadAgain ==
    \/ /\ held = <<>> /\ wire # <<>> /\ sock = "open" /\ Again
       /\ wire' = <<>> /\ UNCHANGED arrived
       /\ held' = wire /\ Looked(wire)
       /\ UNCHANGED <<passed, blanks, faults>>
    \/ /\ held # <<>> /\ wire # <<>> /\ sock = "open" /\ Again
       /\ Unread
       /\ held' = Tail(held) /\ Looked(held)
       /\ UNCHANGED <<passed, blanks, faults>>

BPFCapRead ==
    \/ /\ held = <<>> /\ wire # <<>> /\ sock = "open" /\ Again
       /\ wire' = <<>> /\ UNCHANGED arrived
       /\ held' = Tail(wire) /\ Looked(wire)
       /\ UNCHANGED <<passed, blanks, faults>>
    \/ /\ held # <<>> /\ wire # <<>> /\ sock = "open" /\ Again
       /\ Unread
       /\ held' = Tail(held) /\ Looked(held)
       /\ UNCHANGED <<passed, blanks, faults>>

ReadBpf ==
    \/ BPFCapRead
    \/ /\ Fault /\ held = <<>> /\ sock = "open" /\ Again /\ Unread   \* a read of 0 bytes
       /\ Process(buf) /\ blanks' = blanks + 1
       /\ UNCHANGED <<held, buf, passed>>
    \/ /\ Fault /\ sock = "open" /\ Again /\ Unread                  \* a read that fails
       /\ UNCHANGED data
    \/ /\ sock = "closed" /\ Again /\ Unread /\ UNCHANGED <<data, faults>>

(* ParseBuffer of cap_nf: a datagram is counted when it is whole and of    *)
(* version 5.                                                              *)
ParseBuffer ==
    /\ buf' = Frame.ps
    /\ IF Frame.c = "ip" THEN Process(Frame.ps) ELSE UNCHANGED counted
    /\ UNCHANGED <<held, passed, blanks>>

(* RunUDP and RunTCP: nothing came, or a datagram did, or a connection     *)
(* with one; a stop that came meanwhile is looked at first.                *)
RunUDP ==
    \/ /\ Unread /\ Again /\ UNCHANGED <<data, faults>>
       /\ wire = <<>> \/ sock # "open"
    \/ Received /\ ~stop /\ Again /\ ParseBuffer /\ UNCHANGED faults
    \/ /\ Received /\ stop
       /\ th' = "ended" /\ isRunning' = FALSE
       /\ UNCHANGED <<stop, data, faults>>

(* A connection may also be closed before anything came on it, or half-way *)
(* through the datagram.                                                   *)
RunTCP ==
    \/ RunUDP
    \/ Received /\ Fault /\ Again /\ ~stop /\ UNCHANGED data

Read ==
    /\ th = "reading"
    /\ \/ kind = "ether" /\ ReadEther
       \/ kind = "pcap" /\ ReadPcap
       \/ kind = "nfqueue" /\ ReadNfqueue
       \/ kind = "divert" /\ ReadDivert
       \/ kind = "bpf" /\ ReadBpf
       \/ kind = "nf_udp" /\ RunUDP
       \/ kind = "nf_tcp" /\ RunTCP
    /\ UNCHANGED <<kind, conf, pc, sock>>

----------------------------------------------------------------------------
(* The network. *)

New == {p \in Packets : arrived[p] = 0 /\ \A q \in Packets : q < p => arrived[q] > 0}

Arrive ==
    /\ sock = "open" /\ th # "none"
    /\ \E p \in New, c \in Classes :
          \/ /\ wire' = Append(wire, Msg(<<p>>, c))
             /\ arrived' = [arrived EXCEPT ![p] = 1]
          \/ /\ kind \in {"nf_udp", "nf_tcp"} /\ p + 1 \in Packets
             /\ wire' = Append(wire, Msg(<<p, p + 1>>, c))
             /\ arrived' = [arrived EXCEPT ![p] = 1, ![p + 1] = 1]
    /\ UNCHANGED <<kind, conf, pc, thread, sock, data, faults>>

(* A datagram is duplicated on its way: nobody looks at its number. *)
Duplicate ==
    /\ kind = "nf_udp" /\ wire # <<>> /\ Fault
    /\ wire' = Append(wire, Head(wire))
    /\ arrived' = [p \in Packets |-> arrived[p] + Occurs(Head(wire).ps, p)]
    /\ UNCHANGED <<kind, conf, pc, thread, sock, data>>

----------------------------------------------------------------------------
Next ==
    \/ ParseSettings \/ Start \/ StopIdle \/ Stop \/ StopProceeds \/ StopReturns
    \/ RunBegins \/ LoopTop \/ Read
    \/ Arrive \/ Duplicate

Spec == Init /\ [][Next]_vars

----------------------------------------------------------------------------
Surplus(p) == IF counted[p] > arrived[p] THEN counted[p] - arrived[p] ELSE 0

(* Traffic is charged for as it came.  A packet is counted as often as it  *)
(* arrived at most, but for the reads that brought nothing: each of them   *)
(* may have the last packet counted once more, in the plugins that do not  *)
(* look at the result, and in no other.  And a packet that a plugin holds  *)
(* up and lets through has been counted.                                   *)
CountedAsItCame ==
    /\ \A p \in Packets : Surplus(p) <= blanks
    /\ blanks > 0 => kind \in {"pcap", "divert", "bpf"}
    /\ \A p \in passed : counted[p] > 0
=============================================================================
