------------------------ MODULE TraffCounterProofs --------------------------
(***************************************************************************)
(* The traffic counter charges no byte twice, loses none when it drops an  *)
(* idle packet, and has every packet attached to the right user when the   *)
(* pool has nothing left to do: for every set of users, addresses, flows   *)
(* and rules, and however long tasks wait in the pool.                     *)
(*                                                                         *)
(* None of the three is inductive.  NoDoubleCharge needs the types.        *)
(* NothingLostOnExpiry needs FlushInv: what came after the last flush is   *)
(* younger than it.                                                        *)
(* Attached speaks of an empty queue; AttachInv says what the tasks in a   *)
(* queue that is not empty make up for, and RegistryInv in which order.    *)
(***************************************************************************)
EXTENDS TraffCounter, TLAPS

Fields(p) ==
    /\ p = [flushTime |-> p.flushTime, updateTime |-> p.updateTime, dir |-> p.dir, len |-> p.len,
            present |-> p.present, user |-> p.user]
    /\ p.len \in [Sides -> Nat] /\ p.present \in [Sides -> BOOLEAN]
    /\ p.flushTime \in Nat /\ p.updateTime \in Nat

TypeInv ==
    /\ stgTime \in Nat
    /\ seen \in [Keys -> Nat] /\ reported \in [Keys -> [Sides -> Nat]]
    /\ DOMAIN packets \subseteq Keys
    /\ \A k \in DOMAIN packets : /\ Fields(packets[k])
                                 /\ packets[k].flushTime <= stgTime
                                 /\ packets[k].updateTime <= stgTime

\* What came after the last flush is younger than it.
FlushInv ==
    \A k \in DOMAIN packets, s \in Sides :
      packets[k].present[s] /\ packets[k].updateTime < packets[k].flushTime => packets[k].len[s] = 0

-----------------------------------------------------------------------------
\* process on a packet of the tree: more bytes on both sides, a new time.
LEMMA GrownLemma ==
    ASSUME NEW p, Fields(p), NEW len \in Nat, stgTime \in Nat
    PROVE  LET q == Grown(p, len)
           IN  /\ Fields(q) /\ q.flushTime = p.flushTime /\ q.updateTime = stgTime
               /\ q.dir = p.dir /\ q.present = p.present /\ q.user = p.user
               /\ \A s \in Sides : q.len[s] = p.len[s] + len
<1> DEFINE more == [s \in Sides |-> p.len[s] + len]
<1>1. Grown(p, len) = [flushTime |-> p.flushTime, updateTime |-> stgTime, dir |-> p.dir, len |-> more,
                       present |-> p.present, user |-> p.user]
  <2> DEFINE r == [p EXCEPT !.len = more]
  <2>1. r = [flushTime |-> p.flushTime, updateTime |-> p.updateTime, dir |-> p.dir, len |-> more,
             present |-> p.present, user |-> p.user]
    <3> HIDE DEF more
    <3> QED BY DEF Fields
  <2>2. Grown(p, len) = [r EXCEPT !.updateTime = stgTime]
    BY DEF Grown
  <2> HIDE DEF r, more
  <2> QED BY <2>1, <2>2
<1>2. more \in [Sides -> Nat]
  BY DEF Fields
<1> HIDE DEF more
<1>3. /\ Fields(Grown(p, len)) /\ Grown(p, len).flushTime = p.flushTime
      /\ Grown(p, len).updateTime = stgTime
      /\ Grown(p, len).dir = p.dir /\ Grown(p, len).present = p.present
      /\ Grown(p, len).user = p.user /\ Grown(p, len).len = more
  BY <1>1, <1>2 DEF Fields
<1> QED BY <1>3 DEF more

\* A flush reports and forgets the bytes of the attached sides, in its time.
LEMMA FlushedLemma ==
    ASSUME NEW p, Fields(p), stgTime \in Nat
    PROVE  LET q == Flushed(p)
           IN  /\ Fields(q) /\ q.updateTime = p.updateTime
               /\ q.dir = p.dir /\ q.present = p.present /\ q.user = p.user
               /\ q.flushTime \in {p.flushTime, stgTime}
               /\ \A s \in Sides : p.present[s] =>
                    IF DueForFlush(p) THEN q.len[s] = 0
                    ELSE q.len[s] = p.len[s] /\ q.flushTime = p.flushTime
<1> DEFINE none == [s \in Sides |-> IF p.present[s] THEN 0 ELSE p.len[s]]
           q == Flushed(p)
<1>1. CASE DueForFlush(p) /\ \E s \in Sides : p.present[s]
  <2>1. q = [flushTime |-> stgTime, updateTime |-> p.updateTime, dir |-> p.dir, len |-> none,
             present |-> p.present, user |-> p.user]
    BY <1>1 DEF Flushed, Fields
  <2>2. none \in [Sides -> Nat] /\ \A s \in Sides : p.present[s] => none[s] = 0
    BY DEF Fields
  <2> HIDE DEF none, q
  <2>3. /\ Fields(q) /\ q.flushTime = stgTime /\ q.updateTime = p.updateTime /\ q.dir = p.dir
        /\ q.present = p.present /\ q.user = p.user /\ q.len = none
    BY <2>1, <2>2 DEF Fields
  <2> QED BY <1>1, <2>2, <2>3 DEF q
<1>2. CASE ~(DueForFlush(p) /\ \E s \in Sides : p.present[s])
  BY <1>2 DEF Flushed
<1> QED BY <1>1, <1>2

\* AddUser: a user takes some sides of a packet, from zero.
LEMMA TakenLemma ==
    ASSUME NEW p, NEW mine, NEW u, Fields(p), mine \in SUBSET Sides
    PROVE  LET q == Taken(p, mine, u)
           IN  /\ Fields(q) /\ q.updateTime = p.updateTime /\ q.flushTime = p.flushTime /\ q.dir = p.dir
               /\ \A s \in mine : q.present[s] /\ q.user[s] = u /\ q.len[s] = 0
               /\ \A s \in Sides \ mine : /\ q.present[s] = p.present[s] /\ q.user[s] = p.user[s]
                                          /\ q.len[s] = p.len[s]
<1> DEFINE q == Taken(p, mine, u)
           len == [s \in Sides |-> IF s \in mine THEN 0 ELSE p.len[s]]
           user == [s \in Sides |-> IF s \in mine THEN u ELSE p.user[s]]
           present == [s \in Sides |-> s \in mine \/ p.present[s]]
<1>1. q = [flushTime |-> p.flushTime, updateTime |-> p.updateTime, dir |-> p.dir, len |-> len,
           present |-> present, user |-> user]
  <2> DEFINE r == [p EXCEPT !.len = len]
             t == [r EXCEPT !.user = user]
  <2>1. q = [t EXCEPT !.present = present]
    BY DEF Taken
  <2> HIDE DEF len, user, present
  <2>2. r = [flushTime |-> p.flushTime, updateTime |-> p.updateTime, dir |-> p.dir, len |-> len,
             present |-> p.present, user |-> p.user]
    BY DEF Fields
  <2> HIDE DEF r
  <2>3. t = [flushTime |-> p.flushTime, updateTime |-> p.updateTime, dir |-> p.dir, len |-> len,
             present |-> p.present, user |-> user]
    BY <2>2
  <2> HIDE DEF t, q
  <2> QED BY <2>1, <2>3
<1>2. len \in [Sides -> Nat]
  BY DEF Fields
<1>3. present \in [Sides -> BOOLEAN] /\ \A s \in mine : present[s]
  BY DEF Fields
<1>4. \A s \in Sides \ mine : present[s] = p.present[s]
  BY DEF Fields
<1>5. /\ \A s \in mine : user[s] = u /\ len[s] = 0
      /\ \A s \in Sides \ mine : user[s] = p.user[s] /\ len[s] = p.len[s]
  OBVIOUS
<1> HIDE DEF q, len, user, present
<1>6. /\ Fields(q) /\ q.updateTime = p.updateTime /\ q.flushTime = p.flushTime /\ q.dir = p.dir
      /\ q.len = len /\ q.user = user /\ q.present = present
  BY <1>1, <1>2, <1>3 DEF Fields
<1> QED BY <1>3, <1>4, <1>5, <1>6 DEF q

\* DelUser: some sides of a packet lose their user; the bytes stay.
LEMMA LeftLemma ==
    ASSUME NEW p, Fields(p), NEW sides \in SUBSET Sides
    PROVE  LET q == Left(p, sides)
           IN  /\ Fields(q) /\ q.updateTime = p.updateTime /\ q.flushTime = p.flushTime /\ q.dir = p.dir
               /\ q.len = p.len /\ q.user = p.user
               /\ \A s \in sides : ~q.present[s]
               /\ \A s \in Sides \ sides : q.present[s] = p.present[s]
<1> DEFINE q == Left(p, sides)
           present == [s \in Sides |-> s \notin sides /\ p.present[s]]
<1>1. q = [flushTime |-> p.flushTime, updateTime |-> p.updateTime, dir |-> p.dir, len |-> p.len,
           present |-> present, user |-> p.user]
  BY DEF Left, Fields
<1>2. present \in [Sides -> BOOLEAN] /\ \A s \in sides : ~present[s]
  BY DEF Fields
<1>3. \A s \in Sides \ sides : present[s] = p.present[s]
  BY DEF Fields
<1> HIDE DEF q, present
<1>4. /\ Fields(q) /\ q.updateTime = p.updateTime /\ q.flushTime = p.flushTime /\ q.dir = p.dir
      /\ q.len = p.len /\ q.user = p.user /\ q.present = present
  BY <1>1, <1>2 DEF Fields
<1> QED BY <1>2, <1>3, <1>4 DEF q

-----------------------------------------------------------------------------
\* A packet passes: it is counted in the tree or becomes a new entry of it.
LEMMA ProcessEffect ==
    ASSUME TypeInv, NEW key \in Keys, NEW len \in Nat, process(key, len)
    PROVE  /\ seen' \in [Keys -> Nat] /\ seen'[key] = seen[key] + len
           /\ \A k \in Keys : k # key => seen'[k] = seen[k]
           /\ \/ /\ key \in DOMAIN packets /\ DOMAIN packets' = DOMAIN packets
                 /\ packets'[key] = Grown(packets[key], len)
              \/ /\ key \notin DOMAIN packets /\ DOMAIN packets' = DOMAIN packets \cup {key}
                 /\ packets'[key] = NewPacket(key, len)
              \/ key \notin DOMAIN packets /\ packets' = packets
           /\ \A k \in DOMAIN packets : k # key => packets'[k] = packets[k]
           /\ UNCHANGED <<stgTime, reported, registry>>
<1>1. seen' \in [Keys -> Nat] /\ seen'[key] = seen[key] + len /\ \A k \in Keys : k # key => seen'[k] = seen[k]
  BY DEF process, TypeInv
<1>2. UNCHANGED <<stgTime, reported, registry>>
  BY DEF process
<1>3. CASE key \in DOMAIN packets
  <2>1. packets' = [packets EXCEPT ![key] = Grown(packets[key], len)]
    BY <1>3 DEF process
  <2> QED BY <1>1, <1>2, <1>3, <2>1
<1>4. CASE key \notin DOMAIN packets
  <2>1. \/ packets' = [k \in DOMAIN packets \cup {key} |-> IF k = key THEN NewPacket(key, len) ELSE packets[k]]
        \/ packets' = packets
    BY <1>4 DEF process
  <2> QED BY <1>1, <1>2, <1>4, <2>1
<1> QED BY <1>3, <1>4

\* A new packet belongs to whoever holds its addresses.
LEMMA NewPacketLemma ==
    ASSUME stgTime \in Nat, NEW key, NEW len \in Nat
    PROVE  LET q == NewPacket(key, len)
           IN  /\ Fields(q) /\ q.flushTime = stgTime /\ q.updateTime = stgTime
               /\ \A s \in Sides : /\ q.len[s] = len /\ q.user[s] = FindByIPIdx(AddrOf(key, s))
                                   /\ q.present[s] <=> FindByIPIdx(AddrOf(key, s)) # NoUser
<1> DEFINE lens == [s \in Sides |-> len]
           present == [s \in Sides |-> FindByIPIdx(AddrOf(key, s)) # NoUser]
           user == [s \in Sides |-> FindByIPIdx(AddrOf(key, s))]
           dir == [s \in Sides |-> DeterminateDir(key, s)]
           q == NewPacket(key, len)
<1>1. q = [flushTime |-> stgTime, updateTime |-> stgTime, dir |-> dir, len |-> lens,
           present |-> present, user |-> user]
  BY DEF NewPacket
<1>2. lens \in [Sides -> Nat] /\ \A s \in Sides : lens[s] = len
  OBVIOUS
<1>3. present \in [Sides -> BOOLEAN]
  OBVIOUS
<1>4. \A s \in Sides : present[s] <=> FindByIPIdx(AddrOf(key, s)) # NoUser
  OBVIOUS
<1>5. \A s \in Sides : user[s] = FindByIPIdx(AddrOf(key, s))
  OBVIOUS
<1> HIDE DEF lens, present, user, dir, q
<1>6. /\ Fields(q) /\ q.flushTime = stgTime /\ q.updateTime = stgTime /\ q.len = lens
      /\ q.present = present /\ q.user = user
  BY <1>1, <1>2, <1>3 DEF Fields
<1> QED BY <1>2, <1>4, <1>5, <1>6 DEF q

\* process counts a packet once, on each side.
LEMMA ProcessKeeps ==
    ASSUME TypeInv, FlushInv, NoDoubleCharge, NEW key \in Keys, NEW len \in Nat, process(key, len)
    PROVE  TypeInv' /\ FlushInv' /\ NoDoubleCharge'
<1>1. /\ seen' \in [Keys -> Nat] /\ seen'[key] = seen[key] + len
      /\ \A k \in Keys : k # key => seen'[k] = seen[k]
      /\ \A k \in DOMAIN packets : k # key => packets'[k] = packets[k]
      /\ UNCHANGED <<stgTime, reported>> /\ stgTime \in Nat
  BY ProcessEffect DEF TypeInv
<1>2. ASSUME NEW k \in Keys, k # key, DOMAIN packets' \subseteq DOMAIN packets \cup {key},
             DOMAIN packets \subseteq DOMAIN packets', NEW s \in Sides
      PROVE  reported'[k][s] + PendingBytes(k, s)' <= seen'[k]
  <2>1. PendingBytes(k, s)' = PendingBytes(k, s)
    BY <1>1, <1>2 DEF PendingBytes, Reports
  <2> QED BY <1>1, <1>2, <2>1 DEF NoDoubleCharge
<1>3. CASE /\ key \in DOMAIN packets /\ DOMAIN packets' = DOMAIN packets
           /\ packets'[key] = Grown(packets[key], len)
  <2> DEFINE p == packets[key]
             q == packets'[key]
  <2>1. Fields(p) /\ p.flushTime <= stgTime
    BY <1>3 DEF TypeInv
  <2>2. /\ Fields(q) /\ q.flushTime = p.flushTime /\ q.updateTime = stgTime
        /\ q.dir = p.dir /\ q.present = p.present
        /\ \A s \in Sides : q.len[s] = p.len[s] + len
    <3>1. q = Grown(p, len)
      BY <1>3
    <3> HIDE DEF p, q
    <3> QED BY <1>1, <2>1, <3>1, GrownLemma
  <2>3. TypeInv'
    BY <1>1, <1>3, <2>1, <2>2 DEF TypeInv
  <2>4. FlushInv'
    BY <1>1, <1>3, <2>1, <2>2 DEF FlushInv, Fields
  <2>5. ASSUME NEW s \in Sides PROVE reported'[key][s] + PendingBytes(key, s)' <= seen'[key]
    <3>1. PendingBytes(key, s)' <= PendingBytes(key, s) + len /\ PendingBytes(key, s)' \in Nat
      BY <1>3, <2>1, <2>2 DEF PendingBytes, Reports, Fields
    <3>2. reported[key][s] + PendingBytes(key, s) <= seen[key]
      BY DEF NoDoubleCharge
    <3>4. PendingBytes(key, s) \in Nat
      BY <2>1 DEF PendingBytes, Fields
    <3>3. reported[key][s] \in Nat /\ seen[key] \in Nat
      BY DEF TypeInv
    <3> QED BY <1>1, <3>1, <3>2, <3>3, <3>4
  <2> QED BY <1>2, <1>3, <2>3, <2>4, <2>5 DEF NoDoubleCharge
<1>4. CASE /\ key \notin DOMAIN packets /\ DOMAIN packets' = DOMAIN packets \cup {key}
           /\ packets'[key] = NewPacket(key, len)
  <2> DEFINE q == packets'[key]
  <2>1. /\ Fields(q) /\ q.flushTime = stgTime /\ q.updateTime = stgTime
        /\ \A s \in Sides : q.len[s] = len
    BY <1>1, <1>4, NewPacketLemma
  <2>2. TypeInv'
    BY <1>1, <1>4, <2>1 DEF TypeInv
  <2>3. FlushInv'
    BY <1>1, <1>4, <2>1 DEF FlushInv
  <2>4. ASSUME NEW s \in Sides PROVE reported'[key][s] + PendingBytes(key, s)' <= seen'[key]
    <3>1. PendingBytes(key, s)' \in {0, len}
      BY <1>4, <2>1 DEF PendingBytes
    <3>2. PendingBytes(key, s) = 0
      BY <1>4 DEF PendingBytes
    <3>3. reported[key][s] + 0 <= seen[key] /\ reported[key][s] \in Nat /\ seen[key] \in Nat
      BY <3>2 DEF NoDoubleCharge, TypeInv
    <3> QED BY <1>1, <3>1, <3>3
  <2> QED BY <1>2, <1>4, <2>2, <2>3, <2>4 DEF NoDoubleCharge
<1>5. CASE key \notin DOMAIN packets /\ packets' = packets
  <2>1. TypeInv' /\ FlushInv'
    BY <1>1, <1>5 DEF TypeInv, FlushInv
  <2>2. ASSUME NEW s \in Sides PROVE reported'[key][s] + PendingBytes(key, s)' <= seen'[key]
    <3>1. PendingBytes(key, s)' = 0 /\ PendingBytes(key, s) = 0
      BY <1>5 DEF PendingBytes
    <3>2. reported[key][s] + 0 <= seen[key] /\ reported[key][s] \in Nat /\ seen[key] \in Nat
      BY <3>1 DEF NoDoubleCharge, TypeInv
    <3> QED BY <1>1, <3>1, <3>2
  <2> QED BY <1>2, <1>5, <2>1, <2>2 DEF NoDoubleCharge
<1> QED BY <1>3, <1>4, <1>5, ProcessEffect

-----------------------------------------------------------------------------
\* A side reports what it has and has nothing left to report.
LEMMA ReportKeeps ==
    ASSUME TypeInv, NoDoubleCharge, NEW k \in Keys, NEW s \in Sides, seen'[k] = seen[k],
           \/ reported'[k][s] = reported[k][s] /\ PendingBytes(k, s)' <= PendingBytes(k, s)
           \/ reported'[k][s] = reported[k][s] + PendingBytes(k, s) /\ PendingBytes(k, s)' = 0,
           PendingBytes(k, s)' \in Nat
    PROVE  reported'[k][s] \in Nat /\ reported'[k][s] + PendingBytes(k, s)' <= seen'[k]
<1>1. PendingBytes(k, s) \in Nat
  BY DEF PendingBytes, TypeInv, Fields
<1>2. reported[k][s] \in Nat /\ seen[k] \in Nat
  BY DEF TypeInv
<1>3. reported[k][s] + PendingBytes(k, s) <= seen[k]
  BY DEF NoDoubleCharge
<1> QED BY <1>1, <1>2, <1>3

\* FlushAndRemove: each packet is flushed if its time has come, and stays
\* or goes.
LEMMA FlushEffect ==
    ASSUME TypeInv, FlushAndRemove
    PROVE  /\ DOMAIN packets' = {k \in DOMAIN packets : Stays(packets[k])}
           /\ \A k \in DOMAIN packets' :
                /\ Fields(packets'[k]) /\ packets'[k].updateTime = packets[k].updateTime
                /\ packets'[k].dir = packets[k].dir /\ packets'[k].present = packets[k].present
                /\ packets'[k].user = packets[k].user
                /\ packets'[k].flushTime \in {packets[k].flushTime, stgTime}
                /\ \A s \in Sides : packets[k].present[s] =>
                     IF DueForFlush(packets[k]) THEN packets'[k].len[s] = 0
                     ELSE /\ packets'[k].len[s] = packets[k].len[s]
                          /\ packets'[k].flushTime = packets[k].flushTime
           /\ UNCHANGED <<stgTime, seen, registry>>
<1>1. packets' = [k \in {j \in DOMAIN packets : Stays(packets[j])} |-> Flushed(packets[k])]
  BY DEF FlushAndRemove
<1>2. ASSUME NEW k \in DOMAIN packets'
      PROVE  k \in DOMAIN packets /\ packets'[k] = Flushed(packets[k]) /\ Fields(packets[k])
  BY <1>1 DEF TypeInv
<1>3. ASSUME NEW k \in DOMAIN packets'
      PROVE  /\ Fields(packets'[k]) /\ packets'[k].updateTime = packets[k].updateTime
             /\ packets'[k].dir = packets[k].dir /\ packets'[k].present = packets[k].present
             /\ packets'[k].user = packets[k].user
             /\ packets'[k].flushTime \in {packets[k].flushTime, stgTime}
             /\ \A s \in Sides : packets[k].present[s] =>
                  IF DueForFlush(packets[k]) THEN packets'[k].len[s] = 0
                  ELSE /\ packets'[k].len[s] = packets[k].len[s]
                       /\ packets'[k].flushTime = packets[k].flushTime
  <2> DEFINE p == packets[k]
             q == packets'[k]
  <2>1. Fields(p) /\ q = Flushed(p) /\ stgTime \in Nat
    BY <1>2 DEF TypeInv
  <2> HIDE DEF p, q
  <2>2. /\ Fields(q) /\ q.updateTime = p.updateTime
        /\ q.dir = p.dir /\ q.present = p.present /\ q.user = p.user
        /\ q.flushTime \in {p.flushTime, stgTime}
        /\ \A s \in Sides : p.present[s] =>
             IF DueForFlush(p) THEN q.len[s] = 0
             ELSE q.len[s] = p.len[s] /\ q.flushTime = p.flushTime
    BY <2>1, FlushedLemma
  <2> QED BY <2>2 DEF p, q
<1>4. DOMAIN packets' = {k \in DOMAIN packets : Stays(packets[k])}
  BY <1>1
<1>5. UNCHANGED <<stgTime, seen, registry>>
  BY DEF FlushAndRemove
<1> QED BY <1>3, <1>4, <1>5

\* What a flush reports.
LEMMA FlushReports ==
    ASSUME TypeInv, FlushAndRemove, NEW k \in Keys, NEW s \in Sides
    PROVE  reported'[k][s] = IF k \in DOMAIN packets /\ DueForFlush(packets[k])
                             THEN reported[k][s] + PendingBytes(k, s) ELSE reported[k][s]
<1>1. reported' = [j \in Keys |-> [r \in Sides |->
           IF j \in DOMAIN packets /\ DueForFlush(packets[j]) /\ Reports(packets[j], r)
             THEN reported[j][r] + packets[j].len[r] ELSE reported[j][r]]]
  BY DEF FlushAndRemove
<1>2. reported'[k][s] = IF k \in DOMAIN packets /\ DueForFlush(packets[k]) /\ Reports(packets[k], s)
                        THEN reported[k][s] + packets[k].len[s] ELSE reported[k][s]
  BY <1>1
<1>3. reported[k][s] \in Nat
  BY DEF TypeInv
<1> QED BY <1>2, <1>3 DEF PendingBytes

\* FlushAndRemove moves bytes from the packets to the ledger.
LEMMA FlushKeeps ==
    ASSUME TypeInv, FlushInv, NoDoubleCharge, FlushAndRemove
    PROVE  TypeInv' /\ FlushInv' /\ NoDoubleCharge'
<1>1. /\ DOMAIN packets' \subseteq DOMAIN packets
      /\ \A k \in DOMAIN packets' :
           /\ Fields(packets'[k]) /\ packets'[k].updateTime = packets[k].updateTime
           /\ packets'[k].dir = packets[k].dir /\ packets'[k].present = packets[k].present
           /\ packets'[k].flushTime \in {packets[k].flushTime, stgTime}
           /\ \A s \in Sides : packets[k].present[s] =>
                IF DueForFlush(packets[k]) THEN packets'[k].len[s] = 0
                ELSE /\ packets'[k].len[s] = packets[k].len[s]
                     /\ packets'[k].flushTime = packets[k].flushTime
      /\ UNCHANGED <<stgTime, seen>>
  BY FlushEffect
<1>2. ASSUME NEW k \in Keys, NEW s \in Sides
      PROVE  reported'[k][s] \in Nat /\ reported'[k][s] + PendingBytes(k, s)' <= seen'[k]
  <2>1. PendingBytes(k, s)' \in Nat
    BY <1>1 DEF PendingBytes, Fields
  <2>2. CASE k \in DOMAIN packets /\ DueForFlush(packets[k])
    <3>1. reported'[k][s] = reported[k][s] + PendingBytes(k, s)
      BY <2>2, FlushReports
    <3>2. PendingBytes(k, s)' = 0
      BY <1>1, <2>2 DEF PendingBytes, Reports
    <3> QED BY <1>1, <2>1, <3>1, <3>2, ReportKeeps
  <2>3. CASE ~(k \in DOMAIN packets /\ DueForFlush(packets[k]))
    <3>1. reported'[k][s] = reported[k][s]
      BY <2>3, FlushReports
    <3>2. PendingBytes(k, s) \in Nat
      BY DEF PendingBytes, TypeInv, Fields
    <3>3. PendingBytes(k, s)' <= PendingBytes(k, s)
      <4>1. CASE k \in DOMAIN packets'
        BY <1>1, <2>3, <3>2, <4>1 DEF PendingBytes, Reports
      <4>2. CASE k \notin DOMAIN packets'
        BY <3>2, <4>2 DEF PendingBytes
      <4> QED BY <4>1, <4>2
    <3> QED BY <1>1, <2>1, <3>1, <3>3, ReportKeeps
  <2> QED BY <2>2, <2>3
<1>3. reported' \in [Keys -> [Sides -> Nat]]
  <2>1. reported' = [j \in Keys |-> [r \in Sides |-> reported'[j][r]]]
    BY DEF FlushAndRemove
  <2> QED BY <1>2, <2>1
<1>4. TypeInv'
  BY <1>1, <1>3 DEF TypeInv
<1>5. FlushInv'
  BY <1>1 DEF FlushInv, TypeInv, Fields
<1> QED BY <1>2, <1>4, <1>5 DEF NoDoubleCharge

-----------------------------------------------------------------------------
\* AddUser changes the sides at the addresses of the user, and only those.
LEMMA AddUserEffect ==
    ASSUME TypeInv, NEW u, AddUser(u)
    PROVE  /\ DOMAIN packets' = DOMAIN packets /\ reported' = reported
           /\ \A k \in DOMAIN packets :
                /\ Fields(packets'[k]) /\ packets'[k].updateTime = packets[k].updateTime
                /\ packets'[k].flushTime = packets[k].flushTime /\ packets'[k].dir = packets[k].dir
                /\ \A s \in Sides :
                     IF AddrOf(k, s) \in CurrIPs(u)
                     THEN /\ packets'[k].present[s] /\ packets'[k].user[s] = u
                          /\ packets'[k].len[s] = 0
                     ELSE /\ packets'[k].present[s] = packets[k].present[s]
                          /\ packets'[k].user[s] = packets[k].user[s]
                          /\ packets'[k].len[s] = packets[k].len[s]
<1>1. packets' = [k \in DOMAIN packets |-> Taken(packets[k], SidesAt(k, CurrIPs(u)), u)]
  BY DEF AddUser
<1>2. reported' = reported
  BY DEF AddUser
<1>3. ASSUME NEW k \in DOMAIN packets
      PROVE  /\ Fields(packets'[k]) /\ packets'[k].updateTime = packets[k].updateTime
             /\ packets'[k].flushTime = packets[k].flushTime /\ packets'[k].dir = packets[k].dir
             /\ \A s \in Sides :
                  IF AddrOf(k, s) \in CurrIPs(u)
                  THEN /\ packets'[k].present[s] /\ packets'[k].user[s] = u
                       /\ packets'[k].len[s] = 0
                  ELSE /\ packets'[k].present[s] = packets[k].present[s]
                       /\ packets'[k].user[s] = packets[k].user[s]
                       /\ packets'[k].len[s] = packets[k].len[s]
  <2> DEFINE p == packets[k]
             q == packets'[k]
             mine == SidesAt(k, CurrIPs(u))
  <2>1. q = Taken(p, mine, u) /\ Fields(p)
    BY <1>1 DEF TypeInv
  <2>2. mine \in SUBSET Sides /\ \A s \in Sides : s \in mine <=> AddrOf(k, s) \in CurrIPs(u)
    BY DEF SidesAt
  <2> HIDE DEF p, q, mine
  <2>3. /\ Fields(q) /\ q.updateTime = p.updateTime /\ q.flushTime = p.flushTime /\ q.dir = p.dir
        /\ \A s \in mine : q.present[s] /\ q.user[s] = u /\ q.len[s] = 0
        /\ \A s \in Sides \ mine : /\ q.present[s] = p.present[s] /\ q.user[s] = p.user[s]
                                   /\ q.len[s] = p.len[s]
    BY <2>1, <2>2, TakenLemma
  <2> QED BY <2>2, <2>3 DEF p, q
<1> QED BY <1>1, <1>2, <1>3

\* DelUser detaches the sides at the addresses, and only those.
LEMMA DelUserEffect ==
    ASSUME TypeInv, NEW addrs, DelUser(addrs)
    PROVE  /\ DOMAIN packets' = DOMAIN packets
           /\ \A k \in DOMAIN packets :
                /\ Fields(packets'[k]) /\ packets'[k].updateTime = packets[k].updateTime
                /\ packets'[k].flushTime = packets[k].flushTime /\ packets'[k].dir = packets[k].dir
                /\ packets'[k].len = packets[k].len /\ packets'[k].user = packets[k].user
                /\ \A s \in Sides :
                     IF AddrOf(k, s) \in addrs THEN ~packets'[k].present[s]
                     ELSE packets'[k].present[s] = packets[k].present[s]
<1>1. packets' = [k \in DOMAIN packets |-> Left(packets[k], SidesAt(k, addrs))]
  BY DEF DelUser
<1>2. ASSUME NEW k \in DOMAIN packets
      PROVE  /\ Fields(packets'[k]) /\ packets'[k].updateTime = packets[k].updateTime
             /\ packets'[k].flushTime = packets[k].flushTime /\ packets'[k].dir = packets[k].dir
             /\ packets'[k].len = packets[k].len /\ packets'[k].user = packets[k].user
             /\ \A s \in Sides :
                  IF AddrOf(k, s) \in addrs THEN ~packets'[k].present[s]
                  ELSE packets'[k].present[s] = packets[k].present[s]
  <2> DEFINE p == packets[k]
             q == packets'[k]
             sides == SidesAt(k, addrs)
  <2>1. q = Left(p, sides) /\ Fields(p)
    BY <1>1 DEF TypeInv
  <2>2. sides \in SUBSET Sides /\ \A s \in Sides : s \in sides <=> AddrOf(k, s) \in addrs
    BY DEF SidesAt
  <2> HIDE DEF p, q, sides
  <2>3. /\ Fields(q) /\ q.updateTime = p.updateTime /\ q.flushTime = p.flushTime /\ q.dir = p.dir
        /\ q.len = p.len /\ q.user = p.user
        /\ \A s \in sides : ~q.present[s]
        /\ \A s \in Sides \ sides : q.present[s] = p.present[s]
    BY <2>1, <2>2, LeftLemma
  <2> QED BY <2>2, <2>3 DEF p, q
<1> QED BY <1>1, <1>2

\* AddUser reports nothing and starts from zero.
LEMMA AddUserKeeps ==
    ASSUME TypeInv, FlushInv, NoDoubleCharge, NEW u, AddUser(u), UNCHANGED <<stgTime, seen>>
    PROVE  TypeInv' /\ FlushInv' /\ NoDoubleCharge'
<1>1. /\ DOMAIN packets' = DOMAIN packets /\ reported' = reported
      /\ \A k \in DOMAIN packets :
           /\ Fields(packets'[k]) /\ packets'[k].updateTime = packets[k].updateTime
           /\ packets'[k].flushTime = packets[k].flushTime /\ packets'[k].dir = packets[k].dir
           /\ \A s \in Sides :
                \/ packets'[k].len[s] = 0
                \/ /\ packets'[k].present[s] = packets[k].present[s]
                   /\ packets'[k].len[s] = packets[k].len[s]
  BY AddUserEffect
<1>2. TypeInv'
  BY <1>1 DEF TypeInv
<1>3. FlushInv'
  BY <1>1 DEF FlushInv
<1>4. ASSUME NEW k \in Keys, NEW s \in Sides
      PROVE  reported'[k][s] + PendingBytes(k, s)' <= seen'[k]
  <2>1. PendingBytes(k, s) \in Nat
    BY DEF PendingBytes, TypeInv, Fields
  <2>2. PendingBytes(k, s)' \in Nat
    BY <1>1 DEF PendingBytes, Fields
  <2>3. PendingBytes(k, s)' <= PendingBytes(k, s)
    BY <1>1, <2>1 DEF PendingBytes, Reports
  <2> QED BY <1>1, <2>2, <2>3, ReportKeeps
<1> QED BY <1>2, <1>3, <1>4 DEF NoDoubleCharge

\* DelUser reports what it detaches: the bytes it leaves are no one's.
LEMMA DelUserKeeps ==
    ASSUME TypeInv, FlushInv, NoDoubleCharge, NEW addrs, DelUser(addrs), UNCHANGED <<stgTime, seen>>
    PROVE  TypeInv' /\ FlushInv' /\ NoDoubleCharge'
<1>1. /\ DOMAIN packets' = DOMAIN packets
      /\ \A k \in DOMAIN packets :
           /\ Fields(packets'[k]) /\ packets'[k].updateTime = packets[k].updateTime
           /\ packets'[k].flushTime = packets[k].flushTime /\ packets'[k].dir = packets[k].dir
           /\ packets'[k].len = packets[k].len
           /\ \A s \in Sides :
                IF AddrOf(k, s) \in addrs THEN ~packets'[k].present[s]
                ELSE packets'[k].present[s] = packets[k].present[s]
  BY DelUserEffect
<1>2. ASSUME NEW k \in Keys, NEW s \in Sides
      PROVE  reported'[k][s] \in Nat /\ reported'[k][s] + PendingBytes(k, s)' <= seen'[k]
  <2>1. PendingBytes(k, s)' \in Nat
    BY <1>1 DEF PendingBytes, Fields
  <2>2. reported'[k][s] = IF k \in DOMAIN packets /\ AddrOf(k, s) \in addrs /\ Reports(packets[k], s)
                          THEN reported[k][s] + packets[k].len[s] ELSE reported[k][s]
    BY DEF DelUser
  <2>3. CASE AddrOf(k, s) \in addrs
    <3>1. reported'[k][s] = reported[k][s] + PendingBytes(k, s)
      BY <2>2, <2>3 DEF PendingBytes, TypeInv
    <3>2. PendingBytes(k, s)' = 0
      BY <1>1, <2>3 DEF PendingBytes, Reports
    <3> QED BY <2>1, <3>1, <3>2, ReportKeeps
  <2>4. CASE AddrOf(k, s) \notin addrs
    <3>1. reported'[k][s] = reported[k][s]
      BY <2>2, <2>4
    <3>2. PendingBytes(k, s)' = PendingBytes(k, s)
      BY <1>1, <2>4 DEF PendingBytes, Reports
    <3> QED BY <2>1, <3>1, <3>2, ReportKeeps
  <2> QED BY <2>3, <2>4
<1>3. reported' \in [Keys -> [Sides -> Nat]]
  <2>1. reported' = [j \in Keys |-> [r \in Sides |-> reported'[j][r]]]
    BY DEF DelUser
  <2> QED BY <1>2, <2>1
<1>4. TypeInv'
  BY <1>1, <1>3 DEF TypeInv
<1>5. FlushInv'
  BY <1>1 DEF FlushInv, TypeInv, Fields
<1> QED BY <1>2, <1>4, <1>5 DEF NoDoubleCharge

\* Steps that leave the packets and the ledger alone; the clock may go on.
LEMMA IdleKeeps ==
    ASSUME TypeInv, FlushInv, NoDoubleCharge, UNCHANGED <<packets, seen, reported>>,
           stgTime' \in Nat, stgTime <= stgTime'
    PROVE  TypeInv' /\ FlushInv' /\ NoDoubleCharge'
<1>1. TypeInv'
  BY DEF TypeInv, Fields
<1>2. FlushInv'
  BY DEF FlushInv
<1> QED BY <1>1, <1>2 DEF NoDoubleCharge, PendingBytes

(***************************************************************************)
(* The tasks in the queue make up for what a packet does not know yet.     *)
(* Where nobody holds the address, a packet that still has a user will be  *)
(* told so.  Where a user holds it, the packet has this user or will be    *)
(* given it, and no task of an earlier holder comes after that.            *)
(***************************************************************************)
IsAdd(task, u) == task.op = "AddUser" /\ task.user = u
IsDel(task, a) == task.op = "DelUser" /\ task.addr = a

Tasks == [op : {"AddUser", "SetUserNotifiers", "UnSetUserNotifiers"}, user : Users]
           \cup [op : {"DelUser"}, addr : Addrs]

WillAdd(q, u) == \E j \in DOMAIN q : IsAdd(q[j], u)
WillDel(q, a) == \E i \in DOMAIN q : IsDel(q[i], a)
AddsLast(q, u, a) ==
    \A i \in DOMAIN q : IsDel(q[i], a) => \E j \in DOMAIN q : i < j /\ IsAdd(q[j], u)

RegistryInv ==
    /\ ipIndex \in [Addrs -> Users \cup {NoUser}] /\ tasks \in Seq(Tasks)
    /\ \A a \in Addrs \ missed : ipIndex[a] # NoUser => AddsLast(tasks, ipIndex[a], a)

AttachInv ==
    \A k \in DOMAIN packets, s \in Sides :
      LET a == AddrOf(k, s)
      IN  /\ a \notin Addrs => ~packets[k].present[s]
          /\ a \in Addrs \ missed /\ ipIndex[a] = NoUser =>
               (packets[k].present[s] => WillDel(tasks, a))
          /\ a \in Addrs \ missed /\ ipIndex[a] # NoUser =>
               \/ packets[k].present[s] /\ packets[k].user[s] = ipIndex[a]
               \/ WillAdd(tasks, ipIndex[a])

-----------------------------------------------------------------------------
\* The rest of a queue.
LEMMA TailLemma ==
    ASSUME NEW S, NEW q \in Seq(S), q # <<>>
    PROVE  /\ Tail(q) \in Seq(S) /\ 1 \in DOMAIN q /\ Head(q) = q[1]
           /\ \A i \in DOMAIN Tail(q) : i \in Nat /\ i + 1 \in DOMAIN q /\ Tail(q)[i] = q[i + 1]
           /\ \A i \in DOMAIN q : /\ i \in Nat
                                  /\ i = 1 \/ (i - 1 \in DOMAIN Tail(q) /\ Tail(q)[i - 1] = q[i])
<1>1. /\ Tail(q) \in Seq(S) /\ Len(q) \in Nat /\ Len(q) # 0 /\ DOMAIN q = 1..Len(q)
      /\ Head(q) = q[1]
  OBVIOUS
<1>2. Len(Tail(q)) = Len(q) - 1 /\ DOMAIN Tail(q) = 1..(Len(q) - 1)
  BY <1>1
<1>3. \A i \in 1..(Len(q) - 1) : Tail(q)[i] = q[i + 1]
  BY <1>1
<1>4. \A i \in 1..Len(q) : i = 1 \/ (i - 1 \in 1..(Len(q) - 1) /\ (i - 1) + 1 = i)
  BY <1>1
<1>5. \A i \in DOMAIN q : i = 1 \/ Tail(q)[i - 1] = q[i]
  <2> TAKE i \in DOMAIN q
  <2>1. CASE i # 1
    <3> DEFINE j == i - 1
    <3>1. j \in 1..(Len(q) - 1) /\ j + 1 = i
      BY <1>1, <1>4, <2>1
    <3> HIDE DEF j
    <3>2. Tail(q)[j] = q[i]
      BY <1>3, <3>1
    <3> QED BY <3>2 DEF j
  <2> QED BY <2>1
<1> QED BY <1>1, <1>2, <1>3, <1>4, <1>5

\* A longer queue.
LEMMA AppendLemma ==
    ASSUME NEW S, NEW q \in Seq(S), NEW e \in S
    PROVE  /\ Append(q, e) \in Seq(S)
           /\ Len(q) + 1 \in DOMAIN Append(q, e) /\ Append(q, e)[Len(q) + 1] = e
           /\ \A i \in DOMAIN q : /\ i \in DOMAIN Append(q, e) /\ Append(q, e)[i] = q[i]
                                  /\ i \in Nat /\ i < Len(q) + 1
           /\ \A i \in DOMAIN Append(q, e) : i \in DOMAIN q \/ i = Len(q) + 1
<1>1. Append(q, e) \in Seq(S) /\ Len(q) \in Nat /\ DOMAIN q = 1..Len(q)
  OBVIOUS
<1>2. Len(Append(q, e)) = Len(q) + 1 /\ DOMAIN Append(q, e) = 1..(Len(q) + 1)
  OBVIOUS
<1>3. Append(q, e)[Len(q) + 1] = e /\ \A i \in DOMAIN q : Append(q, e)[i] = q[i]
  OBVIOUS
<1> QED BY <1>1, <1>2, <1>3

\* The head of the queue is done.
LEMMA TailTasks ==
    ASSUME NEW q \in Seq(Tasks), q # <<>>, NEW u, NEW a
    PROVE  /\ WillAdd(q, u) => WillAdd(Tail(q), u) \/ IsAdd(Head(q), u)
           /\ WillDel(q, a) => WillDel(Tail(q), a) \/ IsDel(Head(q), a)
           /\ AddsLast(q, u, a) => AddsLast(Tail(q), u, a)
           /\ AddsLast(q, u, a) /\ IsDel(Head(q), a) => WillAdd(Tail(q), u)
<1>1. /\ Tail(q) \in Seq(Tasks) /\ 1 \in DOMAIN q /\ Head(q) = q[1]
      /\ \A i \in DOMAIN Tail(q) : i \in Nat /\ i + 1 \in DOMAIN q /\ Tail(q)[i] = q[i + 1]
      /\ \A i \in DOMAIN q : /\ i \in Nat
                             /\ i = 1 \/ (i - 1 \in DOMAIN Tail(q) /\ Tail(q)[i - 1] = q[i])
  BY TailLemma
<1>2. WillAdd(q, u) => WillAdd(Tail(q), u) \/ IsAdd(Head(q), u)
  BY <1>1 DEF WillAdd
<1>3. WillDel(q, a) => WillDel(Tail(q), a) \/ IsDel(Head(q), a)
  BY <1>1 DEF WillDel
<1>4. ASSUME AddsLast(q, u, a) PROVE AddsLast(Tail(q), u, a)
  <2> SUFFICES ASSUME NEW i \in DOMAIN Tail(q), IsDel(Tail(q)[i], a)
               PROVE  \E j \in DOMAIN Tail(q) : i < j /\ IsAdd(Tail(q)[j], u)
    BY DEF AddsLast
  <2>1. i \in Nat /\ i + 1 \in DOMAIN q /\ IsDel(q[i + 1], a)
    BY <1>1
  <2>2. PICK j \in DOMAIN q : i + 1 < j /\ IsAdd(q[j], u)
    BY <1>4, <2>1 DEF AddsLast
  <2>3. j \in Nat /\ j # 1
    BY <1>1, <2>1, <2>2
  <2>4. j - 1 \in DOMAIN Tail(q) /\ IsAdd(Tail(q)[j - 1], u) /\ i < j - 1
    BY <1>1, <2>1, <2>2, <2>3
  <2> QED BY <2>4
<1>5. ASSUME AddsLast(q, u, a), IsDel(Head(q), a) PROVE WillAdd(Tail(q), u)
  <2>1. PICK j \in DOMAIN q : 1 < j /\ IsAdd(q[j], u)
    BY <1>1, <1>5 DEF AddsLast
  <2>2. j - 1 \in DOMAIN Tail(q) /\ Tail(q)[j - 1] = q[j]
    BY <1>1, <2>1
  <2> QED BY <2>1, <2>2 DEF WillAdd
<1> QED BY <1>2, <1>3, <1>4, <1>5

\* A task joins the queue.
LEMMA AppendTasks ==
    ASSUME NEW q \in Seq(Tasks), NEW t \in Tasks, NEW u, NEW a
    PROVE  /\ WillAdd(q, u) \/ IsAdd(t, u) => WillAdd(Append(q, t), u)
           /\ WillDel(q, a) \/ IsDel(t, a) => WillDel(Append(q, t), a)
           /\ AddsLast(q, u, a) /\ ~IsDel(t, a) => AddsLast(Append(q, t), u, a)
           /\ IsAdd(t, u) => AddsLast(Append(q, t), u, a)
<1> DEFINE r == Append(q, t)
           n == Len(q) + 1
<1>1. /\ r \in Seq(Tasks) /\ n \in DOMAIN r /\ r[n] = t
      /\ \A i \in DOMAIN q : i \in DOMAIN r /\ r[i] = q[i] /\ i \in Nat /\ i < n
      /\ \A i \in DOMAIN r : i \in DOMAIN q \/ i = n
  BY AppendLemma
<1> HIDE DEF r, n
<1>2. WillAdd(q, u) \/ IsAdd(t, u) => WillAdd(r, u)
  BY <1>1 DEF WillAdd
<1>3. WillDel(q, a) \/ IsDel(t, a) => WillDel(r, a)
  BY <1>1 DEF WillDel
<1>4. AddsLast(q, u, a) /\ ~IsDel(t, a) => AddsLast(r, u, a)
  BY <1>1 DEF AddsLast
<1>5. IsAdd(t, u) => AddsLast(r, u, a)
  BY <1>1 DEF AddsLast, IsAdd, IsDel
<1> QED BY <1>2, <1>3, <1>4, <1>5 DEF r

-----------------------------------------------------------------------------
\* The index and the queue stay: packets may go, and those that come or stay
\* are attached as the index says or as they were.
LEMMA PacketsKeep ==
    ASSUME RegistryInv, AttachInv, UNCHANGED <<ipIndex, tasks, missed>>,
           \A k \in DOMAIN packets', s \in Sides :
             \/ k \in DOMAIN packets /\ packets'[k].present[s] = packets[k].present[s]
                                     /\ packets'[k].user[s] = packets[k].user[s]
             \/ /\ packets'[k].present[s] <=> FindByIPIdx(AddrOf(k, s)) # NoUser
                /\ packets'[k].user[s] = FindByIPIdx(AddrOf(k, s))
    PROVE  RegistryInv' /\ AttachInv'
<1>1. RegistryInv'
  BY DEF RegistryInv
<1>2. AttachInv'
  <2> SUFFICES ASSUME NEW k \in DOMAIN packets', NEW s \in Sides
               PROVE  LET a == AddrOf(k, s)
                      IN  /\ a \notin Addrs => ~packets'[k].present[s]
                          /\ a \in Addrs \ missed /\ ipIndex[a] = NoUser =>
                               (packets'[k].present[s] => WillDel(tasks, a))
                          /\ a \in Addrs \ missed /\ ipIndex[a] # NoUser =>
                               \/ packets'[k].present[s] /\ packets'[k].user[s] = ipIndex[a]
                               \/ WillAdd(tasks, ipIndex[a])
    BY DEF AttachInv
  <2>1. CASE k \in DOMAIN packets /\ packets'[k].present[s] = packets[k].present[s]
                                  /\ packets'[k].user[s] = packets[k].user[s]
    BY <2>1 DEF AttachInv
  <2>2. CASE /\ packets'[k].present[s] <=> FindByIPIdx(AddrOf(k, s)) # NoUser
             /\ packets'[k].user[s] = FindByIPIdx(AddrOf(k, s))
    BY <2>2 DEF FindByIPIdx
  <2> QED BY <2>1, <2>2
<1> QED BY <1>1, <1>2

\* An address changes hands: the user's packets stay as they are, and the
\* task that will set them right is the last of the queue.
LEMMA AnnounceKeeps ==
    ASSUME TypeInv, RegistryInv, AttachInv, NEW u \in Users, NEW a \in Addrs,
           afterIPChange(u, a) \/ beforeIPChange(u, a)
    PROVE  RegistryInv' /\ AttachInv'
<1>1. /\ ipIndex' \in [Addrs -> Users \cup {NoUser}]
      /\ \A b \in Addrs : b # a => ipIndex'[b] = ipIndex[b]
      /\ packets' = packets
  BY DEF afterIPChange, beforeIPChange, RegistryInv
<1>2. CASE u \notin notified
  <2>1. tasks' = tasks /\ missed' = missed \cup {a}
    BY <1>2 DEF afterIPChange, beforeIPChange, Announce
  <2>2. RegistryInv'
    BY <1>1, <2>1 DEF RegistryInv
  <2>3. AttachInv'
    BY <1>1, <2>1 DEF AttachInv
  <2> QED BY <2>2, <2>3
<1>3. CASE u \in notified
  <2>1. CASE afterIPChange(u, a)
    <3> DEFINE t == [op |-> "AddUser", user |-> u]
    <3>1. tasks' = Append(tasks, t) /\ missed' = missed \ {a} /\ ipIndex'[a] = u
      BY <1>3, <2>1 DEF afterIPChange, Announce, Enqueue, RegistryInv
    <3>2. t \in Tasks /\ IsAdd(t, u) /\ \A b : ~IsDel(t, b)
      BY DEF Tasks, IsAdd, IsDel
    <3> HIDE DEF t
    <3>3. tasks \in Seq(Tasks) /\ tasks' \in Seq(Tasks)
      BY <3>1, <3>2, AppendLemma DEF RegistryInv
    <3>4. \A b \in Addrs \ missed' : ipIndex'[b] # NoUser => AddsLast(tasks', ipIndex'[b], b)
      BY <1>1, <3>1, <3>2, <3>3, AppendTasks DEF RegistryInv
    <3>5. WillAdd(tasks', u)
      BY <3>1, <3>2, <3>3, AppendTasks
    <3>6. \A v, b : /\ WillAdd(tasks, v) => WillAdd(tasks', v)
                    /\ WillDel(tasks, b) => WillDel(tasks', b)
      BY <3>1, <3>2, <3>3, AppendTasks
    <3>7. AttachInv'
      BY <1>1, <3>1, <3>5, <3>6, TraffCounterConstants DEF AttachInv
    <3> QED BY <1>1, <3>3, <3>4, <3>7 DEF RegistryInv
  <2>2. CASE beforeIPChange(u, a)
    <3> DEFINE t == [op |-> "DelUser", addr |-> a]
    <3>1. tasks' = Append(tasks, t) /\ missed' = missed \ {a} /\ ipIndex'[a] = NoUser
      BY <1>3, <2>2 DEF beforeIPChange, Announce, Enqueue, RegistryInv
    <3>2. t \in Tasks /\ IsDel(t, a) /\ \A b : b # a => ~IsDel(t, b)
      BY DEF Tasks, IsDel
    <3> HIDE DEF t
    <3>3. tasks \in Seq(Tasks) /\ tasks' \in Seq(Tasks)
      BY <3>1, <3>2, AppendLemma DEF RegistryInv
    <3>4. \A b \in Addrs \ missed' : ipIndex'[b] # NoUser => AddsLast(tasks', ipIndex'[b], b)
      BY <1>1, <3>1, <3>2, <3>3, AppendTasks DEF RegistryInv
    <3>5. WillDel(tasks', a)
      BY <3>1, <3>2, <3>3, AppendTasks
    <3>6. \A v, b : /\ WillAdd(tasks, v) => WillAdd(tasks', v)
                    /\ WillDel(tasks, b) => WillDel(tasks', b)
      BY <3>1, <3>2, <3>3, AppendTasks
    <3>7. AttachInv'
      BY <1>1, <3>1, <3>5, <3>6 DEF AttachInv
    <3> QED BY <1>1, <3>3, <3>4, <3>7 DEF RegistryInv
  <2> QED BY <2>1, <2>2
<1> QED BY <1>2, <1>3

\* A task about the callbacks of a user says nothing of addresses.
LEMMA NotifiersKeep ==
    ASSUME RegistryInv, AttachInv, NEW u \in Users, onImplAdd(u) \/ onImplDel(u)
    PROVE  RegistryInv' /\ AttachInv'
<1>1. UNCHANGED <<ipIndex, packets, missed>>
  BY DEF onImplAdd, onImplDel
<1>2. PICK t \in Tasks : tasks' = Append(tasks, t) /\ \A b : ~IsDel(t, b)
  <2>1. \E op \in {"SetUserNotifiers", "UnSetUserNotifiers"} :
          tasks' = Append(tasks, [op |-> op, user |-> u])
    BY DEF onImplAdd, onImplDel, Enqueue
  <2>2. ASSUME NEW op \in {"SetUserNotifiers", "UnSetUserNotifiers"}
        PROVE  [op |-> op, user |-> u] \in Tasks /\ \A b : ~IsDel([op |-> op, user |-> u], b)
    BY DEF Tasks, IsDel
  <2> QED BY <2>1, <2>2
<1>3. tasks \in Seq(Tasks) /\ tasks' \in Seq(Tasks)
  BY <1>2, AppendLemma DEF RegistryInv
<1>4. \A v, b : /\ WillAdd(tasks, v) => WillAdd(tasks', v)
                /\ WillDel(tasks, b) => WillDel(tasks', b)
                /\ AddsLast(tasks, v, b) => AddsLast(tasks', v, b)
  BY <1>2, <1>3, AppendTasks
<1>5. RegistryInv'
  BY <1>1, <1>3, <1>4 DEF RegistryInv
<1>6. AttachInv'
  BY <1>1, <1>4 DEF AttachInv
<1> QED BY <1>5, <1>6

-----------------------------------------------------------------------------
\* The task at the head is done: what a packet is owed is given to it or
\* still waits.
LEMMA TasksKeep ==
    ASSUME TypeInv, RegistryInv, AttachInv, RunTask
    PROVE  RegistryInv' /\ AttachInv'
<1> DEFINE task == Head(tasks)
<1>1. /\ tasks \in Seq(Tasks) /\ tasks # <<>> /\ tasks' = Tail(tasks) /\ ipIndex' = ipIndex
      /\ missed \subseteq missed'
  BY DEF RunTask, RegistryInv
<1>2. tasks' \in Seq(Tasks) /\ task \in Tasks
  BY <1>1, TailLemma
<1>3. ASSUME NEW u, NEW a
      PROVE  /\ WillAdd(tasks, u) => WillAdd(tasks', u) \/ IsAdd(task, u)
             /\ WillDel(tasks, a) => WillDel(tasks', a) \/ IsDel(task, a)
             /\ AddsLast(tasks, u, a) => AddsLast(tasks', u, a)
             /\ AddsLast(tasks, u, a) /\ IsDel(task, a) => WillAdd(tasks', u)
  BY <1>1, TailTasks
<1> HIDE DEF task
<1>4. RegistryInv'
  BY <1>1, <1>2, <1>3 DEF RegistryInv
<1>5. CASE task.op = "AddUser"
  <2> DEFINE u == task.user
  <2>1. AddUser(u) /\ missed' = missed
    BY <1>5 DEF RunTask, task
  <2>2. u \in Users /\ \A b : ~IsDel(task, b)
    BY <1>2, <1>5 DEF Tasks, IsDel
  <2>3. \A v : IsAdd(task, v) => v = u
    BY DEF IsAdd
  <2> HIDE DEF u
  <2>4. /\ DOMAIN packets' = DOMAIN packets
        /\ \A k \in DOMAIN packets, s \in Sides :
             IF AddrOf(k, s) \in CurrIPs(u)
             THEN packets'[k].present[s] /\ packets'[k].user[s] = u
             ELSE /\ packets'[k].present[s] = packets[k].present[s]
                  /\ packets'[k].user[s] = packets[k].user[s]
    BY <2>1, AddUserEffect
  <2>5. AttachInv'
    <3> SUFFICES ASSUME NEW k \in DOMAIN packets, NEW s \in Sides
                 PROVE  LET a == AddrOf(k, s)
                        IN  /\ a \notin Addrs => ~packets'[k].present[s]
                            /\ a \in Addrs \ missed /\ ipIndex[a] = NoUser =>
                                 (packets'[k].present[s] => WillDel(tasks', a))
                            /\ a \in Addrs \ missed /\ ipIndex[a] # NoUser =>
                                 \/ packets'[k].present[s] /\ packets'[k].user[s] = ipIndex[a]
                                 \/ WillAdd(tasks', ipIndex[a])
      BY <1>1, <2>1, <2>4 DEF AttachInv
    <3>1. CASE AddrOf(k, s) \in CurrIPs(u)
      <4>1. AddrOf(k, s) \in Addrs /\ ipIndex[AddrOf(k, s)] = u /\ u # NoUser
        BY <2>2, <3>1, TraffCounterConstants DEF CurrIPs
      <4> QED BY <2>4, <3>1, <4>1
    <3>2. CASE AddrOf(k, s) \notin CurrIPs(u)
      <4>1. AddrOf(k, s) \in Addrs => ipIndex[AddrOf(k, s)] # u
        BY <3>2 DEF CurrIPs
      <4>2. /\ packets'[k].present[s] = packets[k].present[s]
            /\ packets'[k].user[s] = packets[k].user[s]
        BY <2>4, <3>2
      <4> QED BY <1>3, <2>2, <2>3, <4>1, <4>2 DEF AttachInv
    <3> QED BY <3>1, <3>2
  <2> QED BY <1>4, <2>5
<1>6. ASSUME NEW addrs, DelUser(addrs), \A v : ~IsAdd(task, v),
             \A b \in addrs : b \in Addrs /\ (b \in missed' \/ IsDel(task, b)),
             \A b : IsDel(task, b) => b \in addrs
      PROVE  AttachInv'
  <2>1. /\ DOMAIN packets' = DOMAIN packets
        /\ \A k \in DOMAIN packets, s \in Sides :
             /\ packets'[k].user[s] = packets[k].user[s]
             /\ IF AddrOf(k, s) \in addrs THEN ~packets'[k].present[s]
                ELSE packets'[k].present[s] = packets[k].present[s]
    BY <1>6, DelUserEffect
  <2> SUFFICES ASSUME NEW k \in DOMAIN packets, NEW s \in Sides
               PROVE  LET a == AddrOf(k, s)
                      IN  /\ a \notin Addrs => ~packets'[k].present[s]
                          /\ a \in Addrs \ missed' /\ ipIndex[a] = NoUser =>
                               (packets'[k].present[s] => WillDel(tasks', a))
                          /\ a \in Addrs \ missed' /\ ipIndex[a] # NoUser =>
                               \/ packets'[k].present[s] /\ packets'[k].user[s] = ipIndex[a]
                               \/ WillAdd(tasks', ipIndex[a])
    BY <1>1, <2>1 DEF AttachInv
  <2>2. CASE AddrOf(k, s) \in addrs
    BY <1>1, <1>3, <1>6, <2>1, <2>2 DEF RegistryInv
  <2>3. CASE AddrOf(k, s) \notin addrs
    BY <1>1, <1>3, <1>6, <2>1, <2>3 DEF AttachInv
  <2> QED BY <2>2, <2>3
<1>7. CASE task.op = "DelUser"
  <2>1. DelUser({task.addr}) /\ task.addr \in Addrs
    BY <1>2, <1>7 DEF RunTask, task, Tasks
  <2>2. IsDel(task, task.addr) /\ (\A b : IsDel(task, b) => b = task.addr) /\ \A v : ~IsAdd(task, v)
    BY <1>7 DEF IsDel, IsAdd
  <2> QED BY <1>4, <1>6, <2>1, <2>2
<1>8. CASE task.op = "SetUserNotifiers"
  <2>1. packets' = packets /\ missed' = missed
    BY <1>8 DEF RunTask, task
  <2>2. \A v : ~IsAdd(task, v) /\ ~IsDel(task, v)
    BY <1>8 DEF IsDel, IsAdd
  <2>3. AttachInv'
    BY <1>1, <1>3, <2>1, <2>2 DEF AttachInv
  <2> QED BY <1>4, <2>3
<1>9. CASE task.op = "UnSetUserNotifiers"
  <2>1. DelUser(CurrIPs(task.user)) /\ CurrIPs(task.user) \subseteq missed'
    BY <1>9 DEF RunTask, task
  <2>2. \A v : ~IsAdd(task, v) /\ ~IsDel(task, v)
    BY <1>9 DEF IsDel, IsAdd
  <2>3. CurrIPs(task.user) \subseteq Addrs
    BY DEF CurrIPs
  <2> QED BY <1>4, <1>6, <2>1, <2>2, <2>3
<1> QED BY <1>2, <1>5, <1>7, <1>8, <1>9 DEF Tasks

-----------------------------------------------------------------------------
ChargeInv == TypeInv /\ FlushInv /\ NoDoubleCharge

Inv == ChargeInv /\ RegistryInv /\ AttachInv

\* A counter without packets.
LEMMA InitHolds == Init => Inv
<1> SUFFICES ASSUME Init PROVE Inv
  OBVIOUS
<1>1. DOMAIN packets = {} /\ tasks = <<>>
  BY DEF Init
<1>2. TypeInv
  BY <1>1 DEF Init, TypeInv
<1>3. FlushInv /\ AttachInv
  BY <1>1 DEF FlushInv, AttachInv
<1>4. NoDoubleCharge
  BY <1>1 DEF Init, NoDoubleCharge, PendingBytes
<1>5. RegistryInv
  BY <1>1 DEF Init, RegistryInv, AddsLast
<1> QED BY <1>2, <1>3, <1>4, <1>5 DEF Inv, ChargeInv

\* process keeps the whole invariant.
LEMMA ProcessAttaches ==
    ASSUME Inv, NEW key \in Keys, process(key, 1)
    PROVE  Inv'
<1>1. ChargeInv'
  BY ProcessKeeps DEF Inv, ChargeInv
<1>2. /\ \/ /\ key \in DOMAIN packets /\ DOMAIN packets' = DOMAIN packets
            /\ packets'[key] = Grown(packets[key], 1)
         \/ /\ key \notin DOMAIN packets /\ DOMAIN packets' = DOMAIN packets \cup {key}
            /\ packets'[key] = NewPacket(key, 1)
         \/ key \notin DOMAIN packets /\ packets' = packets
      /\ \A k \in DOMAIN packets : k # key => packets'[k] = packets[k]
      /\ UNCHANGED registry
  BY ProcessEffect DEF Inv, ChargeInv
<1>3. stgTime \in Nat /\ \A k \in DOMAIN packets : Fields(packets[k])
  BY DEF Inv, ChargeInv, TypeInv
<1>4. ASSUME NEW k \in DOMAIN packets', NEW s \in Sides
      PROVE  \/ k \in DOMAIN packets /\ packets'[k].present[s] = packets[k].present[s]
                                     /\ packets'[k].user[s] = packets[k].user[s]
             \/ /\ packets'[k].present[s] <=> FindByIPIdx(AddrOf(k, s)) # NoUser
                /\ packets'[k].user[s] = FindByIPIdx(AddrOf(k, s))
  <2>1. CASE k # key \/ packets' = packets
    BY <1>2, <2>1
  <2>2. CASE k = key /\ packets'[key] = NewPacket(key, 1)
    BY <1>3, <2>2, NewPacketLemma
  <2>3. CASE k = key /\ key \in DOMAIN packets /\ packets'[key] = Grown(packets[key], 1)
    <3> DEFINE p == packets[key]
               q == packets'[key]
    <3>1. Fields(p) /\ q = Grown(p, 1)
      BY <1>3, <2>3
    <3> HIDE DEF p, q
    <3>2. q.present = p.present /\ q.user = p.user
      BY <1>3, <3>1, GrownLemma
    <3> QED BY <2>3, <3>2 DEF p, q
  <2> QED BY <1>2, <2>1, <2>2, <2>3
<1>5. UNCHANGED <<ipIndex, tasks, missed>>
  BY <1>2 DEF registry
<1> QED BY <1>1, <1>4, <1>5, PacketsKeep DEF Inv

\* FlushAndRemove keeps the whole invariant.
LEMMA FlushAttaches ==
    ASSUME Inv, FlushAndRemove
    PROVE  Inv'
<1>1. ChargeInv'
  BY FlushKeeps DEF Inv, ChargeInv
<1>2. /\ DOMAIN packets' \subseteq DOMAIN packets
      /\ \A k \in DOMAIN packets' : /\ packets'[k].present = packets[k].present
                                    /\ packets'[k].user = packets[k].user
      /\ UNCHANGED registry
  BY FlushEffect DEF Inv, ChargeInv
<1>3. UNCHANGED <<ipIndex, tasks, missed>>
  BY <1>2 DEF registry
<1> QED BY <1>1, <1>2, <1>3, PacketsKeep DEF Inv

\* Steps that leave the packets and the ledger alone.
LEMMA ClockKeeps ==
    ASSUME Inv, UNCHANGED <<packets, seen, reported, registry>>,
           stgTime' = stgTime \/ stgTime' = stgTime + 1
    PROVE  Inv'
<1>1. stgTime' \in Nat /\ stgTime <= stgTime'
  BY DEF Inv, ChargeInv, TypeInv
<1>2. ChargeInv'
  BY <1>1, IdleKeeps DEF Inv, ChargeInv
<1>3. UNCHANGED <<ipIndex, tasks, missed>>
  BY DEF registry
<1> QED BY <1>2, <1>3, PacketsKeep DEF Inv

\* Every step keeps it.
LEMMA StepKeeps == Inv /\ [Next]_vars => Inv'
<1> SUFFICES ASSUME Inv, [Next]_vars PROVE Inv'
  OBVIOUS
<1>1. ASSUME NEW k \in Keys, process(k, 1) PROVE Inv'
  BY <1>1, ProcessAttaches
<1>2. CASE Run \/ Stop
  <2>1. CASE FlushAndRemove
    BY <2>1, FlushAttaches
  <2>2. CASE UNCHANGED <<stgTime, registry, rules, packets, ledger>>
    BY <2>2, ClockKeeps DEF ledger
  <2> QED BY <1>2, <2>1, <2>2 DEF Run, Stop
<1>3. CASE Reload
  BY <1>3, ClockKeeps DEF Reload, ledger
<1>4. CASE Tick
  BY <1>4, ClockKeeps DEF Tick, ledger
<1>5. CASE RunTask
  <2>1. RegistryInv' /\ AttachInv'
    BY <1>5, TasksKeep DEF Inv, ChargeInv
  <2>2. UNCHANGED <<stgTime, seen>>
    BY <1>5 DEF RunTask
  <2>3. \/ \E u : AddUser(u)
        \/ \E addrs : DelUser(addrs)
        \/ UNCHANGED <<packets, reported>>
    BY <1>5, Zenon DEF RunTask
  <2>4. stgTime' \in Nat /\ stgTime <= stgTime'
    BY <2>2 DEF Inv, ChargeInv, TypeInv
  <2>5. ChargeInv'
    BY <2>2, <2>3, <2>4, AddUserKeeps, DelUserKeeps, IdleKeeps DEF Inv, ChargeInv
  <2> QED BY <2>1, <2>5 DEF Inv
<1>6. ASSUME NEW u \in Users, NEW a \in Addrs, afterIPChange(u, a) \/ beforeIPChange(u, a) PROVE Inv'
  <2>1. RegistryInv' /\ AttachInv'
    BY <1>6, AnnounceKeeps DEF Inv, ChargeInv
  <2>2. UNCHANGED <<stgTime, packets, seen, reported>>
    BY <1>6 DEF afterIPChange, beforeIPChange, ledger
  <2>3. ChargeInv'
    BY <2>2, IdleKeeps DEF Inv, ChargeInv, TypeInv
  <2> QED BY <2>1, <2>3 DEF Inv
<1>7. ASSUME NEW u \in Users, onImplAdd(u) \/ onImplDel(u) PROVE Inv'
  <2>1. RegistryInv' /\ AttachInv'
    BY <1>7, NotifiersKeep DEF Inv
  <2>2. UNCHANGED <<stgTime, packets, seen, reported>>
    BY <1>7 DEF onImplAdd, onImplDel, ledger
  <2>3. ChargeInv'
    BY <2>2, IdleKeeps DEF Inv, ChargeInv, TypeInv
  <2> QED BY <2>1, <2>3 DEF Inv
<1>8. CASE UNCHANGED vars
  BY <1>8, ClockKeeps DEF vars, ledger
<1> QED BY <1>1, <1>2, <1>3, <1>4, <1>5, <1>6, <1>7, <1>8 DEF Next

\* No byte of a flow is charged twice to a side (traffcounter_impl.cpp:
\* 350-439, 441-520).
THEOREM NoByteChargedTwice == Spec => []NoDoubleCharge
<1>1. Inv => NoDoubleCharge
  BY DEF Inv, ChargeInv
<1> QED BY <1>1, InitHolds, StepKeeps, PTL DEF Spec

\* Attached: when the pool has applied every change of addresses, the packets
\* are attached as the index of the registry says.
THEOREM PacketsAttached == Spec => []Attached
<1>1. Inv => Attached
  <2> SUFFICES ASSUME Inv, tasks = <<>>, NEW k \in DOMAIN packets, NEW s \in Sides,
                      AddrOf(k, s) \notin missed
               PROVE  /\ packets[k].present[s] <=> FindByIPIdx(AddrOf(k, s)) # NoUser
                      /\ packets[k].present[s] => packets[k].user[s] = FindByIPIdx(AddrOf(k, s))
    BY DEF Attached
  <2>1. \A x : ~WillAdd(tasks, x) /\ ~WillDel(tasks, x)
    BY DEF WillAdd, WillDel
  <2> QED BY <2>1 DEF Inv, AttachInv, FindByIPIdx
<1> QED BY <1>1, InitHolds, StepKeeps, PTL DEF Spec

\* A packet that is removed has reported what it held.
LEMMA RemovedIsReported ==
    ASSUME Inv, FlushAndRemove, NEW k \in DOMAIN packets \ DOMAIN packets', NEW s \in Sides
    PROVE  reported'[k][s] = reported[k][s] + PendingBytes(k, s)
<1>1. TypeInv /\ FlushInv
  BY DEF Inv, ChargeInv
<1>2. k \in Keys /\ Fields(packets[k]) /\ packets[k].flushTime <= stgTime
      /\ packets[k].updateTime <= stgTime /\ stgTime \in Nat /\ reported[k][s] \in Nat
  BY <1>1 DEF TypeInv
<1>3. ~Stays(packets[k])
  BY <1>1, FlushEffect
<1>4. CASE DueForFlush(packets[k])
  BY <1>1, <1>2, <1>4, FlushReports
<1>5. CASE ~DueForFlush(packets[k])
  <2>1. packets[k].updateTime < packets[k].flushTime
    BY <1>2, <1>3, <1>5, TraffCounterConstants DEF Stays, DueForFlush, Fields
  <2>2. PendingBytes(k, s) = 0
    BY <1>1, <2>1 DEF FlushInv, PendingBytes, Reports
  <2>3. reported'[k][s] = reported[k][s]
    BY <1>1, <1>2, <1>5, FlushReports
  <2> QED BY <1>2, <2>2, <2>3
<1> QED BY <1>4, <1>5

\* FlushAndRemove drops a packet only with nothing left to report.
THEOREM ExpiryLosesNothing == Spec => NothingLostOnExpiry
<1> DEFINE Reported == \A k \in DOMAIN packets \ DOMAIN packets', s \in Sides :
                         reported'[k][s] = reported[k][s] + PendingBytes(k, s)
<1>1. Inv /\ [Next]_vars => [Reported]_vars
  <2> SUFFICES ASSUME Inv, Next PROVE Reported
    OBVIOUS
  <2>1. CASE FlushAndRemove
    BY <2>1, RemovedIsReported
  <2>2. ASSUME DOMAIN packets \subseteq DOMAIN packets' PROVE Reported
    BY <2>2
  <2>3. ASSUME NEW k \in Keys, process(k, 1) PROVE Reported
    BY <2>2, <2>3, ProcessEffect DEF Inv, ChargeInv
  <2>4. CASE RunTask
    <3>1. \/ \E u : AddUser(u)
          \/ \E addrs : DelUser(addrs)
          \/ UNCHANGED packets
      BY <2>4, Zenon DEF RunTask
    <3> QED BY <2>2, <3>1, AddUserEffect, DelUserEffect DEF Inv, ChargeInv
  <2>5. CASE UNCHANGED packets
    BY <2>2, <2>5
  <2> QED BY <2>1, <2>3, <2>4, <2>5
          DEF Next, Run, Stop, Reload, Tick, afterIPChange, beforeIPChange, onImplAdd, onImplDel
<1> QED BY <1>1, InitHolds, StepKeeps, PTL DEF Spec, NothingLostOnExpiry
=============================================================================
