--------------------------- MODULE MessagesProofs ---------------------------
(***************************************************************************)
(* Proofs about Messages, for any messages, any repetitions and any number *)
(* of failures.                                                            *)
(***************************************************************************)
EXTENDS Messages, FiniteSetTheorems, TLAPS

\* A message that waits, in memory or in the store.
Msg == [id : Ids, created : Int, repeat : Int, last : Int]

\* The types of the variables but for the vector.
MsgTypes ==
    /\ stgTime \in Nat /\ it \in Nat /\ failures \in Nat /\ sent \in BOOLEAN
    /\ store = [i \in DOMAIN store |-> store[i]] /\ DOMAIN store \subseteq Ids
    /\ \A i \in DOMAIN store : store[i] \in Msg /\ store[i].id = i
    /\ asked \in [Ids -> Int] /\ sends \in [Ids -> Nat]

\* The type of the vector.
MemType == messages \in Seq(Msg)

\* What is asked for is a number of repetitions, or nothing yet.
AskedInv == \A i \in Ids : asked[i] = -1 \/ asked[i] >= 0

\* One copy of a message in memory, which the store has too.
CopyInv ==
    /\ \A k, l \in DOMAIN messages : messages[k].id = messages[l].id => k = l
    /\ \A k \in DOMAIN messages : /\ messages[k].id \in DOMAIN store
                                  /\ store[messages[k].id].repeat >= messages[k].repeat
    /\ failures = 0 => \A i \in DOMAIN store : \E k \in DOMAIN messages : messages[k].id = i

\* The message at "it" was sent, and the store does not know yet.
Pending(i) == sent /\ messages[it].id = i

\* How many sendings are left, in memory and in the store.
LeftInv ==
    /\ sent => it \in DOMAIN messages
    /\ \A k \in DOMAIN messages :
         /\ sends[messages[k].id] + messages[k].repeat <= asked[messages[k].id] + failures
         /\ messages[k].repeat >= 0 \/ (sent /\ k = it /\ messages[k].repeat = -1)
    /\ \A i \in DOMAIN store :
         /\ asked[i] >= 0
         /\ \/ sends[i] + store[i].repeat <= asked[i] + failures
            \/ Pending(i) /\ sends[i] + store[i].repeat <= asked[i] + failures + 1
    /\ \A i \in Ids : IF asked[i] = -1 THEN sends[i] = 0 ELSE sends[i] <= asked[i] + 1 + failures

\* The inductive invariant.
MsgInv == MsgTypes /\ MemType /\ AskedInv /\ CopyInv /\ LeftInv

\* The part of a sequence from k to l.
LEMMA PartOf ==
    ASSUME NEW S, NEW s \in Seq(S), NEW k \in Int, NEW l \in Int, 1 <= k, l <= Len(s)
    PROVE  /\ SubSeq(s, k, l) \in Seq(S)
           /\ Len(SubSeq(s, k, l)) = IF k <= l THEN l - k + 1 ELSE 0
           /\ \A i \in 1..(l - k + 1) : SubSeq(s, k, l)[i] = s[k + i - 1]
  OBVIOUS

\* Two sequences one after the other.
LEMMA Joined ==
    ASSUME NEW S, NEW a \in Seq(S), NEW b \in Seq(S)
    PROVE  /\ a \o b \in Seq(S) /\ Len(a \o b) = Len(a) + Len(b)
           /\ \A i \in 1..(Len(a) + Len(b)) :
                (a \o b)[i] = IF i <= Len(a) THEN a[i] ELSE b[i - Len(a)]
  OBVIOUS

\* e is the pieces a and b of s, before its place k and after it.
Pieces(n, k, s, a, b, e) ==
    /\ \A j \in 1..(k - 1) : a[j] = s[1 + j - 1]
    /\ \A j \in 1..(n - (k + 1) + 1) : b[j] = s[k + 1 + j - 1]
    /\ \A j \in 1..(n - 1) : e[j] = IF j <= k - 1 THEN a[j] ELSE b[j - (k - 1)]

\* e is s without its place k.
Without(n, k, s, e) ==
    /\ \A j \in 1..(n - 1) : IF j < k THEN j \in 1..n /\ e[j] = s[j]
                             ELSE j + 1 \in 1..n /\ e[j] = s[j + 1]
    /\ \A j \in 1..n : j # k => \E l \in 1..(n - 1) : e[l] = s[j]

\* The pieces before and after a place hold everything but that place.
LEMMA Gap ==
    ASSUME NEW n \in Nat, NEW k \in 1..n, NEW s, NEW a, NEW b, NEW e, Pieces(n, k, s, a, b, e)
    PROVE  Without(n, k, s, e)
<1> USE DEF Pieces
<1>1. ASSUME NEW j \in 1..(n - 1)
      PROVE  IF j < k THEN j \in 1..n /\ e[j] = s[j] ELSE j + 1 \in 1..n /\ e[j] = s[j + 1]
  <2>1. CASE j < k
    <3>1. j \in 1..(k - 1) /\ 1 + j - 1 = j /\ j <= k - 1 /\ j \in 1..n
      BY <2>1
    <3> QED BY <2>1, <3>1
  <2>2. CASE ~(j < k)
    <3>1. /\ j - (k - 1) \in 1..(n - (k + 1) + 1) /\ k + 1 + (j - (k - 1)) - 1 = j + 1
          /\ ~(j <= k - 1) /\ j + 1 \in 1..n
      BY <2>2
    <3> QED BY <2>2, <3>1
  <2> QED BY <2>1, <2>2
<1>2. ASSUME NEW j \in 1..n, j # k PROVE \E l \in 1..(n - 1) : e[l] = s[j]
  <2>1. CASE j < k
    <3>1. j \in 1..(n - 1)
      BY <2>1
    <3> QED BY <1>1, <2>1, <3>1
  <2>2. CASE j > k
    <3>1. j - 1 \in 1..(n - 1) /\ ~(j - 1 < k) /\ (j - 1) + 1 = j
      BY <2>2
    <3>2. e[j - 1] = s[(j - 1) + 1]
      BY <1>1, <3>1
    <3> QED BY <3>1, <3>2
  <2> QED BY <1>2, <2>1, <2>2
<1> QED BY <1>1, <1>2 DEF Without

\* messages.erase leaves all elements but one, in their order.
LEMMA EraseElements ==
    ASSUME NEW S, NEW s \in Seq(S), NEW k \in DOMAIN s
    PROVE  LET e == SubSeq(s, 1, k - 1) \o SubSeq(s, k + 1, Len(s))
           IN  /\ e \in Seq(S) /\ Len(e) = Len(s) - 1 /\ DOMAIN e = 1..(Len(s) - 1)
               /\ Without(Len(s), k, s, e)
<1> DEFINE a == SubSeq(s, 1, k - 1)
           b == SubSeq(s, k + 1, Len(s))
           e == a \o b
<1>1. Len(s) \in Nat /\ DOMAIN s = 1..Len(s) /\ k \in 1..Len(s)
  OBVIOUS
<1>a. /\ a \in Seq(S) /\ Len(a) = k - 1
      /\ \A j \in 1..(k - 1) : a[j] = s[1 + j - 1]
  <2>1. k - 1 \in Int /\ 1 \in Int /\ 1 <= 1 /\ k - 1 <= Len(s) /\ k - 1 - 1 + 1 = k - 1
        /\ k - 1 = IF 1 <= k - 1 THEN k - 1 - 1 + 1 ELSE 0
    BY <1>1
  <2>2. /\ a \in Seq(S) /\ Len(a) = (IF 1 <= k - 1 THEN k - 1 - 1 + 1 ELSE 0)
        /\ \A i \in 1..(k - 1 - 1 + 1) : a[i] = s[1 + i - 1]
    BY <2>1, PartOf
  <2> QED BY <2>1, <2>2, Zenon
<1>b. /\ b \in Seq(S) /\ Len(b) = Len(s) - k
      /\ \A j \in 1..(Len(s) - (k + 1) + 1) : b[j] = s[k + 1 + j - 1]
  <2>1. k + 1 \in Int /\ Len(s) \in Int /\ 1 <= k + 1 /\ Len(s) <= Len(s)
        /\ Len(s) - k = IF k + 1 <= Len(s) THEN Len(s) - (k + 1) + 1 ELSE 0
    BY <1>1
  <2>2. /\ b \in Seq(S) /\ Len(b) = (IF k + 1 <= Len(s) THEN Len(s) - (k + 1) + 1 ELSE 0)
        /\ \A i \in 1..(Len(s) - (k + 1) + 1) : b[i] = s[k + 1 + i - 1]
    BY <2>1, PartOf
  <2> QED BY <2>1, <2>2, Zenon
<1> HIDE DEF a, b
<1>e. /\ e \in Seq(S) /\ Len(e) = Len(s) - 1 /\ DOMAIN e = 1..(Len(s) - 1)
      /\ \A j \in 1..(Len(s) - 1) : e[j] = IF j <= k - 1 THEN a[j] ELSE b[j - (k - 1)]
  <2>1. /\ e \in Seq(S) /\ Len(e) = Len(a) + Len(b)
        /\ \A i \in 1..(Len(a) + Len(b)) : e[i] = IF i <= Len(a) THEN a[i] ELSE b[i - Len(a)]
    BY <1>a, <1>b, Joined
  <2> HIDE DEF e
  <2>2. (k - 1) + (Len(s) - k) = Len(s) - 1
    BY <1>1
  <2>3. Len(a) + Len(b) = Len(s) - 1 /\ Len(a) = k - 1
    BY <1>a, <1>b, <2>2, Zenon
  <2>4. DOMAIN e = 1..Len(e)
    BY <2>1
  <2> QED BY <2>1, <2>3, <2>4, Zenon
<1> HIDE DEF e
<1>6. Pieces(Len(s), k, s, a, b, e)
  BY <1>a, <1>b, <1>e, Zenon DEF Pieces
<1>7. Without(Len(s), k, s, e)
  BY <1>1, <1>6, Gap
<1> QED BY <1>e, <1>7 DEF a, b, e

\* A message that is sent keeps its name and has one repetition less.
LEMMA Sent ==
    ASSUME NEW m \in Msg, stgTime \in Nat
    PROVE  /\ SendMessage(m) \in Msg /\ SendMessage(m).id = m.id
           /\ SendMessage(m).repeat = m.repeat - 1
<1> DEFINE a == [m EXCEPT !.last = stgTime]
           b == [a EXCEPT !.repeat = @ - 1]
<1>1. a \in Msg /\ a.id = m.id /\ a.repeat = m.repeat
  BY DEF Msg
<1>2. SendMessage(m) = b
  BY DEF SendMessage, Msg
<1> HIDE DEF a
<1>3. b \in Msg /\ b.id = a.id /\ b.repeat = a.repeat - 1
  BY <1>1 DEF Msg
<1> QED BY <1>1, <1>2, <1>3

\* Every element of the vector is a message.
LEMMA Memory ==
    ASSUME MsgInv
    PROVE  /\ DOMAIN messages = 1..Len(messages) /\ Len(messages) \in Nat
           /\ \A k \in DOMAIN messages : messages[k] \in Msg /\ messages[k].id \in Ids
<1>1. /\ DOMAIN messages = 1..Len(messages) /\ Len(messages) \in Nat
      /\ \A k \in DOMAIN messages : messages[k] \in Msg
  BY DEF MsgInv, MemType
<1> QED BY <1>1 DEF Msg

\* Nothing is unsaved when no walk is at a message.
LEMMA NoWalk ==
    ASSUME MsgInv, it \notin DOMAIN messages
    PROVE  ~sent
  BY DEF MsgInv, LeftInv

\* A message that nobody asked for is nowhere.
LEMMA NotAsked ==
    ASSUME MsgInv, NEW i \in Ids, asked[i] = -1
    PROVE  i \notin DOMAIN store /\ sends[i] = 0 /\ \A k \in DOMAIN messages : messages[k].id # i
  BY DEF MsgInv, CopyInv, LeftInv

\* push_back adds one place, with the message.
LEMMA Appended ==
    ASSUME MsgInv, NEW m \in Msg, messages' = Append(messages, m)
    PROVE  \E e \in Nat : /\ e \notin DOMAIN messages /\ e # 0
                          /\ DOMAIN messages' = DOMAIN messages \cup {e}
                          /\ messages'[e] = m
                          /\ \A k \in DOMAIN messages : messages'[k] = messages[k]
                          /\ MemType'
<1>1. messages \in Seq(Msg)
  BY DEF MsgInv, MemType
<1> WITNESS Len(messages) + 1 \in Nat
<1> QED BY <1>1 DEF MemType

\* AddMessage keeps the invariant when it stores the message, sent (d = 1) or not.
LEMMA Adds ==
    ASSUME MsgInv, it = 0, UNCHANGED <<stgTime, it, sent>>,
           NEW m \in Msg, NEW n \in Nat, NEW d \in {0, 1},
           asked[m.id] = -1, asked' = [asked EXCEPT ![m.id] = n],
           sends' = [sends EXCEPT ![m.id] = @ + d],
           m.repeat >= 0, d + m.repeat <= n, AddStored(m)
    PROVE  MsgInv'
<1> DEFINE i == m.id
<1>1. i \in Ids /\ m.repeat \in Int
  BY DEF Msg
<1>2. /\ asked' \in [Ids -> Int] /\ sends' \in [Ids -> Nat]
      /\ \A j \in Ids : asked'[j] = IF j = i THEN n ELSE asked[j]
      /\ \A j \in Ids : sends'[j] = IF j = i THEN sends[j] + d ELSE sends[j]
  BY <1>1 DEF MsgInv, MsgTypes
<1>3. i \notin DOMAIN store /\ sends[i] = 0 /\ \A k \in DOMAIN messages : messages[k].id # i
  BY <1>1, NotAsked
<1>4. 0 \notin DOMAIN messages
  BY Memory
<1>5. ~sent
  BY <1>4, NoWalk
<1> HIDE DEF i
<1>a. AskedInv'
  BY <1>2 DEF MsgInv, AskedInv
<1>m. \A k \in DOMAIN messages : messages[k] \in Msg /\ messages[k].id \in Ids /\ messages[k].repeat \in Int
  BY Memory DEF Msg
<1>6. CASE Stored(m) /\ messages' = Append(messages, m)
  <2>1. PICK e \in Nat : /\ e \notin DOMAIN messages /\ e # 0
                         /\ DOMAIN messages' = DOMAIN messages \cup {e}
                         /\ messages'[e] = m
                         /\ \A k \in DOMAIN messages : messages'[k] = messages[k]
                         /\ MemType'
    BY <1>6, Appended
  <2>2. /\ DOMAIN store' = DOMAIN store \cup {i} /\ failures' = failures
        /\ store'[i] = m /\ \A j \in DOMAIN store : store'[j] = store[j]
        /\ store' = [j \in DOMAIN store' |-> store'[j]]
    BY <1>3, <1>6 DEF Stored, Put, i
  <2>3. MsgTypes'
    BY <1>1, <1>2, <2>2 DEF MsgInv, MsgTypes, i
  <2>4. CopyInv'
    BY <1>1, <1>3, <1>m, <2>1, <2>2 DEF MsgInv, CopyInv, i
  <2>5. LeftInv'
    <3>1. ~sent' /\ failures' \in Nat /\ failures \in Nat
      BY <1>5, <2>2 DEF MsgInv, MsgTypes
    <3>2. \A k \in DOMAIN messages' :
            /\ sends'[messages'[k].id] + messages'[k].repeat <= asked'[messages'[k].id] + failures'
            /\ messages'[k].repeat >= 0
      BY <1>1, <1>2, <1>3, <1>5, <1>m, <2>1, <2>2, <3>1 DEF MsgInv, LeftInv, i
    <3>3. \A j \in DOMAIN store' :
            /\ asked'[j] >= 0 /\ sends'[j] + store'[j].repeat <= asked'[j] + failures'
      BY <1>1, <1>2, <1>3, <1>5, <2>2, <3>1 DEF MsgInv, MsgTypes, LeftInv, Pending, i, Msg
    <3>4. \A j \in Ids : IF asked'[j] = -1 THEN sends'[j] = 0 ELSE sends'[j] <= asked'[j] + 1 + failures'
      BY <1>1, <1>2, <1>3, <2>2, <3>1 DEF MsgInv, LeftInv, i
    <3> QED BY <3>1, <3>2, <3>3, <3>4 DEF LeftInv, Pending
  <2> QED BY <1>a, <2>1, <2>3, <2>4, <2>5 DEF MsgInv
<1>7. CASE StoreFails /\ UNCHANGED messages
  <2>1. UNCHANGED <<messages, store>> /\ failures' = failures + 1 /\ failures \in Nat
    BY <1>7 DEF StoreFails, MsgInv, MsgTypes
  <2>2. MsgTypes' /\ MemType'
    BY <1>2, <2>1 DEF MsgInv, MsgTypes, MemType
  <2>3. CopyInv'
    BY <2>1 DEF MsgInv, CopyInv
  <2>4. LeftInv'
    <3>1. ~sent' /\ failures' \in Nat /\ failures \in Nat
      BY <1>5, <2>1
    <3>2. \A k \in DOMAIN messages' :
            /\ sends'[messages'[k].id] + messages'[k].repeat <= asked'[messages'[k].id] + failures'
            /\ messages'[k].repeat >= 0
      BY <1>1, <1>2, <1>3, <1>5, <1>m, <2>1, <3>1 DEF MsgInv, LeftInv, MsgTypes
    <3>3. \A j \in DOMAIN store' :
            /\ asked'[j] >= 0 /\ sends'[j] + store'[j].repeat <= asked'[j] + failures'
      BY <1>1, <1>2, <1>3, <1>5, <2>1, <3>1 DEF MsgInv, MsgTypes, LeftInv, Pending, Msg
    <3>4. \A j \in Ids : IF asked'[j] = -1 THEN sends'[j] = 0 ELSE sends'[j] <= asked'[j] + 1 + failures'
      BY <1>1, <1>2, <1>3, <2>1, <3>1 DEF MsgInv, LeftInv, MsgTypes
    <3> QED BY <3>1, <3>2, <3>3, <3>4 DEF LeftInv, Pending
  <2> QED BY <1>a, <2>2, <2>3, <2>4 DEF MsgInv
<1> QED BY <1>6, <1>7 DEF AddStored

\* AddMessage as a whole.
LEMMA AddStep ==
    ASSUME MsgConstants, MsgInv, NEW i \in Ids, NEW n \in Repeats, AddMessage(i, n)
    PROVE  MsgInv'
<1> DEFINE new == [id |-> i, created |-> stgTime, repeat |-> n, last |-> 0]
           one == SendMessage(new)
           two == [one EXCEPT !.repeat = @ - 1]
<1>n. n \in Nat
  BY DEF MsgConstants
<1>t. stgTime \in Nat /\ sends \in [Ids -> Nat] /\ asked \in [Ids -> Int]
  BY DEF MsgInv, MsgTypes
<1>1. new \in Msg /\ new.id = i /\ new.repeat = n
  BY <1>n, <1>t DEF Msg
<1>g. /\ it = 0 /\ asked[i] = -1 /\ UNCHANGED <<stgTime, it, sent>>
      /\ asked' = [asked EXCEPT ![i] = n]
      /\ \/ AddStored(new) /\ UNCHANGED sends
         \/ /\ sends' = [sends EXCEPT ![i] = @ + 1]
            /\ \/ one.repeat > 0 /\ AddStored(two)
               \/ one.repeat <= 0 /\ UNCHANGED <<messages, store, failures>>
  BY DEF AddMessage, NoteSend
<1> HIDE DEF new
<1>2. one \in Msg /\ one.id = i /\ one.repeat = n - 1
  BY <1>1, <1>t, Sent
<1> HIDE DEF one
<1>3. two \in Msg /\ two.id = i /\ two.repeat = n - 2
  BY <1>2, <1>n DEF Msg
<1> HIDE DEF two
<1>4. CASE AddStored(new) /\ UNCHANGED sends
  <2>1. sends' = [sends EXCEPT ![i] = @ + 0]
    BY <1>4, <1>t
  <2>2. new.repeat >= 0 /\ 0 + new.repeat <= n /\ asked' = [asked EXCEPT ![new.id] = n]
        /\ sends' = [sends EXCEPT ![new.id] = @ + 0] /\ asked[new.id] = -1 /\ 0 \in {0, 1}
    BY <1>1, <1>n, <1>g, <2>1
  <2> QED BY <1>1, <1>n, <1>g, <1>4, <2>2, Adds
<1>5. CASE sends' = [sends EXCEPT ![i] = @ + 1] /\ one.repeat > 0 /\ AddStored(two)
  <2>2. two.repeat >= 0 /\ 1 + two.repeat <= n /\ asked' = [asked EXCEPT ![two.id] = n]
        /\ sends' = [sends EXCEPT ![two.id] = @ + 1] /\ asked[two.id] = -1 /\ 1 \in {0, 1}
    BY <1>2, <1>3, <1>n, <1>g, <1>5
  <2> QED BY <1>3, <1>n, <1>g, <1>5, <2>2, Adds
<1>6. CASE sends' = [sends EXCEPT ![i] = @ + 1] /\ UNCHANGED <<messages, store, failures>>
  <2>1. /\ asked' \in [Ids -> Int] /\ sends' \in [Ids -> Nat]
        /\ \A j \in Ids : asked'[j] = IF j = i THEN n ELSE asked[j]
        /\ \A j \in Ids : sends'[j] = IF j = i THEN sends[j] + 1 ELSE sends[j]
    BY <1>g, <1>n, <1>t, <1>6
  <2>2. i \notin DOMAIN store /\ sends[i] = 0 /\ \A k \in DOMAIN messages : messages[k].id # i
    BY <1>g, NotAsked
  <2>3. MsgTypes' /\ MemType' /\ AskedInv' /\ CopyInv'
    BY <1>g, <1>n, <1>6, <2>1 DEF MsgInv, MsgTypes, MemType, AskedInv, CopyInv
  <2>4. \A k \in DOMAIN messages : messages[k].id \in Ids
    BY Memory
  <2>5. DOMAIN store \subseteq Ids
    BY DEF MsgInv, MsgTypes
  <2>6. LeftInv'
    <3>1. \A j \in Ids : IF asked'[j] = -1 THEN sends'[j] = 0 ELSE sends'[j] <= asked'[j] + 1 + failures'
      BY <1>6, <1>n, <2>1, <2>2 DEF MsgInv, LeftInv, MsgTypes
    <3>2. \A j \in Ids : j # i => asked'[j] = asked[j] /\ sends'[j] = sends[j]
      BY <2>1
    <3> QED BY <1>g, <1>6, <2>2, <2>4, <2>5, <3>1, <3>2 DEF MsgInv, LeftInv, Pending
  <2> QED BY <2>3, <2>6 DEF MsgInv
<1> QED BY <1>g, <1>4, <1>5, <1>6

\* The vector without the element of the walk.
LEMMA Erased ==
    ASSUME MsgInv, it \in DOMAIN messages, messages' = EraseAt(it)
    PROVE  /\ MemType'
           /\ \A k \in DOMAIN messages' : \E l \in DOMAIN messages : l # it /\ messages'[k] = messages[l]
           /\ \A l \in DOMAIN messages : l # it => \E k \in DOMAIN messages' : messages'[k] = messages[l]
           /\ \A k, l \in DOMAIN messages' : messages'[k].id = messages'[l].id => k = l
<1> DEFINE n == Len(messages)
<1>0. messages \in Seq(Msg)
  BY DEF MsgInv, MemType
<1>1. DOMAIN messages = 1..n /\ n \in Nat
  BY Memory
<1>2. /\ messages' \in Seq(Msg) /\ DOMAIN messages' = 1..(n - 1)
      /\ Without(n, it, messages, messages')
  BY <1>0, EraseElements DEF EraseAt
<1> HIDE DEF n
<1>3. it \in Nat
  BY <1>1
<1>4. \A k \in DOMAIN messages' : \E l \in DOMAIN messages : l # it /\ messages'[k] = messages[l]
  <2> SUFFICES ASSUME NEW k \in 1..(n - 1)
               PROVE  \E l \in 1..n : l # it /\ messages'[k] = messages[l]
    BY <1>1, <1>2
  <2>1. CASE k < it
    BY <1>1, <1>2, <1>3, <2>1 DEF Without
  <2>2. CASE ~(k < it)
    <3>1. k + 1 # it
      BY <1>1, <1>3, <2>2
    <3> QED BY <1>2, <2>2, <3>1 DEF Without
  <2> QED BY <2>1, <2>2
<1>5. \A l \in DOMAIN messages : l # it => \E k \in DOMAIN messages' : messages'[k] = messages[l]
  BY <1>1, <1>2 DEF Without
<1>6. ASSUME NEW k \in DOMAIN messages', NEW l \in DOMAIN messages', messages'[k].id = messages'[l].id
      PROVE  k = l
  <2> DEFINE f == IF k < it THEN k ELSE k + 1
             g == IF l < it THEN l ELSE l + 1
  <2>1. /\ f \in DOMAIN messages /\ messages'[k] = messages[f]
        /\ g \in DOMAIN messages /\ messages'[l] = messages[g]
    BY <1>1, <1>2 DEF Without
  <2>2. f = g
    BY <1>6, <2>1 DEF MsgInv, CopyInv
  <2> QED BY <1>1, <1>2, <1>3, <2>2
<1> QED BY <1>2, <1>4, <1>5, <1>6 DEF MemType

\* A message is erased, from the store too unless the store fails.
LEMMA EraseStep ==
    ASSUME MsgInv, it \in DOMAIN messages, Erase, sent' \in BOOLEAN, ~sent',
           UNCHANGED <<stgTime, asked, sends>>
    PROVE  MsgInv'
<1> DEFINE i == messages[it].id
<1>1. /\ MemType'
      /\ \A k \in DOMAIN messages' : \E l \in DOMAIN messages : l # it /\ messages'[k] = messages[l]
      /\ \A l \in DOMAIN messages : l # it => \E k \in DOMAIN messages' : messages'[k] = messages[l]
      /\ \A k, l \in DOMAIN messages' : messages'[k].id = messages'[l].id => k = l
  BY Erased DEF Erase
<1>2. i \in DOMAIN store /\ \A l \in DOMAIN messages : l # it => messages[l].id # i
  BY DEF MsgInv, CopyInv
<1>3. it' \in Nat
  <2>1. it + 1 \in Nat /\ 0 \in Nat
    BY DEF MsgInv, MsgTypes
  <2> QED BY <2>1 DEF Erase, Advance
<1>4. /\ failures \in Nat /\ failures' \in Nat /\ failures' >= failures
      /\ DOMAIN store' \subseteq DOMAIN store /\ \A j \in DOMAIN store' : store'[j] = store[j]
      /\ store' = [j \in DOMAIN store' |-> store'[j]]
      /\ \A j \in DOMAIN store : j # i => j \in DOMAIN store'
      /\ i \in DOMAIN store' => failures' = failures + 1
  <2>0. failures \in Nat /\ store = [j \in DOMAIN store |-> store[j]]
    BY DEF MsgInv, MsgTypes
  <2>1. CASE Deleted(i)
    BY <2>0, <2>1 DEF Deleted
  <2>2. CASE StoreFails
    BY <2>0, <2>2 DEF StoreFails
  <2> QED BY <2>1, <2>2 DEF Erase
<1> HIDE DEF i
<1>5. MsgTypes' /\ AskedInv'
  BY <1>3, <1>4 DEF MsgInv, MsgTypes, AskedInv
<1>6. CopyInv'
  <2>1. \A k \in DOMAIN messages' : /\ messages'[k].id \in DOMAIN store'
                                    /\ store'[messages'[k].id].repeat >= messages'[k].repeat
    BY <1>1, <1>2, <1>4 DEF MsgInv, CopyInv
  <2>2. ASSUME failures' = 0, NEW j \in DOMAIN store' PROVE \E k \in DOMAIN messages' : messages'[k].id = j
    <3>1. failures = 0 /\ j # i /\ j \in DOMAIN store
      BY <1>4, <2>2
    <3>2. PICK l \in DOMAIN messages : messages[l].id = j
      BY <3>1 DEF MsgInv, CopyInv
    <3>3. l # it
      BY <3>1, <3>2 DEF i
    <3> QED BY <1>1, <3>2, <3>3
  <2> QED BY <1>1, <2>1, <2>2 DEF CopyInv
<1>7. LeftInv'
  <2>0. /\ \A j \in Ids : asked[j] \in Int /\ sends[j] \in Nat
        /\ \A j \in DOMAIN store : j \in Ids /\ store[j].repeat \in Int
        /\ \A k \in DOMAIN messages : messages[k].id \in Ids /\ messages[k].repeat \in Int
    BY Memory DEF MsgInv, MsgTypes, Msg
  <2>1. \A k \in DOMAIN messages' :
          /\ sends'[messages'[k].id] + messages'[k].repeat <= asked'[messages'[k].id] + failures'
          /\ messages'[k].repeat >= 0
    BY <1>1, <1>4, <2>0 DEF MsgInv, LeftInv
  <2>2. \A j \in DOMAIN store' :
          /\ asked'[j] >= 0 /\ sends'[j] + store'[j].repeat <= asked'[j] + failures'
    BY <1>4, <2>0 DEF MsgInv, LeftInv, Pending, i
  <2>3. \A j \in Ids : IF asked'[j] = -1 THEN sends'[j] = 0 ELSE sends'[j] <= asked'[j] + 1 + failures'
    BY <1>4, <2>0 DEF MsgInv, LeftInv
  <2> QED BY <2>1, <2>2, <2>3 DEF LeftInv
<1> QED BY <1>1, <1>5, <1>6, <1>7 DEF MsgInv

\* The numbers in the state are numbers.
LEMMA Numbers ==
    ASSUME MsgInv
    PROVE  /\ \A j \in Ids : asked[j] \in Int /\ sends[j] \in Nat
           /\ \A j \in DOMAIN store : j \in Ids /\ store[j].repeat \in Int
           /\ \A k \in DOMAIN messages : messages[k].id \in Ids /\ messages[k].repeat \in Int
           /\ failures \in Nat /\ stgTime \in Nat /\ it \in Nat
  BY Memory DEF MsgInv, MsgTypes, Msg

\* A message is sent: one sending more, one repetition less, and the store not told yet.
LEMMA SendStep ==
    ASSUME MsgInv, it \in DOMAIN messages, ~sent,
           messages' = [messages EXCEPT ![it] = SendMessage(@)],
           NoteSend(messages[it].id), sent' = TRUE,
           UNCHANGED <<stgTime, it, store, failures, asked>>
    PROVE  MsgInv'
<1> DEFINE m == messages[it]
           s == SendMessage(m)
           i == m.id
<1>0. messages \in Seq(Msg) /\ stgTime \in Nat /\ sends \in [Ids -> Nat]
  BY DEF MsgInv, MemType, MsgTypes
<1>1. m \in Msg /\ i \in Ids /\ m.repeat \in Int
  BY Memory DEF Msg
<1>2. s \in Msg /\ s.id = i /\ s.repeat = m.repeat - 1
  BY <1>0, <1>1, Sent
<1>s. messages' = [messages EXCEPT ![it] = s]
  OBVIOUS
<1> HIDE DEF s
<1>3. /\ MemType' /\ DOMAIN messages' = DOMAIN messages /\ messages'[it] = s
      /\ \A k \in DOMAIN messages : k # it => messages'[k] = messages[k]
  BY <1>0, <1>2, <1>s DEF MemType
<1>4. /\ sends' \in [Ids -> Nat] /\ sends'[i] = sends[i] + 1
      /\ \A j \in Ids : j # i => sends'[j] = sends[j]
  BY <1>0, <1>1 DEF NoteSend
<1>5. \A k \in DOMAIN messages : messages'[k].id = messages[k].id
  BY <1>2, <1>3
<1>d. i \in DOMAIN store /\ store[i].repeat >= m.repeat /\ \A k \in DOMAIN messages : messages[k].id = i => k = it
  BY DEF MsgInv, CopyInv
<1>6. sent' \in BOOLEAN /\ sent' /\ it' = it /\ messages'[it].id = i
  BY <1>2, <1>3
<1> HIDE DEF m, i
<1>7. MsgTypes' /\ AskedInv'
  BY <1>4, <1>6 DEF MsgInv, MsgTypes, AskedInv
<1>8. CopyInv'
  <2>1. \A k \in DOMAIN messages' : /\ messages'[k].id \in DOMAIN store'
                                    /\ store'[messages'[k].id].repeat >= messages'[k].repeat
    BY <1>1, <1>2, <1>3, <1>5, <1>d, Numbers DEF MsgInv, CopyInv
  <2> QED BY <1>3, <1>5, <2>1 DEF MsgInv, CopyInv
<1>9. LeftInv'
  <2>m. m.repeat >= 0 /\ sends[i] + m.repeat <= asked[i] + failures
    BY DEF MsgInv, LeftInv, m, i
  <2>1. \A k \in DOMAIN messages' :
          /\ sends'[messages'[k].id] + messages'[k].repeat <= asked'[messages'[k].id] + failures'
          /\ messages'[k].repeat >= 0 \/ (sent' /\ k = it' /\ messages'[k].repeat = -1)
    <3> SUFFICES ASSUME NEW k \in DOMAIN messages
                 PROVE  /\ sends'[messages'[k].id] + messages'[k].repeat <= asked[messages'[k].id] + failures
                        /\ messages'[k].repeat >= 0 \/ (k = it /\ messages'[k].repeat = -1)
      BY <1>3, <1>6
    <3>1. CASE k = it
      BY <1>1, <1>2, <1>3, <1>4, <2>m, <3>1, Numbers
    <3>2. CASE k # it
      <4>1. messages[k].id # i /\ messages[k].id \in Ids /\ messages'[k] = messages[k]
        BY <1>3, <1>d, <3>2, Numbers
      <4> QED BY <1>4, <4>1 DEF MsgInv, LeftInv
    <3> QED BY <3>1, <3>2
  <2>2. \A j \in DOMAIN store' :
          /\ asked'[j] >= 0
          /\ \/ sends'[j] + store'[j].repeat <= asked'[j] + failures'
             \/ /\ sent' /\ messages'[it'].id = j
                /\ sends'[j] + store'[j].repeat <= asked'[j] + failures' + 1
    <3> SUFFICES ASSUME NEW j \in DOMAIN store
                 PROVE  /\ asked[j] >= 0
                        /\ \/ sends'[j] + store[j].repeat <= asked[j] + failures
                           \/ j = i /\ sends'[j] + store[j].repeat <= asked[j] + failures + 1
      BY <1>6
    <3>1. asked[j] >= 0 /\ sends[j] + store[j].repeat <= asked[j] + failures /\ j \in Ids
      BY Numbers DEF MsgInv, LeftInv, Pending
    <3> QED BY <1>4, <3>1, Numbers
  <2>3. \A j \in Ids : IF asked'[j] = -1 THEN sends'[j] = 0 ELSE sends'[j] <= asked'[j] + 1 + failures'
    <3>1. asked[i] >= 0
      BY <1>d DEF MsgInv, LeftInv
    <3>2. \A j \in Ids : IF asked[j] = -1 THEN sends[j] = 0 ELSE sends[j] <= asked[j] + 1 + failures
      BY DEF MsgInv, LeftInv
    <3> QED BY <1>1, <1>4, <2>m, <3>1, <3>2, Numbers
  <2> QED BY <1>3, <1>6, <2>1, <2>2, <2>3 DEF LeftInv, Pending
<1> QED BY <1>3, <1>7, <1>8, <1>9 DEF MsgInv

\* What was sent is stored, or the store fails and counts one failure.
LEMMA StoreStep ==
    ASSUME MsgInv, it \in DOMAIN messages, sent, messages[it].repeat >= 0,
           Stored(messages[it]) \/ StoreFails, it' \in Nat, sent' \in BOOLEAN, ~sent',
           UNCHANGED <<stgTime, messages, asked, sends>>
    PROVE  MsgInv'
<1> DEFINE m == messages[it]
           i == m.id
<1>1. m \in Msg /\ i \in Ids /\ m.repeat \in Int
  BY Memory DEF Msg
<1>d. i \in DOMAIN store /\ \A k \in DOMAIN messages : messages[k].id = i => messages[k] = m
  BY DEF MsgInv, CopyInv
<1>m. m.repeat >= 0 /\ sends[i] + m.repeat <= asked[i] + failures
  BY DEF MsgInv, LeftInv
<1>p. \A j \in DOMAIN store : j # i => ~Pending(j)
  BY DEF Pending
<1>r. \A k \in DOMAIN messages : messages[k].repeat >= 0
  BY DEF MsgInv, LeftInv
<1>4. /\ failures' \in Nat /\ failures' >= failures /\ DOMAIN store' = DOMAIN store
      /\ store' = [j \in DOMAIN store' |-> store'[j]]
      /\ \A j \in DOMAIN store : j # i => store'[j] = store[j]
      /\ \/ store'[i] = m /\ failures' = failures
         \/ store'[i] = store[i] /\ failures' = failures + 1
  <2>0. failures \in Nat /\ store = [j \in DOMAIN store |-> store[j]]
    BY DEF MsgInv, MsgTypes
  <2>1. CASE Stored(m)
    BY <1>d, <2>0, <2>1 DEF Stored, Put
  <2>2. CASE StoreFails
    BY <1>d, <2>0, <2>2 DEF StoreFails
  <2> QED BY <2>1, <2>2
<1>5. m.id = i
  OBVIOUS
<1> HIDE DEF m, i
<1>6. MsgTypes' /\ MemType' /\ AskedInv'
  <2>1. \A j \in DOMAIN store' : store'[j] \in Msg /\ store'[j].id = j
    BY <1>1, <1>4, <1>5 DEF MsgInv, MsgTypes
  <2>2. MsgTypes'
    BY <1>4, <2>1 DEF MsgInv, MsgTypes
  <2> QED BY <2>2 DEF MsgInv, MemType, AskedInv
<1>7. CopyInv'
  <2>1. \A k \in DOMAIN messages : /\ messages[k].id \in DOMAIN store'
                                   /\ store'[messages[k].id].repeat >= messages[k].repeat
    BY <1>1, <1>4, <1>d DEF MsgInv, CopyInv
  <2>2. failures' = 0 => failures = 0
    BY <1>4, Numbers
  <2> QED BY <1>4, <2>1, <2>2 DEF MsgInv, CopyInv
<1>8. LeftInv'
  <2>1. \A k \in DOMAIN messages :
          /\ sends[messages[k].id] + messages[k].repeat <= asked[messages[k].id] + failures'
          /\ messages[k].repeat >= 0
    BY <1>4, <1>r, Numbers DEF MsgInv, LeftInv
  <2>2. ASSUME NEW j \in DOMAIN store
        PROVE  asked[j] >= 0 /\ sends[j] + store'[j].repeat <= asked[j] + failures'
    <3>1. /\ asked[j] >= 0 /\ j \in Ids
          /\ \/ sends[j] + store[j].repeat <= asked[j] + failures
             \/ Pending(j) /\ sends[j] + store[j].repeat <= asked[j] + failures + 1
      BY Numbers DEF MsgInv, LeftInv
    <3>2. CASE j # i
      BY <1>4, <1>p, <3>1, <3>2, Numbers
    <3>3. CASE j = i
      BY <1>1, <1>4, <1>m, <3>1, <3>3, Numbers
    <3> QED BY <3>2, <3>3
  <2>3. \A j \in Ids : IF asked[j] = -1 THEN sends[j] = 0 ELSE sends[j] <= asked[j] + 1 + failures'
    BY <1>4, Numbers DEF MsgInv, LeftInv
  <2> QED BY <1>4, <2>1, <2>2, <2>3 DEF LeftInv
<1> QED BY <1>6, <1>7, <1>8 DEF MsgInv

\* The walk moves, the clock runs, or the user comes and goes.
LEMMA QuietStep ==
    ASSUME MsgInv, ~sent \/ it' = it, stgTime' \in Nat, it' \in Nat,
           UNCHANGED <<messages, store, failures, asked, sends, sent>>
    PROVE  MsgInv'
<1>1. MsgTypes' /\ MemType' /\ AskedInv' /\ CopyInv'
  BY DEF MsgInv, MsgTypes, MemType, AskedInv, CopyInv
<1>2. LeftInv'
  BY DEF MsgInv, LeftInv, Pending
<1> QED BY <1>1, <1>2 DEF MsgInv

\* ScanMessage as a whole.
LEMMA ScanStep ==
    ASSUME MsgInv, ScanMessage
    PROVE  MsgInv'
<1> DEFINE m == messages[it]
<1>0. it \in DOMAIN messages /\ it' \in Nat /\ UNCHANGED <<stgTime, asked>>
  <2>1. it \in DOMAIN messages
    BY Memory DEF ScanMessage
  <2>2. it + 1 \in Nat /\ 0 \in Nat /\ it \in Nat
    BY Numbers
  <2> QED BY <2>1, <2>2 DEF ScanMessage, Erase, Advance
<1>b. sent \in BOOLEAN
  BY DEF MsgInv, MsgTypes
<1>1. CASE Erase /\ ~sent /\ UNCHANGED <<sent, sends>>
  BY <1>0, <1>1, <1>b, EraseStep
<1>2. CASE Erase /\ sent' = FALSE /\ UNCHANGED sends
  <2>1. sent' \in BOOLEAN /\ ~sent'
    BY <1>2
  <2> QED BY <1>0, <1>2, <2>1, EraseStep
<1>3. CASE /\ ~sent /\ messages' = [messages EXCEPT ![it] = SendMessage(@)]
           /\ NoteSend(m.id) /\ sent' = TRUE /\ UNCHANGED <<it, store, failures>>
  BY <1>0, <1>3, SendStep
<1>4. CASE ~sent /\ UNCHANGED <<messages, store, failures, sent, sends>>
  BY <1>0, <1>4, QuietStep, Numbers
<1>5. CASE /\ sent /\ m.repeat >= 0 /\ (Stored(m) \/ StoreFails)
           /\ sent' = FALSE /\ UNCHANGED <<messages, sends>>
  <2>1. sent' \in BOOLEAN /\ ~sent'
    BY <1>5
  <2> QED BY <1>0, <1>5, <2>1, StoreStep
<1> QED BY <1>1, <1>2, <1>3, <1>4, <1>5 DEF ScanMessage

\* The server starts again with what the store holds.
LEMMA RestartStep ==
    ASSUME MsgConstants, MsgInv, Restart,
           failures' \in Nat, failures' >= failures, sent => failures' = failures + 1
    PROVE  MsgInv'
<1> DEFINE kept == {i \in DOMAIN store : store[i].repeat >= 0}
           n == Cardinality(kept)
<1>1. n \in Nat
  <2>1. kept \subseteq Ids
    BY DEF MsgInv, MsgTypes
  <2>2. IsFiniteSet(kept)
    BY <2>1, FS_Subset DEF MsgConstants
  <2> QED BY <2>2, FS_CardinalityType
<1>2. PICK order \in Bijection(1..n, kept) : messages' = [k \in 1..n |-> store[order[k]]]
  <2>1. Cardinality(kept) = n
    BY DEF Cardinality, Cardinality
  <2> QED BY <2>1, Zenon DEF Restart
<1>3. /\ order \in [1..n -> kept] /\ \A k, l \in 1..n : order[k] = order[l] => k = l
      /\ \A i \in kept : \E k \in 1..n : order[k] = i
  <2> HIDE DEF kept, n
  <2>1. order \in [1..n -> kept] /\ IsInjective(order)
        /\ \A i \in kept : \E k \in 1..n : order[k] = i
    BY <1>2 DEF Bijection, Injection, Surjection
  <2> QED BY <2>1 DEF IsInjective
<1>4. /\ store' = [i \in kept |-> store[i]] /\ it' = 0 /\ sent' = FALSE
      /\ UNCHANGED <<stgTime, asked, sends>>
  BY DEF Restart
<1>5. \A i \in kept : /\ i \in DOMAIN store /\ store[i] \in Msg /\ store[i].id = i /\ i \in Ids
                      /\ store[i].repeat \in Int /\ store[i].repeat >= 0
  BY Numbers DEF MsgInv, MsgTypes
<1>k. \A i \in DOMAIN store : store[i].repeat >= 0 => i \in kept
  OBVIOUS
<1> HIDE DEF kept, n
<1>6. /\ DOMAIN messages' = 1..n
      /\ \A k \in 1..n : order[k] \in kept /\ messages'[k] = store[order[k]]
  BY <1>2, <1>3
<1>7. /\ DOMAIN store' = kept /\ \A i \in kept : store'[i] = store[i]
      /\ it' \in Nat /\ sent' \in BOOLEAN /\ ~sent'
  BY <1>4
<1>8. MemType'
  <2>1. \A k \in 1..n : store[order[k]] \in Msg
    BY <1>3, <1>5
  <2> QED BY <1>1, <1>2, <2>1 DEF MemType
<1>9. MsgTypes' /\ AskedInv'
  BY <1>4, <1>5, <1>7 DEF MsgInv, MsgTypes, AskedInv
<1>10. CopyInv'
  <2>1. \A k, l \in DOMAIN messages' : messages'[k].id = messages'[l].id => k = l
    BY <1>3, <1>5, <1>6
  <2>2. \A k \in DOMAIN messages' : /\ messages'[k].id \in DOMAIN store'
                                    /\ store'[messages'[k].id].repeat >= messages'[k].repeat
    BY <1>5, <1>6, <1>7
  <2>3. \A i \in DOMAIN store' : \E k \in DOMAIN messages' : messages'[k].id = i
    BY <1>3, <1>5, <1>6, <1>7
  <2> QED BY <2>1, <2>2, <2>3 DEF CopyInv
<1>11. LeftInv'
  <2>1. \A i \in kept : asked[i] >= 0 /\ sends[i] + store[i].repeat <= asked[i] + failures'
    BY <1>5, Numbers DEF MsgInv, LeftInv, Pending
  <2>2. \A k \in DOMAIN messages' :
          /\ sends'[messages'[k].id] + messages'[k].repeat <= asked'[messages'[k].id] + failures'
          /\ messages'[k].repeat >= 0
    BY <1>4, <1>5, <1>6, <2>1
  <2>3. \A j \in Ids : IF asked'[j] = -1 THEN sends'[j] = 0 ELSE sends'[j] <= asked'[j] + 1 + failures'
    BY <1>4, Numbers DEF MsgInv, LeftInv
  <2> QED BY <1>4, <1>7, <2>1, <2>2, <2>3 DEF LeftInv
<1> QED BY <1>8, <1>9, <1>10, <1>11 DEF MsgInv

\* A message that waits in memory is in the store with no fewer repetitions,
\* the store holds no others while nothing has failed, and a message is sent
\* at most once more than its repetitions and once for each failure
\* (user_impl.cpp:1273-1387).  Neither conjunct is inductive: that a message
\* is in memory once, and what is left of it there and in the store, is.
THEOREM WaitingIsKept == ASSUME MsgConstants PROVE Spec => []MessagesKept
<1>1. Init => MsgInv
  <2> SUFFICES ASSUME Init PROVE MsgInv
    OBVIOUS
  <2>1. /\ stgTime = 0 /\ it = 0 /\ failures = 0 /\ sent \in BOOLEAN /\ ~sent /\ messages = <<>>
        /\ asked = [i \in Ids |-> -1] /\ sends = [i \in Ids |-> 0]
        /\ store = [i \in {} |-> 0] /\ DOMAIN store = {} /\ store = [i \in DOMAIN store |-> store[i]]
    BY DEF Init, Empty
  <2>2. DOMAIN messages = {} /\ messages \in Seq(Msg)
    BY <2>1
  <2>3. /\ asked \in [Ids -> Int] /\ sends \in [Ids -> Nat]
        /\ \A i \in Ids : asked[i] = -1 /\ sends[i] = 0
    BY <2>1
  <2>4. MsgTypes
    BY <2>1, <2>3 DEF MsgTypes
  <2> QED BY <2>1, <2>2, <2>3, <2>4 DEF MsgInv, MemType, AskedInv, CopyInv, LeftInv
<1>2. MsgInv /\ [Next]_(vars) => MsgInv'
  <2> SUFFICES ASSUME MsgInv, [Next]_(vars) PROVE MsgInv'
    OBVIOUS
  <2>1. CASE \E i \in Ids, n \in Repeats : AddMessage(i, n)
    BY <2>1, AddStep
  <2>2. CASE ScanBegins
    <3>1. 0 \notin DOMAIN messages
      BY Memory
    <3>2. ~sent
      BY <2>2, <3>1, NoWalk DEF ScanBegins
    <3> QED BY <2>2, <3>2, Numbers, QuietStep DEF ScanBegins
  <2>3. CASE ScanMessage
    BY <2>3, ScanStep
  <2>4. CASE Overrun
    <3>1. it \notin DOMAIN messages
      BY <2>4, Memory, Numbers DEF Overrun
    <3>2. failures' = failures /\ failures \in Nat /\ ~sent
      BY <2>4, <3>1, NoWalk, Numbers DEF Overrun
    <3> QED BY <2>4, <3>2, RestartStep DEF Overrun
  <2>5. CASE Crash
    <3>1. failures' = failures + 1 /\ failures \in Nat
      BY <2>5, Numbers DEF Crash
    <3> QED BY <2>5, <3>1, RestartStep DEF Crash
  <2>6. CASE SetOnline
    BY <2>6, Numbers, QuietStep DEF SetOnline
  <2>7. CASE Tick
    <3>1. stgTime' \in Nat /\ it' = it /\ it \in Nat
      BY <2>7, Numbers DEF Tick
    <3> QED BY <2>7, <3>1, QuietStep DEF Tick
  <2>8. CASE UNCHANGED vars
    BY <2>8, Numbers, QuietStep DEF vars
  <2> QED BY <2>1, <2>2, <2>3, <2>4, <2>5, <2>6, <2>7, <2>8 DEF Next
<1>3. MsgInv => MessagesKept
  <2> SUFFICES ASSUME MsgInv PROVE MessagesKept
    OBVIOUS
  <2>1. StoreAgrees
    <3>1. /\ \A k \in DOMAIN messages : /\ messages[k].id \in DOMAIN store
                                        /\ store[messages[k].id].repeat >= messages[k].repeat
          /\ failures = 0 => \A i \in DOMAIN store : \E k \in DOMAIN messages : messages[k].id = i
      BY DEF MsgInv, CopyInv
    <3>2. failures = 0 => DOMAIN store = {messages[k].id : k \in DOMAIN messages}
      BY <3>1
    <3> QED BY <3>1, <3>2 DEF StoreAgrees
  <2>2. BoundedSends
    BY Numbers DEF MsgInv, LeftInv, BoundedSends
  <2> QED BY <2>1, <2>2 DEF MessagesKept
<1> QED BY <1>1, <1>2, <1>3, PTL DEF Spec
=============================================================================
