------------------------------ MODULE IAProofs ------------------------------
(***************************************************************************)
(* A session of the InetAccess server that counts as connected belongs to  *)
(* a user who is authorised at its address: for any number of clients,     *)
(* users and addresses, whatever the network loses, delays, doubles and    *)
(* reorders, and whatever administrators and other authorisers do.         *)
(*                                                                         *)
(* SessionIsAuthorized alone is not inductive: another authoriser may      *)
(* withdraw a user at any time, so that it matters that the users of       *)
(* sessions are those of clients (InetAccess is their only authoriser),    *)
(* and they are because every request comes from a client.                 *)
(***************************************************************************)
EXTENDS IAClient, TLAPS

\* The users InetAccess authorises.
ClientUsers == {c.user : c \in Clients}

\* The fields of a session.
Fields(s) == s = [user |-> s.user, phase |-> s.phase, expired |-> s.expired, rnd |-> s.rnd,
                  key |-> s.key]

SessionsInv ==
    /\ ip2user = [a \in DOMAIN ip2user |-> ip2user[a]]
    /\ DOMAIN ip2user \subseteq Addrs
    /\ \A a \in DOMAIN ip2user : Fields(ip2user[a]) /\ ip2user[a].user \in ClientUsers

RequestsInv == \A q \in requests : q.user \in ClientUsers /\ q.ip \in Addrs

RegistryInv == currIP \in [Users -> Addrs \cup {NoAddr}]

Inv == SessionsInv /\ RequestsInv /\ RegistryInv /\ SessionIsAuthorized

-----------------------------------------------------------------------------
\* The network has nothing but what was sent, and what it had.
LEMMA NothingElse ==
    ASSUME NEW net, NEW p, NEW new \in With(net, p) PROVE new \subseteq net \cup {p}
BY DEF With

\* A packet that is taken from the network leaves no more than there was.
LEMMA TakeLeaves ==
    ASSUME NEW net, NEW p, NEW new \in Take(net, p) PROVE new \subseteq net
BY DEF Take

-----------------------------------------------------------------------------
\* A session is stored in a phase that claims nothing, or that it had, or
\* its user has just been authorised.
LEMMA StoreKeeps ==
    ASSUME Inv, running, running' = running, NEW a \in Addrs, NEW s, Fields(s), s.user \in ClientUsers,
           Store(a, s), RegistryInv',
           a \in DOMAIN ip2user => s.user = ip2user[a].user,
           \A b \in DOMAIN ip2user \ {a} :
             ip2user[b].phase \in {3, 4} => currIP'[ip2user[b].user] = currIP[ip2user[b].user],
           s.phase \in {3, 4} => currIP'[s.user] = a
    PROVE  SessionsInv' /\ SessionIsAuthorized'
<1>1. /\ DOMAIN ip2user' = DOMAIN ip2user \cup {a}
      /\ ip2user'[a] = s
      /\ \A b \in DOMAIN ip2user \ {a} : ip2user'[b] = ip2user[b]
      /\ ip2user' = [b \in DOMAIN ip2user' |-> ip2user'[b]]
  BY DEF Store, Put
<1>2. SessionsInv'
  BY <1>1 DEF Inv, SessionsInv, Fields
<1>3. SessionIsAuthorized'
  BY <1>1 DEF Inv, SessionIsAuthorized
<1> QED BY <1>2, <1>3

\* A session is erased, and its user withdrawn or not.
LEMMA EraseKeeps ==
    ASSUME Inv, running' = running, NEW a, ip2user' = Erase(ip2user, a), RegistryInv',
           \A b \in DOMAIN ip2user \ {a} :
             ip2user[b].phase \in {3, 4} => currIP'[ip2user[b].user] = currIP[ip2user[b].user]
    PROVE  SessionsInv' /\ SessionIsAuthorized'
<1>1. /\ DOMAIN ip2user' = DOMAIN ip2user \ {a}
      /\ \A b \in DOMAIN ip2user \ {a} : ip2user'[b] = ip2user[b]
      /\ ip2user' = [b \in DOMAIN ip2user' |-> ip2user'[b]]
  BY DEF Erase
<1>2. SessionsInv'
  BY <1>1 DEF Inv, SessionsInv, Fields
<1>3. SessionIsAuthorized'
  BY <1>1 DEF Inv, SessionIsAuthorized
<1> QED BY <1>2, <1>3

Moves(u, ip) == currIP' = [currIP EXCEPT ![u] = ip]

\* A user is moved or withdrawn who is at address a: sessions elsewhere that count as
\* connected are those of others.
LEMMA OthersStay ==
    ASSUME Inv, Proper, running, NEW u \in Users, NEW a, currIP[u] \in {NoAddr, a},
           NEW ip \in Addrs \cup {NoAddr}, Moves(u, ip)
    PROVE  /\ RegistryInv'
           /\ \A b \in DOMAIN ip2user \ {a} :
                ip2user[b].phase \in {3, 4} => currIP'[ip2user[b].user] = currIP[ip2user[b].user]
           /\ currIP'[u] = ip
BY DEF Inv, SessionsInv, SessionIsAuthorized, RegistryInv, Proper, ClientUsers, Moves

\* A user who comes or goes at an address moves nobody else's session.
LEMMA OthersStayAt ==
    ASSUME Inv, Proper, running, NEW u \in Users, NEW a \in Addrs, currIP[u] \in {NoAddr, a},
           Moves(u, a) \/ Moves(u, NoAddr)
    PROVE  /\ RegistryInv'
           /\ \A b \in DOMAIN ip2user \ {a} :
                ip2user[b].phase \in {3, 4} => currIP'[ip2user[b].user] = currIP[ip2user[b].user]
           /\ Moves(u, a) => currIP'[u] = a
<1>1. a \in Addrs \cup {NoAddr} /\ NoAddr \in Addrs \cup {NoAddr}
  OBVIOUS
<1>2. CASE Moves(u, a)
  BY <1>1, <1>2
     DEF Inv, SessionsInv, SessionIsAuthorized, RegistryInv, Proper, ClientUsers, Moves
<1>3. CASE Moves(u, NoAddr) /\ ~Moves(u, a)
  BY <1>1, <1>3, OthersStay
<1> QED BY <1>2, <1>3

-----------------------------------------------------------------------------
\* Nothing of the registry changes when no address does.
LEMMA RegistrySame ==
    ASSUME Inv, UNCHANGED currIP
    PROVE  /\ RegistryInv'
           /\ \A u \in Users : currIP'[u] = currIP[u]
BY DEF Inv, RegistryInv

\* The session a packet belongs to, when the packet gets that far: it is the
\* one at the packet's address and of the packet's user.
LEMMA SessionOf ==
    ASSUME Inv, running, NEW q \in requests, ~Occupied(q)
    PROVE  /\ Fields(Session(q)) /\ Session(q).user = q.user
           /\ q.ip \in DOMAIN ip2user => /\ ip2user[q.ip].user = q.user
                                         /\ Session(q).phase = ip2user[q.ip].phase
           /\ Session(q).phase \in {3, 4} => currIP[q.user] = q.ip
<1>1. CASE q.ip \in DOMAIN ip2user
  BY <1>1 DEF Inv, SessionsInv, SessionIsAuthorized, Occupied, Session, Fields
<1>2. CASE q.ip \notin DOMAIN ip2user
  BY <1>2 DEF Session, Fields
<1> QED BY <1>1, <1>2

\* A session with another random number,
LEMMA Renumbered ==
    ASSUME NEW s, Fields(s), NEW r
    PROVE  /\ Fields([s EXCEPT !.rnd = r])
           /\ [s EXCEPT !.rnd = r].user = s.user
           /\ [s EXCEPT !.rnd = r].phase = s.phase
<1> DEFINE t == [s EXCEPT !.rnd = r]
<1>1. t = [user |-> s.user, phase |-> s.phase, expired |-> s.expired, rnd |-> r, key |-> s.key]
  BY DEF Fields
<1> HIDE DEF t
<1>2. Fields(t) /\ t.user = s.user /\ t.phase = s.phase
  BY <1>1 DEF Fields
<1> QED BY <1>2 DEF t

\* in another phase,
LEMMA Rephased ==
    ASSUME NEW s, Fields(s), NEW n, NEW e
    PROVE  /\ Fields([s EXCEPT !.phase = n, !.expired = e])
           /\ [s EXCEPT !.phase = n, !.expired = e].user = s.user
           /\ [s EXCEPT !.phase = n, !.expired = e].phase = n
<1> DEFINE t == [user |-> s.user, phase |-> n, expired |-> s.expired, rnd |-> s.rnd,
                 key |-> s.key]
<1>1. [s EXCEPT !.phase = n] = t
  BY DEF Fields
<1>2. [t EXCEPT !.expired = e] = [user |-> s.user, phase |-> n, expired |-> e, rnd |-> s.rnd,
                                  key |-> s.key]
  OBVIOUS
<1>3. [s EXCEPT !.phase = n, !.expired = e] = [[s EXCEPT !.phase = n] EXCEPT !.expired = e]
  OBVIOUS
<1> HIDE DEF t
<1> DEFINE w == [s EXCEPT !.phase = n, !.expired = e]
<1>4. w = [user |-> s.user, phase |-> n, expired |-> e, rnd |-> s.rnd, key |-> s.key]
  BY <1>1, <1>2, <1>3
<1> HIDE DEF w
<1>5. Fields(w) /\ w.user = s.user /\ w.phase = n
  BY <1>4 DEF Fields
<1> QED BY <1>5, Zenon DEF w

\* A session in another phase, with another control number.
LEMMA PhaseFields ==
    ASSUME NEW s, Fields(s), NEW n, NEW r
    PROVE  /\ Fields(InPhase(s, n)) /\ InPhase(s, n).user = s.user /\ InPhase(s, n).phase = n
           /\ Fields([InPhase(s, n) EXCEPT !.rnd = r])
           /\ [InPhase(s, n) EXCEPT !.rnd = r].user = s.user
           /\ [InPhase(s, n) EXCEPT !.rnd = r].phase = n
<1>1. Fields(InPhase(s, n)) /\ InPhase(s, n).user = s.user /\ InPhase(s, n).phase = n
  <2>1. \A e : /\ Fields([s EXCEPT !.phase = n, !.expired = e])
               /\ [s EXCEPT !.phase = n, !.expired = e].user = s.user
               /\ [s EXCEPT !.phase = n, !.expired = e].phase = n
    BY Rephased, Zenon
  <2> QED BY <2>1, Zenon DEF InPhase
<1>2. /\ Fields([InPhase(s, n) EXCEPT !.rnd = r])
      /\ [InPhase(s, n) EXCEPT !.rnd = r].user = InPhase(s, n).user
      /\ [InPhase(s, n) EXCEPT !.rnd = r].phase = InPhase(s, n).phase
  BY <1>1, Renumbered, Zenon
<1> QED BY <1>1, <1>2, Zenon

\* What is stored for a packet that changes nothing in the registry.
LEMMA StoreOnly ==
    ASSUME Inv, Proper, running, running' = running, NEW q \in requests, ~Occupied(q),
           UNCHANGED currIP, NEW s, Fields(s), s.user = q.user,
           s.phase \in {3, 4} => currIP[q.user] = q.ip, Store(q.ip, s)
    PROVE  SessionsInv' /\ SessionIsAuthorized' /\ RegistryInv'
<1>1. q.ip \in Addrs /\ q.user \in ClientUsers /\ q.user \in Users
  BY DEF Inv, RequestsInv, Proper, ClientUsers
<1>2. RegistryInv' /\ \A u \in Users : currIP'[u] = currIP[u]
  BY RegistrySame
<1>3. q.ip \in DOMAIN ip2user => s.user = ip2user[q.ip].user
  BY SessionOf
<1>4. \A b \in DOMAIN ip2user : currIP'[ip2user[b].user] = currIP[ip2user[b].user]
  BY <1>2 DEF Inv, SessionsInv, Proper, ClientUsers
<1> QED BY <1>1, <1>2, <1>3, <1>4, StoreKeeps

\* A session that is erased leaves the others as they were.
LEMMA EraseOnly ==
    ASSUME Inv, Proper, running' = running, NEW a, UNCHANGED currIP, ip2user' = Erase(ip2user, a)
    PROVE  SessionsInv' /\ SessionIsAuthorized' /\ RegistryInv'
<1>2. RegistryInv' /\ \A u \in Users : currIP'[u] = currIP[u]
  BY RegistrySame
<1>4. \A b \in DOMAIN ip2user : currIP'[ip2user[b].user] = currIP[ip2user[b].user]
  BY <1>2 DEF Inv, SessionsInv, Proper, ClientUsers
<1> QED BY <1>2, <1>4, EraseKeeps

-----------------------------------------------------------------------------
\* A datagram reaches the server (RecvData).
LEMMA RecvDataKeeps ==
    ASSUME Inv, Proper, NEW q \in requests, RecvData(q) PROVE Inv'
<1>1. running /\ running' = running /\ requests' \subseteq requests
  BY TakeLeaves DEF RecvData
<1>2. RequestsInv'
  BY <1>1 DEF Inv, RequestsInv
<1> SUFFICES SessionsInv' /\ SessionIsAuthorized' /\ RegistryInv'
  BY <1>2 DEF Inv
<1>3. q.ip \in Addrs /\ q.user \in ClientUsers /\ q.user \in Users
  BY DEF Inv, RequestsInv, Proper, ClientUsers
<1>4. ASSUME UNCHANGED <<ip2user, registry>>
      PROVE  SessionsInv' /\ SessionIsAuthorized' /\ RegistryInv'
  BY <1>1, <1>4 DEF registry, Inv, SessionsInv, SessionIsAuthorized, RegistryInv
<1>5. CASE ~Refused(q) /\ PacketProcessor(q)
  <2>1. CASE Occupied(q)
    BY <1>4, <1>5, <2>1 DEF PacketProcessor, registry
  <2>2. CASE ~Occupied(q) /\ Rejected(q)
    BY <1>1, <1>5, <2>2, EraseOnly DEF PacketProcessor, registry
  <2>3. CASE ~Occupied(q) /\ ~Rejected(q)
    <3> DEFINE s == Session(q)
    <3>1. /\ Fields(s) /\ s.user = q.user /\ (s.phase \in {3, 4} => currIP[q.user] = q.ip)
          /\ q.ip \in DOMAIN ip2user => s.user = ip2user[q.ip].user
      BY <1>1, <2>3, SessionOf
    <3>2. currIP[q.user] \in {NoAddr, q.ip}
      BY <2>3 DEF Rejected
    <3>3. \A n, r : /\ Fields(InPhase(s, n)) /\ InPhase(s, n).user = q.user /\ InPhase(s, n).phase = n
                    /\ Fields([InPhase(s, n) EXCEPT !.rnd = r])
                    /\ [InPhase(s, n) EXCEPT !.rnd = r].user = q.user
                    /\ [InPhase(s, n) EXCEPT !.rnd = r].phase = n
      BY <3>1, PhaseFields
    <3> HIDE DEF s
    <3>4. CASE CONN_SYN(q, s)
      <4>1. UNCHANGED currIP
        BY <3>4 DEF CONN_SYN, registry
      <4>2. CASE \E r \in FreshRnds : Store(q.ip, [InPhase(s, 2) EXCEPT !.rnd = r])
        <5>1. PICK r \in FreshRnds : Store(q.ip, [InPhase(s, 2) EXCEPT !.rnd = r])
          BY <4>2
        <5> DEFINE t == [InPhase(s, 2) EXCEPT !.rnd = r]
        <5>2. Fields(t) /\ t.user = q.user /\ t.phase \notin {3, 4} /\ Store(q.ip, t)
          BY <3>3, <5>1
        <5> HIDE DEF t
        <5> QED BY <1>1, <2>3, <4>1, <5>2, StoreOnly
      <4>3. CASE Store(q.ip, s)
        BY <1>1, <2>3, <3>1, <4>1, <4>3, StoreOnly
      <4> QED BY <3>4, <4>2, <4>3 DEF CONN_SYN
    <3>5. CASE CONN_ACK(q, s)
      <4>1. CASE /\ Authorize(q.user, q.ip)
                 /\ \E r \in FreshRnds : Store(q.ip, [InPhase(s, 3) EXCEPT !.rnd = r])
        <5>1. PICK r \in FreshRnds : Store(q.ip, [InPhase(s, 3) EXCEPT !.rnd = r])
          BY <4>1
        <5>2. /\ RegistryInv' /\ currIP'[q.user] = q.ip
              /\ \A b \in DOMAIN ip2user \ {q.ip} :
                   ip2user[b].phase \in {3, 4} =>
                     currIP'[ip2user[b].user] = currIP[ip2user[b].user]
          <6>1. Moves(q.user, q.ip)
            BY <4>1 DEF Authorize, Moves
          <6> QED BY <1>1, <1>3, <3>2, <6>1, OthersStayAt
        <5> DEFINE t == [InPhase(s, 3) EXCEPT !.rnd = r]
        <5>3. Fields(t) /\ t.user = q.user /\ Store(q.ip, t)
          BY <3>3, <5>1
        <5> HIDE DEF t
        <5> QED BY <1>1, <1>3, <3>1, <5>2, <5>3, StoreKeeps
      <4>2. CASE ip2user' = Erase(ip2user, q.ip) /\ UNCHANGED registry
        BY <1>1, <4>2, EraseOnly DEF registry
      <4>3. CASE Store(q.ip, s) /\ UNCHANGED registry
        BY <1>1, <2>3, <3>1, <4>3, StoreOnly DEF registry
      <4> QED BY <3>5, <4>1, <4>2, <4>3 DEF CONN_ACK
    <3>6. CASE ALIVE_ACK(q, s)
      <4>1. UNCHANGED currIP
        BY <3>6 DEF ALIVE_ACK, registry
      <4>2. CASE s.phase = 3 /\ Store(q.ip, InPhase(s, 3))
        BY <1>1, <2>3, <3>1, <3>3, <4>1, <4>2, StoreOnly
      <4>3. CASE Store(q.ip, s)
        BY <1>1, <2>3, <3>1, <4>1, <4>3, StoreOnly
      <4> QED BY <3>6, <4>2, <4>3 DEF ALIVE_ACK
    <3>7. CASE DISCONN_SYN(q, s)
      <4>1. UNCHANGED currIP
        BY <3>7 DEF DISCONN_SYN, registry
      <4>2. CASE s.phase = 3 /\ \E r \in FreshRnds : Store(q.ip, [InPhase(s, 4) EXCEPT !.rnd = r])
        <5>1. PICK r \in FreshRnds : Store(q.ip, [InPhase(s, 4) EXCEPT !.rnd = r])
          BY <4>2
        <5> DEFINE t == [InPhase(s, 4) EXCEPT !.rnd = r]
        <5>2. Fields(t) /\ t.user = q.user /\ currIP[q.user] = q.ip /\ Store(q.ip, t)
          BY <3>1, <3>3, <4>2, <5>1
        <5> HIDE DEF t
        <5> QED BY <1>1, <2>3, <4>1, <5>2, StoreOnly
      <4>3. CASE Store(q.ip, s)
        BY <1>1, <2>3, <3>1, <4>1, <4>3, StoreOnly
      <4> QED BY <3>7, <4>2, <4>3 DEF DISCONN_SYN
    <3>8. CASE DISCONN_ACK(q, s)
      <4>1. CASE Unauthorize(q.user) /\ ip2user' = Erase(ip2user, q.ip)
        <5>1. /\ RegistryInv'
              /\ \A b \in DOMAIN ip2user \ {q.ip} :
                   ip2user[b].phase \in {3, 4} =>
                     currIP'[ip2user[b].user] = currIP[ip2user[b].user]
          <6>1. Moves(q.user, NoAddr)
            BY <4>1 DEF Unauthorize, Moves
          <6> QED BY <1>1, <1>3, <3>2, <6>1, OthersStayAt
        <5> QED BY <1>1, <4>1, <5>1, EraseKeeps
      <4>2. CASE Store(q.ip, s) /\ UNCHANGED registry
        BY <1>1, <2>3, <3>1, <4>2, StoreOnly DEF registry
      <4> QED BY <3>8, <4>1, <4>2 DEF DISCONN_ACK
    <3> QED BY <1>5, <2>3, <3>4, <3>5, <3>6, <3>7, <3>8 DEF PacketProcessor, s
  <2> QED BY <2>1, <2>2, <2>3
<1>6. CASE Refused(q)
  BY <1>4, <1>6 DEF RecvData, PacketProcessor
<1> QED BY <1>5, <1>6 DEF RecvData

\* The timeouter and the passing of time.
LEMMA TimePassesKeeps ==
    ASSUME Inv, Proper, NEW a \in Addrs, TimePasses(a) \/ Send_ALIVE_SYN(a) PROVE Inv'
<1>1. /\ running' = running /\ UNCHANGED <<currIP, requests>> /\ a \in DOMAIN ip2user
      /\ \/ ip2user' = [ip2user EXCEPT ![a].expired = TRUE]
         \/ \E r \in FreshRnds : ip2user' = [ip2user EXCEPT ![a].rnd = r]
  BY DEF TimePasses, Send_ALIVE_SYN, registry
<1>2. /\ DOMAIN ip2user' = DOMAIN ip2user
      /\ ip2user' = [b \in DOMAIN ip2user |-> ip2user'[b]]
      /\ \A b \in DOMAIN ip2user : /\ Fields(ip2user'[b]) /\ ip2user'[b].user = ip2user[b].user
                                   /\ ip2user'[b].phase = ip2user[b].phase
  <2>1. \A b \in DOMAIN ip2user : Fields(ip2user[b])
    BY DEF Inv, SessionsInv
  <2>2. ip2user = [b \in DOMAIN ip2user |-> ip2user[b]]
    BY DEF Inv, SessionsInv
  <2> QED BY <1>1, <2>1, <2>2 DEF Fields
<1>3. SessionsInv'
  BY <1>2 DEF Inv, SessionsInv
<1>4. SessionIsAuthorized'
  BY <1>1, <1>2 DEF Inv, SessionIsAuthorized
<1> QED BY <1>1, <1>3, <1>4 DEF Inv, RequestsInv, RegistryInv

\* Timeouter: a session that expires is withdrawn, or moves on.
LEMMA TimeouterKeeps ==
    ASSUME Inv, Proper, NEW a \in Addrs, Timeouter(a) PROVE Inv'
<1>1. running /\ running' = running /\ UNCHANGED requests /\ a \in DOMAIN ip2user
  BY DEF Timeouter
<1>2. RequestsInv'
  BY <1>1 DEF Inv, RequestsInv
<1>3. CASE ip2user' = Erase(ip2user, a) /\ UNCHANGED registry
  BY <1>1, <1>2, <1>3, EraseOnly DEF registry, Inv
<1>4. CASE /\ ip2user[a].phase = 3 /\ ip2user' = Erase(ip2user, a)
           /\ Unauthorize(ip2user[a].user)
  <2>1. ip2user[a].user \in Users /\ currIP[ip2user[a].user] = a
    BY <1>1, <1>4 DEF Inv, SessionsInv, SessionIsAuthorized, Proper, ClientUsers
  <2>2. /\ RegistryInv'
        /\ \A b \in DOMAIN ip2user \ {a} :
             ip2user[b].phase \in {3, 4} => currIP'[ip2user[b].user] = currIP[ip2user[b].user]
    <3>1. Moves(ip2user[a].user, NoAddr)
      BY <1>4 DEF Unauthorize, Moves
    <3> QED BY <1>1, <2>1, <3>1, OthersStay
  <2> QED BY <1>1, <1>2, <1>4, <2>2, EraseKeeps DEF Inv
<1>5. CASE /\ ip2user[a].phase = 4 /\ ip2user' = [ip2user EXCEPT ![a] = InPhase(@, 3)]
           /\ UNCHANGED registry
  <2>1. /\ DOMAIN ip2user' = DOMAIN ip2user
        /\ ip2user' = [b \in DOMAIN ip2user |-> ip2user'[b]]
        /\ \A b \in DOMAIN ip2user \ {a} : ip2user'[b] = ip2user[b]
        /\ ip2user'[a] = InPhase(ip2user[a], 3)
    BY <1>1, <1>5 DEF Inv, SessionsInv
  <2>2. Fields(ip2user'[a]) /\ ip2user'[a].user = ip2user[a].user
    <3>1. Fields(ip2user[a])
      BY <1>1 DEF Inv, SessionsInv
    <3>2. Fields(InPhase(ip2user[a], 3)) /\ InPhase(ip2user[a], 3).user = ip2user[a].user
      BY <3>1, PhaseFields
    <3> QED BY <2>1, <3>2
  <2>3. SessionsInv'
    BY <1>1, <2>1, <2>2 DEF Inv, SessionsInv
  <2>4. SessionIsAuthorized'
    BY <1>1, <1>5, <2>1, <2>2 DEF Inv, SessionIsAuthorized, registry
  <2> QED BY <1>2, <1>5, <2>3, <2>4 DEF Inv, RegistryInv, registry
<1> QED BY <1>3, <1>4, <1>5 DEF Timeouter

-----------------------------------------------------------------------------
\* The clients and the network change the datagrams only.
LEMMA ClientsKeep ==
    ASSUME Inv, UNCHANGED <<ip2user, running, currIP>>, RequestsInv' PROVE Inv'
BY DEF Inv, SessionsInv, SessionIsAuthorized, RegistryInv

\* What a client sends carries the client's own user and address.
LEMMA NetSendKeeps ==
    ASSUME Inv, Proper, NEW c \in Clients, NEW type, NEW rnd, NetSend(c, type, rnd)
    PROVE  RequestsInv'
<1> DEFINE q == [type |-> type, user |-> c.user, ip |-> c.ip,
                 key |-> client[c].key, rnd |-> rnd, dirs |-> c.dirs]
<1>1. requests' \subseteq requests \cup {q}
  BY NothingElse DEF NetSend
<1>2. q.user \in ClientUsers /\ q.ip \in Addrs
  BY DEF Proper, ClientUsers
<1> HIDE DEF q
<1> QED BY <1>1, <1>2 DEF Inv, RequestsInv

\* The clients change nothing of the server.
LEMMA ClientStep ==
    ASSUME Inv, Proper, NEW c \in Clients,
           \/ Start(c) \/ End(c) \/ Connect(c) \/ Disconnect(c)
           \/ ClientTimePasses(c) \/ Run(c) \/ \E p \in replies : NetRecv(c, p)
    PROVE  Inv'
<1>1. UNCHANGED <<ip2user, running, currIP>>
  BY DEF Start, End, Connect, Disconnect, ClientTimePasses, Run, NetRecv, server, registry
<1>2. \/ UNCHANGED requests
      \/ \E type, rnd : NetSend(c, type, rnd)
  <2>1. CASE Start(c) \/ End(c) \/ Connect(c) \/ Disconnect(c) \/ ClientTimePasses(c)
    BY <2>1 DEF Start, End, Connect, Disconnect, ClientTimePasses
  <2>2. CASE Run(c)
    BY <2>2, Zenon DEF Run
  <2>3. ASSUME NEW p \in replies, NetRecv(c, p) 
        PROVE  UNCHANGED requests \/ \E type, rnd : NetSend(c, type, rnd)
    BY <2>3, Zenon DEF NetRecv
  <2> QED BY <2>1, <2>2, <2>3
<1>3. RequestsInv'
  BY <1>2, NetSendKeeps DEF Inv, RequestsInv
<1> QED BY <1>1, <1>3, ClientsKeep

\* Neither does the network.
LEMMA LoseKeeps == ASSUME Inv, Lose PROVE Inv'
<1>1. UNCHANGED <<ip2user, running, currIP>> /\ requests' \subseteq requests
  BY DEF Lose, server, registry
<1>2. RequestsInv'
  BY <1>1 DEF Inv, RequestsInv
<1> QED BY <1>1, <1>2, ClientsKeep

-----------------------------------------------------------------------------
\* What the rest of the server does.
LEMMA AdministrationKeeps == ASSUME Inv, Proper, Administration PROVE Inv'
<1> USE DEF Administration
<1>1. running
  OBVIOUS
<1>2. CASE Stop
  <2>1. UNCHANGED <<ip2user, requests>> /\ ~running'
    BY <1>2 DEF Stop
  <2>2. currIP' \in [Users -> Addrs \cup {NoAddr}]
    BY <1>2 DEF Stop, Inv, RegistryInv
  <2> QED BY <2>1, <2>2 DEF Inv, SessionsInv, SessionIsAuthorized, RegistryInv, RequestsInv
<1>3. ASSUME NEW c \in Clients, DelUser(c.user) PROVE Inv'
  <2>1. UNCHANGED <<running, requests>>
    BY <1>3 DEF DelUser
  <2>2. RequestsInv'
    BY <2>1 DEF Inv, RequestsInv
  <2>3. CASE UNCHANGED <<registry, ip2user>>
    BY <2>1, <2>2, <2>3, ClientsKeep DEF registry
  <2>4. CASE Unauthorize(c.user) /\ ip2user' = Erase(ip2user, currIP[c.user])
    <3>1. c.user \in Users
      BY DEF Proper
    <3>2. /\ RegistryInv'
          /\ \A b \in DOMAIN ip2user \ {currIP[c.user]} :
               ip2user[b].phase \in {3, 4} => currIP'[ip2user[b].user] = currIP[ip2user[b].user]
      <4>1. Moves(c.user, NoAddr)
        BY <2>4 DEF Unauthorize, Moves
      <4> QED BY <1>1, <3>1, <4>1, OthersStay
    <3> QED BY <2>1, <2>2, <2>4, <3>2, EraseKeeps DEF Inv
  <2> QED BY <1>3, <2>3, <2>4 DEF DelUser
<1>4. ASSUME NEW c \in Clients, SetPassword(c.user) \/ SetBlocked(c.user) PROVE Inv'
  <2>1. UNCHANGED <<ip2user, running, currIP, requests>>
    BY <1>4 DEF SetPassword, SetBlocked, server, registry
  <2> QED BY <2>1, ClientsKeep DEF Inv, RequestsInv
<1>5. ASSUME NEW u \in Users \ ClientUsers, OtherAuthorizer(u) PROVE Inv'
  <2>1. UNCHANGED <<ip2user, running, requests>>
    BY <1>5 DEF OtherAuthorizer, server
  <2>2. \E ip \in Addrs \cup {NoAddr} : currIP' = [currIP EXCEPT ![u] = ip]
    BY <1>5 DEF OtherAuthorizer, Proper
  <2>3. RegistryInv' /\ \A v \in Users \ {u} : currIP'[v] = currIP[v]
    BY <2>2 DEF Inv, RegistryInv
  <2>4. SessionIsAuthorized'
    BY <2>1, <2>3 DEF Inv, SessionsInv, SessionIsAuthorized, Proper, ClientUsers
  <2> QED BY <2>1, <2>3, <2>4 DEF Inv, SessionsInv, RequestsInv
<1> QED BY <1>2, <1>3, <1>4, <1>5 DEF ClientUsers, Proper

-----------------------------------------------------------------------------
\* At the start there is no session.
LEMMA InitEstablishes == ASSUME Init PROVE Inv
BY DEF Init, ServerInit, Inv, SessionsInv, RequestsInv, RegistryInv, SessionIsAuthorized

\* Every step of server, clients, network and administrators keeps the invariant.
LEMMA NextKeeps == ASSUME Inv, Proper, [Next \/ Administration]_vars PROVE Inv'
<1>1. CASE ServerNext
  BY <1>1, RecvDataKeeps, TimePassesKeeps, TimeouterKeeps, Zenon DEF ServerNext, Server
<1>2. CASE Lose
  BY <1>2, LoseKeeps
<1>3. CASE UNCHANGED vars
  BY <1>3, ClientsKeep DEF vars, server, registry, Inv, RequestsInv
<1> QED BY <1>1, <1>2, <1>3, ClientStep, AdministrationKeeps, Zenon DEF Next

\* A session in phase 3 or 4 has its user authorised at its address, whatever
\* packets come late or twice and whatever administrators change
\* (inetaccess.cpp:719-927).
THEOREM ConnectedIsAuthorized == ASSUME Proper PROVE AdminSpec => []SessionIsAuthorized
<1>1. Init => Inv
  BY InitEstablishes
<1>2. Inv /\ [Next \/ Administration]_vars => Inv'
  BY NextKeeps
<1>3. Inv => SessionIsAuthorized
  BY DEF Inv
<1> QED BY <1>1, <1>2, <1>3, PTL DEF AdminSpec
=============================================================================
