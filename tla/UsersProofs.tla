----------------------------- MODULE UsersProofs -----------------------------
(***************************************************************************)
(* The registry of users is sound for every number of logins, addresses,   *)
(* authorisers and threads, and whatever a second lock of the mutex does;  *)
(* its indexes agree with its list; a search finds everybody that is there *)
(* all the time.                                                           *)
(*                                                                         *)
(* RegistrySound and IndexSound are not inductive: that an erased element  *)
(* has left the indexes depends on what the three steps of Del have done   *)
(* by the time the delay is over, step by step and for each call of Del    *)
(* under way.  RegInv says it.                                             *)
(***************************************************************************)
EXTENDS Users, TLAPS

\* The list and the login index: one element per login, found by it unless
\* it is deleted; the index has no other entries.
LoginInv ==
    /\ \A m, n \in DOMAIN users : users[m].login = users[n].login => m = n
    /\ \A n \in DOMAIN users : /\ users[n].login \in stored
                               /\ users[n].deleted \/ HasNode(users[n].login, n)
    /\ \A l \in DOMAIN loginIndex :
         loginIndex[l] \in DOMAIN users /\ users[loginIndex[l]].login = l

\* The address index and the addresses of the users.  An entry for an erased
\* element is that of a user authorised after Del had marked it.
AddressInv ==
    /\ \A ip \in DOMAIN ipIndex :
         IF ipIndex[ip] \in DOMAIN users THEN users[ipIndex[ip]].ip = ip ELSE ipIndex[ip] \in late
    /\ \A n \in DOMAIN users :
         /\ users[n].by = {} <=> users[n].ip = NoAddr
         /\ users[n].by # {} => users[n].ip \in DOMAIN ipIndex /\ ipIndex[users[n].ip] = n

\* A user in the queue, or in a call of Del, is marked; in the queue it has
\* left the login index.
DeletionInv ==
    /\ \A i \in DOMAIN usersToDelete :
         usersToDelete[i] \in DOMAIN users =>
           /\ users[usersToDelete[i]].deleted
           /\ users[usersToDelete[i]].login \notin DOMAIN loginIndex
    /\ \A d \in Admins : deleting[d].node \in DOMAIN users => users[deleting[d].node].deleted

\* The authorisers that a call of Del has told have withdrawn the user, and
\* all have when the user leaves the login index - unless it was authorised
\* after it was marked.
WithdrawalInv ==
    /\ \A d \in Admins : deleting[d].node \in DOMAIN users \ late =>
         users[deleting[d].node].by \subseteq deleting[d].left
    /\ \A n \in DOMAIN users \ late : users[n].login \notin DOMAIN loginIndex => users[n].by = {}

\* If no user is deleted twice, the calls of Del work on different elements,
\* all of them in the list and in the login index, and the queue has each
\* element once.
OnceInv ==
    /\ \A d \in Admins : deleting[d].node # End =>
         /\ deleting[d].node \in DOMAIN users
         /\ HasNode(users[deleting[d].node].login, deleting[d].node)
    /\ \A d, e \in Admins : deleting[d].node # End /\ deleting[d].node = deleting[e].node => d = e
    /\ \A i \in DOMAIN usersToDelete : usersToDelete[i] \in DOMAIN users
    /\ \A i, j \in DOMAIN usersToDelete : usersToDelete[i] = usersToDelete[j] => i = j

RegInv == Sane => /\ LoginInv /\ AddressInv /\ DeletionInv /\ WithdrawalInv
                  /\ ~twice => OnceInv

-----------------------------------------------------------------------------
\* An element of the list.
UserRec == [login : Logins, deleted : BOOLEAN, by : SUBSET Auths, ip : Addrs \cup {NoAddr}]

\* A user's authorisers and address change.
LEMMA HeldLemma ==
    ASSUME NEW u \in UserRec, NEW by \in SUBSET Auths, NEW ip \in Addrs \cup {NoAddr}
    PROVE  /\ Held(u, by, ip) \in UserRec
           /\ Held(u, by, ip).by = by /\ Held(u, by, ip).ip = ip
           /\ Held(u, by, ip).login = u.login /\ Held(u, by, ip).deleted = u.deleted
<1> DEFINE q == [u EXCEPT !.by = by]
<1>1. q \in UserRec /\ q.by = by /\ q.login = u.login /\ q.deleted = u.deleted
  BY DEF UserRec
<1>2. Held(u, by, ip) = [q EXCEPT !.ip = ip]
  BY DEF Held
<1> HIDE DEF q
<1>3. /\ [q EXCEPT !.ip = ip] \in UserRec
      /\ [q EXCEPT !.ip = ip].by = by /\ [q EXCEPT !.ip = ip].ip = ip
      /\ [q EXCEPT !.ip = ip].login = u.login /\ [q EXCEPT !.ip = ip].deleted = u.deleted
  BY <1>1 DEF UserRec
<1> QED BY <1>2, <1>3

\* Del marks a user.
LEMMA MarkedLemma ==
    ASSUME NEW u \in UserRec
    PROVE  /\ [u EXCEPT !.deleted = TRUE] \in UserRec /\ [u EXCEPT !.deleted = TRUE].deleted
           /\ [u EXCEPT !.deleted = TRUE].login = u.login
           /\ [u EXCEPT !.deleted = TRUE].by = u.by /\ [u EXCEPT !.deleted = TRUE].ip = u.ip
<1>1. ASSUME NEW b \in BOOLEAN
      PROVE  /\ [u EXCEPT !.deleted = b] \in UserRec /\ [u EXCEPT !.deleted = b].deleted = b
             /\ [u EXCEPT !.deleted = b].login = u.login
             /\ [u EXCEPT !.deleted = b].by = u.by /\ [u EXCEPT !.deleted = b].ip = u.ip
  BY DEF UserRec
<1> QED BY <1>1, Zenon

\* A step that leaves the variables of the invariant alone.
LEMMA Unchanged ==
    ASSUME TypeOK, RegInv,
           UNCHANGED <<stored, users, loginIndex, ipIndex, usersToDelete, due, deleting, created,
                       mutex, broken, late, twice>>
    PROVE  TypeOK' /\ RegInv'
<1>1. TypeOK'
  BY DEF TypeOK
<1>2. Sane' = Sane /\ LoginInv' = LoginInv /\ AddressInv' = AddressInv /\ DeletionInv' = DeletionInv
  BY DEF Sane, LoginInv, AddressInv, DeletionInv, HasNode
<1>3. WithdrawalInv' = WithdrawalInv /\ OnceInv' = OnceInv
  BY DEF WithdrawalInv, OnceInv, HasNode
<1> QED BY <1>1, <1>2, <1>3 DEF RegInv

\* The use of an erased element: nothing more is claimed.
LEMMA BreakKeeps ==
    ASSUME TypeOK, Break
    PROVE  TypeOK' /\ RegInv'
  BY DEF Break, TypeOK, RegInv, Sane, index, deletion

-----------------------------------------------------------------------------
\* A new user is in the list and, if the second lock passes, in the index.
LEMMA AddKeeps ==
    ASSUME TypeOK, RegInv, NEW l \in Logins, Add(l)
    PROVE  TypeOK' /\ RegInv'
<1> DEFINE n == created + 1
<1>1. Sane /\ LoginInv /\ AddressInv /\ DeletionInv /\ WithdrawalInv /\ (~twice => OnceInv)
  BY DEF Add, RegInv
<1>2. /\ n \in Nat /\ n \notin DOMAIN users /\ 1..created \subseteq 1..n /\ created' = n
      /\ n \in 1..n /\ n \notin 1..created
  BY DEF Add, TypeOK
<1>3. /\ DOMAIN users' = DOMAIN users \cup {n} /\ users'[n] = NewUser(l)
      /\ \A m \in DOMAIN users : users'[m] = users[m]
  BY <1>2 DEF Add, Put
<1>4. NewUser(l) \in UserRec
  BY DEF NewUser, UserRec
<1>5. TypeOK'
  <2>1. users' \in [DOMAIN users' -> UserRec] /\ DOMAIN users' \subseteq 1..n
    BY <1>2, <1>3, <1>4 DEF TypeOK, UserRec, Add, Put
  <2>2. DOMAIN loginIndex' \subseteq Logins /\ loginIndex' \in [DOMAIN loginIndex' -> 1..n]
    BY <1>2 DEF TypeOK, Add, Relocks, Put
  <2>3. /\ DOMAIN ipIndex' \subseteq Addrs /\ ipIndex' \in [DOMAIN ipIndex' -> 1..n]
        /\ usersToDelete' \in Seq(1..n) /\ due' \in 0..Len(usersToDelete')
    BY <1>2 DEF TypeOK, Add, deletion
  <2>4. deleting' \in [Admins -> {Idle} \cup [node : 1..n, left : SUBSET Auths]]
    BY <1>2 DEF TypeOK, Add, deletion
  <2> QED BY <1>2, <2>1, <2>2, <2>3, <2>4 DEF TypeOK, UserRec, Add
<1>6. ASSUME Sane'
      PROVE  LoginInv' /\ AddressInv' /\ DeletionInv' /\ WithdrawalInv' /\ (~twice' => OnceInv')
  <2>1. /\ DOMAIN loginIndex' = DOMAIN loginIndex \cup {l} /\ loginIndex'[l] = n
        /\ \A k \in DOMAIN loginIndex : k # l => loginIndex'[k] = loginIndex[k]
    BY <1>6 DEF Add, Relocks, Sane, Put
  <2>2. /\ stored' = stored \cup {l} /\ l \notin stored /\ l \notin DOMAIN loginIndex
        /\ UNCHANGED <<ipIndex, usersToDelete, due, deleting, late, twice>>
    BY <1>1 DEF Add, deletion, LoginInv
  <2>3. /\ \A ip \in DOMAIN ipIndex : ipIndex[ip] # n
        /\ \A i \in DOMAIN usersToDelete : usersToDelete[i] # n
        /\ \A d \in Admins : deleting[d].node # n
    <3>1. \A d \in Admins : deleting[d] = Idle \/ deleting[d].node \in 1..created
      BY DEF TypeOK
    <3> QED BY <1>2, <3>1 DEF TypeOK, Idle, End
  <2>4. LoginInv'
    BY <1>1, <1>2, <1>3, <2>1, <2>2 DEF LoginInv, HasNode, NewUser
  <2>5. AddressInv'
    BY <1>1, <1>2, <1>3, <2>2, <2>3 DEF AddressInv, NewUser
  <2>6. DeletionInv'
    BY <1>1, <1>2, <1>3, <2>1, <2>2, <2>3 DEF DeletionInv, LoginInv
  <2>7. WithdrawalInv'
    BY <1>1, <1>2, <1>3, <2>1, <2>2, <2>3 DEF WithdrawalInv, NewUser
  <2>8. ASSUME ~twice' PROVE OnceInv'
    BY <1>1, <1>2, <1>3, <2>1, <2>2, <2>8 DEF OnceInv, HasNode
  <2> QED BY <2>4, <2>5, <2>6, <2>7, <2>8
<1> QED BY <1>5, <1>6 DEF RegInv

-----------------------------------------------------------------------------
\* An authoriser withdraws a user of the list: the addresses still agree,
\* and nothing else of the users changes.
LEMMA WithdrawalLemma ==
    ASSUME TypeOK, AddressInv, NEW n \in DOMAIN users, NEW a, UnauthorizeFound(n, a),
           late' = late
    PROVE  /\ users' \in [DOMAIN users -> UserRec] /\ DOMAIN users' = DOMAIN users
           /\ \A m \in DOMAIN users : m # n => users'[m] = users[m]
           /\ \A m \in DOMAIN users : /\ users'[m].login = users[m].login
                                      /\ users'[m].deleted = users[m].deleted
                                      /\ users'[m].by \subseteq users[m].by
           /\ a \notin users'[n].by
           /\ DOMAIN ipIndex' \subseteq Addrs /\ ipIndex' \in [DOMAIN ipIndex' -> 1..created]
           /\ mutex' = "free" => AddressInv'
<1> DEFINE rest == users[n].by \ {a}
           none == IF rest = {} THEN NoAddr ELSE users[n].ip
<1>1. users \in [DOMAIN users -> UserRec]
  BY DEF TypeOK, UserRec
<1>2. rest \in SUBSET Auths /\ none \in Addrs \cup {NoAddr}
  BY <1>1 DEF UserRec
<1>3. users' = [users EXCEPT ![n] = Held(users[n], rest, none)]
  BY DEF UnauthorizeFound, Unauthorized
<1>4. /\ users' \in [DOMAIN users -> UserRec] /\ DOMAIN users' = DOMAIN users
      /\ \A m \in DOMAIN users : m # n => users'[m] = users[m]
      /\ \A m \in DOMAIN users : /\ users'[m].login = users[m].login
                                 /\ users'[m].deleted = users[m].deleted
      /\ users'[n].by = rest /\ users'[n].ip = none
  <2>1. /\ DOMAIN users' = DOMAIN users /\ users'[n] = Held(users[n], rest, none)
        /\ \A m \in DOMAIN users : m # n => users'[m] = users[m]
    BY <1>1, <1>3
  <2> HIDE DEF rest, none
  <2>2. /\ users'[n].by = rest /\ users'[n].ip = none /\ users'[n] \in UserRec
        /\ users'[n].login = users[n].login /\ users'[n].deleted = users[n].deleted
    BY <1>1, <1>2, <2>1, HeldLemma
  <2>3. users' \in [DOMAIN users -> UserRec]
    BY <1>1, <1>3, <2>1, <2>2
  <2> QED BY <2>1, <2>2, <2>3
<1>5. \A m \in DOMAIN users : users'[m].by \subseteq users[m].by
  BY <1>4
<1>6. \/ rest # {} /\ ipIndex' = ipIndex
      \/ rest = {} /\ ipIndex' = Drop(ipIndex, {users[n].ip})
      \/ rest = {} /\ ipIndex' = ipIndex /\ mutex' = "stuck"
  BY <1>4 DEF UnauthorizeFound, Relocks
<1>7. DOMAIN ipIndex' \subseteq Addrs /\ ipIndex' \in [DOMAIN ipIndex' -> 1..created]
  BY <1>6 DEF Drop, TypeOK
<1>8. ASSUME mutex' = "free" PROVE AddressInv'
  <2>1. CASE rest # {} /\ ipIndex' = ipIndex
    <3>1. /\ DOMAIN users' = DOMAIN users /\ late' = late
          /\ \A m \in DOMAIN users : users'[m].ip = users[m].ip
          /\ \A m \in DOMAIN users : users'[m].by = {} <=> users[m].by = {}
      BY <1>4, <2>1
    <3> QED BY <2>1, <3>1 DEF AddressInv
  <2>2. CASE rest = {} /\ ipIndex' = Drop(ipIndex, {users[n].ip})
    <3>1. /\ DOMAIN ipIndex' = DOMAIN ipIndex \ {users[n].ip}
          /\ \A ip \in DOMAIN ipIndex' : ipIndex'[ip] = ipIndex[ip]
      BY <2>2 DEF Drop
    <3>2. \A m \in DOMAIN users : m # n /\ users[m].by # {} => users[m].ip # users[n].ip
      BY DEF AddressInv
    <3>3. ASSUME NEW ip \in DOMAIN ipIndex'
          PROVE  IF ipIndex'[ip] \in DOMAIN users' THEN users'[ipIndex'[ip]].ip = ip
                 ELSE ipIndex'[ip] \in late'
      BY <1>4, <3>1 DEF AddressInv
    <3>4. ASSUME NEW m \in DOMAIN users'
          PROVE  /\ users'[m].by = {} <=> users'[m].ip = NoAddr
                 /\ users'[m].by # {} => users'[m].ip \in DOMAIN ipIndex' /\ ipIndex'[users'[m].ip] = m
      <4>1. CASE m = n
        BY <1>4, <2>2, <4>1
      <4>2. CASE m # n
        BY <1>4, <3>1, <3>2, <4>2 DEF AddressInv
      <4> QED BY <4>1, <4>2
    <3> QED BY <3>3, <3>4 DEF AddressInv
  <2> QED BY <1>6, <1>8, <2>1, <2>2
<1> QED BY <1>4, <1>5, <1>7, <1>8

\* A withdrawal keeps the registry sound.
LEMMA UnauthorizeKeeps ==
    ASSUME TypeOK, RegInv, NEW l, NEW a, Unauthorize(l, a)
    PROVE  TypeOK' /\ RegInv'
<1> DEFINE n == loginIndex[l]
<1>1. Sane /\ LoginInv /\ AddressInv /\ DeletionInv /\ WithdrawalInv /\ (~twice => OnceInv)
  BY DEF Unauthorize, RegInv
<1>2. n \in DOMAIN users
  BY <1>1 DEF Unauthorize, LoginInv
<1>3. /\ UnauthorizeFound(n, a)
      /\ UNCHANGED <<stored, loginIndex, usersToDelete, due, deleting, created, broken, late, twice>>
  BY DEF Unauthorize, deletion
<1>4. /\ users' \in [DOMAIN users -> UserRec] /\ DOMAIN users' = DOMAIN users
      /\ \A m \in DOMAIN users : /\ users'[m].login = users[m].login
                                 /\ users'[m].deleted = users[m].deleted
                                 /\ users'[m].by \subseteq users[m].by
      /\ DOMAIN ipIndex' \subseteq Addrs /\ ipIndex' \in [DOMAIN ipIndex' -> 1..created]
      /\ mutex' = "free" => AddressInv'
  BY <1>1, <1>2, <1>3, WithdrawalLemma
<1>5. TypeOK'
  BY <1>3, <1>4 DEF TypeOK, UserRec
<1>6. LoginInv' /\ DeletionInv' /\ WithdrawalInv' /\ (~twice' => OnceInv')
  <2>1. LoginInv'
    BY <1>1, <1>3, <1>4 DEF LoginInv, HasNode
  <2>2. DeletionInv'
    BY <1>1, <1>3, <1>4 DEF DeletionInv
  <2>3. WithdrawalInv'
    BY <1>1, <1>3, <1>4 DEF WithdrawalInv
  <2>4. ASSUME ~twice' PROVE OnceInv'
    BY <1>1, <1>3, <1>4, <2>4 DEF OnceInv, HasNode
  <2> QED BY <2>1, <2>2, <2>3, <2>4
<1> QED BY <1>4, <1>5, <1>6 DEF RegInv, Sane

-----------------------------------------------------------------------------
\* A user of the list gets an authoriser it did not have, and the address,
\* which is its own in the index or is free and enters it.
LEMMA Accepted ==
    ASSUME TypeOK, LoginInv, AddressInv, DeletionInv, WithdrawalInv, ~twice => OnceInv,
           NEW n \in DOMAIN users, HasNode(users[n].login, n),
           NEW ip \in Addrs, NEW a \in Auths, a \notin users[n].by,
           users' = Authorized(n, ip, a),
           late' = (IF users' # users /\ users[n].deleted THEN late \cup {n} ELSE late),
           \/ ip \in DOMAIN ipIndex /\ ipIndex' = ipIndex /\ ipIndex[ip] = n
           \/ ip \notin DOMAIN ipIndex /\ ipIndex' = Put(ipIndex, ip, n) /\ users[n].by = {},
           UNCHANGED <<stored, loginIndex, usersToDelete, due, deleting, created, broken, twice>>
    PROVE  TypeOK' /\ RegInv'
<1>1. users \in [DOMAIN users -> UserRec]
  BY DEF TypeOK, UserRec
<1>2. users[n].by \cup {a} \in SUBSET Auths
  BY <1>1 DEF UserRec
<1>3. users' = [users EXCEPT ![n] = Held(users[n], users[n].by \cup {a}, ip)]
  BY DEF Authorized
<1>4. /\ users' \in [DOMAIN users -> UserRec] /\ DOMAIN users' = DOMAIN users
      /\ \A m \in DOMAIN users : m # n => users'[m] = users[m]
      /\ \A m \in DOMAIN users : /\ users'[m].login = users[m].login
                                 /\ users'[m].deleted = users[m].deleted
      /\ users'[n].by = users[n].by \cup {a} /\ users'[n].ip = ip
  <2>1. /\ DOMAIN users' = DOMAIN users /\ users'[n] = Held(users[n], users[n].by \cup {a}, ip)
        /\ \A m \in DOMAIN users : m # n => users'[m] = users[m]
    BY <1>1, <1>3
  <2>2. /\ users'[n].by = users[n].by \cup {a} /\ users'[n].ip = ip /\ users'[n] \in UserRec
        /\ users'[n].login = users[n].login /\ users'[n].deleted = users[n].deleted
    BY <1>1, <1>2, <2>1, HeldLemma
  <2>3. users' \in [DOMAIN users -> UserRec]
    BY <1>1, <1>3, <2>1, <2>2
  <2> QED BY <2>1, <2>2, <2>3
<1>6. (users[n].deleted => n \in late') /\ late \subseteq late'
  BY <1>4
<1>7. TypeOK'
  BY <1>4 DEF TypeOK, UserRec, Put
<1>9. LoginInv' /\ DeletionInv' /\ (~twice' => OnceInv')
  <2>1. LoginInv'
    BY <1>4 DEF LoginInv, HasNode
  <2>2. DeletionInv'
    BY <1>4 DEF DeletionInv
  <2>3. ASSUME ~twice' PROVE OnceInv'
    BY <1>4, <2>3 DEF OnceInv, HasNode
  <2> QED BY <2>1, <2>2, <2>3
<1>10. WithdrawalInv'
  <2>1. ASSUME NEW d \in Admins, deleting'[d].node \in DOMAIN users' \ late'
        PROVE  users'[deleting'[d].node].by \subseteq deleting'[d].left
    BY <1>4, <1>6, <2>1 DEF WithdrawalInv, DeletionInv
  <2>2. ASSUME NEW m \in DOMAIN users' \ late', users'[m].login \notin DOMAIN loginIndex'
        PROVE  users'[m].by = {}
    BY <1>4, <1>6, <2>2 DEF WithdrawalInv, HasNode
  <2> QED BY <2>1, <2>2 DEF WithdrawalInv
<1>11. AddressInv'
  <2>1. CASE ip \in DOMAIN ipIndex /\ ipIndex' = ipIndex /\ ipIndex[ip] = n
    <3>1. users[n].ip = ip
      BY <2>1 DEF AddressInv
    <3>2. \A m \in DOMAIN users : users'[m].ip = users[m].ip /\ (users'[m].by = {} <=> users[m].by = {})
      BY <1>4, <3>1, UsersConstants DEF AddressInv
    <3> QED BY <1>4, <1>6, <2>1, <3>2 DEF AddressInv
  <2>2. CASE ip \notin DOMAIN ipIndex /\ ipIndex' = Put(ipIndex, ip, n) /\ users[n].by = {}
    <3>1. /\ DOMAIN ipIndex' = DOMAIN ipIndex \cup {ip} /\ ipIndex'[ip] = n
          /\ \A k \in DOMAIN ipIndex : ipIndex'[k] = ipIndex[k] /\ k # ip
      BY <2>2 DEF Put
    <3>2. \A k \in DOMAIN ipIndex : ipIndex[k] # n
      <4>1. NoAddr \notin DOMAIN ipIndex
        BY UsersConstants DEF TypeOK
      <4> QED BY <2>2, <4>1 DEF AddressInv
    <3>3. ASSUME NEW k \in DOMAIN ipIndex'
          PROVE  IF ipIndex'[k] \in DOMAIN users' THEN users'[ipIndex'[k]].ip = k
                 ELSE ipIndex'[k] \in late'
      BY <1>4, <1>6, <3>1, <3>2 DEF AddressInv
    <3>4. ASSUME NEW m \in DOMAIN users'
          PROVE  /\ users'[m].by = {} <=> users'[m].ip = NoAddr
                 /\ users'[m].by # {} => users'[m].ip \in DOMAIN ipIndex' /\ ipIndex'[users'[m].ip] = m
      BY <1>4, <3>1, UsersConstants DEF AddressInv
    <3> QED BY <3>3, <3>4 DEF AddressInv
  <2> QED BY <2>1, <2>2
<1> QED BY <1>7, <1>9, <1>10, <1>11 DEF RegInv

\* An authorisation: the user refuses, or has the authoriser already, or is
\* changed; or the second lock blocks.
LEMMA AuthorizeKeeps ==
    ASSUME TypeOK, RegInv, NEW l, NEW ip \in Addrs, NEW a \in Auths, Authorize(l, ip, a)
    PROVE  TypeOK' /\ RegInv'
<1> DEFINE occupied == ip \in DOMAIN ipIndex
           n == IF occupied THEN ipIndex[ip] ELSE loginIndex[l]
           refused == users[n].login # l \/ ~UserAuthorizes(n, ip, a)
           changes == /\ users' = IF refused THEN users ELSE Authorized(n, ip, a)
                      /\ late' = IF users' # users /\ users[n].deleted THEN late \cup {n} ELSE late
                      /\ IF refused \/ occupied THEN UNCHANGED <<ipIndex, asserted>>
                         ELSE AddToIPIdx(n, users'[n].ip)
<1>1. Sane /\ LoginInv /\ AddressInv /\ DeletionInv /\ WithdrawalInv /\ (~twice => OnceInv)
  BY DEF Authorize, RegInv
<1>2. CASE UNCHANGED regVars
  BY <1>2, Unchanged DEF regVars, index, deletion, fate
<1>3. CASE Break
  BY <1>3, BreakKeeps
<1>4. CASE /\ l \in DOMAIN loginIndex /\ n \in DOMAIN users
           /\ (changes /\ UNCHANGED mutex) \/ (mutex' = "stuck" /\ UNCHANGED <<users, ipIndex>>)
           /\ UNCHANGED <<stored, loginIndex, deletion, created, broken, twice>>
  <2>1. UNCHANGED <<stored, loginIndex, usersToDelete, due, deleting, created, broken, twice>>
    BY <1>4 DEF deletion
  <2>2. CASE mutex' = "stuck" /\ UNCHANGED <<users, ipIndex>>
    BY <2>1, <2>2 DEF TypeOK, RegInv, Sane
  <2>3. CASE UNCHANGED <<users, ipIndex, late, mutex>>
    BY <1>1, <2>1, <2>3, Unchanged
  <2>5. users[n] \in UserRec /\ n \in DOMAIN users
    BY <1>4 DEF TypeOK, UserRec
  <2>6. (occupied => n = ipIndex[ip]) /\ (~occupied => HasNode(l, n))
    BY <1>4 DEF HasNode
  <2>7. (~refused => users[n].login = l) /\ (~refused => UserAuthorizes(n, ip, a))
    OBVIOUS
  <2>8. HasNode(l, loginIndex[l]) /\ users[loginIndex[l]].login = l /\ loginIndex[l] \in DOMAIN users
    BY <1>1, <1>4 DEF LoginInv, HasNode
  <2> HIDE DEF n, refused
  <2>9. CASE changes /\ UNCHANGED mutex
    <3>1. CASE refused
      BY <2>3, <2>9, <3>1
    <3>2. CASE ~refused /\ a \in users[n].by
      <4>1. users' = users /\ UNCHANGED late
        BY <2>9, <3>2 DEF Authorized
      <4>2. ipIndex' = ipIndex
        BY <1>1, <2>5, <2>9, <3>2, <4>1 DEF AddToIPIdx, AddressInv
      <4> QED BY <2>3, <2>9, <4>1, <4>2
    <3>3. CASE ~refused /\ a \notin users[n].by
      <4>1. users' = Authorized(n, ip, a)
        BY <2>9, <3>3
      <4>2. HasNode(users[n].login, n)
        BY <1>1, <2>5, <2>7, <2>8, <3>3 DEF LoginInv, HasNode
      <4>3. \/ ip \in DOMAIN ipIndex /\ ipIndex' = ipIndex /\ ipIndex[ip] = n
            \/ ip \notin DOMAIN ipIndex /\ ipIndex' = Put(ipIndex, ip, n) /\ users[n].by = {}
        <5>1. CASE occupied
          BY <2>6, <2>9, <5>1
        <5>2. CASE ~occupied
          <6>1. users[n].by = {}
            BY <1>1, <2>5, <2>7, <3>3, <5>2 DEF AddressInv, UserAuthorizes
          <6>2. users'[n] = Held(users[n], users[n].by \cup {a}, ip)
            BY <2>5, <3>3, <4>1 DEF Authorized, TypeOK
          <6>3. users[n].by \cup {a} \in SUBSET Auths
            BY <2>5 DEF UserRec
          <6>4. users'[n].ip = ip
            BY <2>5, <6>2, <6>3, HeldLemma
          <6> QED BY <2>9, <3>3, <5>2, <6>1, <6>4 DEF AddToIPIdx
        <5> QED BY <5>1, <5>2
      <4> QED BY <1>1, <2>1, <2>5, <2>9, <3>3, <4>1, <4>2, <4>3, Accepted
    <3> QED BY <3>1, <3>2, <3>3
  <2> QED BY <1>4, <2>2, <2>9
<1> QED BY <1>2, <1>3, <1>4 DEF Authorize, Relocks

-----------------------------------------------------------------------------
\* The list read from the store: one element for each login that it knows.
LEMMA ReadUsersKeeps ==
    ASSUME created \in Nat, NEW S \in SUBSET Logins, ReadUsers(S), stored' = S
    PROVE  TypeOK' /\ RegInv'
<1>1. PICK k \in 0..MaxNodes : \E login \in Bijection((created + 1)..(created + k), S) :
            /\ users' = [n \in (created + 1)..(created + k) |-> NewUser(login[n])]
            /\ loginIndex' = [l \in S |-> CHOOSE n \in (created + 1)..(created + k) : login[n] = l]
            /\ created' = created + k
  BY DEF ReadUsers
<1> DEFINE nodes == (created + 1)..(created + k)
<1>2. PICK login \in Bijection(nodes, S) :
            /\ users' = [n \in nodes |-> NewUser(login[n])]
            /\ loginIndex' = [l \in S |-> CHOOSE n \in nodes : login[n] = l]
  BY <1>1
<1>3. /\ created' = created + k /\ k \in Nat /\ ipIndex' = <<>> /\ usersToDelete' = <<>> /\ due' = 0
      /\ deleting' = [d \in Admins |-> Idle] /\ late' = {} /\ stored' = S
  BY <1>1, UsersConstants DEF ReadUsers
<1>4. /\ login \in [nodes -> S] /\ \A m, n \in nodes : login[m] = login[n] => m = n
      /\ \A l \in S : \E n \in nodes : login[n] = l
  BY <1>2 DEF Bijection, Injection, Surjection, IsInjective
<1>5. nodes \subseteq 1..created'
  BY <1>3
<1> HIDE DEF nodes
<1>6. /\ DOMAIN users' = nodes
      /\ \A n \in nodes : /\ users'[n] \in UserRec /\ users'[n].login = login[n]
                          /\ users'[n].by = {} /\ users'[n].ip = NoAddr
  BY <1>2, <1>4 DEF NewUser, UserRec
<1>7. /\ DOMAIN loginIndex' = S
      /\ \A l \in S : loginIndex'[l] \in nodes /\ login[loginIndex'[l]] = l
  BY <1>2, <1>4
<1>8. TypeOK'
  <2>1. users' \in [DOMAIN users' -> UserRec]
    BY <1>2, <1>6
  <2>2. loginIndex' \in [DOMAIN loginIndex' -> 1..created']
    <3>1. \A l \in S : loginIndex'[l] \in 1..created'
      BY <1>5, <1>7, Zenon
    <3> QED BY <1>2, <1>7, <3>1
  <2>3. created' \in Nat
    BY <1>3
  <2>4. /\ DOMAIN ipIndex' \subseteq Addrs /\ ipIndex' \in [DOMAIN ipIndex' -> 1..created']
        /\ usersToDelete' \in Seq(1..created') /\ due' \in 0..Len(usersToDelete')
    BY <1>3
  <2>5. deleting' \in [Admins -> {Idle} \cup [node : 1..created', left : SUBSET Auths]]
    BY <1>3
  <2> QED BY <1>3, <1>5, <1>6, <1>7, <2>1, <2>2, <2>3, <2>4, <2>5 DEF TypeOK, UserRec, Idle, End
<1>9. 0 \notin nodes
  BY <1>3 DEF nodes
<1>10. LoginInv'
  BY <1>3, <1>4, <1>6, <1>7 DEF LoginInv, HasNode
<1>11. AddressInv' /\ DeletionInv' /\ WithdrawalInv' /\ OnceInv'
  <2>1. \A d \in Admins : deleting'[d].node = 0
    BY <1>3 DEF Idle, End
  <2>2. DOMAIN ipIndex' = {} /\ DOMAIN usersToDelete' = {}
    BY <1>3
  <2>3. AddressInv'
    BY <1>6, <2>2 DEF AddressInv
  <2>4. DeletionInv'
    BY <1>6, <1>9, <2>1, <2>2 DEF DeletionInv
  <2>5. WithdrawalInv'
    BY <1>6, <1>9, <2>1 DEF WithdrawalInv
  <2>6. OnceInv'
    BY <2>1, <2>2 DEF OnceInv, End
  <2> QED BY <2>3, <2>4, <2>5, <2>6
<1> QED BY <1>8, <1>10, <1>11 DEF RegInv

\* A stop and a failure of the server: the registry is read anew.
LEMMA RestartKeeps ==
    ASSUME TypeOK, Restart \/ Crash
    PROVE  TypeOK' /\ RegInv'
<1>1. created \in Nat /\ stored \in SUBSET Logins
  BY DEF TypeOK
<1>2. CASE Crash
  BY <1>1, <1>2, ReadUsersKeeps DEF Crash
<1>3. CASE Restart
  <2>1. ReadUsers(stored')
    BY <1>3 DEF Restart
  <2>2. stored' \in SUBSET Logins
    <3>1. Queued \subseteq Logins
      <4>1. \A i \in DOMAIN usersToDelete : usersToDelete[i] \in DOMAIN users
        BY <1>3 DEF Restart, Range
      <4> QED BY <4>1 DEF Queued, TypeOK
    <3> QED BY <1>1, <1>3, <3>1 DEF Restart
  <2> QED BY <1>1, <2>1, <2>2, ReadUsersKeeps
<1> QED BY <1>2, <1>3

\* An empty registry is sound.
LEMMA InitHolds == RegInit => TypeOK /\ RegInv
<1> SUFFICES ASSUME RegInit PROVE TypeOK /\ RegInv
  OBVIOUS
<1>1. TypeOK
  BY DEF RegInit, TypeOK
<1>2. LoginInv /\ AddressInv /\ DeletionInv /\ WithdrawalInv /\ OnceInv
  <2>1. /\ DOMAIN users = {} /\ DOMAIN loginIndex = {} /\ DOMAIN ipIndex = {}
        /\ DOMAIN usersToDelete = {} /\ \A d \in Admins : deleting[d].node = End
    BY DEF RegInit, Idle
  <2>2. LoginInv /\ AddressInv
    BY <2>1 DEF LoginInv, AddressInv
  <2> QED BY <2>1, <2>2 DEF DeletionInv, WithdrawalInv, OnceInv
<1> QED BY <1>1, <1>2 DEF RegInv


-----------------------------------------------------------------------------
\* Del marks a user of the login index; if it was not marked before, no call
\* of Del and no place in the queue was its.
LEMMA DelBeginsKeeps ==
    ASSUME TypeOK, RegInv, NEW d \in Admins, NEW l \in Logins, DelBegins(d, l)
    PROVE  TypeOK' /\ RegInv'
<1> DEFINE n == loginIndex[l]
<1>1. Sane /\ LoginInv /\ AddressInv /\ DeletionInv /\ WithdrawalInv /\ (~twice => OnceInv)
  BY DEF DelBegins, RegInv
<1>2. n \in DOMAIN users /\ users[n].login = l /\ l \in DOMAIN loginIndex /\ n \in 1..created
  BY <1>1 DEF DelBegins, LoginInv, TypeOK
<1>3. users \in [DOMAIN users -> UserRec]
  BY DEF TypeOK, UserRec
<1>4. /\ UNCHANGED <<stored, loginIndex, ipIndex, usersToDelete, due, created, mutex, broken, late>>
      /\ twice' = (twice \/ users[n].deleted)
  BY DEF DelBegins
<1>5. /\ users' \in [DOMAIN users -> UserRec] /\ DOMAIN users' = DOMAIN users
      /\ users'[n].deleted
      /\ \A m \in DOMAIN users : m # n => users'[m] = users[m]
      /\ \A m \in DOMAIN users : /\ users'[m].login = users[m].login
                                 /\ users'[m].by = users[m].by /\ users'[m].ip = users[m].ip
                                 /\ users[m].deleted => users'[m].deleted
  <2> DEFINE u == users[n]
             v == [u EXCEPT !.deleted = TRUE]
  <2>1. u \in UserRec
    BY <1>2, <1>3
  <2>2. v \in UserRec /\ v.deleted /\ v.login = u.login /\ v.by = u.by /\ v.ip = u.ip
    <3> HIDE DEF u
    <3> QED BY <2>1, MarkedLemma
  <2>3. users' = [users EXCEPT ![n] = v]
    BY DEF DelBegins
  <2> HIDE DEF v
  <2> QED BY <1>2, <1>3, <2>2, <2>3
<1>6. /\ deleting'[d] = [node |-> n, left |-> Auths] /\ \A e \in Admins : e # d => deleting'[e] = deleting[e]
      /\ deleting' \in [Admins -> {Idle} \cup [node : 1..created, left : SUBSET Auths]]
  BY <1>2 DEF DelBegins, TypeOK
<1>7. TypeOK'
  BY <1>4, <1>5, <1>6 DEF TypeOK, UserRec
<1> HIDE DEF n
<1>8. LoginInv' /\ AddressInv'
  <2>1. LoginInv'
    BY <1>1, <1>4, <1>5 DEF LoginInv, HasNode
  <2>2. AddressInv'
    BY <1>1, <1>4, <1>5 DEF AddressInv
  <2> QED BY <2>1, <2>2
<1>9. DeletionInv'
  <2>1. \A m \in DOMAIN users : users[m].deleted => users'[m].deleted
    BY <1>5
  <2>2. ASSUME NEW i \in DOMAIN usersToDelete', usersToDelete'[i] \in DOMAIN users'
        PROVE  /\ users'[usersToDelete'[i]].deleted
               /\ users'[usersToDelete'[i]].login \notin DOMAIN loginIndex'
    BY <1>1, <1>4, <1>5, <2>1, <2>2 DEF DeletionInv
  <2>3. ASSUME NEW e \in Admins, deleting'[e].node \in DOMAIN users'
        PROVE  users'[deleting'[e].node].deleted
    <3>1. CASE e = d
      BY <1>5, <1>6, <3>1
    <3>2. CASE e # d
      BY <1>1, <1>5, <1>6, <2>1, <2>3, <3>2 DEF DeletionInv
    <3> QED BY <3>1, <3>2
  <2> QED BY <2>2, <2>3 DEF DeletionInv
<1>10. WithdrawalInv'
  <2>1. users[n].by \subseteq Auths
    BY <1>2, <1>3 DEF UserRec
  <2>2. ASSUME NEW e \in Admins, deleting'[e].node \in DOMAIN users' \ late'
        PROVE  users'[deleting'[e].node].by \subseteq deleting'[e].left
    <3>1. CASE e = d
      BY <1>5, <1>2, <1>6, <2>1, <3>1
    <3>2. CASE e # d
      <4>1. deleting'[e] = deleting[e] /\ deleting[e].node \in DOMAIN users \ late
        BY <1>4, <1>5, <1>6, <2>2, <3>2
      <4>2. users[deleting[e].node].by \subseteq deleting[e].left
        BY <1>1, <4>1 DEF WithdrawalInv
      <4> QED BY <1>5, <4>1, <4>2
    <3> QED BY <3>1, <3>2
  <2>3. ASSUME NEW m \in DOMAIN users' \ late', users'[m].login \notin DOMAIN loginIndex'
        PROVE  users'[m].by = {}
    BY <1>1, <1>4, <1>5, <2>3 DEF WithdrawalInv
  <2> QED BY <2>2, <2>3 DEF WithdrawalInv
<1>11. ASSUME ~twice' PROVE OnceInv'
  <2>1. ~users[n].deleted /\ OnceInv
    <3>1. ~(twice \/ users[n].deleted)
      BY <1>4, <1>11, Zenon
    <3> QED BY <1>1, <3>1
  <2>2. \A e \in Admins : deleting[e].node # n
    BY <1>1, <1>2, <2>1 DEF DeletionInv
  <2>3. \A e \in Admins : deleting'[e].node = IF e = d THEN n ELSE deleting[e].node
    BY <1>6
  <2> HIDE DEF n
  <2>4. HasNode(users[n].login, n)
    BY <1>2 DEF HasNode, n
  <2> QED BY <1>2, <1>4, <1>5, <2>1, <2>2, <2>3, <2>4 DEF OnceInv, HasNode
<1> QED BY <1>7, <1>8, <1>9, <1>10, <1>11 DEF RegInv

\* An authoriser that Del tells of the user withdraws it.  It finds it by its
\* login, unless it has left the index: then it is authorised no more, or was
\* authorised too late.
LEMMA DelNotifiesKeeps ==
    ASSUME TypeOK, RegInv, NEW d \in Admins, NEW a \in Auths, DelNotifies(d, a)
    PROVE  TypeOK' /\ RegInv'
<1> DEFINE n == deleting[d].node
<1>1. Sane /\ LoginInv /\ AddressInv /\ DeletionInv /\ WithdrawalInv /\ (~twice => OnceInv)
  BY DEF DelNotifies, RegInv
<1>2. CASE Break
  BY <1>2, BreakKeeps
<1>3. CASE /\ n \in DOMAIN users /\ deleting' = [deleting EXCEPT ![d].left = @ \ {a}]
           /\ IF a \in users[n].by /\ users[n].login \in DOMAIN loginIndex
              THEN UnauthorizeFound(loginIndex[users[n].login], a)
              ELSE UNCHANGED <<users, ipIndex, mutex>>
           /\ UNCHANGED <<stored, loginIndex, usersToDelete, due, created, broken, late, twice>>
  <2>1. n \in 1..created /\ deleting[d] \in [node : 1..created, left : SUBSET Auths]
    BY <1>3 DEF TypeOK, Idle, End
  <2>2. /\ deleting' \in [Admins -> {Idle} \cup [node : 1..created, left : SUBSET Auths]]
        /\ deleting'[d].left = deleting[d].left \ {a}
        /\ \A e \in Admins : deleting'[e].node = deleting[e].node
        /\ \A e \in Admins : e # d => deleting'[e].left = deleting[e].left
    BY <1>3, <2>1 DEF TypeOK
  <2>3. /\ users' \in [DOMAIN users -> UserRec] /\ DOMAIN users' = DOMAIN users
        /\ \A m \in DOMAIN users : /\ users'[m].login = users[m].login
                                   /\ users'[m].deleted = users[m].deleted
                                   /\ users'[m].by \subseteq users[m].by
        /\ n \notin late => a \notin users'[n].by
        /\ DOMAIN ipIndex' \subseteq Addrs /\ ipIndex' \in [DOMAIN ipIndex' -> 1..created]
        /\ mutex' = "free" => AddressInv'
    <3>1. CASE a \in users[n].by /\ users[n].login \in DOMAIN loginIndex
      <4>1. loginIndex[users[n].login] = n
        BY <1>1, <1>3, <3>1 DEF LoginInv
      <4>2. UnauthorizeFound(n, a) /\ late' = late
        BY <1>3, <3>1, <4>1
      <4> QED BY <1>1, <1>3, <4>2, WithdrawalLemma
    <3>2. CASE ~(a \in users[n].by /\ users[n].login \in DOMAIN loginIndex)
      <4>1. UNCHANGED <<users, ipIndex, mutex, late>>
        BY <1>3, <3>2
      <4>2. AddressInv'
        BY <1>1, <4>1 DEF AddressInv
      <4>3. n \notin late => a \notin users[n].by
        BY <1>1, <1>3, <3>2 DEF WithdrawalInv
      <4> QED BY <4>1, <4>2, <4>3 DEF TypeOK, UserRec
    <3> QED BY <3>1, <3>2
  <2>4. TypeOK'
    BY <1>3, <2>2, <2>3 DEF TypeOK, UserRec
  <2>5. LoginInv' /\ DeletionInv' /\ (~twice' => OnceInv')
    <3>1. LoginInv'
      BY <1>1, <1>3, <2>2, <2>3 DEF LoginInv, HasNode
    <3>2. DeletionInv'
      BY <1>1, <1>3, <2>2, <2>3 DEF DeletionInv
    <3>3. ASSUME ~twice' PROVE OnceInv'
      BY <1>1, <1>3, <2>2, <2>3, <3>3 DEF OnceInv, HasNode
    <3> QED BY <3>1, <3>2, <3>3
  <2>6. WithdrawalInv'
    BY <1>1, <1>3, <2>2, <2>3 DEF WithdrawalInv
  <2> QED BY <2>3, <2>4, <2>5, <2>6 DEF RegInv, Sane
<1> QED BY <1>2, <1>3 DEF DelNotifies

\* Del puts the user in the queue and takes it from the login index.
LEMMA DelEndsKeeps ==
    ASSUME TypeOK, RegInv, NEW d \in Admins, DelEnds(d)
    PROVE  TypeOK' /\ RegInv'
<1> DEFINE n == deleting[d].node
<1>1. Sane /\ LoginInv /\ AddressInv /\ DeletionInv /\ WithdrawalInv /\ (~twice => OnceInv)
  BY DEF DelEnds, RegInv
<1>2. CASE Break
  BY <1>2, BreakKeeps
<1>3. CASE /\ mutex' = "stuck"
           /\ UNCHANGED <<stored, users, loginIndex, ipIndex, usersToDelete, due, deleting, created>>
  BY <1>3 DEF TypeOK, RegInv, Sane
<1>4. CASE /\ n \in DOMAIN users /\ deleting[d].left = {}
           /\ usersToDelete' = Append(usersToDelete, n)
           /\ loginIndex' = Drop(loginIndex, {users[n].login})
           /\ deleting' = [deleting EXCEPT ![d] = Idle]
           /\ UNCHANGED <<stored, users, ipIndex, due, created, late, twice>>
  <2>1. /\ DOMAIN loginIndex' = DOMAIN loginIndex \ {users[n].login}
        /\ \A k \in DOMAIN loginIndex : k # users[n].login => loginIndex'[k] = loginIndex[k]
    BY <1>4 DEF Drop
  <2>2. /\ DOMAIN usersToDelete' = DOMAIN usersToDelete \cup {Len(usersToDelete) + 1}
        /\ usersToDelete'[Len(usersToDelete) + 1] = n /\ Len(usersToDelete) + 1 \notin DOMAIN usersToDelete
        /\ \A i \in DOMAIN usersToDelete : usersToDelete'[i] = usersToDelete[i]
    BY <1>4 DEF TypeOK
  <2>3. /\ deleting'[d].node = End /\ \A e \in Admins : e # d => deleting'[e] = deleting[e]
        /\ deleting' \in [Admins -> {Idle} \cup [node : 1..created, left : SUBSET Auths]]
        /\ End \notin DOMAIN users
    BY <1>4 DEF TypeOK, Idle, End
  <2>4. TypeOK'
    <3>1. n \in 1..created
      BY <1>4 DEF TypeOK
    <3>2. usersToDelete' \in Seq(1..created) /\ due \in 0..Len(usersToDelete')
      BY <1>4, <3>1 DEF TypeOK
    <3>3. DOMAIN loginIndex' \subseteq Logins /\ loginIndex' \in [DOMAIN loginIndex' -> 1..created]
      BY <1>4 DEF TypeOK, Drop
    <3>4. due' = due /\ created' = created /\ UNCHANGED <<stored, users, ipIndex>>
      BY <1>4
    <3> QED BY <2>3, <3>2, <3>3, <3>4 DEF TypeOK, Idle, End
  <2> HIDE DEF n
  <2>5. \A m \in DOMAIN users : users[m].login = users[n].login => m = n
    BY <1>1, <1>4 DEF LoginInv
  <2>6. users[n].deleted /\ (n \notin late => users[n].by = {})
    BY <1>1, <1>4 DEF DeletionInv, WithdrawalInv, n
  <2>7. LoginInv' /\ AddressInv'
    <3>1. LoginInv'
      <4>1. UNCHANGED <<users, stored>>
        BY <1>4
      <4>2. \A m \in DOMAIN users : users[m].deleted \/ HasNode(users[m].login, m)'
        BY <1>1, <2>1, <2>5, <2>6, <4>1 DEF LoginInv, HasNode
      <4>3. \A k \in DOMAIN loginIndex' : loginIndex'[k] \in DOMAIN users /\ users[loginIndex'[k]].login = k
        BY <1>1, <2>1 DEF LoginInv
      <4> QED BY <1>1, <4>1, <4>2, <4>3 DEF LoginInv, HasNode
    <3>2. AddressInv'
      BY <1>1, <1>4 DEF AddressInv
    <3> QED BY <3>1, <3>2
  <2>8. DeletionInv'
    <3>1. ASSUME NEW i \in DOMAIN usersToDelete', usersToDelete'[i] \in DOMAIN users'
          PROVE  /\ users'[usersToDelete'[i]].deleted
                 /\ users'[usersToDelete'[i]].login \notin DOMAIN loginIndex'
      <4>1. CASE i \in DOMAIN usersToDelete
        BY <1>1, <1>4, <2>1, <2>2, <3>1, <4>1 DEF DeletionInv
      <4>2. CASE i = Len(usersToDelete) + 1
        BY <1>4, <2>1, <2>2, <2>6, <4>2
      <4> QED BY <2>2, <4>1, <4>2
    <3>2. ASSUME NEW e \in Admins, deleting'[e].node \in DOMAIN users'
          PROVE  users'[deleting'[e].node].deleted
      BY <1>1, <1>4, <2>3, <3>2 DEF DeletionInv
    <3> QED BY <3>1, <3>2 DEF DeletionInv
  <2>9. WithdrawalInv'
    BY <1>1, <1>4, <2>1, <2>3, <2>5, <2>6 DEF WithdrawalInv
  <2>10. ASSUME ~twice' PROVE OnceInv'
    <3>1. OnceInv /\ HasNode(users[n].login, n)
      BY <1>1, <1>4, <2>3, <2>10 DEF OnceInv, n
    <3>2. \A i \in DOMAIN usersToDelete : usersToDelete[i] # n
      BY <1>1, <1>4, <3>1 DEF DeletionInv, HasNode
    <3>3. \A e \in Admins : e # d => deleting[e].node # n
      BY <1>4, <2>3, <3>1 DEF OnceInv, n
    <3>4. \A e \in Admins : deleting'[e].node # End =>
            /\ e # d /\ deleting'[e].node = deleting[e].node /\ deleting[e].node \in DOMAIN users
            /\ HasNode(users[deleting[e].node].login, deleting[e].node)
      BY <2>3, <3>1 DEF OnceInv
    <3>5. \A e \in Admins : deleting'[e].node # End =>
            /\ deleting'[e].node \in DOMAIN users'
            /\ users'[deleting'[e].node].login \in DOMAIN loginIndex'
            /\ loginIndex'[users'[deleting'[e].node].login] = deleting'[e].node
      <4> SUFFICES ASSUME NEW e \in Admins, deleting'[e].node # End
                   PROVE  /\ deleting'[e].node \in DOMAIN users'
                          /\ users'[deleting'[e].node].login \in DOMAIN loginIndex'
                          /\ loginIndex'[users'[deleting'[e].node].login] = deleting'[e].node
        OBVIOUS
      <4> DEFINE m == deleting[e].node
      <4>1. /\ m = deleting'[e].node /\ m # n /\ m \in DOMAIN users
            /\ users[m].login \in DOMAIN loginIndex /\ loginIndex[users[m].login] = m
        BY <3>3, <3>4 DEF HasNode
      <4>2. users' = users
        BY <1>4
      <4> QED BY <2>1, <2>5, <4>1, <4>2
    <3>6. \A e, f \in Admins : deleting'[e].node # End /\ deleting'[e].node = deleting'[f].node => e = f
      BY <2>3, <3>1, <3>4 DEF OnceInv
    <3>7. \A i \in DOMAIN usersToDelete' : usersToDelete'[i] \in DOMAIN users'
      BY <1>4, <2>2, <3>1 DEF OnceInv
    <3>8. \A i, j \in DOMAIN usersToDelete' : usersToDelete'[i] = usersToDelete'[j] => i = j
      BY <2>2, <3>1, <3>2 DEF OnceInv
    <3> QED BY <3>5, <3>6, <3>7, <3>8 DEF OnceInv, HasNode
  <2> QED BY <2>4, <2>7, <2>8, <2>9, <2>10 DEF RegInv
<1> QED BY <1>2, <1>3, <1>4 DEF DelEnds, Relocks

\* The passing of the delay changes no element.
LEMMA TimePassesKeeps ==
    ASSUME TypeOK, RegInv, TimePasses
    PROVE  TypeOK' /\ RegInv'
<1>1. /\ UNCHANGED <<stored, users, loginIndex, ipIndex, usersToDelete, deleting, created, mutex,
                     broken, late, twice>>
      /\ due' \in 0..Len(usersToDelete)
  BY DEF TimePasses, TypeOK, index, fate
<1>2. TypeOK'
  BY <1>1 DEF TypeOK
<1>3. Sane' = Sane /\ LoginInv' = LoginInv /\ AddressInv' = AddressInv /\ DeletionInv' = DeletionInv
  BY <1>1 DEF Sane, LoginInv, AddressInv, DeletionInv, HasNode
<1>4. WithdrawalInv' = WithdrawalInv /\ OnceInv' = OnceInv
  BY <1>1 DEF WithdrawalInv, OnceInv, HasNode
<1> QED BY <1>1, <1>2, <1>3, <1>4 DEF RegInv

\* The users whose time has come are erased.  Neither index leads to one of
\* them - but for an address taken too late - and no call of Del works on one.
LEMMA EraseKeeps ==
    ASSUME TypeOK, RegInv, RealDelUser
    PROVE  TypeOK' /\ RegInv'
<1> DEFINE left == Len(usersToDelete) - due
<1>1. Sane /\ LoginInv /\ AddressInv /\ DeletionInv /\ WithdrawalInv /\ (~twice => OnceInv)
  BY DEF RealDelUser, RegInv
<1>2. CASE Break
  BY <1>2, BreakKeeps
<1>3. CASE /\ DueNodes \subseteq DOMAIN users /\ Erase
           /\ usersToDelete' = SubSeq(usersToDelete, due + 1, Len(usersToDelete)) /\ due' = 0
           /\ UNCHANGED <<loginIndex, ipIndex, deleting, created, fate>>
  <2>1. /\ DOMAIN users' = DOMAIN users \ DueNodes
        /\ \A m \in DOMAIN users' : users'[m] = users[m] /\ m \in DOMAIN users
    BY <1>3 DEF Erase, Drop
  <2>2. /\ stored' \subseteq stored
        /\ \A l \in stored \ stored' : \E m \in DueNodes : users[m].login = l
    BY <1>3 DEF Erase
  <2>3. UNCHANGED <<loginIndex, ipIndex, deleting, created, mutex, broken, late, twice>>
    BY <1>3 DEF fate
  <2>4. \A m \in DueNodes : users[m].login \notin DOMAIN loginIndex /\ users[m].deleted
    BY <1>1, <1>3 DEF DeletionInv, DueNodes, TypeOK
  <2>5. /\ usersToDelete' \in Seq(1..created) /\ Len(usersToDelete') = left /\ left \in Nat
        /\ \A i \in 1..left : usersToDelete'[i] = usersToDelete[i + due] /\ i + due \in DOMAIN usersToDelete
    <3>1. /\ usersToDelete \in Seq(1..created) /\ due \in Nat /\ Len(usersToDelete) \in Nat
          /\ due <= Len(usersToDelete) /\ DOMAIN usersToDelete = 1..Len(usersToDelete)
      BY DEF TypeOK
    <3>2. \A i \in (due + 1)..Len(usersToDelete) : usersToDelete[i] \in 1..created
      <4>1. (due + 1)..Len(usersToDelete) \subseteq DOMAIN usersToDelete
        BY <3>1
      <4>2. \A i \in DOMAIN usersToDelete : usersToDelete[i] \in 1..created
        BY DEF TypeOK
      <4> QED BY <4>1, <4>2
    <3>3. usersToDelete' = [i \in 1..left |-> usersToDelete[i + due]]
      BY <1>3, <3>1
    <3>4. left \in Nat /\ \A i \in 1..left : i + due \in (due + 1)..Len(usersToDelete)
      BY <3>1
    <3> QED BY <3>1, <3>2, <3>3, <3>4
  <2>6. DOMAIN usersToDelete' = 1..left
    BY <2>5
  <2>7. TypeOK'
    <3>1. users' \in [DOMAIN users' -> UserRec]
      <4>1. users' = [m \in DOMAIN users \ DueNodes |-> users[m]]
        BY <1>3 DEF Erase, Drop
      <4> QED BY <4>1 DEF TypeOK, UserRec
    <3>2. due' \in 0..Len(usersToDelete')
      BY <1>3, <2>5
    <3> HIDE DEF left
    <3> QED BY <2>1, <2>2, <2>3, <2>5, <3>1, <3>2 DEF TypeOK, UserRec
  <2>8. LoginInv'
    BY <1>1, <1>3, <2>1, <2>2, <2>3, <2>4 DEF LoginInv, HasNode
  <2>9. AddressInv'
    <3>1. ASSUME NEW ip \in DOMAIN ipIndex, ipIndex[ip] \in DueNodes
          PROVE  ipIndex[ip] \in late
      <4>1. users[ipIndex[ip]].ip = ip /\ ip # NoAddr
        BY <1>1, <1>3, <3>1, UsersConstants DEF AddressInv, TypeOK
      <4> QED BY <1>1, <1>3, <2>4, <3>1, <4>1 DEF AddressInv, WithdrawalInv
    <3> QED BY <1>1, <2>1, <2>3, <3>1 DEF AddressInv
  <2>10. DeletionInv'
    <3>1. ASSUME NEW i \in DOMAIN usersToDelete', usersToDelete'[i] \in DOMAIN users'
          PROVE  /\ users'[usersToDelete'[i]].deleted
                 /\ users'[usersToDelete'[i]].login \notin DOMAIN loginIndex'
      <4>1. i + due \in DOMAIN usersToDelete /\ usersToDelete'[i] = usersToDelete[i + due]
        BY <2>5, <2>6
      <4> HIDE DEF left
      <4> QED BY <1>1, <2>1, <2>3, <3>1, <4>1 DEF DeletionInv
    <3>2. ASSUME NEW e \in Admins, deleting'[e].node \in DOMAIN users'
          PROVE  users'[deleting'[e].node].deleted
      BY <1>1, <2>1, <2>3, <3>2 DEF DeletionInv
    <3> QED BY <3>1, <3>2 DEF DeletionInv
  <2>11. WithdrawalInv'
    BY <1>1, <2>1, <2>3 DEF WithdrawalInv
  <2>12. ASSUME ~twice' PROVE OnceInv'
    <3>1. OnceInv
      BY <1>1, <2>3, <2>12
    <3>2. \A d \in Admins : deleting[d].node # End => deleting[d].node \notin DueNodes
      BY <2>4, <3>1 DEF OnceInv, HasNode
    <3>3. \A i \in 1..left : usersToDelete[i + due] \notin DueNodes
      <4>1. ASSUME NEW i \in 1..left, NEW j \in 1..due PROVE usersToDelete[i + due] # usersToDelete[j]
        <5>1. i + due # j /\ i + due \in DOMAIN usersToDelete /\ j \in DOMAIN usersToDelete
          <6>1. /\ due \in Nat /\ Len(usersToDelete) \in Nat /\ due <= Len(usersToDelete)
                /\ DOMAIN usersToDelete = 1..Len(usersToDelete)
            BY DEF TypeOK
          <6>2. i + due \in DOMAIN usersToDelete
            BY <2>5, Zenon
          <6>3. i + due # j /\ j \in 1..Len(usersToDelete)
            BY <6>1
          <6> QED BY <6>1, <6>2, <6>3
        <5> QED BY <3>1, <5>1 DEF OnceInv
      <4> QED BY <4>1 DEF DueNodes
    <3>4. \A i, j \in 1..left : usersToDelete[i + due] = usersToDelete[j + due] => i = j
      BY <2>5, <3>1 DEF OnceInv, TypeOK
    <3>5. \A i \in DOMAIN usersToDelete' : usersToDelete'[i] \in DOMAIN users'
      BY <2>1, <2>5, <2>6, <3>1, <3>3 DEF OnceInv
    <3>6. \A i, j \in DOMAIN usersToDelete' : usersToDelete'[i] = usersToDelete'[j] => i = j
      BY <2>5, <2>6, <3>4
    <3>7. \A d \in Admins : deleting'[d].node # End =>
            /\ deleting'[d].node \in DOMAIN users'
            /\ users'[deleting'[d].node].login \in DOMAIN loginIndex'
            /\ loginIndex'[users'[deleting'[d].node].login] = deleting'[d].node
      BY <2>1, <2>3, <3>1, <3>2 DEF OnceInv, HasNode
    <3>8. \A d, e \in Admins : deleting'[d].node # End /\ deleting'[d].node = deleting'[e].node => d = e
      BY <2>3, <3>1 DEF OnceInv
    <3> QED BY <3>5, <3>6, <3>7, <3>8 DEF OnceInv, HasNode
  <2> QED BY <2>7, <2>8, <2>9, <2>10, <2>11, <2>12 DEF RegInv
<1> QED BY <1>2, <1>3 DEF RealDelUser, ErasedTwice

\* What administrators and the timer do keeps the registry sound.
LEMMA AdministrationKeeps ==
    ASSUME TypeOK, RegInv, Administration
    PROVE  TypeOK' /\ RegInv'
  BY AddKeeps, DelBeginsKeeps, DelNotifiesKeeps, DelEndsKeeps, TimePassesKeeps, EraseKeeps
     DEF Administration

\* What authorisers do keeps the registry sound.
LEMMA AuthorizationKeeps ==
    ASSUME TypeOK, RegInv, NEW A \in SUBSET Auths, Authorization(A)
    PROVE  TypeOK' /\ RegInv'
  BY AuthorizeKeeps, UnauthorizeKeeps DEF Authorization

\* A search changes nothing in the registry.
LEMMA SearchKeeps ==
    ASSUME TypeOK, RegInv, Search
    PROVE  TypeOK' /\ RegInv'
<1>1. CASE SearchNextLost
  BY <1>1, BreakKeeps DEF SearchNextLost
<1>2. CASE UNCHANGED <<stored, users, loginIndex, ipIndex, usersToDelete, due, deleting, created,
                       mutex, broken, late, twice>>
  BY <1>2, Unchanged
<1> QED BY <1>1, <1>2 DEF Search, OpenSearch, SearchNext, CloseSearch, index, deletion, fate

-----------------------------------------------------------------------------
\* Only what NotBroken names makes a method use an erased element.
LEMMA BreakHasCause ==
    ASSUME TypeOK, RegInv, NotBroken,
           Administration \/ Authorization(Auths) \/ Search \/ Restart \/ Crash
    PROVE  NotBroken'
<1>1. CASE broken' = FALSE
  BY <1>1 DEF NotBroken
<1>2. CASE Sane /\ UNCHANGED broken
  BY <1>2 DEF NotBroken, Sane
<1>3. CASE Break /\ (late # {} \/ twice \/ cursor = Lost)
  BY <1>3 DEF NotBroken, Break, search
<1>4. ASSUME NEW d \in Admins, Sane, deleting[d] # Idle, deleting[d].node \notin DOMAIN users
      PROVE  twice
  <2>1. deleting[d].node # End
    BY <1>4 DEF TypeOK, End
  <2> QED BY <1>4, <2>1 DEF RegInv, OnceInv
<1>5. ASSUME Sane, ErasedTwice PROVE twice
  <2>1. 1..due \subseteq DOMAIN usersToDelete
    BY DEF TypeOK
  <2> QED BY <1>5, <2>1 DEF RegInv, OnceInv, ErasedTwice, DueNodes
<1>6. ASSUME NEW l, NEW ip, Sane, l \in DOMAIN loginIndex,
             (IF ip \in DOMAIN ipIndex THEN ipIndex[ip] ELSE loginIndex[l]) \notin DOMAIN users
      PROVE  late # {}
  BY <1>6 DEF RegInv, LoginInv, AddressInv
<1>7. CASE TimePasses
  BY <1>7 DEF TimePasses, NotBroken, fate, search
<1>8. CASE RealDelUser
  BY <1>2, <1>3, <1>5, <1>8 DEF RealDelUser, fate
<1>9. ASSUME NEW d \in Admins, NEW a \in Auths, DelNotifies(d, a)
      PROVE  NotBroken'
  <2>1. deleting[d] # Idle
    BY <1>9 DEF DelNotifies, Idle
  <2> QED BY <1>2, <1>3, <1>4, <1>9, <2>1 DEF DelNotifies
<1>10. ASSUME NEW d \in Admins, DelEnds(d)
       PROVE  NotBroken'
  BY <1>2, <1>3, <1>4, <1>10, Zenon DEF DelEnds
<1>11. CASE Administration
  BY <1>2, <1>7, <1>8, <1>9, <1>10, <1>11, Zenon DEF Administration, Add, DelBegins
<1>12. ASSUME NEW l, NEW ip, NEW a, Authorize(l, ip, a)
       PROVE  NotBroken'
  BY <1>2, <1>3, <1>6, <1>12, Zenon DEF Authorize, regVars, fate
<1>13. CASE Authorization(Auths)
  BY <1>2, <1>12, <1>13 DEF Authorization, Unauthorize
<1>14. CASE Search
  BY <1>2, <1>3, <1>14 DEF Search, OpenSearch, SearchNext, SearchNextLost, CloseSearch, fate
<1>15. CASE Restart \/ Crash
  BY <1>1, <1>15, Zenon DEF Restart, Crash, ReadUsers
<1> QED BY <1>11, <1>13, <1>14, <1>15

\* The registry of users is sound (RegistrySound) and so is its address index
\* (IndexSound), in every run of the server, with restarts and failures, for
\* any number of users, authorisers and threads (users_impl.cpp:119-256,
\* 512-569, 634-691).
THEOREM RegistryIsSound == Spec => [](RegistrySound /\ IndexSound)
<1> DEFINE Inv == TypeOK /\ RegInv /\ NotBroken
<1>1. RegInit => Inv
  BY InitHolds DEF RegInit, NotBroken
<1>2. Inv /\ [RegNext]_regVars => Inv'
  <2> SUFFICES ASSUME Inv, [RegNext]_regVars PROVE Inv'
    OBVIOUS
  <2>1. CASE UNCHANGED regVars
    BY <2>1, Unchanged DEF regVars, index, deletion, search, fate, NotBroken
  <2>2. CASE RegNext
    <3>1. NotBroken'
      BY <2>2, BreakHasCause DEF RegNext
    <3>2. TypeOK' /\ RegInv'
      BY <2>2, AdministrationKeeps, AuthorizationKeeps, SearchKeeps, RestartKeeps DEF RegNext
    <3> QED BY <3>1, <3>2
  <2> QED BY <2>1, <2>2
<1>3. Inv => RegistrySound /\ IndexSound
  BY DEF RegInv, RegistrySound, OneUserPerLogin, IndexSound, LoginInv, AddressInv
<1> QED BY <1>1, <1>2, <1>3, PTL DEF Spec

-----------------------------------------------------------------------------
(***************************************************************************)
(* The search.  SearchComplete speaks of a search at its end; on its way   *)
(* it has found every user in front of its descriptor that was there when  *)
(* it began and is not deleted, and nothing behind it.                     *)
(***************************************************************************)
SearchInv ==
    /\ created <= MaxNodes
    /\ cursor \in DOMAIN users \cup {End, Closed, Lost}
    /\ found \in Seq(Nat) /\ expected \subseteq 1..created
    /\ \A i, j \in DOMAIN found : found[i] = found[j] => i = j
    /\ cursor \in DOMAIN users \cup {End} =>
         /\ \A i \in DOMAIN found : cursor < found[i]
         /\ \A n \in expected \cap DOMAIN users :
              cursor < n => users[n].deleted \/ n \in Range(found)

\* A step of others: users may be added and marked.
LEMMA SearchUntouched ==
    ASSUME TypeOK, SearchInv, UNCHANGED search, created' \in Nat,
           created <= created', created' <= MaxNodes,
           DOMAIN users \subseteq DOMAIN users',
           \A n \in DOMAIN users' \ DOMAIN users : n \in 1..created' /\ n > created,
           \A n \in DOMAIN users : users[n].deleted => users'[n].deleted
    PROVE  SearchInv'
<1>1. cursor' = cursor /\ found' = found /\ expected' = expected
  BY DEF search
<1>2. DOMAIN users \subseteq 1..created /\ created \in Nat /\ 1..created \subseteq 1..created'
  BY DEF TypeOK
<1>3. DOMAIN users' \subseteq 1..created'
  BY <1>2
<1>4. ASSUME cursor' \in DOMAIN users' \cup {End} PROVE cursor \in DOMAIN users \cup {End}
  <2>1. cursor # Closed /\ cursor # Lost
    BY <1>1, <1>3, <1>4, UsersConstants DEF Closed, Lost, End
  <2> QED BY <2>1 DEF SearchInv
<1>5. ASSUME NEW n \in expected' \cap DOMAIN users', cursor \in DOMAIN users \cup {End}, cursor' < n
      PROVE  users'[n].deleted \/ n \in Range(found')
  <2>1. n \in DOMAIN users
    BY <1>1, <1>2 DEF SearchInv
  <2> QED BY <1>1, <1>5, <2>1, Zenon DEF SearchInv
<1>6. cursor' \in DOMAIN users' \cup {End, Closed, Lost}
  BY <1>1 DEF SearchInv
<1>7. expected' \subseteq 1..created'
  BY <1>1, <1>2 DEF SearchInv
<1>8. cursor' \in DOMAIN users' \cup {End} => \A i \in DOMAIN found' : cursor' < found'[i]
  BY <1>1, <1>4 DEF SearchInv
<1>9. found' \in Seq(Nat) /\ \A i, j \in DOMAIN found' : found'[i] = found'[j] => i = j
  BY <1>1 DEF SearchInv
<1> QED BY <1>4, <1>5, <1>6, <1>7, <1>8, <1>9 DEF SearchInv

\* Users are erased; a descriptor at one of them is lost.
LEMMA EraseKeepsSearch ==
    ASSUME TypeOK, SearchInv, RealDelUser
    PROVE  SearchInv'
<1>1. CASE Break
  BY <1>1, SearchUntouched DEF Break, index, search, TypeOK, SearchInv
<1>2. CASE Erase /\ UNCHANGED <<found, expected, created>>
  <2>1. /\ DOMAIN users' \subseteq DOMAIN users /\ DOMAIN users' = DOMAIN users \ DueNodes
        /\ \A n \in DOMAIN users' : users'[n] = users[n]
        /\ cursor' = IF cursor \in DueNodes THEN Lost ELSE cursor
    BY <1>2 DEF Erase, Drop
  <2>2. DOMAIN users \subseteq 1..created /\ created \in Nat
    BY DEF TypeOK
  <2>3. CASE cursor \in DueNodes
    <3>1. Lost \notin DOMAIN users' \cup {End}
      BY <2>1, <2>2, UsersConstants DEF Lost, End, SearchInv
    <3> QED BY <1>2, <2>1, <2>3, <3>1 DEF SearchInv
  <2>4. CASE cursor \notin DueNodes
    <3>1. cursor' = cursor /\ cursor' \in DOMAIN users' \cup {End, Closed, Lost}
      BY <2>1, <2>4 DEF SearchInv
    <3>2. cursor \in DOMAIN users' \cup {End} => cursor \in DOMAIN users \cup {End}
      BY <2>1
    <3> QED BY <1>2, <2>1, <3>1, <3>2 DEF SearchInv
  <2> QED BY <2>3, <2>4
<1> QED BY <1>1, <1>2 DEF RealDelUser, fate

\* What a search has found with one more.
LEMMA FoundOneMore ==
    ASSUME NEW s \in Seq(Nat), NEW n \in Nat
    PROVE  /\ Append(s, n) \in Seq(Nat) /\ n \in Range(Append(s, n))
           /\ Range(s) \subseteq Range(Append(s, n))
           /\ \A i \in DOMAIN Append(s, n) :
                \/ i = Len(s) + 1 /\ Append(s, n)[i] = n
                \/ i \in DOMAIN s /\ Append(s, n)[i] = s[i]
<1>1. Append(s, n) \in Seq(Nat) /\ Len(s) \in Nat /\ DOMAIN s = 1..Len(s)
  OBVIOUS
<1>2. DOMAIN Append(s, n) = 1..(Len(s) + 1) /\ Append(s, n)[Len(s) + 1] = n
      /\ \A i \in DOMAIN s : Append(s, n)[i] = s[i]
  BY <1>1
<1>3. Len(s) + 1 \in DOMAIN Append(s, n) /\ DOMAIN s \subseteq DOMAIN Append(s, n)
      /\ \A i \in DOMAIN Append(s, n) : i = Len(s) + 1 \/ i \in DOMAIN s
  BY <1>1, <1>2
<1>4. n \in Range(Append(s, n))
  BY <1>2, <1>3 DEF Range
<1>5. Range(s) \subseteq Range(Append(s, n))
  BY <1>2, <1>3 DEF Range
<1> QED BY <1>1, <1>2, <1>3, <1>4, <1>5

\* SearchNext passes over deleted users only, and no user behind the one it
\* returns is passed over.
LEMMA SearchNextKeeps ==
    ASSUME TypeOK, SearchInv, SearchNext
    PROVE  SearchInv'
<1> DEFINE S == {m \in After(cursor) \cup {cursor} : ~users[m].deleted}
<1>1. /\ cursor \in DOMAIN users /\ UNCHANGED <<users, expected, created>>
      /\ DOMAIN users \subseteq 1..created /\ created \in Nat /\ found \in Seq(Nat)
  BY DEF SearchNext, index, TypeOK, SearchInv
<1>2. PICK n \in First(S) : IF n = End THEN cursor' = End /\ UNCHANGED found
                            ELSE found' = Append(found, n) /\ cursor' \in First(After(n))
  BY DEF SearchNext
<1>3. \A m \in DOMAIN users : m \in Nat /\ 0 < m
  BY <1>1
<1>4. \A m \in DOMAIN users : m <= cursor /\ ~users[m].deleted => m \in S
  BY <1>1, <1>3 DEF After
<1>5. \A m \in S : m \in DOMAIN users /\ m <= cursor
  BY <1>1, <1>3 DEF After
<1>6. \A i \in DOMAIN found : cursor < found[i] /\ found[i] \in Nat
  BY <1>1 DEF SearchInv
<1>7. \A m \in expected \cap DOMAIN users : cursor < m => users[m].deleted \/ m \in Range(found)
  BY <1>1 DEF SearchInv
<1> HIDE DEF S
<1>8. CASE S = {}
  <2>1. cursor' = End /\ found' = found
    BY <1>2, <1>8 DEF First
  <2>2. \A i \in DOMAIN found : End < found[i]
    BY <1>1, <1>3, <1>6 DEF End
  <2>3. \A m \in expected \cap DOMAIN users : users[m].deleted \/ m \in Range(found)
    BY <1>1, <1>3, <1>4, <1>7, <1>8
  <2> QED BY <1>1, <2>1, <2>2, <2>3 DEF SearchInv
<1>9. CASE S # {}
  <2>1. n \in S /\ \A m \in S : m <= n
    BY <1>2, <1>9 DEF First
  <2>2. n \in DOMAIN users /\ n \in Nat /\ 0 < n /\ n <= cursor /\ cursor \in Nat
    BY <1>1, <1>3, <1>5, <2>1
  <2>3. found' = Append(found, n) /\ cursor' \in First(After(n))
    BY <1>2, <2>2 DEF End
  <2>4. /\ cursor' \in DOMAIN users \cup {End} /\ cursor' < n /\ cursor' \in Nat
        /\ \A m \in DOMAIN users : m < n => m <= cursor'
    BY <1>3, <2>2, <2>3 DEF First, After, End
  <2>5. /\ found' \in Seq(Nat) /\ n \in Range(found') /\ Range(found) \subseteq Range(found')
        /\ \A i \in DOMAIN found' : \/ i = Len(found) + 1 /\ found'[i] = n
                                    \/ i \in DOMAIN found /\ found'[i] = found[i]
    BY <1>1, <2>2, <2>3, FoundOneMore
  <2>6. \A i \in DOMAIN found' : cursor' < found'[i]
    BY <1>6, <2>2, <2>4, <2>5
  <2>7. \A i, j \in DOMAIN found' : found'[i] = found'[j] => i = j
    <3>1. \A i \in DOMAIN found : found[i] # n
      BY <1>6, <2>2
    <3> QED BY <2>5, <3>1 DEF SearchInv
  <2>8. ASSUME NEW m \in expected \cap DOMAIN users, cursor' < m, ~users[m].deleted
        PROVE  m \in Range(found')
    <3>1. CASE cursor < m
      BY <1>7, <2>5, <2>8, <3>1
    <3>2. CASE m <= cursor
      <4>1. m <= n
        BY <1>4, <2>1, <2>8, <3>2
      <4>2. m = n
        BY <1>3, <2>2, <2>4, <2>8, <4>1
      <4> QED BY <2>5, <4>2
    <3> QED BY <1>3, <2>2, <3>1, <3>2
  <2> QED BY <1>1, <2>4, <2>5, <2>6, <2>7, <2>8 DEF SearchInv
<1> QED BY <1>8, <1>9

\* The steps of a search.
LEMMA SearchKeepsSearch ==
    ASSUME TypeOK, SearchInv, Search
    PROVE  SearchInv'
<1>1. CASE OpenSearch
  <2>1. /\ UNCHANGED <<users, created>> /\ found' = <<>> /\ cursor' \in First(DOMAIN users)
        /\ expected' \subseteq DOMAIN users
    BY <1>1, Zenon DEF OpenSearch, index
  <2>2. DOMAIN users \subseteq 1..created /\ created \in Nat
    BY DEF TypeOK
  <2>3. cursor' \in DOMAIN users \cup {End} /\ \A n \in DOMAIN users : n <= cursor'
    BY <2>1 DEF First
  <2>4. \A n \in DOMAIN users : ~(cursor' < n)
    BY <2>2, <2>3 DEF End
  <2> QED BY <2>1, <2>2, <2>3, <2>4 DEF SearchInv
<1>2. CASE CloseSearch
  <2>1. UNCHANGED <<users, created>> /\ found' = <<>> /\ cursor' = Closed /\ expected' = {}
    BY <1>2 DEF CloseSearch, index
  <2>2. Closed \notin DOMAIN users \cup {End}
    BY UsersConstants DEF Closed, End, TypeOK, SearchInv
  <2> QED BY <2>1, <2>2 DEF SearchInv
<1>3. CASE SearchNextLost
  BY <1>3, SearchUntouched DEF SearchNextLost, Break, index, search, TypeOK, SearchInv
<1> QED BY <1>1, <1>2, <1>3, SearchNextKeeps DEF Search

\* Deleting, authorising and adding users leave the search alone.
LEMMA OthersKeepSearch ==
    ASSUME TypeOK, RegInv, SearchInv, Administration \/ Authorization(Auths)
    PROVE  SearchInv'
<1>t. /\ created \in Nat /\ created <= created /\ created <= MaxNodes
      /\ users \in [DOMAIN users -> UserRec]
  BY DEF TypeOK, SearchInv, UserRec
<1>s. ASSUME UNCHANGED <<search, created>>, DOMAIN users' = DOMAIN users,
             \A n \in DOMAIN users : users[n].deleted => users'[n].deleted
      PROVE  SearchInv'
  BY <1>t, <1>s, SearchUntouched
<1>1. ASSUME NEW l \in Logins, Add(l) PROVE SearchInv'
  <2>1. /\ UNCHANGED search /\ created' = created + 1 /\ created < MaxNodes
        /\ users' = Put(users, created + 1, NewUser(l))
    BY <1>1, Zenon DEF Add
  <2>2. created + 1 \notin DOMAIN users
    BY <1>t DEF TypeOK
  <2>3. DOMAIN users' = DOMAIN users \cup {created + 1} /\ \A n \in DOMAIN users : users'[n] = users[n]
    BY <2>1, <2>2 DEF Put
  <2>4. created' \in Nat /\ created <= created' /\ created' <= MaxNodes
        /\ created + 1 \in 1..created' /\ created + 1 > created
    BY <1>t, <2>1, UsersConstants
  <2> QED BY <2>1, <2>3, <2>4, SearchUntouched
<1>2. ASSUME NEW d \in Admins, NEW l \in Logins, DelBegins(d, l) PROVE SearchInv'
  <2>1. /\ loginIndex[l] \in DOMAIN users /\ UNCHANGED <<search, created>>
        /\ users' = [users EXCEPT ![loginIndex[l]] = [users[loginIndex[l]] EXCEPT !.deleted = TRUE]]
    BY <1>2 DEF DelBegins, RegInv, LoginInv
  <2>2. \A n \in DOMAIN users : users[n].deleted => users'[n].deleted
    BY <1>t, <2>1, MarkedLemma
  <2> QED BY <1>s, <2>1, <2>2
<1>3. ASSUME NEW n \in DOMAIN users, NEW a, UnauthorizeFound(n, a), UNCHANGED <<search, created>>
      PROVE  SearchInv'
  <2> DEFINE rest == users[n].by \ {a}
             none == IF rest = {} THEN NoAddr ELSE users[n].ip
  <2>1. users' = [users EXCEPT ![n] = Held(users[n], rest, none)]
    BY <1>3 DEF UnauthorizeFound, Unauthorized
  <2>2. rest \in SUBSET Auths /\ none \in Addrs \cup {NoAddr} /\ users[n] \in UserRec
    BY <1>t DEF UserRec
  <2> HIDE DEF rest, none
  <2>3. Held(users[n], rest, none).deleted = users[n].deleted
    BY <2>2, HeldLemma
  <2> QED BY <1>s, <1>t, <1>3, <2>1, <2>3
<1>4. ASSUME NEW d \in Admins, NEW a \in Auths, DelNotifies(d, a) PROVE SearchInv'
  <2>1. CASE Break
    BY <1>s, <2>1, Zenon DEF Break, index
  <2>2. ASSUME NEW l \in DOMAIN loginIndex, UnauthorizeFound(loginIndex[l], a),
               UNCHANGED <<search, created>>
        PROVE  SearchInv'
    BY <1>3, <1>4, <2>2 DEF DelNotifies, RegInv, LoginInv
  <2>3. CASE UNCHANGED <<users, search, created>>
    BY <1>s, <2>3, Zenon
  <2> QED BY <1>4, <2>1, <2>2, <2>3, Zenon DEF DelNotifies
<1>5. ASSUME NEW d \in Admins, DelEnds(d) PROVE SearchInv'
  BY <1>s, <1>5, Zenon DEF DelEnds, Break, index
<1>6. CASE TimePasses
  BY <1>s, <1>6, Zenon DEF TimePasses, index
<1>7. ASSUME NEW l \in Logins, NEW ip \in Addrs, NEW a \in Auths, Authorize(l, ip, a) PROVE SearchInv'
  <2>1. CASE UNCHANGED users
    BY <1>s, <1>7, <2>1, Zenon DEF Authorize, Break, regVars
  <2>2. ASSUME NEW n \in DOMAIN users, users' = Authorized(n, ip, a), users' # users
        PROVE  SearchInv'
    <3>1. users' = [users EXCEPT ![n] = Held(users[n], users[n].by \cup {a}, ip)]
      BY <2>2 DEF Authorized
    <3>2. users[n] \in UserRec /\ users[n].by \cup {a} \in SUBSET Auths
      BY <1>t DEF UserRec
    <3>3. Held(users[n], users[n].by \cup {a}, ip).deleted = users[n].deleted
      BY <3>2, HeldLemma
    <3>4. UNCHANGED <<search, created>>
      BY <1>7, <2>2, Zenon DEF Authorize, Break, index, regVars
    <3> QED BY <1>s, <1>t, <3>1, <3>3, <3>4
  <2> QED BY <1>7, <2>1, <2>2, Zenon DEF Authorize, Break, index, regVars, Relocks
<1>8. ASSUME NEW l \in Logins, NEW a \in Auths, Unauthorize(l, a) PROVE SearchInv'
  <2>1. loginIndex[l] \in DOMAIN users
    BY <1>8 DEF Unauthorize, RegInv, LoginInv
  <2> QED BY <1>3, <1>8, <2>1 DEF Unauthorize
<1> QED BY <1>1, <1>2, <1>4, <1>5, <1>6, <1>7, <1>8, EraseKeepsSearch, Zenon
        DEF Administration, Authorization

\* The server reads the users anew: there is no search.
LEMMA RestartKeepsSearch ==
    ASSUME TypeOK, Restart \/ Crash
    PROVE  SearchInv'
<1>1. PICK S : ReadUsers(S)
  BY DEF Restart, Crash
<1>2. PICK k \in 0..MaxNodes : /\ DOMAIN users' = (created + 1)..(created + k)
                               /\ created' = created + k
  BY <1>1 DEF ReadUsers
<1>3. created' <= MaxNodes /\ cursor' = Closed /\ found' = <<>> /\ expected' = {}
  BY <1>1 DEF ReadUsers
<1>4. Closed \notin DOMAIN users' \cup {End}
  BY <1>2, <1>3, UsersConstants DEF Closed, End, TypeOK
<1> QED BY <1>3, <1>4 DEF SearchInv

\* Whatever is added, marked, deleted and erased while a search is open, and
\* however the deletions interleave: at its end it has returned every user
\* that was there all the time, and none twice (users_impl.cpp:634-691).
THEOREM SearchIsComplete == Spec => []SearchComplete
<1> DEFINE Inv == TypeOK /\ RegInv /\ SearchInv
<1>1. RegInit => Inv
  <2> SUFFICES ASSUME RegInit PROVE SearchInv
    BY InitHolds
  <2> QED BY UsersConstants DEF RegInit, SearchInv, Closed, End
<1>2. Inv /\ [RegNext]_regVars => Inv'
  <2> SUFFICES ASSUME Inv, [RegNext]_regVars PROVE Inv'
    OBVIOUS
  <2>1. CASE UNCHANGED regVars
    <3>1. TypeOK' /\ RegInv'
      BY <2>1, Unchanged DEF regVars, index, deletion, fate
    <3>2. SearchInv'
      BY <2>1, SearchUntouched DEF regVars, index, search, TypeOK, SearchInv
    <3> QED BY <3>1, <3>2
  <2>2. CASE RegNext
    <3>1. TypeOK' /\ RegInv'
      BY <2>2, AdministrationKeeps, AuthorizationKeeps, SearchKeeps, RestartKeeps DEF RegNext
    <3>2. SearchInv'
      BY <2>2, OthersKeepSearch, SearchKeepsSearch, RestartKeepsSearch DEF RegNext
    <3> QED BY <3>1, <3>2
  <2> QED BY <2>1, <2>2
<1>3. Inv => SearchComplete
  <2> SUFFICES ASSUME Inv PROVE SearchComplete
    OBVIOUS
  <2>1. \A n \in DOMAIN users : 0 < n
    BY DEF TypeOK
  <2> QED BY <2>1, Zenon DEF SearchInv, SearchComplete, End
<1> QED BY <1>1, <1>2, <1>3, PTL DEF Spec
=============================================================================
