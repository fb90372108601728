-------------------------------- MODULE Users --------------------------------
(***************************************************************************)
(* The registry of users (projects/stargazer/users_impl.cpp): the list of  *)
(* users, its indexes by login and by address, the deletion in three steps *)
(* with a delay, the searches, and the users' names in the store.          *)
(*                                                                         *)
(* An element of the list is a node, named by the order of creation and    *)
(* never reused, so that an iterator to an erased element is recognised.   *)
(* Elements are only ever added at the front: the list is its nodes, from  *)
(* the youngest to the oldest.                                             *)
(* Every method runs under m_mutex, a std::mutex.  Several of them lock it *)
(* again while they hold it, which is undefined: RelockOutcomes says what  *)
(* happens, "blocks" (what glibc does) or "passes" (the method goes on).   *)
(***************************************************************************)
EXTENDS Naturals, Sequences, Functions

CONSTANTS
    Logins, Addrs, NoAddr, Auths,
    Admins,                 \* threads that delete users
    RelockOutcomes,
    MaxNodes                \* bound: elements of the list ever created

ASSUME UsersConstants ==
    /\ NoAddr \notin Addrs /\ MaxNodes \in Nat
    /\ RelockOutcomes \subseteq {"blocks", "passes"}

VARIABLES
    stored,                 \* logins the store knows
    users,                  \* [node -> user], for the elements of the list
    loginIndex, ipIndex,    \* to nodes
    usersToDelete,          \* queue of nodes, in the order of their time
    due,                    \* for so many of them, from the head, it has come
    deleting,               \* [Admins -> [node, left]]: calls of Del under way
    cursor,                 \* a search descriptor
    found, expected,        \* what the search returned; who was there when it began
    ips,                    \* [Logins -> SUBSET Addrs]: the property ips
    created,                \* nodes created so far
    mutex,                  \* "free", or "stuck" after a relock that blocks
    broken,                 \* an erased element was used
    asserted,               \* AddToIPIdx met an address that was in the index
    late,                   \* nodes authorised after Del had marked them
    twice                   \* Del was called for a user that was being deleted

index    == <<users, loginIndex, ipIndex>>
deletion == <<usersToDelete, due, deleting>>
search   == <<cursor, found, expected>>
fate     == <<mutex, broken, asserted, late, twice>>
regVars  == <<stored, index, deletion, search, ips, created, fate>>

End    == 0
Closed == MaxNodes + 1
Lost   == MaxNodes + 2      \* the element at the descriptor was erased
Idle   == [node |-> End, left |-> {}]

Put(f, k, v) == [x \in DOMAIN f \cup {k} |-> IF x = k THEN v ELSE f[x]]
Drop(f, S)   == [x \in DOMAIN f \ S |-> f[x]]

NewUser(l) == [login |-> l, deleted |-> FALSE, by |-> {}, ip |-> NoAddr]

Sane == mutex = "free" /\ ~broken

\* A method that locks m_mutex again: it goes on and does the rest, or it is
\* stuck with what it has done so far.
Relocks(rest, sofar) ==
    \/ "passes" \in RelockOutcomes /\ rest /\ UNCHANGED mutex
    \/ "blocks" \in RelockOutcomes /\ sofar /\ mutex' = "stuck"

Break == broken' = TRUE /\ UNCHANGED <<stored, index, deletion, search, ips, created, mutex, asserted, late, twice>>

-----------------------------------------------------------------------------
\* Add: the store refuses a login it knows; a new user may use any address;
\* AddUserIntoIndexes locks again.
Add(l) ==
    /\ Sane /\ created < MaxNodes /\ l \notin stored
    /\ stored' = stored \cup {l}
    /\ created' = created + 1
    /\ users' = Put(users, created + 1, NewUser(l))
    /\ Relocks(loginIndex' = Put(loginIndex, l, created + 1), UNCHANGED loginIndex)
    /\ ips' = [ips EXCEPT ![l] = Addrs]
    /\ UNCHANGED <<ipIndex, deletion, search, broken, asserted, late, twice>>

(***************************************************************************)
(* UserImpl::Authorize and Unauthorize, as far as the registry sees them   *)
(* (module User has the whole of them).                                    *)
(***************************************************************************)
UserAuthorizes(n, ip, a) ==
    \/ a \in users[n].by
    \/ users[n].by # {} /\ users[n].ip = ip /\ (ip \in DOMAIN ipIndex => ipIndex[ip] = n)
    \/ users[n].by = {} /\ ip \notin DOMAIN ipIndex /\ ip \in ips[users[n].login]

\* The user u with these authorisers and this address.
Held(u, by, ip) == [u EXCEPT !.by = by, !.ip = ip]

Authorized(n, ip, a) ==
    IF a \in users[n].by THEN users
    ELSE [users EXCEPT ![n] = Held(users[n], users[n].by \cup {a}, ip)]

Unauthorized(n, a) ==
    LET rest == users[n].by \ {a}
    IN  [users EXCEPT ![n] = Held(users[n], rest, IF rest = {} THEN NoAddr ELSE users[n].ip)]

\* AddToIPIdx: insert leaves an entry that is there as it is.
AddToIPIdx(n, ip) ==
    IF ip \in DOMAIN ipIndex THEN asserted' = TRUE /\ UNCHANGED ipIndex
    ELSE ipIndex' = Put(ipIndex, ip, n) /\ UNCHANGED asserted

\* Authorize: a user whose address is in the index already is not added to
\* it again.  UserImpl::Authorize and AddToIPIdx lock m_mutex again.
Authorize(l, ip, a) ==
    LET occupied == ip \in DOMAIN ipIndex
        n == IF occupied THEN ipIndex[ip] ELSE loginIndex[l]
        refused == users[n].login # l \/ ~UserAuthorizes(n, ip, a)
    IN  /\ Sane
        /\ \/ l \notin DOMAIN loginIndex /\ UNCHANGED regVars
           \/ l \in DOMAIN loginIndex /\ n \notin DOMAIN users /\ Break
           \/ /\ l \in DOMAIN loginIndex /\ n \in DOMAIN users
              /\ Relocks(/\ users' = IF refused THEN users ELSE Authorized(n, ip, a)
                         /\ late' = IF users' # users /\ users[n].deleted THEN late \cup {n} ELSE late
                         /\ IF refused \/ occupied THEN UNCHANGED <<ipIndex, asserted>>
                            ELSE AddToIPIdx(n, users'[n].ip),
                         UNCHANGED <<users, late, ipIndex, asserted>>)
              /\ UNCHANGED <<stored, loginIndex, deletion, search, ips, created, broken, twice>>

\* Mutant: the address stays in the index.
UnauthorizeUser(n, a) ==
    /\ users' = Unauthorized(n, a) /\ UNCHANGED <<ipIndex, mutex>>

\* Unauthorize, of a user that was found: the address leaves the index with
\* the last authoriser.  DelFromIPIdx locks m_mutex again.
UnauthorizeFound(n, a) ==
    /\ users' = Unauthorized(n, a)
    /\ IF users'[n].by = {}
       THEN Relocks(ipIndex' = Drop(ipIndex, {users[n].ip}), UNCHANGED ipIndex)
       ELSE UNCHANGED <<ipIndex, mutex>>

Unauthorize(l, a) ==
    /\ Sane /\ l \in DOMAIN loginIndex
    /\ UnauthorizeFound(loginIndex[l], a)
    /\ UNCHANGED <<stored, loginIndex, deletion, search, ips, created, broken, asserted, late, twice>>

-----------------------------------------------------------------------------
(***************************************************************************)
(* Del: the user is marked under the mutex; the callbacks run without it,  *)
(* among them DelUser of each authoriser; then, under it again, the user   *)
(* is queued and leaves the login index.                                   *)
(***************************************************************************)
DelBegins(d, l) ==
    /\ Sane /\ deleting[d] = Idle /\ l \in DOMAIN loginIndex
    /\ users' = [users EXCEPT ![loginIndex[l]].deleted = TRUE]
    /\ deleting' = [deleting EXCEPT ![d] = [node |-> loginIndex[l], left |-> Auths]]
    /\ twice' = (twice \/ users[loginIndex[l]].deleted)
    /\ UNCHANGED <<stored, loginIndex, ipIndex, usersToDelete, due, search, ips,
                   created, mutex, broken, asserted, late>>

\* DelUser of the authoriser a: Unauthorize finds the user by its login.
DelNotifies(d, a) ==
    LET n == deleting[d].node
        l == users[n].login
    IN  /\ Sane /\ a \in deleting[d].left
        /\ \/ n \notin DOMAIN users /\ Break
           \/ /\ n \in DOMAIN users
              /\ deleting' = [deleting EXCEPT ![d].left = @ \ {a}]
              /\ IF a \in users[n].by /\ l \in DOMAIN loginIndex
                 THEN UnauthorizeFound(loginIndex[l], a)
                 ELSE UNCHANGED <<users, ipIndex, mutex>>
              /\ UNCHANGED <<stored, loginIndex, usersToDelete, due, search, ips, created,
                             broken, asserted, late, twice>>

\* OnDelete locks the user's mutex and calls Run, which locks it again.
DelEnds(d) ==
    LET n == deleting[d].node
    IN  /\ Sane /\ deleting[d] # Idle /\ deleting[d].left = {}
        /\ \/ n \notin DOMAIN users /\ Break
           \/ /\ n \in DOMAIN users
              /\ Relocks(/\ usersToDelete' = Append(usersToDelete, n)
                         /\ loginIndex' = Drop(loginIndex, {users[n].login})
                         /\ deleting' = [deleting EXCEPT ![d] = Idle],
                         UNCHANGED <<usersToDelete, loginIndex, deleting>>)
              /\ UNCHANGED <<stored, users, ipIndex, due, search, ips, created, broken,
                             asserted, late, twice>>

\* userDeleteDelayTime has passed for more users of the queue.
TimePasses ==
    /\ due' \in due + 1 .. Len(usersToDelete)
    /\ UNCHANGED <<stored, index, usersToDelete, deleting, search, ips, created, fate>>

DueNodes == {usersToDelete[i] : i \in 1 .. due}

\* Two entries for one node, or a node that is gone, erase it twice.
ErasedTwice ==
    \/ ~(DueNodes \subseteq DOMAIN users)
    \/ \E i, j \in 1 .. due : i # j /\ usersToDelete[i] = usersToDelete[j]

\* The users whose time has come leave the store and the list.  The store
\* may fail, which is only logged.
Erase ==
    /\ users' = Drop(users, DueNodes)
    /\ cursor' = IF cursor \in DueNodes THEN Lost ELSE cursor
    /\ \E failed \in SUBSET {users[n].login : n \in DueNodes} :
         stored' = stored \ ({users[n].login : n \in DueNodes} \ failed)

\* Mutant: the entry of an erased user stays in the queue.
RealDelUserKeeps ==
    /\ Sane /\ due > 0
    /\ IF ErasedTwice THEN Break
       ELSE /\ Erase /\ due' = 0
            /\ UNCHANGED <<loginIndex, ipIndex, usersToDelete, deleting, found, expected, ips, created, fate>>

RealDelUser ==
    /\ Sane /\ due > 0
    /\ IF ErasedTwice THEN Break
       ELSE /\ Erase
            /\ usersToDelete' = SubSeq(usersToDelete, due + 1, Len(usersToDelete)) /\ due' = 0
            /\ UNCHANGED <<loginIndex, ipIndex, deleting, found, expected, ips, created, fate>>

-----------------------------------------------------------------------------
(***************************************************************************)
(* Searches.  A descriptor is an iterator; deleted users are passed over.  *)
(***************************************************************************)
\* Where an iterator to the first of the elements S of the list points.
First(S) == IF S = {} THEN {End} ELSE {n \in S : \A m \in S : m <= n}

After(n) == {m \in DOMAIN users : m < n}

OpenSearch ==
    /\ Sane /\ cursor = Closed
    /\ cursor' \in First(DOMAIN users) /\ found' = <<>>
    /\ expected' = {n \in DOMAIN users : ~users[n].deleted}
    /\ UNCHANGED <<stored, index, deletion, ips, created, fate>>

\* Mutant: a deleted user ends the search.
SearchStops ==
    /\ Sane /\ cursor \in DOMAIN users
    /\ IF users[cursor].deleted THEN cursor' = End /\ UNCHANGED found
       ELSE found' = Append(found, cursor) /\ cursor' \in First(After(cursor))
    /\ UNCHANGED <<stored, index, deletion, expected, ips, created, fate>>

SearchNext ==
    /\ Sane /\ cursor \in DOMAIN users
    /\ \E n \in First({m \in After(cursor) \cup {cursor} : ~users[m].deleted}) :
         IF n = End THEN cursor' = End /\ UNCHANGED found
         ELSE found' = Append(found, n) /\ cursor' \in First(After(n))
    /\ UNCHANGED <<stored, index, deletion, expected, ips, created, fate>>

SearchNextLost ==
    /\ Sane /\ cursor = Lost /\ Break

CloseSearch ==
    /\ Sane /\ cursor # Closed
    /\ cursor' = Closed /\ found' = <<>> /\ expected' = {}
    /\ UNCHANGED <<stored, index, deletion, ips, created, fate>>

SetIPs(l, S) ==
    /\ ips' = [ips EXCEPT ![l] = S]
    /\ UNCHANGED <<stored, index, deletion, search, created, fate>>

-----------------------------------------------------------------------------
(***************************************************************************)
(* ReadUsers: the list is made from the store, in any order.  A server     *)
(* that is stopped in order deletes the users in the queue first; one that *)
(* fails does not.                                                         *)
(***************************************************************************)
ReadUsers(S) ==
    /\ \E k \in 0..MaxNodes :
         LET nodes == (created + 1)..(created + k)
         IN  \E login \in Bijection(nodes, S) :
               /\ users' = [n \in nodes |-> NewUser(login[n])]
               /\ loginIndex' = [l \in S |-> CHOOSE n \in nodes : login[n] = l]
               /\ created' = created + k
    /\ created' <= MaxNodes
    /\ ipIndex' = <<>>
    /\ usersToDelete' = <<>> /\ due' = 0 /\ deleting' = [d \in Admins |-> Idle]
    /\ cursor' = Closed /\ found' = <<>> /\ expected' = {}
    /\ mutex' = "free" /\ broken' = FALSE /\ asserted' = FALSE
    /\ late' = {} /\ twice' = FALSE

Queued == {users[usersToDelete[i]].login : i \in DOMAIN usersToDelete}

Restart ==
    /\ Sane /\ \A d \in Admins : deleting[d] = Idle
    /\ Range(usersToDelete) \subseteq DOMAIN users
    /\ \E failed \in SUBSET Queued : stored' = (stored \ Queued) \cup failed
    /\ ReadUsers(stored')
    /\ UNCHANGED ips

Crash ==
    /\ ReadUsers(stored)
    /\ UNCHANGED <<stored, ips>>

RegInit ==
    /\ stored = {} /\ users = <<>> /\ loginIndex = <<>> /\ ipIndex = <<>>
    /\ usersToDelete = <<>> /\ due = 0 /\ deleting = [d \in Admins |-> Idle]
    /\ cursor = Closed /\ found = <<>> /\ expected = {}
    /\ ips = [l \in Logins |-> Addrs] /\ created = 0
    /\ mutex = "free" /\ broken = FALSE /\ asserted = FALSE
    /\ late = {} /\ twice = FALSE

(***************************************************************************)
(* The authorisers ask for a user they have not authorised, at an address, *)
(* and withdraw a user they have (inetaccess.cpp: modules InetAccess and   *)
(* AlwaysOnline have their conditions).                                    *)
(***************************************************************************)
HasNode(l, n) == l \in DOMAIN loginIndex /\ loginIndex[l] = n
HasUser(l, a) == l \in DOMAIN loginIndex /\ a \in users[loginIndex[l]].by

Administration ==
    \/ \E l \in Logins : Add(l)
    \/ \E d \in Admins : \/ \E l \in Logins : DelBegins(d, l)
                         \/ \E a \in Auths : DelNotifies(d, a)
                         \/ DelEnds(d)
    \/ TimePasses \/ RealDelUser

Authorization(A) ==
    \E l \in Logins, a \in A :
      \/ \E ip \in Addrs : ~HasUser(l, a) /\ Authorize(l, ip, a)
      \/ HasUser(l, a) /\ Unauthorize(l, a)

Search == OpenSearch \/ SearchNext \/ SearchNextLost \/ CloseSearch

\* The property ips changes in module AlwaysOnline.
RegNext == Administration \/ Authorization(Auths) \/ Search \/ Restart \/ Crash

Spec == RegInit /\ [][RegNext]_regVars

-----------------------------------------------------------------------------
\* The variables hold values of their types; an element of the list keeps
\* its number.
TypeOK ==
    /\ stored \subseteq Logins /\ created \in Nat
    /\ DOMAIN users \subseteq 1..created
    /\ users \in [DOMAIN users -> [login : Logins, deleted : BOOLEAN, by : SUBSET Auths,
                                   ip : Addrs \cup {NoAddr}]]
    /\ DOMAIN loginIndex \subseteq Logins /\ loginIndex \in [DOMAIN loginIndex -> 1..created]
    /\ DOMAIN ipIndex \subseteq Addrs /\ ipIndex \in [DOMAIN ipIndex -> 1..created]
    /\ usersToDelete \in Seq(1..created) /\ due \in 0..Len(usersToDelete)
    /\ deleting \in [Admins -> {Idle} \cup [node : 1..created, left : SUBSET Auths]]

\* The address index and the users' own addresses say the same: an address
\* in the index leads to a user of the list who is authorised there, and
\* every authorised user is found at its address.  Two authorisers, changes
\* of the allowed addresses, deletion and its delay come in between.  Not
\* covered: a user authorised after Del marked it, whose entry nothing
\* removes (users_impl.cpp:182-188, 205-256, 539-569).
IndexSound ==
    Sane => /\ \A ip \in DOMAIN ipIndex : ipIndex[ip] \notin late =>
                 ipIndex[ip] \in DOMAIN users /\ users[ipIndex[ip]].ip = ip
            /\ \A n \in DOMAIN users :
                 /\ users[n].by = {} <=> users[n].ip = NoAddr
                 /\ users[n].by # {} => /\ users[n].ip \in DOMAIN ipIndex
                                        /\ ipIndex[users[n].ip] = n

\* A login names one user: while a deleted user waits to be erased no other
\* one with its login exists, every user that is not deleted is found by its
\* login, and the store knows every login of the list
\* (users_impl.cpp:119-203, 512-537).
OneUserPerLogin ==
    Sane => /\ \A m, n \in DOMAIN users : users[m].login = users[n].login => m = n
            /\ \A n \in DOMAIN users : /\ users[n].login \in stored
                                       /\ \/ users[n].deleted
                                          \/ HasNode(users[n].login, n)

\* An erased user is never touched again: the delay, the queue, the indexes
\* and the calls under way agree (users_impl.cpp:512-537).  Three causes are
\* left out, and named by the state: a user authorised or deleted after Del
\* had marked it, and a search whose element was erased.
NotBroken == broken => late # {} \/ twice \/ cursor = Lost

\* The list, the store and the login index agree, and nobody holds on to an
\* element that is gone (users_impl.cpp:119-203, 512-537).
RegistrySound == OneUserPerLogin /\ NotBroken

\* A search that has come to its end returned every user that was there
\* when it began and is still not deleted, and none of them twice, whatever
\* was added, deleted and erased meanwhile (users_impl.cpp:634-691).
SearchComplete ==
    /\ cursor = End =>
         \A n \in expected \cap DOMAIN users : users[n].deleted \/ n \in Range(found)
    /\ \A i, j \in DOMAIN found : found[i] = found[j] => i = j
=============================================================================
