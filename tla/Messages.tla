------------------------------- MODULE Messages -------------------------------
(***************************************************************************)
(* The messages that wait for one user (UserImpl::AddMessage, SendMessage, *)
(* ScanMessage; user_impl.cpp).  They are kept in a vector, in memory, and *)
(* in the store.  ScanMessage walks through the vector with an iterator,   *)
(* here the position "it"; it runs under the user's lock, so nothing but   *)
(* time and a failure of the server comes between its steps.               *)
(*                                                                         *)
(* messages.erase(it++) leaves the iterator one place after the element    *)
(* that moved into the gap: that element is passed over, and when the last *)
(* element is erased the iterator is behind the end of the vector.  What   *)
(* follows is undefined; the model lets the server fail.                   *)
(*                                                                         *)
(* The unit of time is a minute.                                           *)
(***************************************************************************)
EXTENDS Integers, Sequences, FiniteSets, Functions

CONSTANTS
    Ids,                \* messages
    Repeats,            \* values of the field "repeat" that are asked for
    MessageTimeout,     \* 0: messages do not time out
    MaxTime,            \* bound on the clock
    MaxFailures         \* bound on the failures of the store and of the server

VARIABLES
    stgTime,
    messages,           \* sequence of records [id, created, repeat, last]
    store,              \* partial function from Ids to these records
    it,                 \* position of the walk, 0 when there is none
    sent,               \* the message at "it" was sent and is not yet stored
    online,             \* some authoriser has the user
    failures,
    asked, sends        \* history: [Ids -> repetitions asked for], [Ids -> sendings]

vars == <<stgTime, messages, store, it, sent, online, failures, asked, sends>>

Empty == [i \in {} |-> 0]
Put(f, i, x) == [j \in DOMAIN f \cup {i} |-> IF j = i THEN x ELSE f[j]]

\* Operations of the store, which may fail.
Stored(m)    == store' = Put(store, m.id, m) /\ UNCHANGED failures
Deleted(i)   == store' = [j \in DOMAIN store \ {i} |-> store[j]] /\ UNCHANGED failures
StoreFails   == failures < MaxFailures /\ failures' = failures + 1 /\ UNCHANGED store

\* Mutant: the number of repetitions is left as it is.
SendMessageAgain(m) == [m EXCEPT !.last = stgTime]

\* SendMessage when an authoriser took the message.
SendMessage(m) == [m EXCEPT !.last = stgTime, !.repeat = @ - 1]

NoteSend(i) == sends' = [sends EXCEPT ![i] = @ + 1]

\* store->AddMessage and push_back.
AddStored(m) ==
    \/ Stored(m) /\ messages' = Append(messages, m)
    \/ StoreFails /\ UNCHANGED messages

\* AddMessage: a message that nobody takes is kept; one that is sent is kept
\* when it is to be repeated, its count lowered once more.
AddMessage(i, n) ==
    LET new == [id |-> i, created |-> stgTime, repeat |-> n, last |-> 0]
        one == SendMessage(new)
    IN  /\ it = 0 /\ asked[i] = -1
        /\ asked' = [asked EXCEPT ![i] = n]
        /\ \/ AddStored(new) /\ UNCHANGED sends
           \/ /\ online /\ NoteSend(i)
              /\ \/ one.repeat > 0 /\ AddStored([one EXCEPT !.repeat = @ - 1])
                 \/ one.repeat <= 0 /\ UNCHANGED <<messages, store, failures>>
        /\ UNCHANGED <<stgTime, it, sent, online>>

-----------------------------------------------------------------------------
Expired(m, t) == MessageTimeout > 0 /\ t - m.created > MessageTimeout

\* Mutant: the comparison is the wrong way round.
DueLate(m) == m.last + m.repeat > stgTime

\* GetNextSendTime: the number of repetitions is taken for minutes; the field
\* repeatPeriod is read nowhere.
Due(m) == m.last + m.repeat <= stgTime

EraseAt(k) == SubSeq(messages, 1, k - 1) \o SubSeq(messages, k + 1, Len(messages))

\* The iterator moves on; the walk is over when it is at the end.
Advance(ms) == it' = IF it + 1 = Len(ms) + 1 THEN 0 ELSE it + 1

Erase ==
    /\ Deleted(messages[it].id) \/ StoreFails
    /\ messages' = EraseAt(it)
    /\ Advance(messages')

ScanBegins ==
    /\ it = 0 /\ online /\ messages # <<>>
    /\ it' = 1
    /\ UNCHANGED <<stgTime, messages, store, sent, online, failures, asked, sends>>

ScanMessage ==
    /\ it \in 1..Len(messages)
    /\ LET m == messages[it]
       IN  \/ /\ ~sent /\ Expired(m, stgTime)
              /\ Erase /\ UNCHANGED <<sent, sends>>
           \/ /\ ~sent /\ ~Expired(m, stgTime) /\ Due(m)
              /\ messages' = [messages EXCEPT ![it] = SendMessage(@)]
              /\ NoteSend(m.id)
              /\ sent' = TRUE /\ UNCHANGED <<it, store, failures>>
           \* nobody takes the message, or its time has not come
           \/ /\ ~sent /\ ~Expired(m, stgTime)
              /\ Advance(messages) /\ UNCHANGED <<messages, store, failures, sent, sends>>
           \/ /\ sent /\ m.repeat < 0
              /\ Erase /\ sent' = FALSE /\ UNCHANGED sends
           \/ /\ sent /\ m.repeat >= 0
              /\ Stored(m) \/ StoreFails
              /\ Advance(messages) /\ sent' = FALSE /\ UNCHANGED <<messages, sends>>
    /\ UNCHANGED <<stgTime, online, asked>>

\* The server starts again and reads the store, in the order of the directory
\* (ReadConf; GetMessageHdrs leaves out what is not to be repeated).
Restart ==
    LET kept == {i \in DOMAIN store : store[i].repeat >= 0}
        n == Cardinality(kept)
    IN  /\ \E order \in Bijection(1..n, kept) :
             messages' = [k \in 1..n |-> store[order[k]]]
        /\ store' = [i \in kept |-> store[i]]
        /\ it' = 0 /\ sent' = FALSE /\ online' = FALSE
        /\ UNCHANGED <<stgTime, asked, sends>>

Overrun == it > Len(messages) /\ Restart /\ UNCHANGED failures

Crash == failures < MaxFailures /\ failures' = failures + 1 /\ Restart

\* The user comes and goes.
SetOnline ==
    /\ it = 0 /\ online' = ~online
    /\ UNCHANGED <<stgTime, messages, store, it, sent, failures, sends, asked>>

Tick ==
    /\ stgTime < MaxTime /\ stgTime' = stgTime + 1
    /\ UNCHANGED <<messages, store, it, sent, online, failures, sends, asked>>

Init ==
    /\ stgTime = 0 /\ messages = <<>> /\ store = Empty
    /\ it = 0 /\ sent = FALSE /\ online = FALSE /\ failures = 0
    /\ asked = [i \in Ids |-> -1] /\ sends = [i \in Ids |-> 0]

Next ==
    \/ \E i \in Ids, n \in Repeats : AddMessage(i, n)
    \/ ScanBegins \/ ScanMessage \/ Overrun \/ Crash \/ SetOnline \/ Tick

Spec == Init /\ [][Next]_vars

\* UserImpl::Run scans every ten seconds; an authoriser that is asked again
\* and again takes the message; the clock runs.
Sending == ScanMessage /\ sent'
FairSpec == Spec /\ WF_vars(Tick) /\ WF_vars(ScanMessage) /\ SF_vars(ScanBegins)
                 /\ SF_vars(Sending) /\ WF_vars(Overrun)

\* There are finitely many messages; nobody asks for fewer than no repetitions.
MsgConstants == IsFiniteSet(Ids) /\ Repeats \subseteq Nat

-----------------------------------------------------------------------------
\* A message in memory is in the store, with as many repetitions left or,
\* after a failure, with more; and while nothing has failed the store holds no
\* other (user_impl.cpp:1273-1387).
StoreAgrees ==
    /\ \A k \in DOMAIN messages :
         /\ messages[k].id \in DOMAIN store
         /\ store[messages[k].id].repeat >= messages[k].repeat
    /\ failures = 0 /\ it = 0 =>
         DOMAIN store = {messages[k].id : k \in DOMAIN messages}

\* A message is sent once for each repetition and once more at most, and each
\* failure of the store or the server costs one further sending.
BoundedSends ==
    \A i \in Ids : asked[i] >= 0 => sends[i] <= asked[i] + 1 + failures

\* A message is neither forgotten nor repeated without end
\* (user_impl.cpp:1273-1387).
MessagesKept == StoreAgrees /\ BoundedSends

Waiting(i) == \E k \in DOMAIN messages : messages[k].id = i /\ messages[k].last = 0

\* A message that waits for its first sending is sent or times out, if the
\* user keeps coming online.
Delivered ==
    \A i \in Ids : []<>online => (Waiting(i) ~> ~Waiting(i))
=============================================================================
