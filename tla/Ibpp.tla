-------------------------------- MODULE Ibpp --------------------------------
(***************************************************************************)
(* The objects of the Firebird client library (libs/ibpp) and the raw      *)
(* pointers between them.  A transaction lists its databases and is listed *)
(* by them; a statement, a blob or an array points to its database and its *)
(* transaction and is listed by both.  Nothing counts these pointers: a    *)
(* destructor must undo them, while calls to the server may fail at any    *)
(* point and destructors swallow exceptions.                               *)
(*                                                                         *)
(* The heap is one record.  An operation is an operator from heaps to      *)
(* heaps; "thrown" is an exception on its way, "fails" the numbers of the  *)
(* calls to the server that fail during the operation.  "undefined" is set *)
(* by a call through a pointer to a deleted object and by the erasure of   *)
(* an element that a vector does not hold.                                 *)
(***************************************************************************)
EXTENDS Integers, Sequences, SequencesExt, FiniteSets

CONSTANTS Databases, Transactions, Statements, Blobs, Arrays,
          MaxFaults,            \* failing calls of the server in one history
          MaxCalls,             \* calls of one operation that may fail
          MaxLinks,             \* databases attached to a transaction
          Programs              \* the sets of objects a program makes

VARIABLES heap, faults

vars == <<heap, faults>>

Null == "null"
Children == Statements \cup Blobs \cup Arrays
Parents == Databases \cup Transactions
Objects == Children \cup Parents

NoStatement == [type |-> "unknown", in |-> "none", out |-> "none", rs |-> FALSE, cur |-> FALSE]

Throw(h) == [h EXCEPT !.thrown = TRUE]
Wild(h) == [h EXCEPT !.undefined = TRUE]

\* a then b, unless a throws
Then(h, Op(_)) == IF h.thrown THEN h ELSE Op(h)

\* A call of the client library of Firebird
Server(h) == [h EXCEPT !.calls = @ + 1, !.thrown = (h.calls + 1) \in h.fails]

\* try { ... } catch (...) { } in the destructor of o
Swallow(h, o, Op(_)) ==
    LET r == Op(h) IN IF r.thrown THEN [r EXCEPT !.thrown = FALSE, !.lost = @ \cup {o}] ELSE r

Open(h, o) == [h EXCEPT !.open = @ \cup {o}]
Shut(h, o) == [h EXCEPT !.open = @ \ {o}]
Connected(h, d) == d \in h.open
Started(h, t) == t \in h.open


----------------------------------------------------------------------------
(* The links.                                                              *)

\* Attach{Statement,Blob,Array}Impl of a database and of a transaction
DbAdopt(h, d, c) == [h EXCEPT !.kids[d] = Append(@, c)]
TrAdopt(h, t, c) == [h EXCEPT !.kids[t] = Append(@, c)]

Disown(h, p, c) ==
    IF p \notin h.live \/ ~Contains(h.kids[p], c) THEN Wild(h)
    ELSE [h EXCEPT !.kids[p] = RemoveFirst(@, c)]

\* Detach{Statement,Blob,Array}Impl of a database and of a transaction
DbDisown(h, d, c) == Disown(h, d, c)
TrDisown(h, t, c) == Disown(h, t, c)

\* {Database,Transaction}Impl::{Attach,Detach}TransactionImpl
AttachTransactionImpl(h, d, t) == [h EXCEPT !.trs[d] = Append(@, t)]
DetachTransactionImpl(h, d, t) ==
    IF d \notin h.live \/ ~Contains(h.trs[d], t) THEN Wild(h)
    ELSE [h EXCEPT !.trs[d] = RemoveFirst(@, t)]

TrAttachDatabaseImpl(h, t, d) ==
    IF Started(h, t) THEN Throw(h)
    ELSE AttachTransactionImpl([h EXCEPT !.dbs[t] = Append(@, d)], d, t)

TrDetachDatabaseImpl(h, t, d) ==
    IF t \notin h.live THEN Wild(h)
    ELSE IF Started(h, t) THEN Throw(h)
    ELSE DetachTransactionImpl([h EXCEPT !.dbs[t] = RemoveFirst(@, d)], d, t)

\* The statement gives up its rows and its handle, even if the server fails
StClose(h, s) ==
    LET closed == Shut([h EXCEPT !.st[s] = NoStatement], s)
    IN IF s \in h.open THEN Server(closed) ELSE closed

StDetachDatabaseImpl(h, s) ==
    IF h.db[s] = Null THEN h
    ELSE Then(StClose(h, s), LAMBDA g : [DbDisown(g, g.db[s], s) EXCEPT !.db[s] = Null])

StDetachTransactionImpl(h, s) ==
    IF h.tr[s] = Null THEN h
    ELSE Then(StClose(h, s), LAMBDA g : [TrDisown(g, g.tr[s], s) EXCEPT !.tr[s] = Null])

BlobDetachDatabaseImpl(h, b) == IF h.db[b] = Null THEN h ELSE [DbDisown(h, h.db[b], b) EXCEPT !.db[b] = Null]
BlobDetachTransactionImpl(h, b) == IF h.tr[b] = Null THEN h ELSE [TrDisown(h, h.tr[b], b) EXCEPT !.tr[b] = Null]
ArrayDetachDatabaseImpl(h, a) == IF h.db[a] = Null THEN h ELSE [DbDisown(h, h.db[a], a) EXCEPT !.db[a] = Null]
ArrayDetachTransactionImpl(h, a) == IF h.tr[a] = Null THEN h ELSE [TrDisown(h, h.tr[a], a) EXCEPT !.tr[a] = Null]

DetachDatabaseImpl(h, c) ==
    IF c \notin h.live THEN Wild(h)
    ELSE CASE c \in Statements -> StDetachDatabaseImpl(h, c)
           [] c \in Blobs -> BlobDetachDatabaseImpl(h, c)
           [] c \in Arrays -> ArrayDetachDatabaseImpl(h, c)

DetachChild(h, c) ==
    IF c \notin h.live THEN Wild(h)
    ELSE CASE c \in Statements -> StDetachTransactionImpl(h, c)
           [] c \in Blobs -> BlobDetachTransactionImpl(h, c)
           [] c \in Arrays -> ArrayDetachTransactionImpl(h, c)

\* while (list.size() > 0) Op(list.back()), which an exception ends
FromTheBack(h, list, Op(_, _)) ==
    FoldRight(LAMBDA c, g : IF g.thrown \/ g.undefined THEN g ELSE Op(g, c), list, h)

Among(list, S) == SelectSeq(list, LAMBDA c : c \in S)

----------------------------------------------------------------------------
(* Transactions.                                                           *)

Start(h, t) ==
    IF Started(h, t) THEN h
    ELSE IF h.dbs[t] = <<>> THEN Throw(h)
    ELSE IF \E d \in ToSet(h.dbs[t]) : d \notin h.live THEN Wild(h)
    ELSE IF \E d \in ToSet(h.dbs[t]) : ~Connected(h, d) THEN Throw(h)
    ELSE Then(Server(h), LAMBDA g : Open(g, t))

Commit(h, t) == IF ~Started(h, t) THEN Throw(h) ELSE Then(Server(h), LAMBDA g : Shut(g, t))

\* CommitRetain and RollbackRetain
Retain(h, t) == IF ~Started(h, t) THEN Throw(h) ELSE Server(h)

Rollback(h, t) == IF ~Started(h, t) THEN h ELSE Then(Server(h), LAMBDA g : Shut(g, t))

DeleteTransaction(h, t) ==
    LET rolled == Swallow(h, t, LAMBDA g : Rollback(g, t))
        blobs == Swallow(rolled, t, LAMBDA g : FromTheBack(g, Among(g.kids[t], Blobs), DetachChild))
        arrays == Swallow(blobs, t, LAMBDA g : FromTheBack(g, Among(g.kids[t], Arrays), DetachChild))
        statements == Swallow(arrays, t, LAMBDA g : FromTheBack(g, Among(g.kids[t], Statements), DetachChild))
        databases == Swallow(statements, t, LAMBDA g : FromTheBack(g, g.dbs[t], LAMBDA k, d : TrDetachDatabaseImpl(k, t, d)))
    IN [Shut(databases, t) EXCEPT !.live = @ \ {t}]

----------------------------------------------------------------------------
(* Databases.                                                              *)

\* "refused" is an ODS or a dialect that is not supported: the library detaches
Connect(h, d, refused) ==
    IF Connected(h, d) THEN h
    ELSE Then(Server(h), LAMBDA g :
        LET info == Server(g)
        IN IF info.thrown \/ refused THEN Throw([info EXCEPT !.calls = @ + 1])
           ELSE Open(info, d))

Inactivate(h, d) ==
    IF ~Connected(h, d) THEN h
    ELSE LET RollbackOf(g, t) == IF t \notin g.live THEN Wild(g) ELSE Rollback(g, t)
             rolled == FromTheBack(h, Reverse(h.trs[d]), RollbackOf)
             Detach(g, S) == Then(g, LAMBDA k : FromTheBack(k, Among(k.kids[d], S), DetachDatabaseImpl))
             children == Detach(Detach(Detach(rolled, Blobs), Arrays), Statements)
         IN Then(children, LAMBDA g : FromTheBack(g, g.trs[d], LAMBDA k, t : TrDetachDatabaseImpl(k, t, d)))

Disconnect(h, d) ==
    IF ~Connected(h, d) THEN h ELSE Then(Inactivate(h, d), LAMBDA g : Server(Shut(g, d)))

\* Create makes the database through a connection that it closes again
CreateDatabase(h, d) ==
    IF Connected(h, d) THEN Throw(h)
    ELSE Then(Server(h), LAMBDA g : Disconnect(Open(g, d), d))

Drop(h, d) ==
    IF ~Connected(h, d) THEN Throw(h)
    ELSE Then(Inactivate(h, d), LAMBDA g : Then(Server(g), LAMBDA k : Shut(k, d)))

\* Info, Statistics, Counts and Users
InfoOf(h, d) == IF ~Connected(h, d) THEN Throw(h) ELSE Server(h)

\* A database that is not connected leaves its children as they are
DeleteDatabase(h, d) ==
    LET gone == IF Connected(h, d) THEN Swallow(h, d, LAMBDA g : Disconnect(g, d))
                ELSE [h EXCEPT !.lost = @ \cup {d}]
    IN [Shut(gone, d) EXCEPT !.live = @ \ {d}]

----------------------------------------------------------------------------
(* Statements.                                                             *)

Deref(h, o) == IF o \in h.live THEN h ELSE Wild(h)

\* Ready to prepare: both parents attached, alive and open
Ready(h, s) ==
    IF h.db[s] = Null THEN Throw(h)
    ELSE IF h.db[s] \notin h.live THEN Wild(h)
    ELSE IF ~Connected(h, h.db[s]) \/ h.tr[s] = Null THEN Throw(h)
    ELSE IF h.tr[s] \notin h.live THEN Wild(h)
    ELSE IF ~Started(h, h.tr[s]) THEN Throw(h)
    ELSE h

\* A call that closes the statement if it fails
OrClose(h, s) ==
    LET g == Server(h) IN IF g.thrown THEN Throw(StClose([g EXCEPT !.thrown = FALSE], s)) ELSE g

\* The prepared statement is p; "unknown" stands for the types that are not
\* supported.  A row that was made too small is made again, which takes one more
\* call and unbinds it from the database.
Prepare(h, s, p) ==
    LET closed == Then(Ready(h, s), LAMBDA g : StClose(g, s))
        allocated == Then(Then(closed, Server), LAMBDA g : Open(g, s))
        Described(g) == Then(g, LAMBDA k : OrClose(k, s))
        typed == Described(Described(allocated))
        output == IF p.out = "unbound" THEN Described(typed) ELSE typed
        input == IF p.in # "none" THEN Described(output) ELSE output
    IN IF closed.undefined THEN closed
       ELSE IF p.type = "unknown" THEN Then(typed, LAMBDA g : Throw(StClose(g, s)))
       ELSE Then(input, LAMBDA g : [g EXCEPT !.st[s] = p])

CursorFree(h, s) ==
    IF ~h.st[s].cur THEN h
    ELSE LET g == [h EXCEPT !.st[s].cur = FALSE] IN IF s \in h.open THEN Server(g) ELSE g

\* Execute uses the transaction without looking whether there is one
Execute(h, s) ==
    IF s \notin h.open \/ h.st[s].in = "missing" THEN Throw(h)
    ELSE Then(CursorFree(h, s), LAMBDA g :
        IF g.tr[s] \notin g.live THEN Wild(g)
        ELSE Then(Server(g), LAMBDA k :
            IF k.st[s].type = "select" /\ k.st[s].out # "none"
            THEN [k EXCEPT !.st[s].rs = TRUE, !.st[s].cur = TRUE] ELSE k))

CursorExecute(h, s) ==
    IF s \notin h.open \/ h.st[s].type # "selectUpdate" \/ h.st[s].out = "none" \/ h.st[s].in = "missing" THEN Throw(h)
    ELSE Then(CursorFree(h, s), LAMBDA g :
        IF g.tr[s] \notin g.live THEN Wild(g)
        ELSE Then(Then(Server(g), Server), LAMBDA k : [k EXCEPT !.st[s].rs = TRUE, !.st[s].cur = TRUE]))

ExecuteImmediate(h, s) ==
    LET closed == Then(Ready(h, s), LAMBDA g : StClose(g, s))
    IN IF closed.undefined THEN closed ELSE Then(closed, Server)

\* Plan and AffectedRows
AskStatement(h, s) ==
    IF s \notin h.open \/ h.db[s] = Null THEN Throw(h)
    ELSE Then(Deref(h, h.db[s]), LAMBDA g : IF ~Connected(g, g.db[s]) THEN Throw(g) ELSE Server(g))

\* Both Fetch: "last" is the code 100 of the server
Fetch(h, s, last) ==
    IF ~h.st[s].rs THEN Throw(h)
    ELSE IF s \notin h.open \/ h.st[s].out = "none" THEN Wild(h)
    ELSE IF last THEN CursorFree([h EXCEPT !.calls = @ + 1, !.st[s].rs = FALSE, !.st[s].cur = TRUE], s)
    ELSE OrClose(h, s)

\* the destructor forgets the database
DeleteStatementOnce(h, s) ==
    LET closed == [StClose(h, s) EXCEPT !.thrown = FALSE]
        tr == IF closed.tr[s] = Null THEN closed ELSE TrDisown(closed, closed.tr[s], s)
    IN [tr EXCEPT !.live = @ \ {s}]

DeleteStatement(h, s) ==
    LET closed == [StClose(h, s) EXCEPT !.thrown = FALSE]
        tr == IF closed.tr[s] = Null THEN closed ELSE TrDisown(closed, closed.tr[s], s)
        db == IF tr.db[s] = Null THEN tr ELSE DbDisown(tr, tr.db[s], s)
    IN [db EXCEPT !.live = @ \ {s}]

----------------------------------------------------------------------------
(* Blobs and arrays.                                                       *)

\* The guards of Open, Create, Save and Load
Closed(h, b, needsId) ==
    IF b \in h.open \/ h.db[b] = Null \/ h.tr[b] = Null \/ (needsId /\ ~h.bl[b].id) THEN Throw(h)
    ELSE Deref(Deref(h, h.db[b]), h.tr[b])

BlobOpen(h, b) ==
    Then(Then(Closed(h, b, TRUE), Server), LAMBDA g : [Open(g, b) EXCEPT !.bl[b].write = FALSE])

BlobCreate(h, b) ==
    Then(Then(Closed(h, b, FALSE), Server), LAMBDA g : [Open(g, b) EXCEPT !.bl[b] = [id |-> TRUE, write |-> TRUE]])

BlobClose(h, b) == IF b \notin h.open THEN h ELSE Then(Server(h), LAMBDA g : Shut(g, b))

BlobCancel(h, b) ==
    IF b \notin h.open THEN h
    ELSE IF ~h.bl[b].write THEN Throw(h)
    ELSE Then(Server(h), LAMBDA g : [Shut(g, b) EXCEPT !.bl[b].id = FALSE])

\* Read, Write and Info of an open blob
BlobRead(h, b) == IF b \notin h.open \/ h.bl[b].write THEN Throw(h) ELSE Server(h)
BlobWrite(h, b) == IF b \notin h.open \/ ~h.bl[b].write THEN Throw(h) ELSE Server(h)
BlobInfo(h, b) == IF b \notin h.open THEN Throw(h) ELSE Server(h)

\* One segment, then the end; a failure leaves the blob open
BlobSave(h, b) == Then(Then(BlobCreate(h, b), Server), LAMBDA g : BlobClose(g, b))
BlobLoad(h, b) == Then(Then(BlobOpen(h, b), Server), LAMBDA g : BlobClose(g, b))

DeleteBlob(h, b) ==
    LET shut == IF h.bl[b].write THEN BlobCancel(h, b) ELSE BlobClose(h, b)
        tr == IF h.tr[b] = Null THEN shut ELSE TrDisown(shut, h.tr[b], b)
        db == IF h.db[b] = Null THEN tr ELSE DbDisown(tr, h.db[b], b)
    IN [Shut(db, b) EXCEPT !.live = @ \ {b}, !.thrown = FALSE]

ArrayAttached(h, a) ==
    IF h.db[a] = Null \/ h.tr[a] = Null THEN Throw(h) ELSE Deref(Deref(h, h.db[a]), h.tr[a])

Describe(h, a) ==
    Then(ArrayAttached(h, a), LAMBDA g :
        Then(Server([g EXCEPT !.ar[a].id = FALSE]), LAMBDA k : [k EXCEPT !.ar[a].described = TRUE]))

ReadTo(h, a) ==
    IF ~h.ar[a].id \/ ~h.ar[a].described THEN Throw(h) ELSE Then(ArrayAttached(h, a), Server)

\* the new id is in mId, but mIdAssigned is left as it was
WriteFrom(h, a) == IF ~h.ar[a].described THEN Throw(h) ELSE Then(ArrayAttached(h, a), Server)

DeleteArray(h, a) ==
    LET tr == IF h.tr[a] = Null THEN h ELSE TrDisown(h, h.tr[a], a)
        db == IF h.db[a] = Null THEN tr ELSE DbDisown(tr, h.db[a], a)
    IN [db EXCEPT !.live = @ \ {a}]

----------------------------------------------------------------------------
(* Rows: the parameters and the columns of a statement.                    *)

\* SetNull and the Set of plain values
SetPlain(h, s) == IF h.st[s].in = "none" THEN Throw(h) ELSE [h EXCEPT !.st[s].in = "ready"]

\* the object belongs to the database and the transaction of the row
SameParents(h, s, c) == h.db[c] = h.db[s] /\ h.tr[c] = h.tr[s]

SetBlob(h, s, b) ==
    IF h.st[s].in = "none" \/ ~SameParents(h, s, b) \/ b \in h.open \/ ~h.bl[b].write THEN Throw(h)
    ELSE [h EXCEPT !.st[s].in = "ready"]

\* the array gives its id away
SetArray(h, s, a) ==
    IF h.st[s].in = "none" \/ ~SameParents(h, s, a) THEN Throw(h)
    ELSE [h EXCEPT !.st[s].in = "ready", !.ar[a].id = FALSE]

GetBlob(h, s, b) ==
    IF h.st[s].out = "none" \/ b \in h.open THEN Throw(h) ELSE [h EXCEPT !.bl[b].id = TRUE]

GetArray(h, s, a) == IF h.st[s].out = "none" THEN Throw(h) ELSE [h EXCEPT !.ar[a].id = TRUE]

----------------------------------------------------------------------------
(* The factories and the last Release of an object.                        *)

Born(h, o) == [h EXCEPT !.live = @ \cup {o}, !.made = @ \cup {o}]

Attached(h, c, d, t) ==
    LET db == DbAdopt([h EXCEPT !.db[c] = d], d, c)
    IN IF t = Null THEN db ELSE TrAdopt([db EXCEPT !.tr[c] = t], t, c)

TransactionFactory(h, t, d) == TrAttachDatabaseImpl(Born(h, t), t, d)

\* A constructor that throws runs no destructor: the parents keep the statement
StatementFactory(h, s, d, t, p) ==
    LET made == Attached(Born(h, s), s, d, t)
        r == IF p = Null THEN made ELSE Prepare(made, s, [NoStatement EXCEPT !.type = p])
    IN IF r.thrown THEN [Shut(r, s) EXCEPT !.live = @ \ {s}, !.lost = @ \cup {s}] ELSE r

ObjectFactory(h, c, d, t) == Attached(Born(h, c), c, d, t)

Delete(h, o) ==
    CASE o \in Databases -> DeleteDatabase(h, o)
      [] o \in Transactions -> DeleteTransaction(h, o)
      [] o \in Statements -> DeleteStatement(h, o)
      [] o \in Blobs -> DeleteBlob(h, o)
      [] o \in Arrays -> DeleteArray(h, o)

----------------------------------------------------------------------------
(* The calls of the program that uses the library.                         *)

Init ==
    /\ \E objects \in Programs :
       heap = [live |-> {}, made |-> Objects \ objects, open |-> {}, lost |-> {},
               db |-> [c \in Children |-> Null], tr |-> [c \in Children |-> Null],
               kids |-> [p \in Parents |-> <<>>],
               dbs |-> [t \in Transactions |-> <<>>], trs |-> [d \in Databases |-> <<>>],
               st |-> [s \in Statements |-> NoStatement],
               bl |-> [b \in Blobs |-> [id |-> FALSE, write |-> FALSE]],
               ar |-> [a \in Arrays |-> [described |-> FALSE, id |-> FALSE]],
               calls |-> 0, fails |-> {}, thrown |-> FALSE, undefined |-> FALSE]
    /\ faults = 0

\* Op takes place; the calls in fails are answered with an error
Perform(Op(_)) ==
    /\ ~heap.undefined
    /\ \E fails \in {F \in SUBSET (1..MaxCalls) : faults + Cardinality(F) <= MaxFaults} :
        LET r == Op([heap EXCEPT !.fails = fails])
        IN /\ fails \subseteq 1..r.calls
           /\ heap' = [r EXCEPT !.fails = {}, !.calls = 0, !.thrown = FALSE]
           /\ faults' = faults + Cardinality(fails)

Unmade(S) == S \ heap.made
Live(S) == S \cap heap.live

Make ==
    \/ \E d \in Unmade(Databases) : Perform(LAMBDA h : Born(h, d))
    \/ \E t \in Unmade(Transactions), d \in Live(Databases) : Perform(LAMBDA h : TransactionFactory(h, t, d))
    \/ \E s \in Unmade(Statements), d \in Live(Databases), t \in Live(Transactions) \cup {Null}, p \in {Null, "select"} :
            Perform(LAMBDA h : StatementFactory(h, s, d, t, p))
    \/ \E c \in Unmade(Blobs \cup Arrays), d \in Live(Databases), t \in Live(Transactions) \cup {Null} :
            Perform(LAMBDA h : ObjectFactory(h, c, d, t))

UseDatabase ==
    \E d \in Live(Databases) :
        \/ \E refused \in BOOLEAN : Perform(LAMBDA h : Connect(h, d, refused))
        \/ Perform(LAMBDA h : CreateDatabase(h, d))
        \/ Perform(LAMBDA h : Disconnect(h, d))
        \/ Perform(LAMBDA h : Drop(h, d))
        \/ Perform(LAMBDA h : InfoOf(h, d))

UseTransaction ==
    \E t \in Live(Transactions) :
        \/ \E d \in Live(Databases) : Len(heap.dbs[t]) < MaxLinks /\ Perform(LAMBDA h : TrAttachDatabaseImpl(h, t, d))
        \/ \E d \in Live(Databases) : Contains(heap.dbs[t], d) /\ Perform(LAMBDA h : TrDetachDatabaseImpl(h, t, d))
        \/ Perform(LAMBDA h : Start(h, t))
        \/ Perform(LAMBDA h : Commit(h, t))
        \/ Perform(LAMBDA h : Retain(h, t))
        \/ Perform(LAMBDA h : Rollback(h, t))

\* What the server may make of a text of SQL: its type, parameters and columns
Prepared == {[NoStatement EXCEPT !.type = p[1], !.in = p[2], !.out = p[3]] :
                p \in {<<"unknown", "none", "bound">>, <<"other", "missing", "none">>, <<"select", "none", "bound">>,
                       <<"select", "missing", "unbound">>, <<"selectUpdate", "none", "bound">>}}

UseStatement ==
    \E s \in Live(Statements) :
        \/ \E p \in Prepared : Perform(LAMBDA h : Prepare(h, s, p))
        \/ Perform(LAMBDA h : Execute(h, s))
        \/ Perform(LAMBDA h : CursorExecute(h, s))
        \/ Perform(LAMBDA h : ExecuteImmediate(h, s))
        \/ Perform(LAMBDA h : AskStatement(h, s))
        \/ \E last \in BOOLEAN : Perform(LAMBDA h : Fetch(h, s, last))
        \/ Perform(LAMBDA h : StClose(h, s))
        \/ Perform(LAMBDA h : SetPlain(h, s))
        \/ \E b \in Live(Blobs) : Perform(LAMBDA h : SetBlob(h, s, b)) \/ Perform(LAMBDA h : GetBlob(h, s, b))
        \/ \E a \in Live(Arrays) : Perform(LAMBDA h : SetArray(h, s, a)) \/ Perform(LAMBDA h : GetArray(h, s, a))

UseBlob ==
    \E b \in Live(Blobs) :
        \/ Perform(LAMBDA h : BlobOpen(h, b))
        \/ Perform(LAMBDA h : BlobCreate(h, b))
        \/ Perform(LAMBDA h : BlobClose(h, b))
        \/ Perform(LAMBDA h : BlobCancel(h, b))
        \/ Perform(LAMBDA h : BlobRead(h, b)) \/ Perform(LAMBDA h : BlobWrite(h, b)) \/ Perform(LAMBDA h : BlobInfo(h, b))
        \/ Perform(LAMBDA h : BlobSave(h, b)) \/ Perform(LAMBDA h : BlobLoad(h, b))

UseArray ==
    \E a \in Live(Arrays) :
        \/ Perform(LAMBDA h : Describe(h, a))
        \/ Perform(LAMBDA h : ReadTo(h, a))
        \/ Perform(LAMBDA h : WriteFrom(h, a))

Release == \E o \in heap.live : Perform(LAMBDA h : Delete(h, o))

Next == Make \/ UseDatabase \/ UseTransaction \/ UseStatement \/ UseBlob \/ UseArray \/ Release

Spec == Init /\ [][Next]_vars

----------------------------------------------------------------------------
(* Properties.                                                             *)

Times(e, s) == Cardinality({i \in DOMAIN s : s[i] = e})

\* Two live objects point to each other, or neither does
Mutual ==
    /\ \A c \in heap.live \cap Children :
        /\ \A d \in heap.live \cap Databases : Times(c, heap.kids[d]) = IF heap.db[c] = d THEN 1 ELSE 0
        /\ \A t \in heap.live \cap Transactions : Times(c, heap.kids[t]) = IF heap.tr[c] = t THEN 1 ELSE 0
    /\ \A d \in heap.live \cap Databases, t \in heap.live \cap Transactions :
        Times(d, heap.dbs[t]) = Times(t, heap.trs[d])

\* The deleted objects that a live one still points to
Dangling ==
    LET left == UNION {{heap.db[c], heap.tr[c]} : c \in heap.live \cap Children}
                \cup UNION {ToSet(heap.kids[p]) : p \in heap.live \cap Parents}
                \cup UNION {ToSet(heap.dbs[t]) : t \in heap.live \cap Transactions}
                \cup UNION {ToSet(heap.trs[d]) : d \in heap.live \cap Databases}
    IN left \ (heap.live \cup {Null})

(***************************************************************************)
(* The links of live objects are mutual, and a pointer to a deleted object *)
(* remains only of an object that went in one of three ways: its           *)
(* destructor swallowed an exception, it was a database that was not       *)
(* connected, or its constructor threw.                                    *)
(***************************************************************************)
LinksSound == ~heap.undefined => Mutual /\ Dangling \subseteq heap.lost

(***************************************************************************)
(* As long as no object was lost in these ways, no call goes through a     *)
(* pointer to a deleted object and no vector is asked to erase what it     *)
(* does not hold; a statement that has a result set has a handle, a row to *)
(* fetch it into and a transaction.                                        *)
(***************************************************************************)
SafeToUse ==
    heap.lost = {} =>
        /\ ~heap.undefined
        /\ \A s \in heap.live \cap Statements :
            /\ s \in heap.open => heap.tr[s] # Null /\ heap.db[s] # Null
            /\ heap.st[s].rs => s \in heap.open /\ heap.st[s].out # "none"
=============================================================================
