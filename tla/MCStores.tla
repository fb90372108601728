------------------------------ MODULE MCStores ------------------------------
(***************************************************************************)
(* The store: the four plugins (Stores), and the library under the one for *)
(* Firebird, its objects (Ibpp), its rows (IbppRows) and its conversions   *)
(* (IbppTypes).  A behaviour is about one of them, the part.               *)
(***************************************************************************)
EXTENDS Stores

Alike == Permutations(Threads)

\* One or two objects of every kind; the second settings of a user refer to
\* everything there is to refer to.
MCConfs == {[v |-> 1, tariff |-> "t1", next |-> None, corp |-> None, svc |-> {}],
            [v |-> 2, tariff |-> "t1", next |-> "t2", corp |-> "c1", svc |-> {"s1"}]}
MCAdminConfs == {[v |-> 1, x |-> 1]}
MCTariffDatas ==
    {[v |-> 1, day |-> 1, night |-> 3, thr |-> 1, single |-> FALSE, nodisc |-> FALSE, policy |-> 1, tmo |-> 2],
     [v |-> 2, day |-> 1, night |-> 2, thr |-> 0, single |-> TRUE, nodisc |-> TRUE, policy |-> 2, tmo |-> 1]}
MCServiceConfs == {[v |-> 1, text |-> "word", cost |-> 1, day |-> 2], [v |-> 2, text |-> "words", cost |-> 2, day |-> 1]}

VARIABLES part, heap, failures, st, row, wild, given, sent, result, held, sample

objectVars == <<heap, failures>>
rowVars    == <<st, row, wild, given, sent, result, held>>

-----------------------------------------------------------------------------
\* Two databases and a transaction, or one with a statement and a blob or an
\* array.
O == INSTANCE Ibpp WITH
       Databases <- {"d1", "d2"}, Transactions <- {"t1"}, Statements <- {"s1"},
       Blobs <- {"b1"}, Arrays <- {"a1"}, MaxFaults <- 1, MaxCalls <- 4, MaxLinks <- 2,
       Programs <- {{"d1", "d2", "t1"}, {"d1", "t1", "s1", "b1"}, {"d1", "t1", "s1", "a1"}},
       faults <- failures

\* A column, or two that differ in case, with names up to the size there is.
Col(n, a, null) == [name |-> n, alias |-> a, nullable |-> null]

R == INSTANCE IbppRows WITH
       Headings <- {<<Col(<<"A", "B">>, <<"A">>, FALSE)>>,
                    <<Col(<<"A">>, <<"B">>, TRUE), Col(<<"a">>, <<"A", "B">>, FALSE)>>},
       Values <- {"v", "w"}, NameSize <- 3, MaxRows <- 1, kept <- row

\* Small widths with their edges, and the calendar around the ends of its
\* range, centuries and leap years.
V == INSTANCE IbppTypes WITH
       Increment <- 4, MaxSize <- 30, Max16 <- 3, Max32 <- 15, Max64 <- 511,
       SqlLen <- 2, KeyUnit <- 2,
       Texts <- {<<>>, <<"T">>, <<"a">>, <<"a", " ">>, <<"a", "b", "c">>},
       Reals <- {-140, -31, -30, -29, -11, -10, -9, -1, 0, 1, 9, 10, 11, 29, 30, 31,
                 59, 60, 61, 69, 70, 140},
       Windows <- {[from |-> -693594, date |-> <<1, 1, 1>>, last |-> -693200],
                   [from |-> -547863, date |-> <<400, 1, 1>>, last |-> -547450],
                   [from |-> -1, date |-> <<1899, 12, 30>>, last |-> 400],
                   [from |-> 36525, date |-> <<2000, 1, 1>>, last |-> 36925],
                   [from |-> 73050, date |-> <<2100, 1, 1>>, last |-> 73450],
                   [from |-> 2958100, date |-> <<9999, 1, 1>>, last |-> 2958600]}

-----------------------------------------------------------------------------
NoStore ==
    /\ backend = 0 /\ db = 0 /\ work = 0 /\ up = 0 /\ now = 0 /\ sc = 0 /\ qbuf = 0
    /\ call = 0 /\ calls = 0 /\ faults = 0 /\ kept = 0

NoObjects == heap = 0 /\ failures = 0

NoRows ==
    /\ st = 0 /\ row = 0 /\ wild = 0 /\ given = 0 /\ sent = 0 /\ result = 0 /\ held = 0

MCInit ==
    \/ Init /\ part = "store" /\ NoObjects /\ NoRows /\ sample = 0
    \/ part = "objects" /\ NoStore /\ O!Init /\ NoRows /\ sample = 0
    \/ part = "rows" /\ NoStore /\ NoObjects /\ R!Init /\ sample = 0
    \/ part = "values" /\ NoStore /\ NoObjects /\ NoRows /\ V!Init

MCNext ==
    \/ part = "store" /\ Next /\ UNCHANGED <<part, objectVars, rowVars, sample>>
    \/ part = "objects" /\ O!Next /\ UNCHANGED <<part, vars, rowVars, sample>>
    \/ part = "rows" /\ R!Next /\ UNCHANGED <<part, vars, objectVars, sample>>
    \/ part = "values" /\ V!Next /\ UNCHANGED <<part, vars, objectVars, rowVars>>

MCSpec == MCInit /\ [][MCNext]_<<part, vars, objectVars, rowVars, sample>>

-----------------------------------------------------------------------------
\* The store keeps its word (Stores!StoreSound).
KeepsWhatItTook == part = "store" => StoreSound

\* The objects of the library point to each other as they should, and none
\* that was deleted is used (Ibpp!LinksSound and SafeToUse, libs/ibpp).
ObjectsSound == part = "objects" => O!LinksSound /\ O!SafeToUse

\* What a program sets is sent, what it fetched stays and names lead to
\* their columns (IbppRows!SentAsGiven and NamesFind, row.cpp).
RowsRight == part = "rows" => R!SentAsGiven /\ R!NamesFind

\* Values, dates and parameters come out as they were put in
\* (IbppTypes!ValuesSurvive, CalendarRight and BuffersHold; row.cpp,
\* array.cpp, date.cpp, _dpb.cpp, _rb.cpp).
ValuesRight == part = "values" => V!ValuesSurvive /\ V!CalendarRight /\ V!BuffersHold
=============================================================================
