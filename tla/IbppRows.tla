------------------------------ MODULE IbppRows ------------------------------
(***************************************************************************)
(* The rows of a statement of the Firebird client library (libs/ibpp): the *)
(* parameters a program sets one by one and Execute sends, the columns     *)
(* Fetch fills, the copy of them that a program keeps, and the search of a *)
(* column by its name.                                                     *)
(*                                                                         *)
(* A variable of a row is a record; its name and its alias are sequences   *)
(* of letters.  IbppTypes has the conversions: here a value is accepted    *)
(* by the column, or it is Misfit.  "given" is what the program gave last  *)
(* for each parameter, "sent" pairs it with what the server got, "result"  *)
(* has the rows to fetch and "held" the values of the row the program      *)
(* keeps.  A variable remembers how the server called it (column, label).  *)
(***************************************************************************)
EXTENDS Integers, Sequences, SequencesExt

CONSTANTS Headings,             \* the lists of columns a statement may have
          Values,               \* the values a column takes
          NameSize,             \* sizeof(sqlname), 32
          MaxRows               \* rows of a result

VARIABLES st,                   \* the statement: handle, mInRow, mOutRow, result set
          kept,                 \* the row a program has fetched or cloned
          wild,                 \* mUpdated was written outside its bounds
          given, sent, result, held

vars == <<st, kept, wild, given, sent, result, held>>

NoRow == [cols |-> <<>>, updated |-> <<>>]
Misfit == "misfit"
Zero == "zero"
Null == "null"

IsRow(r) == r.cols # <<>>
Upper(c) == CASE c = "a" -> "A" [] c = "b" -> "B" [] OTHER -> c
Raised(name) == [i \in DOMAIN name |-> Upper(name[i])]
Cut(s, n) == SubSeq(s, 1, IF Len(s) < n THEN Len(s) ELSE n)

----------------------------------------------------------------------------
(* RowImpl.                                                                *)

\* Resize and AllocVariables: zero, or NULL where the column may be NULL
Fresh(heading, nullable) ==
    [cols |-> [i \in DOMAIN heading |->
                [name |-> heading[i].name, alias |-> heading[i].alias,
                 column |-> heading[i].name, label |-> heading[i].alias,
                 nullable |-> nullable \/ heading[i].nullable,
                 value |-> IF nullable \/ heading[i].nullable THEN Null ELSE Zero]],
     updated |-> [i \in DOMAIN heading |-> FALSE]]

\* operator=: every variable is copied; mUpdated is left as Free made it
Copied(row) == [row EXCEPT !.updated = <<>>]

\* the flag is set for a value that was refused, too
AssignedAnyway(row, i, v) ==
    IF v = Misfit THEN [row EXCEPT !.updated[i] = TRUE]
    ELSE [row EXCEPT !.cols[i].value = v, !.updated[i] = TRUE]

\* SetNull and all Set of a row, whose SetValue throws before it stores anything
Assigned(row, i, v) ==
    IF v = Misfit THEN row ELSE [row EXCEPT !.cols[i].value = v, !.updated[i] = TRUE]

MissingValues(row) == \E i \in DOMAIN row.cols : ~row.updated[i]

\* All Get of a row by the number of the column; NULL is told by the result
Get(row, i) == row.cols[i].value

\* The first column the field of which is the upper case of the name
Matches(row, name, Field(_)) ==
    {i \in DOMAIN row.cols : Field(row.cols[i]) = Raised(Cut(name, NameSize))}

First(S) == CHOOSE i \in S : \A j \in S : i <= j

\* 0 if no column is found, which throws
ColumnNum(row, name) ==
    LET named == Matches(row, name, LAMBDA c : c.name)
        aliased == Matches(row, name, LAMBDA c : c.alias)
    IN IF named # {} THEN First(named) ELSE IF aliased # {} THEN First(aliased) ELSE 0

\* All Get of a row by the name of the column
GetNamed(row, name) == Get(row, ColumnNum(row, name))

\* ColumnName, ColumnAlias and ColumnTable end the name in place
Ended(name) == Cut(name, NameSize - 1)

ColumnName(row, i) == [row EXCEPT !.cols[i].name = Ended(@)]
ColumnAlias(row, i) == [row EXCEPT !.cols[i].alias = Ended(@)]

----------------------------------------------------------------------------
(* The calls of the program.                                               *)

NoStatement == [handle |-> FALSE, in |-> NoRow, out |-> NoRow, rs |-> FALSE]

Init ==
    /\ st = NoStatement /\ kept = NoRow /\ wild = FALSE
    /\ given = <<>> /\ sent = <<>> /\ result = <<>> /\ held = <<>>

\* Every parameter can be NULL
Prepare ==
    \E in, out \in Headings \cup {<<>>} :
        /\ st' = [handle |-> TRUE, in |-> Fresh(in, TRUE), out |-> Fresh(out, FALSE), rs |-> FALSE]
        /\ given' = [i \in DOMAIN in |-> Misfit] /\ sent' = <<>> /\ result' = <<>>
        /\ UNCHANGED <<kept, wild, held>>

Close ==
    /\ st' = NoStatement
    /\ given' = <<>> /\ sent' = <<>> /\ result' = <<>>
    /\ UNCHANGED <<kept, wild, held>>

\* Statement::SetNull and all Statement::Set
SetParameter ==
    \E i \in 1 .. Len(st.in.cols), v \in Values \cup {Null, Misfit} :
        /\ st.handle /\ IsRow(st.in)
        /\ st' = [st EXCEPT !.in = Assigned(st.in, i, v)]
        /\ given' = IF v = Misfit THEN given ELSE [given EXCEPT ![i] = v]
        /\ UNCHANGED <<kept, wild, sent, result, held>>

\* What the server returns to a statement with columns
Results == UNION {[1..n -> [1 .. Len(st.out.cols) -> Values]] : n \in 0..MaxRows}

Execute ==
    /\ st.handle
    /\ IsRow(st.in) => ~MissingValues(st.in)
    /\ sent' = [i \in DOMAIN st.in.cols |-> <<Get(st.in, i), given[i]>>]
    /\ IF IsRow(st.out) THEN result' \in Results /\ st' = [st EXCEPT !.rs = TRUE]
       ELSE result' = <<>> /\ UNCHANGED st
    /\ UNCHANGED <<kept, wild, given, held>>

Filled(row, values) == [row EXCEPT !.cols = [i \in DOMAIN row.cols |-> [row.cols[i] EXCEPT !.value = values[i]]]]

Fetch ==
    /\ st.rs
    /\ IF result = <<>> THEN st' = [st EXCEPT !.rs = FALSE] /\ UNCHANGED result
       ELSE st' = [st EXCEPT !.out = Filled(@, Head(result))] /\ result' = Tail(result)
    /\ UNCHANGED <<kept, wild, given, sent, held>>

\* Fetch(row) fills a copy of the columns; at the end the program's row is cleared
FetchRow ==
    /\ st.rs
    /\ IF result = <<>> THEN st' = [st EXCEPT !.rs = FALSE] /\ kept' = NoRow /\ held' = <<>> /\ UNCHANGED result
       ELSE /\ kept' = Filled(Copied(st.out), Head(result))
            /\ held' = Head(result)
            /\ result' = Tail(result)
            /\ UNCHANGED st
    /\ UNCHANGED <<wild, given, sent>>

\* Row::Set of a row the program has: its flags have no room for the column
SetKept ==
    \E i \in DOMAIN kept.cols, v \in Values :
        /\ held' = [held EXCEPT ![i] = v]
        /\ kept' = [kept EXCEPT !.cols[i].value = v]
        /\ wild' = (i \notin DOMAIN kept.updated)
        /\ UNCHANGED <<st, given, sent, result>>

Clone == IsRow(kept) /\ kept' = Copied(kept) /\ UNCHANGED <<st, wild, given, sent, result, held>>

\* The names and the aliases of the columns, of a statement or of a row
Names ==
    /\ \/ \E i \in DOMAIN st.out.cols :
            /\ \/ st' = [st EXCEPT !.out = ColumnName(@, i)]
               \/ st' = [st EXCEPT !.out = ColumnAlias(@, i)]
            /\ UNCHANGED kept
       \/ \E i \in DOMAIN kept.cols :
            /\ kept' = ColumnName(kept, i) \/ kept' = ColumnAlias(kept, i)
            /\ UNCHANGED st
    /\ UNCHANGED <<wild, given, sent, result, held>>

Next ==
    /\ ~wild
    /\ Prepare \/ Close \/ SetParameter \/ Execute \/ Fetch \/ FetchRow \/ SetKept \/ Clone \/ Names

Spec == Init /\ [][Next]_vars

----------------------------------------------------------------------------
(* Properties.                                                             *)

(***************************************************************************)
(* Execute sends what the program gave last for each parameter, and only   *)
(* when it gave a value for each: a refused value neither counts nor       *)
(* replaces an earlier one.  A row the program keeps has the values it was *)
(* fetched with, whatever becomes of the statement.                        *)
(***************************************************************************)
SentAsGiven ==
    /\ \A i \in DOMAIN sent : sent[i][1] = sent[i][2]
    /\ \A i \in DOMAIN kept.cols :
        /\ Get(kept, i) = held[i]
        /\ Raised(kept.cols[i].column) = kept.cols[i].column =>
            \E j \in 1..i : GetNamed(kept, kept.cols[i].column) = held[j]

(***************************************************************************)
(* A column with a name in upper case is found by that name in upper or    *)
(* lower case, or the first one of that name is; an alias leads to a       *)
(* column of that name or alias.  ColumnName and ColumnAlias, which end    *)
(* the names in place, change nothing of that.                             *)
(***************************************************************************)
NamesFind ==
    \A row \in {st.out, kept} : \A i \in DOMAIN row.cols :
        LET c == row.cols[i]
            n == ColumnNum(row, c.column)
            a == ColumnNum(row, c.label)
        IN /\ Raised(c.column) = c.column => n \in 1..i /\ row.cols[n].column = c.column
           /\ Raised(c.label) = c.label => a # 0 /\ c.label \in {row.cols[a].column, row.cols[a].label}
           /\ ColumnNum(row, Raised(c.column)) = n
=============================================================================
