----------------------------- MODULE IbppTypes -----------------------------
(***************************************************************************)
(* The value conversions of the Firebird client library (libs/ibpp): what  *)
(* Row::Set stores in a column and Row::Get takes out of it, what          *)
(* Array::WriteFrom puts in an element and Array::ReadTo makes of it, and  *)
(* the calendar arithmetic of Date and Time.                               *)
(*                                                                         *)
(* A text is a short sequence of characters.  A real is an integer number  *)
(* of twentieths, so that a half of the last digit of a NUMERIC(x,1) can   *)
(* be written.  The widths of the integers are parameters.  A conversion   *)
(* yields the set of its possible outcomes: a value, or an exception.  A cast of *)
(* a real that the integer cannot hold is undefined: every value of the    *)
(* integer is an outcome.                                                  *)
(***************************************************************************)
EXTENDS Integers, Sequences, SequencesExt, FiniteSets

CONSTANTS Max16, Max32, Max64,  \* the largest 16, 32 and 64 bit integers
          SqlLen,               \* sqllen of a text column
          KeyUnit,              \* the size of a database key is a multiple of it (8)
          Texts,                \* the texts a client stores
          Reals,                \* the reals a client stores, in twentieths
          Windows,              \* intervals of days the calendar is walked over
          Increment,            \* BUFFERINCR of the parameter buffers
          MaxSize               \* parameters are inserted up to this size

VARIABLE sample                 \* the column and the value being stored, or the day

Value(v) == {[ok |-> TRUE, value |-> v]}
Refused == {[ok |-> FALSE]}           \* an exception

Bounded(max) == (-max - 1) .. max
Integral == [int16 |-> Max16, int32 |-> Max32, int64 |-> Max64]

\* consts::dscales, for the scales 0 and 1
dscales(scale) == IF scale = 0 THEN 1 ELSE 10

Cut(s, n) == SubSeq(s, 1, IF Len(s) < n THEN Len(s) ELSE n)
Padded(s, n) == [i \in 1..n |-> IF i <= Len(s) THEN s[i] ELSE " "]
TrueMark(c) == c \in {"t", "T", "y", "Y", "1"}

----------------------------------------------------------------------------
(* RowImpl::SetValue, one operator for each case of its switch.            *)

SetText(iv, v, n) ==
    CASE iv \in {"string", "byte"} -> Value(Padded(Cut(v, n), n))
      [] iv = "dbkey" -> IF Len(v) = n THEN Value(v) ELSE Refused
      [] iv = "bool" -> Value(Padded(<<IF v THEN "T" ELSE "F">>, n))
      [] OTHER -> Refused

SetVarying(iv, v, n) ==
    CASE iv \in {"string", "byte"} -> Value(Cut(v, n))
      [] iv = "bool" -> Value(<<IF v THEN "T" ELSE "F">>)
      [] OTHER -> Refused

\* floor(value * multiplier + 0.5) of a real given in twentieths
Rounded(v, scale) == (v * dscales(scale) + 10) \div 20

SetExact(max, scale, iv, v) ==
    CASE iv = "bool" -> Value(IF v THEN 1 ELSE 0)
      [] iv \in DOMAIN Integral -> IF v \in Bounded(max) THEN Value(v) ELSE Refused
      [] iv \in {"float", "double"} ->
            IF Rounded(v, scale) \in Bounded(max) THEN Value(Rounded(v, scale))
            ELSE UNION {Value(k) : k \in Bounded(max)}
      [] OTHER -> Refused

SetShort(scale, iv, v) == SetExact(Max16, scale, iv, v)
SetLong(scale, iv, v) == SetExact(Max32, scale, iv, v)
SetInt64(scale, iv, v) == SetExact(Max64, scale, iv, v)

SetReal(sqltype, scale, iv, v) ==
    CASE sqltype = "FLOAT" /\ iv = "float" /\ scale = 0 -> Value(v)
      [] sqltype = "DOUBLE" /\ iv = "double" ->
            Value(IF scale = 0 THEN v ELSE Rounded(v, scale) * (20 \div dscales(scale)))
      [] OTHER -> Refused

\* The days of Firebird are numbered from another day than those of IBPP
encodeDate(d) == d + 15019
MinDate == -693594
MaxDate == 2958464
Dec31_1899 == 693595
SetTimeOf(t) == IF t \in 0..863999999 THEN Value(t) ELSE Refused
decodeDate(d) == IF d - 15019 \in MinDate..MaxDate THEN Value(d - 15019) ELSE Refused

SetMoment(sqltype, iv, v) ==
    CASE sqltype = "TIMESTAMP" /\ iv = "timestamp" -> Value(<<encodeDate(v[1]), v[2]>>)
      [] sqltype = "TYPE_DATE" /\ iv = "date" -> Value(encodeDate(v))
      [] sqltype = "TYPE_TIME" /\ iv = "time" -> Value(v)
      [] OTHER -> Refused

\* A blob column takes the id of a blob, or of the one a text is saved in; ids
\* and contents are not told apart.  An array column takes the id of an array.
SetObject(sqltype, iv, v) ==
    IF \/ sqltype = "BLOB" /\ iv \in {"blob", "string"}
       \/ sqltype = "ARRAY" /\ iv = "array"
    THEN Value(v) ELSE Refused

SetValue(col, iv, v) ==
    CASE col.sqltype = "TEXT" -> SetText(iv, v, SqlLen)
      [] col.sqltype = "VARYING" -> SetVarying(iv, v, SqlLen)
      [] col.sqltype = "SHORT" -> SetShort(col.scale, iv, v)
      [] col.sqltype = "LONG" -> SetLong(col.scale, iv, v)
      [] col.sqltype = "INT64" -> SetInt64(col.scale, iv, v)
      [] col.sqltype \in {"FLOAT", "DOUBLE"} -> SetReal(col.sqltype, col.scale, iv, v)
      [] col.sqltype \in {"TIMESTAMP", "TYPE_DATE", "TYPE_TIME"} -> SetMoment(col.sqltype, iv, v)
      [] OTHER -> SetObject(col.sqltype, iv, v)

----------------------------------------------------------------------------
(* RowImpl::GetValue of a column that is not NULL.                         *)

GetText(iv, data) ==
    CASE iv \in {"string", "byte"} -> Value(data)
      [] iv = "dbkey" -> IF Len(data) > 0 /\ Len(data) % KeyUnit = 0 THEN Value(data) ELSE Refused
      [] iv = "bool" -> Value(Len(data) >= 1 /\ TrueMark(data[1]))
      [] OTHER -> Refused

GetVarying(iv, data) ==
    CASE iv \in {"string", "byte"} -> Value(data)
      [] iv = "bool" -> Value(Len(data) >= 1 /\ TrueMark(data[1]))
      [] OTHER -> Refused

GetExact(scale, iv, data) ==
    CASE iv = "bool" -> Value(data # 0)
      [] iv \in DOMAIN Integral -> IF data \in Bounded(Integral[iv]) THEN Value(data) ELSE Refused
      [] iv \in {"float", "double"} -> Value(data * (20 \div dscales(scale)))
      [] OTHER -> Refused

GetShort(scale, iv, data) == GetExact(scale, iv, data)
GetLong(scale, iv, data) == GetExact(scale, iv, data)
GetInt64(scale, iv, data) == GetExact(scale, iv, data)

GetReal(sqltype, scale, iv, data) ==
    CASE sqltype = "FLOAT" /\ iv = "float" -> Value(data)
      [] sqltype = "DOUBLE" /\ iv = "double" ->
            Value(IF scale = 0 THEN data ELSE Rounded(data, scale) * (20 \div dscales(scale)))
      [] OTHER -> Refused

GetMoment(sqltype, iv, data) ==
    CASE sqltype = "TIMESTAMP" /\ iv = "timestamp" ->
            UNION {IF d.ok /\ t.ok THEN Value(<<d.value, t.value>>) ELSE Refused :
                    d \in decodeDate(data[1]), t \in SetTimeOf(data[2])}
      [] sqltype = "TYPE_DATE" /\ iv = "date" -> decodeDate(data)
      [] sqltype = "TYPE_TIME" /\ iv = "time" -> SetTimeOf(data)
      [] OTHER -> Refused

GetObject(sqltype, iv, data) ==
    IF \/ sqltype = "BLOB" /\ iv \in {"blob", "string"}
       \/ sqltype = "ARRAY" /\ iv = "array"
    THEN Value(data) ELSE Refused

GetValue(col, iv, data) ==
    CASE col.sqltype = "TEXT" -> GetText(iv, data)
      [] col.sqltype = "VARYING" -> GetVarying(iv, data)
      [] col.sqltype = "SHORT" -> GetShort(col.scale, iv, data)
      [] col.sqltype = "LONG" -> GetLong(col.scale, iv, data)
      [] col.sqltype = "INT64" -> GetInt64(col.scale, iv, data)
      [] col.sqltype \in {"FLOAT", "DOUBLE"} -> GetReal(col.sqltype, col.scale, iv, data)
      [] col.sqltype \in {"TIMESTAMP", "TYPE_DATE", "TYPE_TIME"} -> GetMoment(col.sqltype, iv, data)
      [] OTHER -> GetObject(col.sqltype, iv, data)

----------------------------------------------------------------------------
(* One element of an array, as ArrayImpl::WriteFrom makes it and           *)
(* ArrayImpl::ReadTo reads it.  "after" is the 32 bit word that follows    *)
(* it: the code reads 32 bit integers through pointers to long, which is   *)
(* twice as wide on the platforms the server is built for.                 *)

NUL == "nul"
Word(n) == ((n + Max32 + 1) % (2 * (Max32 + 1))) - (Max32 + 1)
Joined(low, high) == (low % (2 * (Max32 + 1))) + 2 * (Max32 + 1) * high

\* blr_varying: a zero-terminated text, but a boolean is put behind a length
WriteVarying(ad, v) ==
    CASE ad = "string" -> Value(Append(Cut(v, SqlLen), NUL))
      [] ad = "bool" -> Value(<<"one", NUL, IF v THEN "T" ELSE "F">>)
      [] OTHER -> Refused

WriteShort(scale, ad, v, after) ==
    CASE ad = "int32" -> IF Joined(v, after) \in Bounded(Max16) THEN Value(v) ELSE Refused
      [] OTHER -> SetShort(scale, ad, v)

WriteLong(scale, ad, v) ==
    CASE ad = "int32" -> Value(Word(v))
      [] ad \in {"float", "double"} -> Value(Word(Rounded(v, scale)))
      [] OTHER -> SetLong(scale, ad, v)

WriteElem(dtype, scale, ad, v, after) ==
    CASE dtype = "text" -> IF ad \in {"string", "bool"} THEN SetText(ad, v, SqlLen) ELSE Refused
      [] dtype = "varying" -> WriteVarying(ad, v)
      [] dtype = "short" -> WriteShort(scale, ad, v, after)
      [] dtype = "long" -> WriteLong(scale, ad, v)
      [] dtype = "int64" -> SetInt64(scale, ad, v)
      [] dtype \in {"FLOAT", "DOUBLE"} -> SetReal(dtype, scale, ad, v)
      [] OTHER -> SetMoment(dtype, ad, v)

ReadVarying(ad, data) ==
    CASE ad = "string" -> Value(Cut(SelectSeq(data, LAMBDA c : c # NUL), SqlLen))
      [] ad = "bool" -> Value(TrueMark(data[1]))
      [] OTHER -> Refused

ReadLong(scale, ad, data, after) == GetExact(scale, IF ad = "int32" THEN "int64" ELSE ad, Joined(data, after))

ReadDouble(scale, ad, data) ==
    IF ad # "double" THEN Refused
    ELSE Value(data \div dscales(scale))

ReadElem(dtype, scale, ad, data, after) ==
    CASE dtype = "text" -> IF ad \in {"string", "bool"} THEN GetText(ad, data) ELSE Refused
      [] dtype = "varying" -> ReadVarying(ad, data)
      [] dtype = "short" -> GetShort(scale, ad, data)
      [] dtype = "long" -> ReadLong(scale, ad, data, after)
      [] dtype = "int64" -> GetInt64(scale, ad, data)
      [] dtype = "FLOAT" -> IF scale = 0 THEN GetReal(dtype, scale, ad, data) ELSE Refused
      [] dtype = "DOUBLE" -> ReadDouble(scale, ad, data)
      [] OTHER -> GetMoment(dtype, ad, data)

----------------------------------------------------------------------------
(* Days and times of day.                                                  *)

\* The year, month and day of a day number
dtoi(date) ==
    LET Z == date + Dec31_1899 + 306
        H == 100 * Z - 25
        A == H \div 3652425
        B == A - (A \div 4)
        year == (100 * B + H) \div 36525
        C == B + Z - 365 * year - (year \div 4)
        month == (5 * C + 456) \div 153
        day == C - ((153 * month - 457) \div 5)
    IN IF month > 12 THEN <<year + 1, month - 12, day>> ELSE <<year, month, day>>

\* C++ rounds a quotient towards zero
Quotient(a, b) == IF a >= 0 THEN a \div b ELSE -((-a) \div b)

\* without the leap years of the fourth centuries
itodJulian(year, month, day) ==
    LET m == IF month < 3 THEN month + 12 ELSE month
        y == IF month < 3 THEN year - 1 ELSE year
        result == day + ((153 * m - 457) \div 5) + 365 * y + Quotient(y, 4) - Quotient(y, 100) - 306 - Dec31_1899
    IN IF result \in MinDate..MaxDate THEN Value(result) ELSE Refused

\* The day number of a year, month and day
itod(year, month, day) ==
    LET m == IF month < 3 THEN month + 12 ELSE month
        y == IF month < 3 THEN year - 1 ELSE year
        result == day + ((153 * m - 457) \div 5) + 365 * y
                    + Quotient(y, 4) - Quotient(y, 100) + Quotient(y, 400) - 306 - Dec31_1899
    IN IF result \in MinDate..MaxDate THEN Value(result) ELSE Refused

StartOfMonth(date) == itod(dtoi(date)[1], dtoi(date)[2], 1)

EndOfMonth(date) ==
    LET d == dtoi(date)
        next == IF d[2] = 12 THEN itod(d[1] + 1, 1, 1) ELSE itod(d[1], d[2] + 1, 1)
    IN UNION {IF o.ok THEN Value(o.value - 1) ELSE Refused : o \in next}

\* The time of day in ten-thousandths of a second, and its parts
ttoi(t) == <<t \div 36000000, (t % 36000000) \div 600000, (t % 600000) \div 10000, t % 10000>>
itot(h, m, s, t) == h * 36000000 + m * 600000 + s * 10000 + t

----------------------------------------------------------------------------
(* The parameter buffers (DPB, TPB and SPB), which grow as parameters are  *)
(* inserted, and the answers of the server (RB).                           *)

\* The first byte of a DPB and of a TPB is a version tag; an SPB has none
Grow(b, n) ==
    LET needed == n + (IF b.alloc = 0 /\ b.tagged THEN 1 ELSE 0)
    IN IF b.size + needed > b.alloc
       THEN [b EXCEPT !.alloc = @ + (needed \div Increment + 1) * Increment,
                      !.size = IF b.alloc = 0 /\ b.tagged THEN 1 ELSE @]
       ELSE b

\* Every Insert of a parameter of n bytes, and Reset
Inserted(b, n) == LET g == Grow(b, n) IN [g EXCEPT !.size = @ + n]
Reset(b) == [b EXCEPT !.size = 0, !.alloc = 0]

\* An answer is a sequence of bytes: a token, the length of its data, the data.
\* The rest of the buffer is filled with isc_info_end.
InfoEnd == 255
TokenAt(rb, token) ==
    LET from[p \in 1..Len(rb)] ==
            IF rb[p] = InfoEnd THEN 0
            ELSE IF rb[p] = token THEN p ELSE from[p + rb[p + 1] + 2]
    IN from[1]

\* A token within the data of another one
SubtokenAt(rb, token, subtoken) ==
    LET p == TokenAt(rb, token)
        from[q \in 1..Len(rb)] ==
            IF q >= p + 2 + rb[p + 1] THEN 0
            ELSE IF rb[q] = subtoken THEN q ELSE from[q + rb[q + 1] + 2]
    IN IF p = 0 THEN 0 ELSE from[p + 2]

\* The data behind the token at p, of which GetValue and GetString throw if p is 0
DataAt(rb, p) == IF p = 0 THEN Refused ELSE Value(SubSeq(rb, p + 2, p + 1 + rb[p + 1]))
InfoOf(rb, token) == DataAt(rb, TokenAt(rb, token))
InfoWithin(rb, token, subtoken) == DataAt(rb, SubtokenAt(rb, token, subtoken))

----------------------------------------------------------------------------
(* The samples: a value set in a column and taken out again, perhaps as an *)
(* integer of another width; an array of two elements; a time of day; and  *)
(* a day that is moved forward by Date::Add.                               *)

Edges(max) == {-max - 1, -1, 0, 1, max}

Inputs(iv) ==
    CASE iv \in {"string", "byte"} -> Texts
      [] iv = "dbkey" -> {t \in Texts : Len(t) > 0 /\ Len(t) % KeyUnit = 0}
      [] iv = "bool" -> BOOLEAN
      [] iv \in DOMAIN Integral -> UNION {Edges(m) : m \in {k \in {Max16, Max32, Max64} : k <= Integral[iv]}}
      [] iv \in {"float", "double"} -> Reals
      [] iv = "date" -> {MinDate, 0, MaxDate}
      [] iv = "time" -> {0, 863999999}
      [] iv = "timestamp" -> {MinDate, MaxDate} \X {0, 863999999}
      [] OTHER -> {"id"}

Types == {"string", "byte", "dbkey", "bool", "int16", "int32", "int64", "float", "double",
          "date", "time", "timestamp", "blob", "array"}
Exact == [SHORT |-> Max16, LONG |-> Max32, INT64 |-> Max64]
Others == {"TEXT", "VARYING", "FLOAT", "DOUBLE", "TIMESTAMP", "TYPE_DATE", "TYPE_TIME", "BLOB", "ARRAY"}
Elements == {"text", "varying", "short", "long", "int64", "FLOAT", "DOUBLE", "TIMESTAMP", "TYPE_DATE", "TYPE_TIME"}

InitRow ==
    \E sqltype \in DOMAIN Exact \cup Others, scale \in {0, 1}, iv \in Types :
        \E as \in {iv} \cup (IF iv \in DOMAIN Integral THEN DOMAIN Integral ELSE {}), v \in Inputs(iv) :
            sample = [kind |-> "row", sqltype |-> sqltype, scale |-> scale, iv |-> iv, as |-> as, v |-> v]

InitArray ==
    \E dtype \in Elements, scale \in {0, 1}, ad \in Types \ {"byte", "dbkey", "blob", "array"} :
        \E v, w \in Inputs(ad) :
            sample = [kind |-> "array", dtype |-> dtype, scale |-> scale, ad |-> ad, v |-> v, w |-> w]

InitTime ==
    \E h \in {0, 23}, m \in {0, 59}, s \in {0, 59}, t \in {0, 9999} :
        sample = [kind |-> "time", h |-> h, m |-> m, s |-> s, t |-> t]

InitDay ==
    \E w \in Windows :
        sample = [kind |-> "day", n |-> w.from, date |-> w.date, last |-> w.last]

InitBuffer == \E tagged \in BOOLEAN : sample = [kind |-> "buffer", tagged |-> tagged, size |-> 0, alloc |-> 0]

\* One item of an answer; an item with token 2 may hold items
Item(token, data) == <<token, Len(data)>> \o data
Plains == {Item(t, d) : t \in {1, 3}, d \in {<<>>, <<3>>, <<1, 2>>}}
Nested == {Item(2, a \o b) : a, b \in Plains}
InitInfo ==
    \E a, b \in Plains \cup Nested : sample = [kind |-> "info", items |-> <<a, b>>]

Init == InitRow \/ InitArray \/ InitTime \/ InitDay \/ InitBuffer \/ InitInfo

\* The day after a day in the Gregorian calendar
Leap(y) == y % 4 = 0 /\ (y % 100 # 0 \/ y % 400 = 0)
MonthLen(y, m) == CASE m = 2 -> IF Leap(y) THEN 29 ELSE 28
                    [] m \in {4, 6, 9, 11} -> 30
                    [] OTHER -> 31
DayAfter(d) == CASE d[3] < MonthLen(d[1], d[2]) -> <<d[1], d[2], d[3] + 1>>
                 [] d[2] < 12 -> <<d[1], d[2] + 1, 1>>
                 [] OTHER -> <<d[1] + 1, 1, 1>>

\* Date::Add of one day, which throws outside the range
AddDay ==
    /\ sample.kind = "day"
    /\ sample.n < sample.last
    /\ sample.n + 1 \in MinDate..MaxDate
    /\ sample' = [sample EXCEPT !.n = @ + 1, !.date = DayAfter(@)]

UseBuffer ==
    /\ sample.kind = "buffer"
    /\ \/ \E n \in 1 .. 2 * Increment : sample.size + n < MaxSize /\ sample' = Inserted(sample, n)
       \/ sample' = Reset(sample)

Next == AddDay \/ UseBuffer

Spec == Init /\ [][Next]_sample

----------------------------------------------------------------------------
(* Properties.                                                             *)

Blank(s) == \A i \in DOMAIN s : s[i] = " "
Distance(a, b) == IF a > b THEN a - b ELSE b - a

\* The first of the items that has the token
FirstItem(items, token) ==
    LET at == {i \in DOMAIN items : items[i][1] = token}
    IN IF at = {} THEN Refused
       ELSE LET i == CHOOSE j \in at : \A k \in at : j <= k IN Value(SubSeq(items[i], 3, Len(items[i])))

\* g is what a reader of the column may expect of the value v
Faithful(sqltype, scale, iv, v, g) ==
    CASE iv \in {"string", "byte"} /\ sqltype \in {"TEXT", "text"} ->
            Len(g) = SqlLen /\ Cut(g, Len(v)) = Cut(v, SqlLen) /\ Blank(SubSeq(g, Len(v) + 1, SqlLen))
      [] iv \in {"string", "byte"} /\ sqltype \in {"VARYING", "varying"} -> g = Cut(v, SqlLen)
      [] iv \in {"float", "double"} /\ (scale = 1 \/ sqltype \notin {"FLOAT", "DOUBLE"}) ->
            2 * Distance(g, v) <= 20 \div dscales(scale)
      [] OTHER -> g = v

\* The column can hold the value
Fits(max, scale, iv, v) ==
    IF iv \in {"float", "double"} THEN Rounded(v, scale) \in Bounded(max)
    ELSE iv \in DOMAIN Integral => v \in Bounded(max)

RowKeeps(x) ==
    LET col == [sqltype |-> x.sqltype, scale |-> x.scale]
        fits == x.sqltype \in DOMAIN Exact => Fits(Exact[x.sqltype], x.scale, x.iv, x.v)
    IN \A s \in SetValue(col, x.iv, x.v) :
        /\ s.ok /\ fits => \A g \in GetValue(col, x.as, s.value) :
                IF g.ok THEN Faithful(x.sqltype, x.scale, x.iv, x.v, g.value)
                ELSE x.as \in DOMAIN Integral /\ x.v \notin Bounded(Integral[x.as])
        /\ s.ok /\ ~fits => x.iv \in {"float", "double"}
        /\ ~s.ok /\ x.sqltype \in DOMAIN Exact /\ x.iv \in DOMAIN Integral => ~fits

ArrayKeeps(x) ==
    LET exact == [short |-> Max16, long |-> Max32, int64 |-> Max64]
        any == Edges(Max32)              \* what lies behind the last element
        fits(v) == x.dtype \in DOMAIN exact => Fits(exact[x.dtype], x.scale, x.ad, v)
        written == WriteElem(x.dtype, x.scale, x.ad, x.v, IF x.ad = "int32" THEN x.w ELSE 0)
        second == UNION {WriteElem(x.dtype, x.scale, x.ad, x.w, z) : z \in any}
    IN fits(x.v) /\ fits(x.w) =>
        \A a \in written, b \in second : a.ok /\ b.ok =>
            \A g \in ReadElem(x.dtype, x.scale, x.ad, a.value, IF x.dtype = "long" THEN b.value ELSE 0) :
                g.ok /\ Faithful(x.dtype, x.scale, x.ad, x.v, g.value)

\* Element types whose two conversions do not agree (see the hazards of array.cpp)
Unsound(x) == \/ x.dtype = "varying" /\ x.ad = "bool"
              \/ x.dtype = "DOUBLE" /\ x.scale = 1
              \/ x.dtype = "long"

(***************************************************************************)
(* What Row::Set stores, Row::Get returns: texts cut or padded to the      *)
(* column, reals within half a unit of the column's last digit, everything *)
(* else unchanged and, read as a narrower integer, either unchanged or     *)
(* refused.  An integer is refused only where the column cannot hold it.   *)
(* The same holds of Array::WriteFrom and Array::ReadTo, but for the three *)
(* kinds of elements above.                                                *)
(***************************************************************************)
ValuesSurvive ==
    /\ sample.kind = "row" => RowKeeps(sample)
    /\ sample.kind = "array" /\ ~Unsound(sample) => ArrayKeeps(sample)
    /\ sample.kind = "time" =>
        ttoi(itot(sample.h, sample.m, sample.s, sample.t)) = <<sample.h, sample.m, sample.s, sample.t>>

(***************************************************************************)
(* A parameter buffer is never filled beyond what was allocated for it,    *)
(* and RB finds the first item of a token in an answer, at the top or      *)
(* within another item, or throws if there is none: it never takes the     *)
(* data of an item for a token.                                            *)
(***************************************************************************)
BuffersHold ==
    /\ sample.kind = "buffer" => sample.size <= sample.alloc
    /\ sample.kind = "info" =>
        LET rb == FlattenSeq(sample.items) \o <<InfoEnd>>
            outer == FirstItem(sample.items, 2)
        IN /\ \A t \in 1..3 : InfoOf(rb, t) = FirstItem(sample.items, t)
           /\ \A o \in outer, t \in 1..3 :
                InfoWithin(rb, 2, t) = IF o.ok THEN InfoOf(o.value \o <<InfoEnd>>, t) ELSE Refused

(***************************************************************************)
(* dtoi, itod, StartOfMonth and EndOfMonth agree with a calendar that is   *)
(* walked day by day, over the ends of the range, centuries and leap       *)
(* years.  (The last month of the range has no end: EndOfMonth asks itod   *)
(* for the day after it.)                                                  *)
(***************************************************************************)
CalendarRight ==
    sample.kind = "day" =>
        LET d == sample.date
            n == sample.n
            end == n - d[3] + MonthLen(d[1], d[2])
        IN /\ dtoi(n) = d
           /\ itod(d[1], d[2], d[3]) = Value(n)
           /\ StartOfMonth(n) = Value(n - d[3] + 1)
           /\ end < MaxDate => EndOfMonth(n) = Value(end)
=============================================================================
