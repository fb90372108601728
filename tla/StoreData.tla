------------------------------ MODULE StoreData ------------------------------
(***************************************************************************)
(* What the four stores have in common: the tables they keep, and the      *)
(* statements their operations are made of.  An operation of a store is a  *)
(* sequence of statements; the modules SqlStores and FileStore give that   *)
(* sequence for every operation of STG::Store, and Stores runs them.       *)
(*                                                                         *)
(* A table is a set of rows [k |-> key, c |-> columns].  Columns are       *)
(* grouped: "conf" stands for the plain settings of a user (0: as created, *)
(* with a blank password), "stat" for the balance and counters; "svc" is   *)
(* only used where the services of a user are not a table.                 *)
(***************************************************************************)
EXTENDS Naturals, Sequences, FiniteSets

CONSTANTS
    Logins, AdminNames, TariffNames, ServiceNames, CorpNames,  \* names in use
    Confs,        \* settings an administrator saves for a user
    AdminConfs, TariffDatas, ServiceConfs,   \* what may be saved of the others
    Stats         \* values of the statistics

None   == "none"
Mega       == 2   \* pt_mega: prices are kept per megabyte, used per byte
NoDiscount == 9   \* 0xffFFffFF in the column threshold
Failed == [failed |-> TRUE]

(* The tables that hold rows of a user, by the login of the user.          *)
UserTables == {"traffic", "stats", "months", "ips", "data", "svcs", "messages",
               "connlog", "chglog", "detail"}
Tables     == UserTables \cup {"users", "admins", "tariffs", "services", "corps"}

EmptyDb == [t \in Tables |-> {}]

Has(d, t, k)    == \E r \in d[t] : r.k = k
Cols(d, t, k)   == (CHOOSE r \in d[t] : r.k = k).c
RowsOf(d, t, k) == {r.c : r \in {x \in d[t] : x.k = k}}

(* An update of the columns c of a row leaves its other columns alone.     *)
Merge(old, c) == [x \in DOMAIN old |-> IF x \in DOMAIN c THEN c[x] ELSE old[x]]

(* The rows a statement is about: those with key k whose columns agree     *)
(* with at.                                                                *)
Hits(s, r) == r.k = s.k /\ \A x \in DOMAIN s.at : r.c[x] = s.at[x]

Whole == [x \in {} |-> 0]

----------------------------------------------------------------------------
(* Statements.  The first argument is a table, the second a key.           *)
Need(t, k)         == [do |-> "need", t |-> t, k |-> k, at |-> Whole]
New(t, k, c)       == [do |-> "new", t |-> t, k |-> k, c |-> c, at |-> Whole]
Row(t, k, c, refs) == [do |-> "row", t |-> t, k |-> k, c |-> c, refs |-> refs, at |-> Whole]
Set(t, k, at, c)   == [do |-> "set", t |-> t, k |-> k, at |-> at, c |-> c]
Put(t, k, at, c)   == [do |-> "put", t |-> t, k |-> k, at |-> at, c |-> c]
Drop(t, k, at)     == [do |-> "drop", t |-> t, k |-> k, at |-> at]
SetRefs(k, c)      == [do |-> "setrefs", t |-> "users", k |-> k, at |-> Whole, c |-> c]
SetLast(k, c)      == [do |-> "setlast", t |-> "stats", k |-> k, at |-> Whole, c |-> c]
Cascade(t, k)      == [do |-> "cascade", t |-> t, k |-> k, at |-> Whole]
DropFree(t, k)     == [do |-> "dropfree", t |-> t, k |-> k, at |-> Whole]
Never              == [do |-> "never", t |-> "users", k |-> None, at |-> Whole]
CommitHere         == [do |-> "commit", t |-> "users", k |-> None, at |-> Whole]
Ask                == [do |-> "ask", t |-> "users", k |-> None, at |-> Whole]
(* Touch: a file that was there is kept.                                   *)
Touch(t, k, c)     == [do |-> "touch", t |-> t, k |-> k, c |-> c, at |-> Whole]
(* A file rewritten by the destructor of CONFIGFILE, and a file unlinked:  *)
(* the operation never learns of a failure.                                *)
Flush(t, k, at, c) == [do |-> "flush", t |-> t, k |-> k, at |-> at, c |-> c]
Unlink(t, k)       == [do |-> "unlink", t |-> t, k |-> k, at |-> Whole]

(* The keys of table t that row r of table x refers to.                    *)
Refs(x, r, t) ==
    CASE x \in UserTables /\ t = "users"    -> {r.k}
      [] x = "users" /\ t = "tariffs"       -> {r.c.tariff, r.c.next}
      [] x = "users" /\ t = "corps"         -> {r.c.corp}
      [] x = "svcs" /\ t = "services"       -> {r.c.svc}
      [] x = "chglog" /\ t = "admins"       -> {r.c.admin}
      [] OTHER                              -> {}

Referred(d, t, k) == \E x \in Tables : \E r \in d[x] : k \in Refs(x, r, t)

(* Whether the database carries statement s out, given its constraints:    *)
(* unique keys, foreign keys that must exist, rows that must not be        *)
(* referred to.  A refused statement is an error the operation sees.       *)
Accepts(s, d) ==
    CASE s.do = "need"     -> Has(d, s.t, s.k)
      [] s.do = "needat"   -> \E r \in d[s.t] : Hits(s, r)
      [] s.do = "new"      -> ~Has(d, s.t, s.k)
      [] s.do = "row"      -> \A f \in s.refs : Has(d, f[1], f[2])
      [] s.do = "setlast"  -> Has(d, s.t, s.k)
      [] s.do = "dropfree" -> ~Referred(d, s.t, s.k)
      [] s.do = "never"    -> FALSE
      [] OTHER             -> TRUE

Existing(d, t, k) == IF Has(d, t, k) THEN k ELSE None

(* fk_tariff = (select pk_tariff from tb_tariffs where name = ...): a name *)
(* that is not there becomes NULL.                                         *)
Resolved(d, c) == [c EXCEPT !.tariff = Existing(d, "tariffs", @),
                            !.next = Existing(d, "tariffs", @),
                            !.corp = Existing(d, "corps", @)]

Updated(d, s, c) == [d EXCEPT ![s.t] =
    {IF Hits(s, r) THEN [r EXCEPT !.c = Merge(@, c)] ELSE r : r \in @}]

Latest(d, k) == CHOOSE c \in RowsOf(d, "stats", k) :
                    \A e \in RowsOf(d, "stats", k) : e.m <= c.m

(* Deleting a row deletes the rows that refer to it, those of users        *)
(* included, and with a user the rows of that user.                        *)
Cascaded(d, t, k) ==
    LET us == {r.k : r \in {x \in d["users"] : k \in Refs("users", x, t)}}
              \cup (IF t = "users" THEN {k} ELSE {})
    IN  [x \in Tables |-> {r \in d[x] :
            /\ ~(x = t /\ r.k = k)
            /\ k \notin Refs(x, r, t)
            /\ ~(x \in UserTables \cup {"users"} /\ r.k \in us)}]

PutIn(d, s) == IF \E r \in d[s.t] : Hits(s, r) THEN Updated(d, s, s.c)
               ELSE [d EXCEPT ![s.t] = @ \cup {[k |-> s.k, c |-> s.c]}]

Apply(s, d) ==
    CASE s.do \in {"new", "row"} -> [d EXCEPT ![s.t] = @ \cup {[k |-> s.k, c |-> s.c]}]
      [] s.do = "set"     -> Updated(d, s, s.c)
      [] s.do = "setrefs" -> Updated(d, s, Resolved(d, s.c))
      [] s.do = "setlast" -> [d EXCEPT !["stats"] =
                                 (@ \ {[k |-> s.k, c |-> Latest(d, s.k)]})
                                 \cup {[k |-> s.k, c |-> s.c]}]
      [] s.do = "put"     -> PutIn(d, s)
      [] s.do = "touch"   -> IF Has(d, s.t, s.k) THEN d ELSE PutIn(d, s)
      [] s.do = "flush"   -> IF s.t \in UserTables \cup {"users"} /\ ~Has(d, "users", s.k)
                             THEN d ELSE PutIn(d, s)
      [] s.do \in {"drop", "dropfree", "unlink"} -> [d EXCEPT ![s.t] = {r \in @ : ~Hits(s, r)}]
      [] s.do = "cascade" -> Cascaded(d, s.t, s.k)
      [] OTHER            -> d

(* One statement for each element of a set.                                *)
ForEach(S, F(_)) ==
    LET seq[T \in SUBSET S] == IF T = {} THEN <<>>
                               ELSE LET x == CHOOSE x \in T : TRUE
                                    IN  <<F(x)>> \o seq[T \ {x}]
    IN  seq[S]

(* Rows as the statements that add them leave them.                        *)
NewUser    == [tariff |-> None, next |-> None, corp |-> None, svc |-> {}, conf |-> 0, stat |-> 0]
NewAdmin   == [v |-> 0, x |-> 0]
NewTariff  == [v |-> 0, day |-> 0, night |-> 0, thr |-> 0, single |-> FALSE, nodisc |-> FALSE,
               policy |-> 0, tmo |-> 0]
NewService == [v |-> 0, text |-> "blank", cost |-> 0, day |-> 0]
NewCorp    == [v |-> 0]
============================================================================
