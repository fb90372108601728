------------------------------- MODULE Tables -------------------------------
(***************************************************************************)
(* The server's tables of tariffs, services, corporations and              *)
(* administrators (tariffs_impl.cpp, services_impl.cpp, corps_impl.cpp,    *)
(* admins_impl.cpp): std::vectors in memory, each written through to the   *)
(* store.  An operation is a function of the memory c and the store d; it  *)
(* returns both and the outcome the caller sees.  "stored" says whether    *)
(* the store carries the call out, which is decided outside this module.   *)
(*                                                                         *)
(* A row is a record with a name and the data the properties tell apart.   *)
(* A vector lives in a buffer, c.buf[t]: gen counts its reallocations, cap *)
(* is its capacity.  A Tariff* or Admin* that the code keeps is an index   *)
(* into a buffer.  Search descriptors are left out: a walk over a table    *)
(* begins and ends inside one request of the only thread that changes it.  *)
(***************************************************************************)
EXTENDS Integers, Sequences

LOCAL INSTANCE SequencesExt
LOCAL INSTANCE Functions

CONSTANT NO_TARIFF_NAME   \* the name of the tariff that is in no table

----------------------------------------------------------------------------
(* std::find over a table: the index of the row, 0 for end(). *)

Names(table) == {table[i].name : i \in DOMAIN table}

IndexOf(table, name) ==
    IF name \in Names(table) THEN CHOOSE i \in DOMAIN table : table[i].name = name ELSE 0

Done(c, d, res) == [core |-> c, disk |-> d, res |-> res]

(* The store keeps one function per table, from names to rows. *)

Put(d, t, row) == [d EXCEPT ![t] = [n \in DOMAIN d[t] \cup {row.name} |->
                                      IF n = row.name THEN row ELSE d[t][n]]]

Drop(d, t, name) == [d EXCEPT ![t] = Restrict(d[t], DOMAIN d[t] \ {name})]

----------------------------------------------------------------------------
(* Pointers into a vector. *)

Null == [gen |-> -1, i |-> 0]

(* The address of a member outside the table: noTariff, m_noAdmin. *)
Aside == [gen |-> 0, i |-> 0]

PointerTo(c, t, name) == [gen |-> c.buf[t].gen, i |-> IndexOf(c[t], name)]

(* What a pointer may be read as: the row it points to, and anything at    *)
(* all once its buffer is freed or its slot is past the end.               *)
Deref(c, t, p, anything) ==
    IF p.gen = c.buf[t].gen /\ p.i \in DOMAIN c[t] THEN {c[t][p.i]} ELSE anything

(* push_back into a full buffer moves every row to one twice as large. *)
PushBack(c, t, row) ==
    IF Len(c[t]) < c.buf[t].cap
    THEN [c EXCEPT ![t] = Append(@, row)]
    ELSE [c EXCEPT ![t] = Append(@, row),
                   !.buf[t] = [gen |-> @.gen + 1, cap |-> IF @.cap = 0 THEN 1 ELSE 2 * @.cap]]

----------------------------------------------------------------------------
(* Services, corporations and administrators: the lock is held over the    *)
(* whole operation, the memory is changed first, a store that refuses is   *)
(* reported and the memory stays as it is.                                 *)

RowAdd(c, d, t, row, may, stored) ==
    IF ~may THEN Done(c, d, "denied")
    ELSE IF IndexOf(c[t], row.name) # 0 THEN Done(c, d, "exists")
    ELSE Done(PushBack(c, t, row),
              IF stored THEN Put(d, t, row) ELSE d,
              IF stored THEN "ok" ELSE "store")

RowDel(c, d, t, name, may, stored) ==
    IF ~may THEN Done(c, d, "denied")
    ELSE IF IndexOf(c[t], name) = 0 THEN Done(c, d, "missing")
    ELSE Done([c EXCEPT ![t] = RemoveAt(@, IndexOf(@, name))],
              IF stored THEN Drop(d, t, name) ELSE d,
              IF stored THEN "ok" ELSE "store")

RowChange(c, d, t, row, may, stored) ==
    IF ~may THEN Done(c, d, "denied")
    ELSE IF IndexOf(c[t], row.name) = 0 THEN Done(c, d, "missing")
    ELSE Done([c EXCEPT ![t][IndexOf(c[t], row.name)] = row],
              IF stored THEN Put(d, t, row) ELSE d,
              IF stored THEN "ok" ELSE "store")

ServiceAdd(c, d, row, priv, stored) == RowAdd(c, d, "services", row, "serviceChg" \in priv, stored)

ServiceDel(c, d, name, priv, stored) == RowDel(c, d, "services", name, "serviceChg" \in priv, stored)

ServiceChange(c, d, row, priv, stored) == RowChange(c, d, "services", row, "serviceChg" \in priv, stored)

CorpAdd(c, d, row, priv, stored) == RowAdd(c, d, "corps", row, "corpChg" \in priv, stored)

CorpDel(c, d, name, priv, stored) == RowDel(c, d, "corps", name, "corpChg" \in priv, stored)

CorpChange(c, d, row, priv, stored) == RowChange(c, d, "corps", row, "corpChg" \in priv, stored)

(* A new administrator has no rights and no password. *)
AdminAdd(c, d, name, priv, stored) ==
    RowAdd(c, d, "admins", [name |-> name, priv |-> {}, password |-> ""], "adminChg" \in priv, stored)

AdminDel(c, d, name, priv, stored) == RowDel(c, d, "admins", name, "adminChg" \in priv, stored)

AdminChange(c, d, row, priv, stored) == RowChange(c, d, "admins", row, "adminChg" \in priv, stored)

----------------------------------------------------------------------------
(* Looking a row up.  Find answers the row or "no"; an empty table answers *)
(* in its own way.                                                         *)

(* ServicesImpl::Find: nothing is found in an empty table. *)
ServiceFind(c, name) == IF IndexOf(c.services, name) = 0 THEN "no" ELSE "yes"

(* ServicesImpl::Exists: an empty table holds everything. *)
ServiceExists(c, name) == c.services = <<>> \/ IndexOf(c.services, name) # 0

(* CorporationsImpl::Find: the caller of an empty table is told "found". *)
CorpFind(c, name) == IF c.corps # <<>> /\ IndexOf(c.corps, name) = 0 THEN "no" ELSE "yes"

CorpExists(c, name) == c.corps = <<>> \/ IndexOf(c.corps, name) # 0

(* AdminsImpl::find: the administrator; in an empty table NO-ADMIN, who    *)
(* has every right and an empty password.                                  *)
AdminFind(c, name) ==
    IF c.admins = <<>> THEN Aside
    ELSE IF IndexOf(c.admins, name) = 0 THEN Null
    ELSE PointerTo(c, "admins", name)

AdminExists(c, name) == c.admins = <<>> \/ IndexOf(c.admins, name) # 0

(* AdminsImpl::correct: TRUE in an empty table, and then no administrator  *)
(* is returned.                                                            *)
AdminCorrect(c, name, password) ==
    \/ c.admins = <<>>
    \/ /\ IndexOf(c.admins, name) # 0
       /\ c.admins[IndexOf(c.admins, name)].password = password

----------------------------------------------------------------------------
(* Tariffs. *)

TariffFindByName(c, name) ==
    IF name = NO_TARIFF_NAME THEN Aside
    ELSE IF IndexOf(c.tariffs, name) = 0 THEN Null
    ELSE PointerTo(c, "tariffs", name)

TariffChg(c, d, row, priv, stored) ==
    IF "tariffChg" \notin priv THEN Done(c, d, "denied")
    ELSE IF IndexOf(c.tariffs, row.name) = 0 THEN Done(c, d, "missing")
    ELSE Done([c EXCEPT !.tariffs[IndexOf(c.tariffs, row.name)] = row],
              IF stored THEN Put(d, "tariffs", row) ELSE d,
              IF stored THEN "ok" ELSE "store")

TariffDelMemoryFirst(c, d, name, priv, stored) ==
    IF "tariffChg" \notin priv THEN Done(c, d, "denied")
    ELSE IF IndexOf(c.tariffs, name) = 0 THEN Done(c, d, "missing")
    ELSE Done([c EXCEPT !.tariffs = RemoveAt(@, IndexOf(@, name))],
              IF stored THEN Drop(d, "tariffs", name) ELSE d,
              IF stored THEN "ok" ELSE "store")

(* Del asks the store first; erase moves the rows behind it down. *)
TariffDel(c, d, name, priv, stored) ==
    IF "tariffChg" \notin priv THEN Done(c, d, "denied")
    ELSE IF IndexOf(c.tariffs, name) = 0 THEN Done(c, d, "missing")
    ELSE IF ~stored THEN Done(c, d, "store")
    ELSE Done([c EXCEPT !.tariffs = RemoveAt(@, IndexOf(@, name))], Drop(d, "tariffs", name), "ok")

(* Add up to the release of the lock: the row is in memory, "more" says    *)
(* that the store is still to be asked.                                    *)
TariffAdd(c, d, name, priv) ==
    IF "tariffChg" \notin priv THEN Done(c, d, "denied")
    ELSE IF IndexOf(c.tariffs, name) # 0 THEN Done(c, d, "exists")
    ELSE Done(PushBack(c, "tariffs", [name |-> name, fee |-> 0, free |-> 0]), d, "more")

(* The rest of Add, without the lock. *)
TariffAddStore(c, d, name, stored) ==
    Done(c, IF stored THEN Put(d, "tariffs", [name |-> name, fee |-> 0, free |-> 0]) ELSE d,
         IF stored THEN "ok" ELSE "store")

----------------------------------------------------------------------------
(* What a start of the server reads.  list is the order in which the store *)
(* lists the names, good the number of rows restored before the first that *)
(* cannot be: what comes after it is not read.                             *)

Rows(c, d, t, list, good) ==
    LET grown == {n \in {0} \cup {2^k : k \in 0 .. good} : n >= good}
    IN [c EXCEPT ![t] = [i \in 1 .. good |-> d[t][list[i]]],
                 !.buf[t] = [gen |-> 1, cap |-> CHOOSE n \in grown : \A m \in grown : n <= m]]

ReadTariffs(c, d, list, good) == Rows(c, d, "tariffs", list, good)

ReadServices(c, d, list, good) == Rows(c, d, "services", list, good)

ReadCorps(c, d, list, good) == Rows(c, d, "corps", list, good)

(* AdminsImpl::read fills m_data and, when every row was restored, swaps   *)
(* it with a vector nothing was put into.                                  *)
ReadAdmins(c, d, list, good) ==
    IF good = Len(list) THEN Rows(c, d, "admins", <<>>, 0) ELSE Rows(c, d, "admins", list, good)

============================================================================
