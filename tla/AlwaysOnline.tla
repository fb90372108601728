----------------------------- MODULE AlwaysOnline -----------------------------
(***************************************************************************)
(* The authoriser AlwaysOnline (plugins/authorization/ao/ao.cpp) with the  *)
(* registry of users and another authoriser.  It acts in the callbacks of  *)
(* two properties of a user: before a change of alwaysOnline or ips it     *)
(* withdraws the user, after it it authorises the user anew.  A change     *)
(* holds the mutex of its own property only (user_property.h:211-223), so  *)
(* two configuration threads may change the two properties at once.        *)
(***************************************************************************)
EXTENDS Users

CONSTANTS
    AO,                     \* the authoriser, a member of Auths
    Setters                 \* threads that change properties

ASSUME AOAssumption == AO \in Auths

VARIABLES
    alwaysOnline,           \* [Logins -> BOOLEAN]: the property
    setting,                \* [Setters -> a change under way, or NoChange]
    unset                   \* nodes whose callbacks are disconnected

vars == <<regVars, alwaysOnline, setting, unset>>

NoChange == [step |-> "none"]

\* The callbacks are connected to every user the plugin was told of.
Notified(n) == n \notin unset

\* UnSetUserNotifiers, when Del tells the plugin.  remove_if overwrites the
\* connections of the user with those behind them, which does not disconnect
\* them: the callbacks stay, unless the user is the last of m_conns.
UnSetUserNotifiers ==
    LET told == {deleting[d].node : d \in {e \in Admins : AO \in deleting[e].left \ deleting'[e].left}}
    IN  \/ unset' = unset \cup told
        \/ told # {} /\ DOMAIN users # told /\ UNCHANGED unset

Change(login, property, value) ==
    [step |-> "before", login |-> login, property |-> property, value |-> value,
     node |-> loginIndex[login]]

Changes(l) == {Change(l, "alwaysOnline", b) : b \in BOOLEAN}
                \cup {Change(l, "ips", S) : S \in SUBSET Addrs \ {{}}}

\* A configuration thread has found the user and takes the property's mutex.
SetBegins(t, l) ==
    /\ Sane /\ setting[t] = NoChange /\ l \in DOMAIN loginIndex
    /\ \E c \in Changes(l) :
         /\ \A s \in Setters : setting[s] # NoChange =>
              <<setting[s].login, setting[s].property>> # <<l, c.property>>
         /\ setting' = [setting EXCEPT ![t] = c]
    /\ UNCHANGED <<regVars, alwaysOnline, unset>>

Step(t, from, to) ==
    /\ Sane /\ setting[t].step = from
    /\ setting[t].node \in DOMAIN users
    /\ setting' = [setting EXCEPT ![t] = IF to = "done" THEN NoChange ELSE [@ EXCEPT !.step = to]]
    /\ UNCHANGED unset

\* Mutant: the user is not withdrawn before the change.
UnauthorizeNobody(t) ==
    Step(t, "before", "assign") /\ UNCHANGED <<regVars, alwaysOnline>>

\* The callback before the change.
UnauthorizeBefore(t) ==
    /\ Step(t, "before", "assign")
    /\ IF Notified(setting[t].node) /\ HasUser(setting[t].login, AO)
       THEN Unauthorize(setting[t].login, AO)
       ELSE UNCHANGED regVars
    /\ UNCHANGED alwaysOnline

Assign(t) ==
    /\ Step(t, "assign", "after")
    /\ IF setting[t].property = "ips"
       THEN SetIPs(setting[t].login, setting[t].value) /\ UNCHANGED alwaysOnline
       ELSE /\ alwaysOnline' = [alwaysOnline EXCEPT ![setting[t].login] = setting[t].value]
            /\ UNCHANGED regVars

OnlyOneIP(l) == \E ip \in ips[l] : ips[l] = {ip}

\* UpdateUserAuthorization, the callback after the change.
UpdateUserAuthorization(t) ==
    LET l == setting[t].login
    IN  /\ Step(t, "after", "done")
        /\ \/ /\ Notified(setting[t].node) /\ alwaysOnline[l] /\ OnlyOneIP(l)
              /\ \E ip \in ips[l] : Authorize(l, ip, AO)
           \/ /\ ~(Notified(setting[t].node) /\ alwaysOnline[l] /\ OnlyOneIP(l))
              /\ UNCHANGED regVars
        /\ UNCHANGED alwaysOnline

\* The user a thread works on is gone.
SetFails(t) ==
    /\ Sane /\ setting[t] # NoChange /\ setting[t].node \notin DOMAIN users
    /\ setting' = [setting EXCEPT ![t] = NoChange]
    /\ Break /\ UNCHANGED <<alwaysOnline, unset>>

-----------------------------------------------------------------------------
Init ==
    /\ RegInit
    /\ alwaysOnline = [l \in Logins |-> FALSE]
    /\ setting = [t \in Setters |-> NoChange]
    /\ unset = {}

\* A user that is added is not always online.
Defaults == alwaysOnline' = [l \in Logins |-> alwaysOnline[l] /\ l \notin stored' \ stored]

Next ==
    \/ Administration /\ UnSetUserNotifiers /\ Defaults /\ UNCHANGED setting
    \/ Authorization(Auths \ {AO}) /\ UNCHANGED <<alwaysOnline, setting, unset>>
    \/ \E t \in Setters :
         \/ \E l \in Logins : SetBegins(t, l)
         \/ UnauthorizeBefore(t) \/ Assign(t) \/ UpdateUserAuthorization(t) \/ SetFails(t)

AOSpec == Init /\ [][Next]_vars

-----------------------------------------------------------------------------
Quiet(l) == \A t \in Setters : setting[t] # NoChange => setting[t].login # l

\* A user this plugin holds is one that is always online, at the only
\* address it has: a change of either property never leaves an
\* authorisation by the values before it, and the callbacks that outlive
\* the removal of a user do no harm (ao.cpp:87-156).
HeldAsConfigured ==
    Sane => \A l \in DOMAIN loginIndex : Quiet(l) /\ HasUser(l, AO) =>
              alwaysOnline[l] /\ ips[l] = {users[loginIndex[l]].ip}

\* AddToIPIdx asserts "User is not in index" (users_impl.cpp:551).
UserIsNotInIndex == ~asserted
=============================================================================
