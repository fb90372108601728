------------------------------- MODULE MCUsers -------------------------------
(***************************************************************************)
(* Instances of the registry of users: alone, with the authorisers of      *)
(* Users, and with the plugin AlwaysOnline beside another authoriser.      *)
(***************************************************************************)
EXTENDS AlwaysOnline, TLC

RegistrySpec ==
    Init /\ [][RegNext /\ UNCHANGED <<alwaysOnline, setting, unset>>]_vars

SymmetryOfUsers   == Permutations(Logins) \cup Permutations(Admins)
SymmetryOfHolding == Permutations(Logins) \cup Permutations(Addrs)
=============================================================================
