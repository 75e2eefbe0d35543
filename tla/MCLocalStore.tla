---------------------------- MODULE MCLocalStore ----------------------------
(* Small instances of LocalStore for TLC. *)
EXTENDS LocalStore, TLC

CONSTANTS alice, bob, d1, d2, d3, p1, p2, s1, s2, i1, i2

AllFaults == FaultKinds
\* One directory per owner, as on a case-sensitive disk.
OwnDirs == [o \in Owners |-> CASE o = alice -> d1 [] o = bob -> d2 [] OTHER -> d3]
\* alice and bob are logins that differ in case only, on a disk that does
\* not tell them apart.
MergedDirs == [o \in Owners |-> IF o = Guest THEN d3 ELSE d1]

\* What no action names may be exchanged: ids, salts and passwords.
Symmetric == Permutations(Ids) \union Permutations(Salts) \union Permutations(Passwords)
=============================================================================
