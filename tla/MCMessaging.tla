----------------------------- MODULE MCMessaging -----------------------------
(* Small instances of Messaging for TLC. *)
EXTENDS Messaging, TLC

CONSTANTS alice, bob, d1, d2

Dm(a, b) == [owner |-> a, type |-> "dm", peer |-> b]
Group(a) == [owner |-> a, type |-> "group", peer |-> None]

\* alice writes twice from d1, bob reads on d2, which he shares with alice.
TwoSends == [d \in Devices |-> IF d = d1 THEN 2 ELSE 0]
AliceSends == [d \in Devices |-> IF d = d1 THEN 1 ELSE 0]
OneSend == [d \in Devices |-> 1]
Shared == [d \in Devices |-> IF d = d1 THEN {alice} ELSE {alice, bob}]
Own == [d \in Devices |-> IF d = d1 THEN {alice} ELSE {bob}]

BothWrite == {Dm(alice, bob), Dm(bob, alice)}
AliceWrites == {Dm(alice, bob), Group(alice), Dm(Guest, bob)}
=============================================================================
