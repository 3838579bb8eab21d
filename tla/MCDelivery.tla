------------------------------ MODULE MCDelivery -----------------------------
(* TLC instance: alice's devices call, bob's device listens; their DM and  *)
(* alice's self-chat.                                                      *)
EXTENDS Delivery, TLC

CONSTANTS alice, bob, a1, a2, b1, dm, saved

MCOwner == [d \in Devices |-> IF d = b1 THEN bob ELSE alice]
MCMembers == [c \in Convs |-> IF c = dm THEN {alice, bob} ELSE {alice}]

Symmetry == Permutations(Reqs) \cup Permutations(Texts)
==============================================================================
