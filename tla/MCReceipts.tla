------------------------------ MODULE MCReceipts -----------------------------
(* TLC instance: alice with one device, bob with two; their DM, or bob's   *)
(* self-chat.                                                              *)
EXTENDS Receipts, TLC

CONSTANTS alice, bob, a1, b1, b2, dm, saved

MCOwner == [d \in Devices |-> IF d = a1 THEN alice ELSE bob]
MCMembers == [c \in Convs |-> IF c = dm THEN {alice, bob} ELSE {bob}]

\* bob's devices are interchangeable too.
Symmetry ==
  Permutations(MsgIds) \cup Permutations(Reqs)
    \cup Permutations(Readers) \cup Permutations(Devices \ {a1})
==============================================================================
