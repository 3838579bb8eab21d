------------------------------ MODULE MCPresence -----------------------------
(* TLC instance: alice on two devices, the first of which can have two     *)
(* sockets, and bob on one.                                                *)
EXTENDS Presence, TLC

CONSTANTS alice, bob, a1, a2, b1, s1, s2, s3, s4

MCOwner == [d \in Devices |-> IF d = b1 THEN bob ELSE alice]
MCDevice ==
  [s \in Sockets |-> CASE s = s3 -> a2 [] s = s4 -> b1 [] OTHER -> a1]

\* The two sockets of the first device are interchangeable.
Symmetry == Permutations({s1, s2})
==============================================================================
