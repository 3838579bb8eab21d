------------------------------ MODULE MCProfiles -----------------------------
(* TLC instance: two fields, a partner with one device and one of one's    *)
(* own.                                                                    *)
EXTENDS Profiles, TLC

CONSTANTS alice, bob, a1, b1

MCDevicesOf == bob :> {b1} @@ alice :> {a1}

Symmetry == Permutations(Reqs) \cup Permutations(Fields)
==============================================================================
