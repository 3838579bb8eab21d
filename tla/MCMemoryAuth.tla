----------------------------- MODULE MCMemoryAuth ----------------------------
(* TLC instance; ids and request slots are interchangeable.                *)
EXTENDS MemoryAuth, TLC

Symmetry ==
  Permutations(Usernames) \cup Permutations(DeviceIds)
    \cup Permutations(SessionIds) \cup Permutations(Reqs)
==============================================================================
