----------------------------- MODULE DmDirectory -----------------------------
(***************************************************************************)
(* What dm_conversation promises its callers, free of how it is computed:  *)
(* a directory from account pairs to conversation ids.  A pair is bound at *)
(* most once, to an id no other pair has, and every answer ever given for  *)
(* a pair is the id it is bound to.                                        *)
(***************************************************************************)
CONSTANTS
  Pairs,      \* the unordered account pairs, as <<lo, hi>>
  ConvIds,    \* conversation ids
  None        \* "no conversation yet"

VARIABLES
  directory,  \* [Pairs -> ConvIds \cup {None}]
  answered    \* the set of <<pair, id>> some caller was given

dirVars == <<directory, answered>>

DirInit ==
  /\ directory = [p \in Pairs |-> None]
  /\ answered = {}

\* The pair p is bound to an id that no pair is bound to.
Bind(p, c) ==
  /\ directory[p] = None
  /\ \A q \in Pairs : directory[q] # c
  /\ directory' = [directory EXCEPT ![p] = c]
  /\ UNCHANGED answered

\* A caller that asked about p is told the id p is bound to.
Answer(p) ==
  /\ directory[p] # None
  /\ answered' = answered \cup {<<p, directory[p]>>}
  /\ UNCHANGED directory

DirNext ==
  \E p \in Pairs : Answer(p) \/ \E c \in ConvIds : Bind(p, c)

DirSpec == DirInit /\ [][DirNext]_dirVars
==============================================================================
