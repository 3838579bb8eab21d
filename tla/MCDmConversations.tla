-------------------------- MODULE MCDmConversations --------------------------
(* TLC instance: two accounts (hence two self-chats and one DM), three     *)
(* concurrent calls, and one conversation id more than there are calls at  *)
(* once, so that an aborted creation can be retried.  Ids and calls are    *)
(* only compared for equality, and no property is a liveness property, so  *)
(* permuting them is sound.                                                *)
EXTENDS DmConversations, TLC

Symmetry == Permutations(ConvIds) \cup Permutations(Calls)
==============================================================================
