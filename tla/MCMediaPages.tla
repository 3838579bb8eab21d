----------------------------- MODULE MCMediaPages ----------------------------
(* TLC instance: alice's self-chat and one device, so that the fan-out,    *)
(* which has nothing to do with the index, is short.                       *)
EXTENDS MediaPages, TLC

CONSTANTS alice, a1, saved

MCOwner == a1 :> alice
MCMembers == saved :> {alice}
==============================================================================
