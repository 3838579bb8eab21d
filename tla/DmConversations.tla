--------------------------- MODULE DmConversations ---------------------------
(***************************************************************************)
(* db::dm_conversation: the conversation of an unordered account pair,     *)
(* created on first use.  The function is five SQL statements, each its    *)
(* own transaction, so calls of several requests interleave between them.  *)
(* The pair mapping is claimed last, with ON CONFLICT DO NOTHING, and the  *)
(* loser of a race re-reads the winner's id.                               *)
(*                                                                         *)
(* A call may stop between two statements: a statement returns an error,   *)
(* the client goes away and the handler's future is dropped, or the        *)
(* process dies.  What it has already written stays.                       *)
(***************************************************************************)
EXTENDS Naturals

CONSTANTS
  Accounts,   \* account ids; numbers, because the code orders them (a <= b)
  ConvIds,    \* the ids Uuid::new_v4 can draw
  Calls,      \* the calls of dm_conversation that may run at once
  Nothing     \* no conversation, or a local not set

ASSUME AccountsAssumption == Accounts \subseteq Nat
ASSUME NothingAssumption == Nothing \notin ConvIds

VARIABLES
  conversations,         \* ids with a row in `conversations`
  conversation_members,  \* [ConvIds -> SUBSET Accounts]
  dm_conversations,      \* [Pairs -> ConvIds \cup {Nothing}]
  pc,                    \* [Calls -> the statement the call is about to run]
  pair,                  \* [Calls -> its (lo, hi)]
  cid,                   \* [Calls -> the id it drew]
  answered               \* the set of <<pair, id>> returned to callers

dmVars == <<conversations, conversation_members, dm_conversations,
            pc, pair, cid, answered>>
tables == <<conversations, conversation_members, dm_conversations>>

Pairs == {p \in Accounts \X Accounts : p[1] <= p[2]}

\* Mutant: the pair is not put in order.
LoHiAsGiven(a, b) == <<a, b>>

\* let (lo, hi) = if a <= b { (a, b) } else { (b, a) }
LoHi(a, b) == IF a <= b THEN <<a, b>> ELSE <<b, a>>

Stages == {"idle", "lookup", "create", "members", "claim", "reselect"}

DmInit ==
  /\ conversations = {}
  /\ conversation_members = [c \in ConvIds |-> {}]
  /\ dm_conversations = [p \in Pairs |-> Nothing]
  /\ pc = [r \in Calls |-> "idle"]
  /\ pair = [r \in Calls |-> Nothing]
  /\ cid = [r \in Calls |-> Nothing]
  /\ answered = {}

ToStage(r, stage) == pc' = [pc EXCEPT ![r] = stage]

\* The call is over; its locals are gone.
Leave(r) ==
  /\ ToStage(r, "idle")
  /\ pair' = [pair EXCEPT ![r] = Nothing]
  /\ cid' = [cid EXCEPT ![r] = Nothing]

(***************************************************************************)
(* The statements of the function, in its order.                           *)
(***************************************************************************)
Call(r, a, b) ==
  /\ pc[r] = "idle"
  /\ ToStage(r, "lookup")
  /\ pair' = [pair EXCEPT ![r] = LoHi(a, b)]
  /\ UNCHANGED <<tables, cid, answered>>

\* The first SELECT finds the pair: return its conversation.
LookupHit(r) ==
  /\ pc[r] = "lookup"
  /\ dm_conversations[pair[r]] # Nothing
  /\ answered' = answered \cup {<<pair[r], dm_conversations[pair[r]]>>}
  /\ Leave(r)
  /\ UNCHANGED tables

LookupMiss(r) ==
  /\ pc[r] = "lookup"
  /\ dm_conversations[pair[r]] = Nothing
  /\ ToStage(r, "create")
  /\ UNCHANGED <<tables, pair, cid, answered>>

\* Mutant: the pair is claimed together with the row, before the members.
CreateConversationClaims(r) ==
  /\ pc[r] = "create"
  /\ \E c \in ConvIds \ conversations :
       /\ conversations' = conversations \cup {c}
       /\ cid' = [cid EXCEPT ![r] = c]
       /\ dm_conversations' = [dm_conversations EXCEPT
                                 ![pair[r]] = IF @ = Nothing THEN c ELSE @]
  /\ ToStage(r, "members")
  /\ UNCHANGED <<conversation_members, pair, answered>>

\* A new_v4 id is one no row has; it is drawn and inserted here.
CreateConversation(r) ==
  /\ pc[r] = "create"
  /\ \E c \in ConvIds \ conversations :
       /\ conversations' = conversations \cup {c}
       /\ cid' = [cid EXCEPT ![r] = c]
  /\ ToStage(r, "members")
  /\ UNCHANGED <<conversation_members, dm_conversations, pair, answered>>

\* One row for a self-chat (lo = hi), two otherwise.
AddMembers(r) ==
  /\ pc[r] = "members"
  /\ conversation_members' = [conversation_members EXCEPT
                                ![cid[r]] = @ \cup {pair[r][1], pair[r][2]}]
  /\ ToStage(r, "claim")
  /\ UNCHANGED <<conversations, dm_conversations, pair, cid, answered>>

\* Mutant: ON CONFLICT DO UPDATE.
ClaimPairOverwrites(r) ==
  /\ pc[r] = "claim"
  /\ dm_conversations' = [dm_conversations EXCEPT ![pair[r]] = cid[r]]
  /\ ToStage(r, "reselect")
  /\ UNCHANGED <<conversations, conversation_members, pair, cid, answered>>

\* INSERT ... ON CONFLICT DO NOTHING: only the first claim of a pair counts.
ClaimPair(r) ==
  /\ pc[r] = "claim"
  /\ dm_conversations' = [dm_conversations EXCEPT
                            ![pair[r]] = IF @ = Nothing THEN cid[r] ELSE @]
  /\ ToStage(r, "reselect")
  /\ UNCHANGED <<conversations, conversation_members, pair, cid, answered>>

\* Mutant: the id this call drew is returned, won or not.
ReselectOwn(r) ==
  /\ pc[r] = "reselect"
  /\ answered' = answered \cup {<<pair[r], cid[r]>>}
  /\ Leave(r)
  /\ UNCHANGED tables

\* fetch_one of the mapping; answering Nothing stands for its RowNotFound error.
Reselect(r) ==
  /\ pc[r] = "reselect"
  /\ answered' = answered \cup {<<pair[r], dm_conversations[pair[r]]>>}
  /\ Leave(r)
  /\ UNCHANGED tables

\* An error, a dropped request or a crash ends the call where it stands.
AbortCall(r) ==
  /\ pc[r] # "idle"
  /\ Leave(r)
  /\ UNCHANGED <<tables, answered>>

DmNext ==
  \E r \in Calls :
    \/ \E a, b \in Accounts : Call(r, a, b)
    \/ LookupHit(r)
    \/ LookupMiss(r)
    \/ CreateConversation(r)
    \/ AddMembers(r)
    \/ ClaimPair(r)
    \/ Reselect(r)
    \/ AbortCall(r)

DmSpec == DmInit /\ [][DmNext]_dmVars

(***************************************************************************)
(* Properties                                                              *)
(***************************************************************************)
DmTypeOK ==
  /\ conversations \subseteq ConvIds
  /\ conversation_members \in [ConvIds -> SUBSET Accounts]
  /\ dm_conversations \in [Pairs -> ConvIds \cup {Nothing}]
  /\ pc \in [Calls -> Stages]
  /\ pair \in [Calls -> Pairs \cup {Nothing}]
  /\ cid \in [Calls -> ConvIds \cup {Nothing}]
  /\ answered \subseteq Pairs \X (ConvIds \cup {Nothing})

(* Two callers that name the same two accounts, in either order and at any *)
(* two times, get the same conversation: a lost creation race or a call    *)
(* that died half-way never splits a DM in two.                            *)
OneConversationPerPair ==
  \A x, y \in answered : x[1] = y[1] => x[2] = y[2]

(* The conversation a caller is given is complete the moment it is given:  *)
(* its row exists and its members are exactly the two accounts, so the     *)
(* membership checks and the fan-out that follow see both of them.  It is  *)
(* never an error, and never a half-created row of a concurrent call.      *)
AnswersAreComplete ==
  \A x \in answered :
    /\ x[2] \in conversations
    /\ conversation_members[x[2]] = {x[1][1], x[1][2]}

(* The five statements together behave as one directory in which a pair is *)
(* bound once, to an id of its own.                                        *)
Directory == INSTANCE DmDirectory WITH directory <- dm_conversations, None <- Nothing
ImplementsDirectory == Directory!DirSpec
==============================================================================
