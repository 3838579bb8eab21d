------------------------------ MODULE MediaPages -----------------------------
(***************************************************************************)
(* GET /v0/conversations/{id}/media beside the handlers that fill and      *)
(* prune the index: clients that page through a conversation's attachments *)
(* with the cursor of the last reply (media::list_media, db::list_media).  *)
(*                                                                         *)
(* A page is one SELECT.  It is ordered by seq alone, so the rows of an    *)
(* album, which share the seq of their message, come in any order.  The    *)
(* `kind` filter is left out: the rows are those of the kind asked for.    *)
(* So is hiding a message, which the index takes no notice of.             *)
(***************************************************************************)
EXTENDS Messaging

CONSTANTS
  Pagers,     \* clients, each of which pages once
  Limits,     \* the values of ?limit= in use, the default among them
  MAX_LIMIT   \* what clamp(1, 100) cuts a limit down to

ASSUME MediaAssumption ==
  /\ Limits \subseteq Nat
  /\ MAX_LIMIT \in Nat \ {0}
  /\ None \notin Nat

VARIABLES
  scan,       \* [Pagers -> the scan of a client, or None]
  overtaken,  \* messages unindexed while their send was still indexing
  abandoned   \* messages whose deletion ended before it unindexed them

mvars == <<scan, overtaken, abandoned>>
mediaVars == <<vars, mvars>>

\* A scan: the conversation, the limit of its pages, the cursor (None: no
\* `before`), the rows listed so far, the rows that were indexed all the time
\* since it began, the albums a page boundary fell into, whether it is over.
Scan(c, limit, before, listed, kept, torn, over) ==
  [conv |-> c, limit |-> limit, before |-> before, listed |-> listed,
   kept |-> kept, torn |-> torn, over |-> over]

Scans == [conv : Convs, limit : Nat, before : Nat \cup {None}, listed : SUBSET MediaRow,
          kept : SUBSET MediaRow, torn : SUBSET Nat, over : BOOLEAN]

ASSUME NoScanAssumption == None \notin Scans

MediaInit ==
  /\ Init
  /\ scan = [p \in Pagers |-> None]
  /\ overtaken = {}
  /\ abandoned = {}

Clamp(limit) ==
  CASE limit < 1 -> 1
    [] limit > MAX_LIMIT -> MAX_LIMIT
    [] OTHER -> limit

\* Rows of conversation c; of one chat, whoever asks.
Indexed(c) == {x \in media : x.conv = c}

\* A member asks for the first page.
BeginScan(p, a, c, limit) ==
  /\ a \in Members[c]
  /\ scan[p] = None
  /\ scan' = [scan EXCEPT ![p] =
                Scan(c, Clamp(limit), None, {}, Indexed(c), {}, FALSE)]
  /\ UNCHANGED <<vars, overtaken, abandoned>>

\* Mutant: an inclusive cursor.
AfterInclusive(x, before) == before = None \/ x.seq <= before

After(x, before) == before = None \/ x.seq < before

\* The sets LIMIT n may return, of the rows S newest first.
Newest(n, S) ==
  {P \in SUBSET S : /\ Cardinality(P) = IF Cardinality(S) < n THEN Cardinality(S) ELSE n
                    /\ \A x \in P, y \in S \ P : x.seq >= y.seq}

LastSeq(P) == CHOOSE n \in {x.seq : x \in P} : \A x \in P : n <= x.seq

\* Mutant: the cursor is the seq of the extra row.
CursorOfExtra(fetched, page) == IF fetched = page THEN None ELSE LastSeq(fetched)

\* Some iff more than the page was fetched: the seq of its last row.
NextCursor(fetched, page) ==
  IF fetched = page \/ page = {} THEN None ELSE LastSeq(page)

\* One page: limit + 1 rows are fetched, and the last is cut off.
ListMedia(p) ==
  LET q == scan[p] IN
  /\ q # None
  /\ ~q.over
  /\ \E fetched \in Newest(q.limit + 1, {x \in Indexed(q.conv) : After(x, q.before)}) :
     \E page \in Newest(q.limit, fetched) :
       LET cursor == NextCursor(fetched, page)
           torn == {x.seq : x \in fetched \ page} \cap {x.seq : x \in page} IN
       scan' = [scan EXCEPT ![p] =
         Scan(q.conv, q.limit, cursor, q.listed \cup page, q.kept,
              q.torn \cup torn, cursor = None)]
  /\ UNCHANGED <<vars, overtaken, abandoned>>

\* A row that is dropped from the index need not be listed any more.
Keep == scan' = [p \in Pagers |->
  LET q == scan[p] IN
  IF q = None \/ q.over THEN q
  ELSE Scan(q.conv, q.limit, q.before, q.listed, q.kept \cap media', q.torn, FALSE)]

Handle(r) ==
  /\ Step(r)
  /\ Keep
  /\ overtaken' = overtaken \cup
       {req[s].env.msg : s \in {x \in Busy : At(r, "unindex") /\ At(x, "index")
                                              /\ req[x].env.msg = req[r].env.msg}}
  /\ UNCHANGED abandoned

\* A handler that fails leaves the index as it is.  Deleting the message once
\* more does not help: the UPDATE finds no row and the DELETE is not reached.
HandleFails(r) ==
  /\ Fault(r)
  /\ abandoned' = abandoned \cup {m \in MsgIds : At(r, "unindex") /\ m = req[r].env.msg}
  /\ UNCHANGED <<scan, overtaken>>

HandleCall(r, d) == Call(r, d) /\ UNCHANGED mvars

MediaNext ==
  \/ \E r \in Reqs : Handle(r) \/ HandleFails(r) \/ \E d \in Devices : HandleCall(r, d)
  \/ \E p \in Pagers :
       \/ ListMedia(p)
       \/ \E a \in Accounts, c \in Convs, limit \in Limits : BeginScan(p, a, c, limit)

\* The client asks for the next page until there is none.
MediaSpec ==
  /\ MediaInit
  /\ [][MediaNext]_mediaVars
  /\ \A p \in Pagers : WF_mediaVars(ListMedia(p))

(***************************************************************************)
(* Properties                                                              *)
(***************************************************************************)
(* db::list_media: "Newest-first page ... next_cursor is Some iff more     *)
(* remain."  Whoever follows the cursor to its end has been listed every   *)
(* attachment that was indexed all the while, although sends and deletes   *)
(* go on between the pages; except those of an album that a page boundary  *)
(* fell into, whose other rows the exclusive seq cursor jumps over.        *)
ScanMissesNothing ==
  \A p \in Pagers : scan[p] # None /\ scan[p].over =>
    \A x \in scan[p].kept : x.seq \notin scan[p].torn => x \in scan[p].listed

(* Paging comes to an end while new attachments keep arriving: each page   *)
(* moves the cursor to an older message.                                   *)
ScanEnds ==
  \A p \in Pagers : scan[p] # None ~> scan[p] # None /\ scan[p].over

(* db::delete_message: "Clears the ciphertext and drops any shared-media   *)
(* index rows."  When no handler is running, a deleted message has none.   *)
NoMediaOfDeleted ==
  Busy = {} => \A x \in media : ~messages[x.msg].deleted

(* The same, except for a message whose deletion passed its own send       *)
(* between two attachments, or ended between its two statements: however   *)
(* sends, edits and deletions interleave and wherever they fail, nothing   *)
(* else leaves an attachment of a deleted message behind.                  *)
LeftoversAreExplained ==
  Busy = {} =>
    \A x \in media : messages[x.msg].deleted => x.msg \in overtaken \cup abandoned
==============================================================================
