--------------------------- MODULE SessionLedger ---------------------------
(***************************************************************************)
(* The data side of dhc.services.session_manager: a session as a ledger of *)
(* messages linked by parent_id, and the pure functions the manager and    *)
(* the chat handlers apply to it (append with the cap, branch switch, path *)
(* reconstruction, branch enumeration, loading a file).                    *)
(*                                                                         *)
(* Message ids are drawn at random in the code ("m_" + 12 characters) and  *)
(* are taken to be fresh; here they are numbers handed out in order, so    *)
(* that "older than" is "<".  Contents, timestamps, tags and models are    *)
(* left out: no property tells them apart.                                 *)
(***************************************************************************)
EXTENDS Integers, Sequences, FiniteSets, SequencesExt

CONSTANTS
    MaxMessages,  \* MAX_MESSAGES_PER_SESSION: the cap on the ledger
    MaxDepth      \* BRANCH_MAX_DEPTH: the guard of the path walk

ASSUME MaxMessagesAssumption == MaxMessages \in Nat \ {0}
ASSUME MaxDepthAssumption == MaxDepth \in Nat

Roles == {"user", "assistant", "system", "tool"}

None == 0     \* parent_id: None, active_tip_id: None
Absent == -1  \* a message of a v1.4 file, which has no parent_id key

Message == [id : Nat \ {0}, role : Roles, parent : Nat, truncated : BOOLEAN]

Titles == {"default", "auto", "user"}

Session ==
    [msgs : Seq(Message), tip : Nat, title : Titles, archived : BOOLEAN,
     totals : Nat]

FreshSession ==
    [msgs |-> <<>>, tip |-> None, title |-> "default", archived |-> FALSE,
     totals |-> 0]

----------------------------------------------------------------------------
\* append_message

Ids(s) == {s.msgs[i].id : i \in DOMAIN s.msgs}

Droppable(m) == m.role # "system"

\* The first message that is not a system one, 0 if there is none.
FirstDroppable(msgs) == SelectInSeq(msgs, Droppable)

\* Mutant: the first message left is marked, whatever its role.
MarkTruncated_AnyRole(msgs) ==
    IF msgs = <<>> THEN msgs ELSE [msgs EXCEPT ![1].truncated = TRUE]

\* The message that is the first one left gets the truncated flag.
MarkTruncated(msgs) ==
    LET first == FirstDroppable(msgs)
    IN  IF first = 0 THEN msgs
        ELSE [msgs EXCEPT ![first].truncated = TRUE]

\* Mutants: the cap is noticed one message late, or one early.
OverCap_Late(msgs) == Len(msgs) > MaxMessages + 1
OverCap_Early(msgs) == Len(msgs) >= MaxMessages

OverCap(msgs) == Len(msgs) > MaxMessages

\* The cap.  The code loops while the ledger is too long; it is never more
\* than one droppable message over the cap (the invariant CapRespected of
\* SessionStore), so that the loop drops at most one.
Capped(msgs) ==
    LET first == FirstDroppable(msgs)
    IN  IF OverCap(msgs) /\ first # 0
        THEN MarkTruncated(RemoveAt(msgs, first))
        ELSE msgs

\* The parent a new message gets: the explicit one, or the active tip.
ParentFor(s, parentArg) == IF parentArg = None THEN s.tip ELSE parentArg

NewMessage(id, role, parent) ==
    [id |-> id, role |-> role, parent |-> parent, truncated |-> FALSE]

\* Mutant: the tip is moved before the parent is read from it.
AppendMessage_TipFirst(s, id, role, parentArg) ==
    [s EXCEPT
        !.msgs = Capped(Append(@, NewMessage(id, role,
                                    IF parentArg = None THEN id ELSE parentArg))),
        !.tip = id]

AppendMessage(s, id, role, parentArg) ==
    [s EXCEPT
        !.msgs = Capped(Append(@, NewMessage(id, role, ParentFor(s, parentArg)))),
        !.tip = id,
        !.title = IF @ = "default" /\ role = "user" THEN "auto" ELSE @]

\* branch_switch, once its guards have passed.
SwitchTip(s, leaf) == [s EXCEPT !.tip = leaf]

----------------------------------------------------------------------------
\* reconstruct_path and list_branches

ById(s, id) == s.msgs[CHOOSE i \in DOMAIN s.msgs : s.msgs[i].id = id]

\* The walk leaf -> parent -> ... as the set of ids met after at most n hops;
\* it may end in an id that is not in the ledger.
Ancestry(s, leaf) ==
    LET hops[n \in 0..Len(s.msgs)] ==
            IF n = 0 THEN {leaf}
            ELSE hops[n - 1] \cup
                 ({ById(s, id).parent : id \in hops[n - 1] \cap Ids(s)} \ {None})
    IN  hops[Len(s.msgs)]

\* What reconstruct_path answers: "raised" when the depth guard trips, the
\* ids of the path, or nothing at all when a parent_id does not resolve.
\* The guard is tested on entry to iteration number depth = 0, 1, ... and
\* compares with >, so that a path of MaxDepth + 1 messages passes.  (On a
\* cycle the code would raise too; the invariant LedgerOrdered of SessionStore
\* shows that none can form.)
ReconstructPath(s, leaf) ==
    LET walk == Ancestry(s, leaf)
        resolved == walk \cap Ids(s)
    IN  IF leaf \notin Ids(s) THEN [result |-> "path", ids |-> {}]
        ELSE IF Cardinality(walk) > MaxDepth + 1
             THEN [result |-> "raised", ids |-> {}]
        ELSE [result |-> "path",
              ids |-> IF walk \subseteq Ids(s) THEN walk ELSE {}]

\* Mutant: only the branch in use is listed.
Tips_ActiveOnly(s) == {s.tip} \cap Ids(s)

\* Messages with no child: one per branch.
Tips(s) == {id \in Ids(s) : \A i \in DOMAIN s.msgs : s.msgs[i].parent # id}

\* The paths GET /branches answers with, one per tip.
BranchPaths(s) == [tip \in Tips(s) |-> ReconstructPath(s, tip)]

\* Ids grow along the ledger, and a parent is older than its child.
Ordered(s) ==
    /\ \A i, j \in DOMAIN s.msgs : i < j => s.msgs[i].id < s.msgs[j].id
    /\ \A i \in DOMAIN s.msgs : s.msgs[i].parent < s.msgs[i].id

\* The cap holds, or there is nothing left that it may drop.
WithinCap(s) ==
    Len(s.msgs) <= MaxMessages \/ ~\E i \in DOMAIN s.msgs : Droppable(s.msgs[i])

\* The tip is a message of the session.  The one exception is a ledger the cap
\* cannot shorten: when system messages alone fill it, a new message is itself
\* the one that append_message drops.
TipHolds(s) ==
    \/ s.tip = None /\ s.msgs = <<>>
    \/ s.tip \in Ids(s)
    \/ Len(s.msgs) >= MaxMessages
       /\ \A i \in DOMAIN s.msgs : s.msgs[i].role = "system"

\* At most one message is marked, and nothing the cap may drop precedes it.
MarksTheCut(msgs) ==
    \A i \in DOMAIN msgs : msgs[i].truncated => i = FirstDroppable(msgs)

----------------------------------------------------------------------------
\* to_dict / from_dict

\* Mutant: an old file is taken as it is.
Backfilled_Never(msgs) == msgs

\* _backfill_parent_ids: a message of an old file gets the message before it as
\* parent.
Backfilled(msgs) ==
    [i \in DOMAIN msgs |->
        IF msgs[i].parent # Absent THEN msgs[i]
        ELSE [msgs[i] EXCEPT !.parent = IF i = 1 THEN None ELSE msgs[i - 1].id]]

\* from_dict: a session with messages and no tip gets its last message as tip.
Load(file) ==
    [msgs |-> Backfilled(file.msgs),
     tip |-> IF file.tip = None /\ file.msgs # <<>>
             THEN file.msgs[Len(file.msgs)].id ELSE file.tip,
     title |-> file.title, archived |-> file.archived, totals |-> file.totals]

=============================================================================
