---------------------------- MODULE SessionStore ----------------------------
(***************************************************************************)
(* dhc.services.session_manager.SessionManager: one JSON file per session, *)
(* an index file, a cache in memory, and two in-memory flags per session.  *)
(*                                                                         *)
(* Every method runs under one lock in a single-threaded server, so each   *)
(* is one action.  What can go wrong inside a method is the disk: a save   *)
(* writes the session file and then the index, each by a temporary file    *)
(* and os.replace, and either write can raise.  By then the cached Session *)
(* object has already been changed.  A crash in the middle of a save       *)
(* leaves the files as the failing save does, and empties the memory: it   *)
(* is a failing save followed by Crash.                                    *)
(***************************************************************************)
EXTENDS SessionLedger

CONSTANTS
    Sessions,       \* session ids that can be drawn
    MaxMsgId,       \* bound on the number of messages ever created
    MaxTotals,      \* bound on the token totals a caller stores
    Edits,          \* the fields callers of update change
    MsgRoles,       \* the roles callers append with
    LegacyLen,      \* number of messages in the v1.4 file found at start
    ForeignParents  \* may POST /branches name a message of no session?

ASSUME MaxMsgIdAssumption == MaxMsgId \in Nat
ASSUME MaxTotalsAssumption == MaxTotals \in Nat
ASSUME EditsAssumption == Edits \subseteq {"title", "archived", "totals"}
ASSUME MsgRolesAssumption == MsgRoles \subseteq Roles
ASSUME LegacyLenAssumption == LegacyLen \in 0..MaxMessages
ASSUME ForeignParentsAssumption == ForeignParents \in BOOLEAN

VARIABLES
    cache,      \* _cache: the sessions in memory
    disk,       \* sessions/<id>.json
    index,      \* the ids in sessions-index.json ({} when it is missing)
    streaming,  \* _stream_in_progress
    cancelled,  \* _cancel_requested
    nextMsg,    \* the next message id
    gone,       \* ghost: the sessions that were hard-deleted
    unsaved,    \* ghost: the sessions whose last save raised
    indexDirty  \* ghost: the index was lost or its last write raised

files == <<disk, index>>
flags == <<streaming, cancelled>>
vars == <<cache, disk, index, streaming, cancelled, nextMsg, gone, unsaved,
          indexDirty>>

Put(f, k, v) == [x \in DOMAIN f \cup {k} |-> IF x = k THEN v ELSE f[x]]
Drop(f, k) == [x \in DOMAIN f \ {k} |-> f[x]]

\* How a save ends: all written; the session file could not be written; the
\* session file was written and the index was not, or not for the last time.
Outcomes == {"ok", "fileFails", "indexFails", "indexHealedOnly"}

----------------------------------------------------------------------------
\* Mutant: a stale index is trusted.
EnsureIndex_Trusts(idx, onDisk) == idx

\* _ensure_index: a stale index is replaced by what is on disk.
EnsureIndex(idx, onDisk) == IF idx # onDisk THEN onDisk ELSE idx

\* _save
SaveFiles(sid, s, outcome) ==
    /\ disk' = IF outcome = "fileFails" THEN disk ELSE Put(disk, sid, s)
    /\ index' =
        CASE outcome \in {"fileFails", "indexFails"} -> index
          [] outcome = "indexHealedOnly" -> EnsureIndex(index, DOMAIN disk')
          [] outcome = "ok" -> EnsureIndex(index, DOMAIN disk') \cup {sid}
    /\ indexDirty' = CASE outcome = "ok" -> FALSE
                       [] outcome = "fileFails" -> indexDirty
                       [] OTHER -> TRUE

\* Mutant: saved first, changed then.
MutateAndSave_SavesFirst(sid, s, outcome) ==
    /\ cache' = Put(cache, sid, s)
    /\ SaveFiles(sid, IF sid \in DOMAIN cache THEN cache[sid] ELSE Load(disk[sid]),
                 outcome)
    /\ unsaved' = IF outcome = "fileFails" THEN unsaved \cup {sid}
                  ELSE unsaved \ {sid}

\* A method that changes the cached session and then saves it: the cache has
\* the change whether or not the save raises.
MutateAndSave(sid, s, outcome) ==
    /\ cache' = Put(cache, sid, s)
    /\ SaveFiles(sid, s, outcome)
    /\ unsaved' = IF outcome = "fileFails" THEN unsaved \cup {sid}
                  ELSE unsaved \ {sid}

\* get: from the cache, else from the file.
Known(sid) == sid \in DOMAIN cache \cup DOMAIN disk
Fetch(sid) == IF sid \in DOMAIN cache THEN cache[sid] ELSE Load(disk[sid])

----------------------------------------------------------------------------
\* A session left by v1.4: a linear chat, with neither parents nor a tip.
LegacyMessage(i) ==
    [id |-> i, role |-> IF i % 2 = 1 THEN "user" ELSE "assistant",
     parent |-> Absent, truncated |-> FALSE]

LegacyFile ==
    [msgs |-> [i \in 1..LegacyLen |-> LegacyMessage(i)], tip |-> None,
     title |-> "default", archived |-> FALSE, totals |-> 0]

\* Some sessions may have been left by v1.4; their index may be missing.
Init ==
    /\ cache = [sid \in {} |-> FreshSession]
    /\ \E old \in SUBSET Sessions : disk = [sid \in old |-> LegacyFile]
    /\ index \in {{}, DOMAIN disk}
    /\ streaming = {}
    /\ cancelled = {}
    /\ nextMsg = LegacyLen + 1
    /\ gone = {}
    /\ unsaved = {}
    /\ indexDirty = (index # DOMAIN disk)

\* Mutant: the new session is cached before it is saved.
Create_CachesFirst(sid, outcome) ==
    /\ ~Known(sid)
    /\ sid \notin gone
    /\ SaveFiles(sid, FreshSession, outcome)
    /\ cache' = Put(cache, sid, FreshSession)
    /\ UNCHANGED <<flags, nextMsg, gone, unsaved>>

\* create: saved first, cached only if the save succeeded.
Create(sid, outcome) ==
    /\ ~Known(sid)
    /\ sid \notin gone
    /\ SaveFiles(sid, FreshSession, outcome)
    /\ cache' = IF outcome = "ok" THEN Put(cache, sid, FreshSession) ELSE cache
    /\ UNCHANGED <<flags, nextMsg, gone, unsaved>>

\* get, the read that fills the cache.
Get(sid) ==
    /\ Known(sid)
    /\ cache' = Put(cache, sid, Fetch(sid))
    /\ UNCHANGED <<files, flags, nextMsg, gone, unsaved, indexDirty>>

\* list_summaries and search: heal the index, then get the sessions in it, up
\* to the limit.  (When the write of the index raises, nothing has happened.)
ListSummaries ==
    /\ index' = EnsureIndex(index, DOMAIN disk)
    /\ \E seen \in SUBSET index' :
        cache' = [sid \in DOMAIN cache \cup seen |-> Fetch(sid)]
    /\ indexDirty' = FALSE
    /\ UNCHANGED <<disk, flags, nextMsg, gone, unsaved>>

\* update, as its callers use it: the route PATCH (title, archived; a title
\* that is empty or "New session" counts as "default" and is left out) and the
\* end of a chat turn (usage_totals).
Update(sid, outcome) ==
    /\ Known(sid)
    /\ \/ /\ "title" \in Edits
          /\ MutateAndSave(sid, [Fetch(sid) EXCEPT !.title = "user"], outcome)
       \/ /\ "archived" \in Edits
          /\ \E b \in BOOLEAN :
                MutateAndSave(sid, [Fetch(sid) EXCEPT !.archived = b], outcome)
       \/ /\ "totals" \in Edits
          /\ \E n \in 0..MaxTotals :
                MutateAndSave(sid, [Fetch(sid) EXCEPT !.totals = n], outcome)
    /\ UNCHANGED <<flags, nextMsg, gone>>

\* soft_delete
SoftDelete(sid, outcome) ==
    /\ Known(sid)
    /\ MutateAndSave(sid, [Fetch(sid) EXCEPT !.archived = TRUE], outcome)
    /\ UNCHANGED <<flags, nextMsg, gone>>

\* Mutant: the cached session is not dropped.
Forget_Not(sid) == UNCHANGED cache

Forget(sid) == cache' = Drop(cache, sid)

\* hard_delete: unlink, forget, rewrite the index without the id.  The flags
\* of the session stay.  When the unlink raises, the get before it is all
\* that happened.
HardDelete(sid, outcome) ==
    /\ Known(sid)
    /\ IF outcome = "fileFails"
       THEN /\ cache' = Put(cache, sid, Fetch(sid))
            /\ UNCHANGED <<files, gone, unsaved, indexDirty>>
       ELSE /\ disk' = Drop(disk, sid)
            /\ Forget(sid)
            /\ index' = IF outcome = "indexFails" THEN index
                        ELSE EnsureIndex(index, DOMAIN disk') \ {sid}
            /\ indexDirty' = (outcome = "indexFails")
            /\ gone' = gone \cup {sid}
            /\ unsaved' = unsaved \ {sid}
    /\ UNCHANGED <<flags, nextMsg>>

\* append_message, with a text (only a text makes a title).  parentArg = None
\* extends the active tip.
Append1(sid, role, parentArg, outcome) ==
    /\ Known(sid)
    /\ nextMsg <= MaxMsgId
    /\ MutateAndSave(sid, AppendMessage(Fetch(sid), nextMsg, role, parentArg),
                     outcome)
    /\ nextMsg' = nextMsg + 1
    /\ UNCHANGED <<flags, gone>>

\* branch_create: append_message with an explicit parent.  Neither it nor the
\* route looks the parent up.
ForkPoints(sid) ==
    IF ForeignParents THEN 1..(nextMsg - 1) ELSE Ids(Fetch(sid))

BranchCreate(sid, role, outcome) ==
    /\ Known(sid)
    /\ \E parent \in ForkPoints(sid) : Append1(sid, role, parent, outcome)

\* Mutants: the flag is not looked at; the message is not looked up.
TipIsFree_Always(sid) == TRUE
SwitchTargets_Any(sid) == 1..(nextMsg - 1)

\* branch_switch: refused while a stream is in progress; any message of the
\* session will do, a tip or not.
TipIsFree(sid) == sid \notin streaming
SwitchTargets(sid) == Ids(Fetch(sid))

BranchSwitch(sid, outcome) ==
    /\ TipIsFree(sid)
    /\ Known(sid)
    /\ \E leaf \in SwitchTargets(sid) :
        MutateAndSave(sid, SwitchTip(Fetch(sid), leaf), outcome)
    /\ UNCHANGED <<flags, nextMsg, gone>>

\* begin_stream, end_stream, cancel_stream, clear_cancel: set operations that
\* ask nothing of the session.
BeginStream(sid) ==
    /\ streaming' = streaming \cup {sid}
    /\ UNCHANGED <<cache, files, cancelled, nextMsg, gone, unsaved, indexDirty>>

EndStream(sid) ==
    /\ streaming' = streaming \ {sid}
    /\ UNCHANGED <<cache, files, cancelled, nextMsg, gone, unsaved, indexDirty>>

CancelStream(sid) ==
    /\ cancelled' = cancelled \cup {sid}
    /\ UNCHANGED <<cache, files, streaming, nextMsg, gone, unsaved, indexDirty>>

ClearCancel(sid) ==
    /\ cancelled' = cancelled \ {sid}
    /\ UNCHANGED <<cache, files, streaming, nextMsg, gone, unsaved, indexDirty>>

\* The process dies: what is in memory is lost.
Crash ==
    /\ cache' = [sid \in {} |-> FreshSession]
    /\ streaming' = {}
    /\ cancelled' = {}
    /\ unsaved' = {}
    /\ UNCHANGED <<files, nextMsg, gone, indexDirty>>

\* Somebody removes sessions-index.json, the case _ensure_index is for.
LoseIndex ==
    /\ index' = {}
    /\ indexDirty' = (DOMAIN disk # {})
    /\ UNCHANGED <<cache, disk, flags, nextMsg, gone, unsaved>>

Next ==
    \/ \E sid \in Sessions, outcome \in Outcomes :
        \/ Create(sid, outcome)
        \/ Update(sid, outcome)
        \/ SoftDelete(sid, outcome)
        \/ HardDelete(sid, outcome)
        \/ \E role \in MsgRoles :
            \/ Append1(sid, role, None, outcome)
            \/ BranchCreate(sid, role, outcome)
        \/ BranchSwitch(sid, outcome)
    \/ \E sid \in Sessions :
        \/ Get(sid)
        \/ BeginStream(sid)
        \/ EndStream(sid)
        \/ CancelStream(sid)
        \/ ClearCancel(sid)
    \/ ListSummaries
    \/ Crash
    \/ LoseIndex

Spec == Init /\ [][Next]_vars

----------------------------------------------------------------------------
\* Properties

\* Every variable has its shape.
TypeOK ==
    /\ \E D \in SUBSET Sessions : cache \in [D -> Session]
    /\ \E D \in SUBSET Sessions :
        DOMAIN disk = D /\ \A sid \in D : Load(disk[sid]) \in Session
    /\ index \subseteq Sessions
    /\ streaming \subseteq Sessions
    /\ cancelled \subseteq Sessions
    /\ nextMsg \in Nat \ {0}
    /\ gone \subseteq Sessions
    /\ unsaved \subseteq Sessions
    /\ indexDirty \in BOOLEAN

\* Ids grow along a ledger, and the parent of a message is older than it: no
\* sequence of appends, forks, switches, truncations, failing saves, crashes
\* and reloads ties parent_id links into a cycle, which is what the depth
\* guard of reconstruct_path is there for.
LedgerOrdered ==
    /\ \A sid \in DOMAIN cache : Ordered(cache[sid])
    /\ \A sid \in DOMAIN disk : Ordered(Load(disk[sid]))

\* The active tip is a message of the session, after a fork, a switch, a
\* truncation or a reload: the next append does not hang from nothing.
TipResolves == \A sid \in DOMAIN cache : TipHolds(cache[sid])

\* The cap holds, or only system messages are left: what makes the loop of
\* append_message drop one message at most.
CapRespected == \A sid \in DOMAIN cache : WithinCap(cache[sid])

\* The truncated flag marks the cut: at most one message carries it, and
\* nothing that the cap may drop precedes that message.
TruncationMarksTheCut == \A sid \in DOMAIN cache : MarksTheCut(cache[sid].msgs)

\* What is in memory is on disk, unless the last save of that session raised:
\* a crash loses no operation that returned.
MemoryIsDurable ==
    \A sid \in DOMAIN cache :
        /\ sid \in DOMAIN disk
        /\ sid \notin unsaved => cache[sid] = Load(disk[sid])

\* The index lists exactly the session files, unless it was lost or its last
\* write raised; the next completed operation heals it.
IndexMatchesFiles == index = DOMAIN disk \/ indexDirty

\* A hard-deleted session never comes back, neither from the cache nor from a
\* file, whatever is saved, listed or reloaded afterwards.
DeletedStaysDeleted == gone \cap (DOMAIN cache \cup DOMAIN disk) = {}

\* Every message that the cap has not dropped is kept, in memory and in the
\* file, with its id, role and parent; the cap drops from a full ledger only,
\* the oldest first.
Kept(m, s) == \E i \in DOMAIN s.msgs :
    s.msgs[i] = m \/ s.msgs[i] = [m EXCEPT !.truncated = TRUE]

KeepsHistory(old, new) ==
    \A i \in DOMAIN old.msgs : Kept(old.msgs[i], new)
        \/ /\ Droppable(old.msgs[i])
           /\ Len(new.msgs) >= MaxMessages
           /\ \A j \in 1..(i - 1) : Droppable(old.msgs[j]) =>
                                        ~Kept(old.msgs[j], new)

StepKeepsHistory ==
    /\ \A sid \in DOMAIN cache \cap DOMAIN cache' :
            KeepsHistory(cache[sid], cache'[sid])
    /\ \A sid \in DOMAIN disk \cap DOMAIN disk' :
            KeepsHistory(Load(disk[sid]), Load(disk'[sid]))

HistoryKept == [][StepKeepsHistory]_vars

\* While a stream is in progress the active tip moves only by a message being
\* appended: the guard of branch_switch that ADR-0019 calls the contract.
TipPinnedWhileStreaming ==
    [][\A sid \in streaming : sid \in DOMAIN cache \cap DOMAIN cache' =>
        \/ cache'[sid].tip = cache[sid].tip
        \/ cache'[sid].tip = nextMsg /\ nextMsg' = nextMsg + 1]_vars

\* What get answers, of each session, and what it would after a crash.
Shown == [sid \in DOMAIN cache \cup DOMAIN disk |-> Fetch(sid)]
Safe == [sid \in DOMAIN disk |-> Load(disk[sid])]

Durable == INSTANCE DurableStore WITH
    shown <- Shown, safe <- Safe, raised <- unsaved, removed <- gone

\* To its callers the manager is a map with a copy that survives: whatever is
\* cached, back-filled or half saved, each operation changes one session, in
\* memory and on disk alike unless it raises, and reads change nothing.
ImplementsDurableStore == Durable!Spec

\* What makes these invariants inductive: each session, cached or in a file,
\* is older than the next message, and has a tip as soon as it has messages,
\* so that reading a saved file back changes nothing.
Sound(s, next) ==
    /\ s \in Session
    /\ Ordered(s)
    /\ WithinCap(s)
    /\ s.tip < next
    /\ \A i \in DOMAIN s.msgs : s.msgs[i].id < next
    /\ s.tip = None => s.msgs = <<>>
    /\ TipHolds(s)
    /\ MarksTheCut(s.msgs)

SessionsSound ==
    /\ \A sid \in DOMAIN cache : Sound(cache[sid], nextMsg)
    /\ \A sid \in DOMAIN disk : Sound(Load(disk[sid]), nextMsg)

IInv ==
    /\ TypeOK
    /\ SessionsSound
    /\ MemoryIsDurable
    /\ IndexMatchesFiles
    /\ DeletedStaysDeleted

=============================================================================
