------------------------- MODULE SessionStoreProofs -------------------------
(***************************************************************************)
(* SessionStore for every set of sessions and every bound: what is on disk *)
(* after failing saves, crashes and reloads, the order and the cap of      *)
(* every ledger, and that a step only ever adds to the history of a        *)
(* session or drops its oldest messages.  Last, the step refinement: the   *)
(* manager implements DurableStore.                                        *)
(***************************************************************************)
EXTENDS SessionStore, SessionLedgerProofs

\* A session that was saved is read back as it was.
LEMMA LoadSaved ==
    ASSUME NEW s \in Session, s.tip = None => s.msgs = <<>>
    PROVE  Load(s) = s
<1>1. s.msgs \in Seq(Message) /\ DOMAIN s.msgs = 1..Len(s.msgs)
    BY LenProperties DEF Session
<1>2. \A i \in DOMAIN s.msgs : s.msgs[i].parent \in Nat
    <2>1. \A i \in DOMAIN s.msgs : s.msgs[i] \in Message
        BY <1>1, ElementOfSeq
    <2>. QED
        BY <2>1 DEF Message
<1>3. Backfilled(s.msgs) = [i \in DOMAIN s.msgs |-> s.msgs[i]]
    BY <1>2 DEF Backfilled, Absent
<1>4. s.msgs = [i \in DOMAIN s.msgs |-> s.msgs[i]]
    BY <1>1
<1>. QED
    BY <1>3, <1>4 DEF Load, Session

\* Reading back a file that was saved by this version changes nothing.
LEMMA SoundLoad ==
    ASSUME NEW s, NEW next, Sound(s, next)
    PROVE  Load(s) = s
BY LoadSaved DEF Sound

\* The messages of a session are older than the next one.
LEMMA SoundIds ==
    ASSUME NEW s, NEW next \in Nat, Sound(s, next), NEW id \in Ids(s)
    PROVE  id \in Nat \ {0} /\ id < next
<1>1. PICK i \in DOMAIN s.msgs : id = s.msgs[i].id
    BY DEF Ids
<1>2. s.msgs \in Seq(Message)
    BY DEF Sound, Session
<1>3. s.msgs[i] \in Message
    BY <1>1, <1>2, ElementOfSeq, LenProperties
<1>. QED
    BY <1>1, <1>3 DEF Sound, Message

\* A new session is sound.
LEMMA FreshSound == \A next \in Nat \ {0} : Sound(FreshSession, next)
<1>1. FreshSession \in Session
    BY DEF FreshSession, Session, Titles, None
<1>2. DOMAIN FreshSession.msgs = {} /\ Len(FreshSession.msgs) = 0
      /\ FreshSession.tip = 0
    BY DEF FreshSession, None
<1>. QED
    BY <1>1, <1>2, MaxMessagesAssumption
    DEF Sound, Ordered, WithinCap, TipHolds, MarksTheCut, FreshSession, None

\* A v1.4 file is read as a sound session: a chain.
LEMMA LegacySound == Sound(Load(LegacyFile), LegacyLen + 1)
<1>. DEFINE old == [i \in 1..LegacyLen |-> LegacyMessage(i)]
            msgs == Backfilled(old)
            s == Load(LegacyFile)
<1>1. LegacyLen \in Nat /\ LegacyLen <= MaxMessages /\ MaxMessages \in Nat
    BY LegacyLenAssumption, MaxMessagesAssumption
<1>2. DOMAIN msgs = 1..LegacyLen
    BY DEF Backfilled
<1>3. ASSUME NEW i \in 1..LegacyLen
      PROVE  /\ msgs[i] \in Message
             /\ msgs[i].id = i
             /\ msgs[i].parent < i
             /\ ~msgs[i].truncated
    <2>1. msgs[i] = [LegacyMessage(i) EXCEPT !.parent =
                        IF i = 1 THEN None ELSE old[i - 1].id]
        BY DEF Backfilled, LegacyMessage
    <2>2. i # 1 => i - 1 \in 1..LegacyLen /\ old[i - 1].id = i - 1
        BY <1>1 DEF LegacyMessage
    <2>. DEFINE parent == IF i = 1 THEN None ELSE old[i - 1].id
    <2>3. parent \in Nat /\ parent < i
        BY <1>1, <2>2 DEF None
    <2>4. msgs[i] = [LegacyMessage(i) EXCEPT !.parent = parent]
        BY <2>1
    <2>5. i \in Nat \ {0}
        BY <1>1
    <2>. HIDE DEF msgs, parent
    <2>. QED
        BY <2>3, <2>4, <2>5 DEF LegacyMessage, Message, Roles
<1>. HIDE DEF msgs
<1>4. msgs \in Seq(Message) /\ Len(msgs) = LegacyLen
    <2>1. msgs = [i \in 1..LegacyLen |-> msgs[i]]
        BY <1>2 DEF msgs, Backfilled
    <2>. QED
        BY <1>1, <1>3, <2>1
<1>5. s.msgs = msgs
    BY DEF Load, LegacyFile, msgs
<1>6. s.tip = LegacyLen
    <2>1. Len(old) = LegacyLen /\ (LegacyLen = 0 <=> old = <<>>)
        BY <1>1
    <2>2. LegacyLen # 0 => old[LegacyLen].id = LegacyLen
        BY <1>1 DEF LegacyMessage
    <2>. QED
        BY <2>1, <2>2 DEF Load, LegacyFile, None
<1>7. s \in Session
    BY <1>1, <1>4, <1>5, <1>6 DEF Load, LegacyFile, Session, Titles
<1>. HIDE DEF s
<1>8. Ordered(s)
    BY <1>1, <1>2, <1>3, <1>5 DEF Ordered
<1>9. WithinCap(s)
    BY <1>1, <1>4, <1>5 DEF WithinCap
<1>10. /\ s.tip < LegacyLen + 1
       /\ \A i \in DOMAIN s.msgs : s.msgs[i].id < LegacyLen + 1
    BY <1>1, <1>2, <1>3, <1>5, <1>6
<1>11. s.tip = None => s.msgs = <<>>
    BY <1>4, <1>5, <1>6 DEF None
<1>12. TipHolds(s)
    <2>1. CASE LegacyLen = 0
        BY <1>11, <1>6, <2>1 DEF TipHolds, None
    <2>2. CASE LegacyLen # 0
        BY <1>1, <1>2, <1>3, <1>5, <1>6, <2>2 DEF TipHolds, Ids
    <2>. QED
        BY <2>1, <2>2
<1>13. MarksTheCut(s.msgs)
    BY <1>2, <1>3, <1>5 DEF MarksTheCut
<1>. QED
    BY <1>7, <1>8, <1>9, <1>10, <1>11, <1>12, <1>13 DEF Sound, s

\* append_message, as both of its callers use it.
LEMMA SoundAppend ==
    ASSUME NEW next \in Nat \ {0}, NEW s, Sound(s, next), NEW role \in Roles,
           NEW parentArg \in Nat, parentArg < next
    PROVE  Sound(AppendMessage(s, next, role, parentArg), next + 1)
<1>. DEFINE new == AppendMessage(s, next, role, parentArg)
<1>1. /\ s \in Session /\ Ordered(s) /\ WithinCap(s) /\ s.tip < next
      /\ \A i \in DOMAIN s.msgs : s.msgs[i].id < next
      /\ MarksTheCut(s.msgs)
    BY DEF Sound
<1>2. new \in Session /\ new.tip = next
    BY <1>1, AppendMessageType
<1>3. Ordered(new) /\ \A i \in DOMAIN new.msgs : new.msgs[i].id <= next
    BY <1>1, AppendMessageOrdered
<1>4. WithinCap(new)
    BY <1>1, AppendMessageWithinCap
<1>4b. TipHolds(new) /\ MarksTheCut(new.msgs)
    BY <1>1, AppendMessageTip, AppendMessageMarks
<1>. HIDE DEF new
<1>5. \A i \in DOMAIN new.msgs : new.msgs[i].id < next + 1
    <2>1. new.msgs \in Seq(Message)
        BY <1>2 DEF Session
    <2>2. \A i \in DOMAIN new.msgs : new.msgs[i] \in Message
        BY <2>1, ElementOfSeq, LenProperties
    <2>. QED
        BY <1>3, <2>2 DEF Message
<1>6. Sound(new, next + 1)
    BY <1>2, <1>3, <1>4, <1>4b, <1>5 DEF Sound, None
<1>. QED
    BY <1>6 DEF new

\* A session stays sound while message ids go on being drawn.
LEMMA SoundLater ==
    ASSUME NEW next \in Nat, NEW s, Sound(s, next)
    PROVE  Sound(s, next + 1)
<1>1. s \in Session /\ s.tip \in Nat /\ s.msgs \in Seq(Message)
    BY DEF Sound, Session
<1>2. \A i \in DOMAIN s.msgs : s.msgs[i].id \in Nat
    <2>1. \A i \in DOMAIN s.msgs : s.msgs[i] \in Message
        BY <1>1, ElementOfSeq, LenProperties
    <2>. QED
        BY <2>1 DEF Message
<1>. QED
    BY <1>1, <1>2 DEF Sound

----------------------------------------------------------------------------
\* What the files and the cache are between two operations.  IInv says this
\* (lemma IInvFacts) and what the type invariant says of the other variables.
StoreOK ==
    /\ DOMAIN cache \subseteq Sessions
    /\ cache = [sid \in DOMAIN cache |-> cache[sid]]
    /\ DOMAIN disk \subseteq Sessions
    /\ nextMsg \in Nat \ {0}
    /\ SessionsSound
    /\ MemoryIsDurable

GhostsOK ==
    /\ index \subseteq Sessions
    /\ gone \subseteq Sessions
    /\ unsaved \subseteq Sessions
    /\ indexDirty \in BOOLEAN
    /\ IndexMatchesFiles
    /\ DeletedStaysDeleted

FlagsOK == streaming \subseteq Sessions /\ cancelled \subseteq Sessions

\* The invariant, regrouped by the variables its parts speak of.
LEMMA IInvFacts == IInv <=> StoreOK /\ GhostsOK /\ FlagsOK
<1>1. IInv => StoreOK /\ GhostsOK /\ FlagsOK
    BY DEF IInv, TypeOK, StoreOK, GhostsOK, FlagsOK
<1>2. StoreOK /\ GhostsOK /\ FlagsOK => IInv
    <2>. SUFFICES ASSUME StoreOK, GhostsOK, FlagsOK PROVE IInv
        OBVIOUS
    <2>1. cache \in [DOMAIN cache -> Session]
        BY DEF StoreOK, SessionsSound, Sound
    <2>2. \A sid \in DOMAIN disk : Load(disk[sid]) \in Session
        BY DEF StoreOK, SessionsSound, Sound
    <2>3. TypeOK
        BY <2>1, <2>2 DEF TypeOK, StoreOK, GhostsOK, FlagsOK
    <2>. QED
        BY <2>3 DEF IInv, StoreOK, GhostsOK
<1>. QED
    BY <1>1, <1>2

\* The same in the next state, the direction the steps need.
LEMMA IInvFactsPrime == StoreOK' /\ GhostsOK' /\ FlagsOK' => IInv'
<1>. SUFFICES ASSUME StoreOK', GhostsOK', FlagsOK' PROVE IInv'
    OBVIOUS
<1>1. cache' \in [DOMAIN cache' -> Session]
    BY DEF StoreOK, SessionsSound, Sound
<1>2. \A sid \in DOMAIN disk' : Load(disk'[sid]) \in Session
    BY DEF StoreOK, SessionsSound, Sound
<1>3. TypeOK'
    BY <1>1, <1>2 DEF TypeOK, StoreOK, GhostsOK, FlagsOK
<1>. QED
    BY <1>3 DEF IInv, StoreOK, GhostsOK

\* The files of v1.4 are sound once loaded; nothing is in memory.
LEMMA InitIInv == Init => IInv
<1>. SUFFICES ASSUME Init PROVE IInv
    OBVIOUS
<1>1. PICK old \in SUBSET Sessions : disk = [sid \in old |-> LegacyFile]
    BY DEF Init
<1>2. DOMAIN cache = {} /\ nextMsg = LegacyLen + 1 /\ LegacyLen \in Nat
    BY LegacyLenAssumption, MaxMessagesAssumption DEF Init
<1>3. \A sid \in DOMAIN disk : Sound(Load(disk[sid]), nextMsg)
    BY <1>1, <1>2, LegacySound
<1>4. StoreOK
    BY <1>1, <1>2, <1>3 DEF Init, StoreOK, SessionsSound, MemoryIsDurable
<1>5. GhostsOK
    BY <1>1, <1>2 DEF Init, GhostsOK, IndexMatchesFiles, DeletedStaysDeleted
<1>6. FlagsOK
    BY DEF Init, FlagsOK
<1>. QED
    BY <1>4, <1>5, <1>6, IInvFacts

\* get answers a sound session.
LEMMA FetchSound ==
    ASSUME StoreOK, NEW sid, Known(sid)
    PROVE  Sound(Fetch(sid), nextMsg)
BY DEF StoreOK, SessionsSound, Known, Fetch

\* A save that comes back, or raises half way: the index matches the files
\* again, or is marked dirty.
LEMMA SaveKeepsGhosts ==
    ASSUME GhostsOK, DOMAIN disk \subseteq Sessions,
           NEW sid \in Sessions, sid \notin gone, NEW s,
           NEW outcome \in Outcomes, SaveFiles(sid, s, outcome),
           DOMAIN cache' \subseteq DOMAIN cache \cup {sid},
           gone' = gone, unsaved' \subseteq unsaved \cup {sid}
    PROVE  GhostsOK'
<1>1. CASE outcome = "fileFails"
    <2>1. UNCHANGED <<disk, index, indexDirty>>
        BY <1>1 DEF SaveFiles
    <2>. QED
        BY <2>1 DEF GhostsOK, IndexMatchesFiles, DeletedStaysDeleted
<1>2. CASE outcome # "fileFails"
    <2>1. DOMAIN disk' = DOMAIN disk \cup {sid}
        BY <1>2 DEF SaveFiles, Put
    <2>2. CASE outcome = "ok"
        <3>1. index' = DOMAIN disk' /\ indexDirty' = FALSE
            BY <2>1, <2>2 DEF SaveFiles, EnsureIndex
        <3>. QED
            BY <2>1, <3>1 DEF GhostsOK, IndexMatchesFiles, DeletedStaysDeleted
    <2>3. CASE outcome # "ok"
        <3>1. indexDirty' = TRUE
            BY <1>2, <2>3 DEF SaveFiles
        <3>2. index' \subseteq Sessions
            BY <1>2, <2>1, <2>3 DEF SaveFiles, EnsureIndex, GhostsOK, Outcomes
        <3>. QED
            BY <2>1, <3>1, <3>2 DEF GhostsOK, IndexMatchesFiles, DeletedStaysDeleted
    <2>. QED
        BY <2>2, <2>3
<1>. QED
    BY <1>1, <1>2

\* A session that is sound stays so while messages are created.
LEMMA SoundStays ==
    ASSUME StoreOK, nextMsg' \in {nextMsg, nextMsg + 1},
           NEW s, Sound(s, nextMsg)
    PROVE  Sound(s, nextMsg')
<1>1. nextMsg \in Nat
    BY DEF StoreOK
<1>. QED
    BY <1>1, SoundLater

\* The method changes a session that is there, and saves it.
LEMMA MutateKeepsIInv ==
    ASSUME IInv, NEW sid \in Sessions, Known(sid), NEW s, Sound(s, nextMsg'),
           NEW outcome \in Outcomes, MutateAndSave(sid, s, outcome),
           nextMsg' \in {nextMsg, nextMsg + 1}, UNCHANGED <<flags, gone>>
    PROVE  IInv'
<1>1. StoreOK /\ GhostsOK /\ FlagsOK
    BY IInvFacts
<1>2. sid \notin gone
    BY <1>1 DEF GhostsOK, DeletedStaysDeleted, Known
<1>3. /\ cache' = Put(cache, sid, s)
      /\ SaveFiles(sid, s, outcome)
      /\ unsaved' = IF outcome = "fileFails" THEN unsaved \cup {sid}
                    ELSE unsaved \ {sid}
    BY DEF MutateAndSave
<1>4. /\ DOMAIN cache' = DOMAIN cache \cup {sid}
      /\ cache'[sid] = s
      /\ \A x \in DOMAIN cache' : x # sid => x \in DOMAIN cache /\ cache'[x] = cache[x]
      /\ cache' = [x \in DOMAIN cache' |-> cache'[x]]
    BY <1>3 DEF Put
<1>5. \/ outcome = "fileFails" /\ disk' = disk
      \/ outcome # "fileFails" /\ disk' = Put(disk, sid, s)
    BY <1>3 DEF SaveFiles
<1>6. /\ DOMAIN disk' \subseteq DOMAIN disk \cup {sid}
      /\ DOMAIN disk \subseteq DOMAIN disk'
      /\ \A x \in DOMAIN disk' : x # sid => x \in DOMAIN disk /\ disk'[x] = disk[x]
    BY <1>5 DEF Put
<1>7. outcome # "fileFails" => sid \in DOMAIN disk' /\ disk'[sid] = s
    BY <1>5 DEF Put
<1>8. outcome = "fileFails" => sid \in DOMAIN disk
    BY <1>1 DEF Known, StoreOK, MemoryIsDurable
<1>9. Load(s) = s
    BY SoundLoad
<1>10. SessionsSound'
    <2>1. \A x \in DOMAIN cache' : Sound(cache'[x], nextMsg')
        BY <1>1, <1>4, SoundStays DEF StoreOK, SessionsSound
    <2>2. ASSUME NEW x \in DOMAIN disk'
          PROVE  Sound(Load(disk'[x]), nextMsg')
        <3>1. CASE x = sid /\ outcome # "fileFails"
            BY <1>7, <1>9, <3>1
        <3>2. CASE x # sid \/ outcome = "fileFails"
            <4>1. x \in DOMAIN disk /\ disk'[x] = disk[x]
                BY <1>5, <1>6, <3>2
            <4>. QED
                BY <1>1, <4>1, SoundStays DEF StoreOK, SessionsSound
        <3>. QED
            BY <3>1, <3>2
    <2>. QED
        BY <2>1, <2>2 DEF SessionsSound
<1>11. MemoryIsDurable'
    <2>1. ASSUME NEW x \in DOMAIN cache'
          PROVE  /\ x \in DOMAIN disk'
                 /\ x \notin unsaved' => cache'[x] = Load(disk'[x])
        <3>1. CASE x = sid
            BY <1>3, <1>4, <1>6, <1>7, <1>8, <1>9, <3>1
        <3>2. CASE x # sid
            <4>1. /\ x \in DOMAIN cache /\ cache'[x] = cache[x]
                  /\ x \in DOMAIN disk
                  /\ x \notin unsaved => cache[x] = Load(disk[x])
                BY <1>1, <1>4, <3>2 DEF StoreOK, MemoryIsDurable
            <4>2. x \in DOMAIN disk' /\ disk'[x] = disk[x]
                BY <1>6, <3>2, <4>1
            <4>. QED
                BY <1>3, <3>2, <4>1, <4>2
        <3>. QED
            BY <3>1, <3>2
    <2>. QED
        BY <2>1 DEF MemoryIsDurable
<1>12. StoreOK'
    BY <1>1, <1>4, <1>6, <1>10, <1>11 DEF StoreOK
<1>13. GhostsOK'
    <2>1. DOMAIN disk \subseteq Sessions /\ unsaved' \subseteq unsaved \cup {sid}
          /\ DOMAIN cache' \subseteq DOMAIN cache \cup {sid} /\ gone' = gone
        BY <1>1, <1>3, <1>4 DEF StoreOK
    <2>. QED
        BY <1>1, <1>2, <1>3, <2>1, SaveKeepsGhosts
<1>14. FlagsOK'
    BY <1>1 DEF FlagsOK, flags
<1>. QED
    BY <1>12, <1>13, <1>14, IInvFactsPrime

\* create: a session is cached only after it is on disk.
LEMMA CreateKeepsIInv ==
    ASSUME IInv, NEW sid \in Sessions, NEW outcome \in Outcomes,
           Create(sid, outcome)
    PROVE  IInv'
<1>1. StoreOK /\ GhostsOK /\ FlagsOK
    BY IInvFacts
<1>2. Sound(FreshSession, nextMsg) /\ Load(FreshSession) = FreshSession
    BY <1>1, FreshSound, SoundLoad DEF StoreOK
<1>3. /\ sid \notin DOMAIN cache /\ sid \notin DOMAIN disk /\ sid \notin gone
      /\ SaveFiles(sid, FreshSession, outcome)
      /\ UNCHANGED <<flags, nextMsg, gone, unsaved>>
    BY DEF Create, Known
<1>4. \/ outcome = "ok" /\ cache' = Put(cache, sid, FreshSession)
      \/ outcome # "ok" /\ cache' = cache
    BY DEF Create
<1>5. \/ outcome = "fileFails" /\ disk' = disk
      \/ outcome # "fileFails" /\ disk' = Put(disk, sid, FreshSession)
    BY <1>3 DEF SaveFiles
<1>6. /\ DOMAIN cache' \subseteq DOMAIN cache \cup {sid}
      /\ cache' = [x \in DOMAIN cache' |-> cache'[x]]
      /\ \A x \in DOMAIN cache' :
            \/ x \in DOMAIN cache /\ x # sid /\ cache'[x] = cache[x]
            \/ x = sid /\ cache'[x] = FreshSession /\ outcome = "ok"
    BY <1>1, <1>3, <1>4 DEF Put, StoreOK
<1>7. /\ DOMAIN disk' \subseteq DOMAIN disk \cup {sid}
      /\ DOMAIN disk \subseteq DOMAIN disk'
      /\ \A x \in DOMAIN disk :  disk'[x] = disk[x]
      /\ \A x \in DOMAIN disk' : x \notin DOMAIN disk => disk'[x] = FreshSession
      /\ outcome = "ok" => sid \in DOMAIN disk' /\ disk'[sid] = FreshSession
    BY <1>3, <1>5 DEF Put
<1>8. SessionsSound'
    BY <1>1, <1>2, <1>3, <1>6, <1>7 DEF StoreOK, SessionsSound
<1>9. MemoryIsDurable'
    BY <1>1, <1>2, <1>3, <1>6, <1>7 DEF StoreOK, MemoryIsDurable
<1>10. StoreOK'
    BY <1>1, <1>3, <1>6, <1>7, <1>8, <1>9 DEF StoreOK
<1>11. GhostsOK'
    BY <1>1, <1>3, <1>6, SaveKeepsGhosts DEF StoreOK
<1>12. FlagsOK'
    BY <1>1, <1>3 DEF FlagsOK, flags
<1>. QED
    BY <1>10, <1>11, <1>12, IInvFactsPrime

\* get and list_summaries only read sessions into the cache.
LEMMA ReadsKeepIInv ==
    ASSUME IInv, (\E sid \in Sessions : Get(sid)) \/ ListSummaries
    PROVE  IInv'
<1>1. StoreOK /\ GhostsOK /\ FlagsOK
    BY IInvFacts
<1>2. UNCHANGED <<disk, flags, nextMsg, gone, unsaved>>
    BY DEF Get, ListSummaries, files
<1>3. FlagsOK'
    BY <1>1, <1>2 DEF FlagsOK, flags
<1>4. /\ DOMAIN cache' \subseteq DOMAIN cache \cup DOMAIN disk
      /\ cache' = [x \in DOMAIN cache' |-> cache'[x]]
      /\ \A x \in DOMAIN cache' : cache'[x] = Fetch(x)
    <2>1. ASSUME NEW sid \in Sessions, Get(sid)
          PROVE  /\ DOMAIN cache' \subseteq DOMAIN cache \cup DOMAIN disk
                 /\ cache' = [x \in DOMAIN cache' |-> cache'[x]]
                 /\ \A x \in DOMAIN cache' : cache'[x] = Fetch(x)
        BY <2>1 DEF Get, Put, Known, Fetch
    <2>2. CASE ListSummaries
        BY <2>2 DEF ListSummaries, EnsureIndex
    <2>. QED
        BY <2>1, <2>2
<1>5. \A x \in DOMAIN cache' : Known(x) /\ Sound(cache'[x], nextMsg)
    BY <1>1, <1>4, FetchSound DEF Known
<1>6. SessionsSound'
    BY <1>1, <1>2, <1>5 DEF StoreOK, SessionsSound
<1>7. MemoryIsDurable'
    BY <1>1, <1>2, <1>4 DEF StoreOK, MemoryIsDurable, Fetch
<1>8. StoreOK'
    BY <1>1, <1>2, <1>4, <1>6, <1>7 DEF StoreOK
<1>9. GhostsOK'
    <2>1. gone \cap (DOMAIN cache' \cup DOMAIN disk) = {}
        BY <1>1, <1>4 DEF GhostsOK, DeletedStaysDeleted
    <2>2. ASSUME NEW sid \in Sessions, Get(sid)
          PROVE  UNCHANGED <<index, indexDirty>>
        BY <2>2 DEF Get, files
    <2>3. CASE ListSummaries
        <3>1. index' = DOMAIN disk /\ indexDirty' = FALSE
            BY <2>3 DEF ListSummaries, EnsureIndex
        <3>. QED
            BY <1>1, <1>2, <2>1, <3>1
            DEF GhostsOK, StoreOK, IndexMatchesFiles, DeletedStaysDeleted
    <2>. QED
        BY <1>1, <1>2, <2>1, <2>2, <2>3
        DEF GhostsOK, IndexMatchesFiles, DeletedStaysDeleted
<1>. QED
    BY <1>3, <1>8, <1>9, IInvFactsPrime

\* hard_delete: gone from the cache and from the disk at once, whatever becomes
\* of the index.
LEMMA HardDeleteKeepsIInv ==
    ASSUME IInv, NEW sid \in Sessions, NEW outcome \in Outcomes,
           HardDelete(sid, outcome)
    PROVE  IInv'
<1>1. StoreOK /\ GhostsOK /\ FlagsOK
    BY IInvFacts
<1>2. UNCHANGED <<flags, nextMsg>> /\ Known(sid)
    BY DEF HardDelete
<1>3. FlagsOK'
    BY <1>1, <1>2 DEF FlagsOK, flags
<1>4. CASE outcome = "fileFails"
    <2>1. Get(sid)
        BY <1>2, <1>4 DEF HardDelete, Get
    <2>. QED
        BY <2>1, ReadsKeepIInv
<1>5. CASE outcome # "fileFails"
    <2>1. /\ disk' = Drop(disk, sid) /\ cache' = Drop(cache, sid)
          /\ gone' = gone \cup {sid} /\ unsaved' = unsaved \ {sid}
          /\ indexDirty' = (outcome = "indexFails")
          /\ index' = IF outcome = "indexFails" THEN index
                      ELSE EnsureIndex(index, DOMAIN disk') \ {sid}
        BY <1>5 DEF HardDelete, Forget
    <2>2. /\ DOMAIN cache' = DOMAIN cache \ {sid}
          /\ cache' = [x \in DOMAIN cache' |-> cache'[x]]
          /\ \A x \in DOMAIN cache' : cache'[x] = cache[x]
          /\ DOMAIN disk' = DOMAIN disk \ {sid}
          /\ \A x \in DOMAIN disk' : disk'[x] = disk[x]
        BY <2>1 DEF Drop
    <2>3. SessionsSound'
        BY <1>1, <1>2, <2>2 DEF StoreOK, SessionsSound
    <2>4. MemoryIsDurable'
        BY <1>1, <2>1, <2>2 DEF StoreOK, MemoryIsDurable
    <2>5. StoreOK'
        BY <1>1, <1>2, <2>2, <2>3, <2>4 DEF StoreOK
    <2>6. GhostsOK'
        <3>1. index' \subseteq Sessions /\ (index' = DOMAIN disk' \/ indexDirty')
            BY <1>1, <2>1, <2>2 DEF EnsureIndex, StoreOK, GhostsOK
        <3>2. (gone \cup {sid}) \cap (DOMAIN cache' \cup DOMAIN disk') = {}
            BY <1>1, <2>2 DEF GhostsOK, DeletedStaysDeleted
        <3>3. indexDirty' \in BOOLEAN
            BY <2>1
        <3>. QED
            BY <1>1, <2>1, <3>1, <3>2, <3>3
            DEF GhostsOK, IndexMatchesFiles, DeletedStaysDeleted
    <2>. QED
        BY <1>3, <2>5, <2>6, IInvFactsPrime
<1>. QED
    BY <1>4, <1>5

\* The methods that change one session that is there.
LEMMA UpdatesKeepIInv ==
    ASSUME IInv, NEW sid \in Sessions, NEW outcome \in Outcomes,
           Update(sid, outcome) \/ SoftDelete(sid, outcome) \/ BranchSwitch(sid, outcome)
    PROVE  IInv'
<1>1. StoreOK /\ UNCHANGED <<flags, nextMsg, gone>> /\ Known(sid)
    BY IInvFacts DEF Update, SoftDelete, BranchSwitch
<1>. DEFINE s == Fetch(sid)
<1>2. Sound(s, nextMsg) /\ nextMsg \in Nat
    BY <1>1, FetchSound DEF StoreOK
<1>3. s \in Session
    BY <1>2 DEF Sound
<1>. HIDE DEF s
<1>4. /\ Sound([s EXCEPT !.title = "user"], nextMsg)
      /\ \A b \in BOOLEAN : Sound([s EXCEPT !.archived = b], nextMsg)
      /\ \A n \in Nat : Sound([s EXCEPT !.totals = n], nextMsg)
    <2>1. ASSUME NEW r \in Session, r.msgs = s.msgs, r.tip = s.tip
          PROVE  Sound(r, nextMsg)
        BY <1>2, <2>1 DEF Sound, Ordered, WithinCap, TipHolds, Ids
    <2>2. /\ [s EXCEPT !.title = "user"] \in Session
          /\ [s EXCEPT !.title = "user"].msgs = s.msgs
          /\ [s EXCEPT !.title = "user"].tip = s.tip
        BY <1>3 DEF Session, Titles
    <2>3. \A b \in BOOLEAN : /\ [s EXCEPT !.archived = b] \in Session
                             /\ [s EXCEPT !.archived = b].msgs = s.msgs
                             /\ [s EXCEPT !.archived = b].tip = s.tip
        BY <1>3 DEF Session
    <2>4. \A n \in Nat : /\ [s EXCEPT !.totals = n] \in Session
                         /\ [s EXCEPT !.totals = n].msgs = s.msgs
                         /\ [s EXCEPT !.totals = n].tip = s.tip
        BY <1>3 DEF Session
    <2>. QED
        BY <2>1, <2>2, <2>3, <2>4
<1>5. \A leaf \in Ids(s) : Sound(SwitchTip(s, leaf), nextMsg)
    <2>1. ASSUME NEW leaf \in Ids(s)
          PROVE  Sound(SwitchTip(s, leaf), nextMsg)
        <3>1. leaf \in Nat \ {0} /\ leaf < nextMsg
            BY <1>2, SoundIds
        <3>2. /\ SwitchTip(s, leaf) \in Session
              /\ SwitchTip(s, leaf).msgs = s.msgs
              /\ SwitchTip(s, leaf).tip = leaf
            BY <1>3, <3>1 DEF SwitchTip, Session
        <3>. QED
            BY <1>2, <3>1, <3>2 DEF Sound, Ordered, WithinCap, TipHolds, Ids, None
    <2>. QED
        BY <2>1
<1>6. PICK r : Sound(r, nextMsg) /\ MutateAndSave(sid, r, outcome)
    <2>1. CASE Update(sid, outcome)
        <3>1. 0..MaxTotals \subseteq Nat
            BY MaxTotalsAssumption
        <3>. QED
            BY <1>4, <2>1, <3>1 DEF Update, s
    <2>2. CASE SoftDelete(sid, outcome)
        BY <1>4, <2>2 DEF SoftDelete, s
    <2>3. CASE BranchSwitch(sid, outcome)
        BY <1>5, <2>3 DEF BranchSwitch, SwitchTargets, s
    <2>. QED
        BY <2>1, <2>2, <2>3
<1>7. nextMsg' = nextMsg /\ UNCHANGED <<flags, gone>>
    BY <1>1
<1>8. Sound(r, nextMsg')
    BY <1>6, <1>7
<1>. QED
    BY <1>1, <1>6, <1>7, <1>8, MutateKeepsIInv

\* append_message and branch_create.
LEMMA AppendsKeepIInv ==
    ASSUME IInv, NEW sid \in Sessions, NEW outcome \in Outcomes,
           NEW role \in MsgRoles, NEW parentArg \in Nat, parentArg < nextMsg,
           Append1(sid, role, parentArg, outcome)
    PROVE  IInv'
<1>1. StoreOK /\ Known(sid) /\ nextMsg \in Nat \ {0} /\ role \in Roles
    BY IInvFacts, MsgRolesAssumption DEF Append1, StoreOK
<1>2. Sound(Fetch(sid), nextMsg)
    BY <1>1, FetchSound
<1>3. Sound(AppendMessage(Fetch(sid), nextMsg, role, parentArg), nextMsg + 1)
    BY <1>1, <1>2, SoundAppend
<1>4. /\ MutateAndSave(sid, AppendMessage(Fetch(sid), nextMsg, role, parentArg),
                       outcome)
      /\ nextMsg' = nextMsg + 1
      /\ UNCHANGED <<flags, gone>>
    BY DEF Append1
<1>. QED
    BY <1>1, <1>3, <1>4, MutateKeepsIInv

\* Whatever message a fork names is older than the one it creates.
LEMMA ForkPointsOlder ==
    ASSUME StoreOK, NEW sid \in Sessions, Known(sid), NEW parent \in ForkPoints(sid)
    PROVE  parent \in Nat /\ parent < nextMsg
<1>1. nextMsg \in Nat \ {0} /\ Sound(Fetch(sid), nextMsg)
    BY FetchSound DEF StoreOK
<1>2. CASE ForeignParents
    BY <1>1, <1>2 DEF ForkPoints
<1>3. CASE ~ForeignParents
    BY <1>1, <1>3, SoundIds DEF ForkPoints
<1>. QED
    BY <1>2, <1>3

\* The flags, a crash, a lost index, and no step at all.
LEMMA OtherStepsKeepIInv ==
    ASSUME IInv,
           \/ \E sid \in Sessions : \/ BeginStream(sid) \/ EndStream(sid)
                                    \/ CancelStream(sid) \/ ClearCancel(sid)
           \/ Crash \/ LoseIndex \/ UNCHANGED vars
    PROVE  IInv'
<1>1. StoreOK /\ GhostsOK /\ FlagsOK
    BY IInvFacts
<1>2. CASE \E sid \in Sessions : \/ BeginStream(sid) \/ EndStream(sid)
                                 \/ CancelStream(sid) \/ ClearCancel(sid)
    <2>1. UNCHANGED <<cache, disk, index, nextMsg, gone, unsaved, indexDirty>>
        BY <1>2 DEF BeginStream, EndStream, CancelStream, ClearCancel, files
    <2>2. StoreOK' /\ GhostsOK'
        BY <1>1, <2>1 DEF StoreOK, SessionsSound, MemoryIsDurable, GhostsOK,
                          IndexMatchesFiles, DeletedStaysDeleted
    <2>3. FlagsOK'
        BY <1>1, <1>2 DEF BeginStream, EndStream, CancelStream, ClearCancel, FlagsOK
    <2>. QED
        BY <2>2, <2>3, IInvFactsPrime
<1>3. CASE Crash
    <2>1. /\ cache' = [sid \in {} |-> FreshSession] /\ unsaved' = {}
          /\ UNCHANGED <<disk, index, nextMsg, gone, indexDirty>>
        BY <1>3 DEF Crash, files
    <2>2. DOMAIN cache' = {} /\ cache' = [x \in DOMAIN cache' |-> cache'[x]]
        BY <2>1
    <2>3. StoreOK'
        BY <1>1, <2>1, <2>2 DEF StoreOK, SessionsSound, MemoryIsDurable
    <2>4. GhostsOK'
        BY <1>1, <2>1, <2>2 DEF GhostsOK, IndexMatchesFiles, DeletedStaysDeleted
    <2>5. FlagsOK'
        BY <1>3 DEF Crash, FlagsOK
    <2>. QED
        BY <2>3, <2>4, <2>5, IInvFactsPrime
<1>4. CASE LoseIndex
    <2>1. /\ index' = {} /\ indexDirty' = (DOMAIN disk # {})
          /\ UNCHANGED <<cache, disk, flags, nextMsg, gone, unsaved>>
        BY <1>4 DEF LoseIndex
    <2>2. StoreOK' /\ FlagsOK'
        BY <1>1, <2>1 DEF StoreOK, SessionsSound, MemoryIsDurable, FlagsOK, flags
    <2>3. index' = DOMAIN disk' \/ indexDirty'
        BY <2>1
    <2>4. GhostsOK'
        BY <1>1, <2>1, <2>3 DEF GhostsOK, IndexMatchesFiles, DeletedStaysDeleted
    <2>. QED
        BY <2>2, <2>4, IInvFactsPrime
<1>5. CASE UNCHANGED vars
    <2>1. StoreOK' /\ GhostsOK' /\ FlagsOK'
        BY <1>1, <1>5 DEF vars, StoreOK, SessionsSound, MemoryIsDurable, GhostsOK,
                          IndexMatchesFiles, DeletedStaysDeleted, FlagsOK
    <2>. QED
        BY <2>1, IInvFactsPrime
<1>. QED
    BY <1>2, <1>3, <1>4, <1>5

\* Every step keeps the invariant: one case per action.
LEMMA NextKeepsIInv == IInv /\ [Next]_vars => IInv'
<1>. SUFFICES ASSUME IInv, [Next]_vars PROVE IInv'
    OBVIOUS
<1>1. ASSUME NEW sid \in Sessions, NEW outcome \in Outcomes,
             Create(sid, outcome)
      PROVE  IInv'
    BY <1>1, CreateKeepsIInv
<1>2. ASSUME NEW sid \in Sessions, NEW outcome \in Outcomes,
             Update(sid, outcome) \/ SoftDelete(sid, outcome)
                \/ BranchSwitch(sid, outcome)
      PROVE  IInv'
    BY <1>2, UpdatesKeepIInv
<1>3. ASSUME NEW sid \in Sessions, NEW outcome \in Outcomes,
             HardDelete(sid, outcome)
      PROVE  IInv'
    BY <1>3, HardDeleteKeepsIInv
<1>4. ASSUME NEW sid \in Sessions, NEW outcome \in Outcomes, NEW role \in MsgRoles,
             Append1(sid, role, None, outcome)
      PROVE  IInv'
    <2>1. None \in Nat /\ None < nextMsg
        BY IInvFacts DEF StoreOK, None
    <2>. QED
        BY <1>4, <2>1, AppendsKeepIInv
<1>5. ASSUME NEW sid \in Sessions, NEW outcome \in Outcomes, NEW role \in MsgRoles,
             BranchCreate(sid, role, outcome)
      PROVE  IInv'
    <2>1. PICK parent \in ForkPoints(sid) : Append1(sid, role, parent, outcome)
        BY <1>5 DEF BranchCreate
    <2>2. parent \in Nat /\ parent < nextMsg
        BY <1>5, IInvFacts, ForkPointsOlder DEF BranchCreate
    <2>. QED
        BY <2>1, <2>2, AppendsKeepIInv
<1>. QED
    BY <1>1, <1>2, <1>3, <1>4, <1>5, ReadsKeepIInv, OtherStepsKeepIInv DEF Next

----------------------------------------------------------------------------
\* The inductive invariant is one.
THEOREM StoreInvariant == Spec => []IInv
BY InitIInv, NextKeepsIInv, PTL DEF Spec

\* Every variable keeps its shape.
THEOREM StoreTypeOK == Spec => []TypeOK
<1>1. IInv => TypeOK
    BY DEF IInv
<1>. QED
    BY <1>1, StoreInvariant, PTL

\* No sequence of operations, failing saves, crashes and reloads puts the ids
\* of a ledger out of order or ties parent links into a cycle.
THEOREM StoreLedgerOrdered == Spec => []LedgerOrdered
<1>1. IInv => LedgerOrdered
    BY DEF IInv, SessionsSound, Sound, LedgerOrdered
<1>. QED
    BY <1>1, StoreInvariant, PTL

\* Dropping one message per append is enough to keep the cap.
THEOREM StoreCapRespected == Spec => []CapRespected
<1>1. IInv => CapRespected
    BY DEF IInv, SessionsSound, Sound, CapRespected
<1>. QED
    BY <1>1, StoreInvariant, PTL

\* Whatever is forked, switched, dropped by the cap or read back: the next
\* message hangs from one that is there (session_manager.py:590-650).
THEOREM StoreTipResolves == Spec => []TipResolves
<1>1. IInv => TipResolves
    BY DEF IInv, SessionsSound, Sound, TipResolves
<1>. QED
    BY <1>1, StoreInvariant, PTL

\* The mark of a truncation stays at the cut.
THEOREM StoreTruncationMarksTheCut == Spec => []TruncationMarksTheCut
<1>1. IInv => TruncationMarksTheCut
    BY DEF IInv, SessionsSound, Sound, TruncationMarksTheCut
<1>. QED
    BY <1>1, StoreInvariant, PTL

\* Memory runs ahead of the files only for a session whose last save raised.
THEOREM StoreMemoryIsDurable == Spec => []MemoryIsDurable
<1>1. IInv => MemoryIsDurable
    BY DEF IInv
<1>. QED
    BY <1>1, StoreInvariant, PTL

\* The index lists the files unless its last write raised or it was lost.
THEOREM StoreIndexMatchesFiles == Spec => []IndexMatchesFiles
<1>1. IInv => IndexMatchesFiles
    BY DEF IInv
<1>. QED
    BY <1>1, StoreInvariant, PTL

\* A hard-deleted session never comes back.
THEOREM StoreDeletedStaysDeleted == Spec => []DeletedStaysDeleted
<1>1. IInv => DeletedStaysDeleted
    BY DEF IInv
<1>. QED
    BY <1>1, StoreInvariant, PTL

----------------------------------------------------------------------------
\* A step that leaves the tip of a cached session alone, or appends to it.
TipPinned == \A sid \in streaming : sid \in DOMAIN cache \cap DOMAIN cache' =>
    \/ cache'[sid].tip = cache[sid].tip
    \/ cache'[sid].tip = nextMsg /\ nextMsg' = nextMsg + 1

\* Only appends and switches move the tip, and no switch does in mid-stream.
LEMMA StepKeepsTip ==
    ASSUME IInv, [Next]_vars
    PROVE  TipPinned
<1>. USE DEF TipPinned
<1>1. StoreOK
    BY IInvFacts
<1>2. ASSUME NEW x \in Sessions, NEW s, cache' = Put(cache, x, s),
             x \in DOMAIN cache =>
                \/ s.tip = cache[x].tip
                \/ x \notin streaming
                \/ s.tip = nextMsg /\ nextMsg' = nextMsg + 1
      PROVE  TipPinned
    BY <1>2 DEF Put
<1>3. \A x \in DOMAIN cache : Fetch(x) = cache[x] /\ cache[x] \in Session
    BY <1>1 DEF Fetch, StoreOK, SessionsSound, Sound
<1>4. ASSUME NEW x \in Sessions, NEW outcome \in Outcomes,
             Create(x, outcome) \/ HardDelete(x, outcome)
      PROVE  TipPinned
    <2>1. CASE Create(x, outcome)
        <3>1. x \notin DOMAIN cache
            BY <2>1 DEF Create, Known
        <3>. QED
            BY <1>2, <2>1, <3>1 DEF Create
    <2>2. CASE HardDelete(x, outcome)
        <3>1. cache' = Put(cache, x, Fetch(x)) \/ cache' = Drop(cache, x)
            BY <2>2 DEF HardDelete, Forget
        <3>2. cache' = Drop(cache, x) => TipPinned
            BY DEF Drop
        <3>. QED
            BY <1>2, <1>3, <3>1, <3>2
    <2>. QED
        BY <1>4, <2>1, <2>2
<1>5. ASSUME NEW x \in Sessions, NEW outcome \in Outcomes,
             Update(x, outcome) \/ SoftDelete(x, outcome)
      PROVE  TipPinned
    <2>1. PICK s : /\ cache' = Put(cache, x, s)
                   /\ x \in DOMAIN cache => s.tip = cache[x].tip
        <3>1. \A b : /\ x \in DOMAIN cache =>
                          /\ [Fetch(x) EXCEPT !.title = b].tip = cache[x].tip
                          /\ [Fetch(x) EXCEPT !.archived = b].tip = cache[x].tip
                          /\ [Fetch(x) EXCEPT !.totals = b].tip = cache[x].tip
            BY <1>3 DEF Session
        <3>. QED
            BY <1>5, <3>1 DEF Update, SoftDelete, MutateAndSave
    <2>. QED
        BY <1>2, <2>1
<1>6. ASSUME NEW x \in Sessions, NEW outcome \in Outcomes, BranchSwitch(x, outcome)
      PROVE  TipPinned
    <2>1. x \notin streaming /\ \E s : cache' = Put(cache, x, s)
        BY <1>6 DEF BranchSwitch, TipIsFree, MutateAndSave
    <2>. QED
        BY <1>2, <2>1
<1>7. ASSUME NEW x \in Sessions, NEW outcome \in Outcomes, NEW role \in MsgRoles,
             Append1(x, role, None, outcome) \/ BranchCreate(x, role, outcome)
      PROVE  TipPinned
    <2>1. PICK parentArg : Append1(x, role, parentArg, outcome)
        BY <1>7 DEF BranchCreate
    <2>2. /\ cache' = Put(cache, x, AppendMessage(Fetch(x), nextMsg, role, parentArg))
          /\ nextMsg' = nextMsg + 1
        BY <2>1 DEF Append1, MutateAndSave
    <2>3. x \in DOMAIN cache =>
            AppendMessage(Fetch(x), nextMsg, role, parentArg).tip = nextMsg
        BY <1>3 DEF AppendMessage, Session
    <2>. QED
        BY <1>2, <2>2, <2>3
<1>8. ASSUME NEW x \in Sessions, Get(x) PROVE TipPinned
    BY <1>2, <1>3, <1>8 DEF Get
<1>9. CASE ListSummaries
    BY <1>3, <1>9 DEF ListSummaries
<1>10. ASSUME NEW x \in Sessions, \/ BeginStream(x) \/ EndStream(x)
                                 \/ CancelStream(x) \/ ClearCancel(x)
       PROVE  TipPinned
    BY <1>10 DEF BeginStream, EndStream, CancelStream, ClearCancel
<1>11. CASE Crash
    BY <1>11 DEF Crash
<1>12. CASE LoseIndex \/ UNCHANGED vars
    BY <1>12 DEF LoseIndex, vars
<1>. QED
    BY <1>4, <1>5, <1>6, <1>7, <1>8, <1>9, <1>10, <1>11, <1>12 DEF Next

\* The contract of ADR-0019: in mid-stream the tip of a session moves only by
\* a message being appended to it.
THEOREM StoreTipPinnedWhileStreaming == Spec => TipPinnedWhileStreaming
<1>1. IInv /\ [Next]_vars => [TipPinned]_vars
    BY StepKeepsTip
<1>2. Spec => [][TipPinned]_vars
    BY <1>1, StoreInvariant, PTL DEF Spec
<1>. QED
    BY <1>2 DEF TipPinned, TipPinnedWhileStreaming

----------------------------------------------------------------------------
\* The history of a session.  A later ledger has each message of an earlier
\* one, or has lost it to the cap: then it is full, and has no message that
\* the cap may drop and that is older.
Dropped(a, i, b) ==
    /\ Droppable(a.msgs[i])
    /\ a.msgs[i].id \notin Ids(b)
    /\ Len(b.msgs) >= MaxMessages
    /\ \A j \in 1..(i - 1) : Droppable(a.msgs[j]) => a.msgs[j].id \notin Ids(b)

Grown(a, b) ==
    /\ Len(a.msgs) <= Len(b.msgs)
    /\ \A i \in DOMAIN a.msgs : Remains(a.msgs[i], b.msgs) \/ Dropped(a, i, b)

\* In one step, by the message id at most.
GrownBy(a, b, id) == Grown(a, b) /\ Ids(b) \subseteq Ids(a) \cup {id}

\* The messages of a session, their ids and places.
LEMMA SoundPlaces ==
    ASSUME NEW next \in Nat, NEW s, Sound(s, next)
    PROVE  /\ DOMAIN s.msgs = 1..Len(s.msgs) /\ Len(s.msgs) \in Nat
           /\ \A i \in DOMAIN s.msgs : s.msgs[i] \in Message /\ s.msgs[i].id < next
           /\ \A i, j \in DOMAIN s.msgs : s.msgs[i].id < s.msgs[j].id => i < j
<1>1. s.msgs \in Seq(Message)
    BY DEF Sound, Session
<1>2. /\ DOMAIN s.msgs = 1..Len(s.msgs) /\ Len(s.msgs) \in Nat
      /\ \A i \in DOMAIN s.msgs : s.msgs[i] \in Message /\ s.msgs[i].id < next
    BY <1>1, LenProperties, ElementOfSeq DEF Sound
<1>3. ASSUME NEW i \in DOMAIN s.msgs, NEW j \in DOMAIN s.msgs,
             s.msgs[i].id < s.msgs[j].id
      PROVE  i < j
    <2>1. s.msgs[i].id \in Nat /\ s.msgs[j].id \in Nat /\ i \in Nat /\ j \in Nat
        BY <1>2 DEF Message
    <2>2. j < i => s.msgs[j].id < s.msgs[i].id
        BY DEF Sound, Ordered
    <2>. QED
        BY <1>3, <2>1, <2>2
<1>. QED
    BY <1>2, <1>3

\* What is there is kept, what is dropped is not, as HistoryKept says.
LEMMA GrownKeepsHistory ==
    ASSUME NEW next \in Nat, NEW a, Sound(a, next), NEW b, Grown(a, b)
    PROVE  KeepsHistory(a, b)
<1>1. ASSUME NEW m, Kept(m, b), m \in Message PROVE m.id \in Ids(b)
    <2>1. PICK j \in DOMAIN b.msgs :
            b.msgs[j] = m \/ b.msgs[j] = [m EXCEPT !.truncated = TRUE]
        BY <1>1 DEF Kept
    <2>2. b.msgs[j].id = m.id
        BY <1>1, <2>1 DEF Message
    <2>. QED
        BY <2>2 DEF Ids
<1>2. \A m : Remains(m, b.msgs) <=> Kept(m, b)
    BY DEF Remains, Kept
<1>3. ASSUME NEW i \in DOMAIN a.msgs, Dropped(a, i, b)
      PROVE  /\ Droppable(a.msgs[i]) /\ Len(b.msgs) >= MaxMessages
             /\ \A j \in 1..(i - 1) : Droppable(a.msgs[j]) => ~Kept(a.msgs[j], b)
    <2>1. ASSUME NEW j \in 1..(i - 1), Droppable(a.msgs[j])
          PROVE  ~Kept(a.msgs[j], b)
        <3>1. j \in DOMAIN a.msgs
            BY SoundPlaces
        <3>2. a.msgs[j] \in Message /\ a.msgs[j].id \notin Ids(b)
            BY <1>3, <2>1, <3>1, SoundPlaces DEF Dropped
        <3>. QED
            BY <1>1, <3>2
    <2>. QED
        BY <1>3, <2>1 DEF Dropped
<1>. QED
    BY <1>2, <1>3 DEF Grown, KeepsHistory

\* A session with the messages it had has grown, by none.
LEMMA GrownReflexive ==
    ASSUME NEW next \in Nat, NEW a, Sound(a, next), NEW b, b.msgs = a.msgs
    PROVE  \A id : GrownBy(a, b, id)
BY SoundPlaces DEF GrownBy, Grown, Remains, Ids

\* append_message is such a step.
LEMMA AppendGrows ==
    ASSUME NEW next \in Nat \ {0}, NEW s, Sound(s, next), NEW role \in Roles,
           NEW parentArg \in Nat
    PROVE  GrownBy(s, AppendMessage(s, next, role, parentArg), next)
<1>. DEFINE new == AppendMessage(s, next, role, parentArg)
<1>1. s \in Session /\ Ordered(s) /\ \A i \in DOMAIN s.msgs : s.msgs[i].id < next
    BY DEF Sound
<1>2. /\ Len(s.msgs) <= Len(new.msgs)
      /\ Ids(new) \subseteq Ids(s) \cup {next}
      /\ \A i \in DOMAIN s.msgs :
            \/ Remains(s.msgs[i], new.msgs)
            \/ /\ Droppable(s.msgs[i])
               /\ s.msgs[i].id \notin Ids(new)
               /\ Len(new.msgs) >= MaxMessages
               /\ \A j \in 1..(i - 1) : ~Droppable(s.msgs[j])
    BY <1>1, AppendMessageKeeps
<1>. HIDE DEF new
<1>3. GrownBy(s, new, next)
    BY <1>2 DEF GrownBy, Grown, Dropped
<1>. QED
    BY <1>3 DEF new

\* One step more: what was dropped does not come back, since the message that
\* comes is new, and the cap goes on from where it was.
LEMMA GrownFurther ==
    ASSUME NEW next \in Nat, NEW a, Sound(a, next), NEW b, Sound(b, next), NEW c,
           Len(c.msgs) \in Nat, Grown(a, b), GrownBy(b, c, next)
    PROVE  Grown(a, c)
<1>1. Len(a.msgs) <= Len(c.msgs) /\ Len(b.msgs) <= Len(c.msgs)
    BY SoundPlaces DEF Grown, GrownBy
<1>2. ASSUME NEW i \in DOMAIN a.msgs, a.msgs[i].id \notin Ids(b)
      PROVE  a.msgs[i].id \notin Ids(c)
    <2>1. a.msgs[i].id # next
        BY SoundPlaces DEF Message
    <2>. QED
        BY <1>2, <2>1 DEF GrownBy
<1>3. ASSUME NEW i \in DOMAIN a.msgs, Dropped(a, i, b)
      PROVE  Dropped(a, i, c)
    <2>1. Len(c.msgs) >= MaxMessages
        BY <1>1, <1>3, SoundPlaces, MaxMessagesAssumption DEF Dropped
    <2>2. \A j \in 1..(i - 1) : j \in DOMAIN a.msgs
        BY SoundPlaces
    <2>. QED
        BY <1>2, <1>3, <2>1, <2>2 DEF Dropped
<1>4. ASSUME NEW i \in DOMAIN a.msgs, NEW k \in DOMAIN b.msgs,
             \/ b.msgs[k] = a.msgs[i]
             \/ b.msgs[k] = [a.msgs[i] EXCEPT !.truncated = TRUE]
      PROVE  /\ b.msgs[k].id = a.msgs[i].id /\ b.msgs[k].role = a.msgs[i].role
             /\ Remains(b.msgs[k], c.msgs) => Remains(a.msgs[i], c.msgs)
    <2>1. a.msgs[i] \in Message
        BY SoundPlaces
    <2>2. [b.msgs[k] EXCEPT !.truncated = TRUE] = [a.msgs[i] EXCEPT !.truncated = TRUE]
        BY <1>4, <2>1 DEF Message
    <2>3. b.msgs[k].id = a.msgs[i].id /\ b.msgs[k].role = a.msgs[i].role
        BY <1>4, <2>1 DEF Message
    <2>. QED
        BY <1>4, <2>2, <2>3 DEF Remains
<1>5. ASSUME NEW i \in DOMAIN a.msgs, Remains(a.msgs[i], b.msgs)
      PROVE  Remains(a.msgs[i], c.msgs) \/ Dropped(a, i, c)
    <2>1. PICK k \in DOMAIN b.msgs :
            \/ b.msgs[k] = a.msgs[i]
            \/ b.msgs[k] = [a.msgs[i] EXCEPT !.truncated = TRUE]
        BY <1>5 DEF Remains
    <2>2. CASE Remains(b.msgs[k], c.msgs)
        BY <1>4, <2>1, <2>2
    <2>3. CASE Dropped(b, k, c)
        <3>1. /\ Droppable(a.msgs[i]) /\ a.msgs[i].id \notin Ids(c)
              /\ Len(c.msgs) >= MaxMessages
            BY <1>4, <2>1, <2>3 DEF Dropped, Droppable
        <3>2. ASSUME NEW j \in 1..(i - 1), Droppable(a.msgs[j]), a.msgs[j].id \in Ids(b)
              PROVE  a.msgs[j].id \notin Ids(c)
            <4>1. j \in DOMAIN a.msgs /\ j < i
                BY SoundPlaces
            <4>2. Remains(a.msgs[j], b.msgs)
                BY <3>2, <4>1 DEF Grown, Dropped
            <4>3. PICK l \in DOMAIN b.msgs :
                    \/ b.msgs[l] = a.msgs[j]
                    \/ b.msgs[l] = [a.msgs[j] EXCEPT !.truncated = TRUE]
                BY <4>2 DEF Remains
            <4>4. b.msgs[l].id = a.msgs[j].id /\ Droppable(b.msgs[l])
                BY <1>4, <3>2, <4>1, <4>3 DEF Droppable
            <4>5. a.msgs[j].id < a.msgs[i].id /\ b.msgs[k].id = a.msgs[i].id
                BY <1>4, <2>1, <4>1 DEF Sound, Ordered
            <4>6. l < k
                BY <4>4, <4>5, SoundPlaces
            <4>7. l \in 1..(k - 1)
                BY <4>6, SoundPlaces
            <4>. QED
                BY <2>3, <4>4, <4>7 DEF Dropped
        <3>3. \A j \in 1..(i - 1) : Droppable(a.msgs[j]) => a.msgs[j].id \notin Ids(c)
            <4>1. \A j \in 1..(i - 1) : j \in DOMAIN a.msgs
                BY SoundPlaces
            <4>. QED
                BY <1>2, <3>2, <4>1
        <3>. QED
            BY <3>1, <3>3 DEF Dropped
    <2>. QED
        BY <2>2, <2>3 DEF GrownBy, Grown
<1>. QED
    BY <1>1, <1>3, <1>5 DEF Grown

\* What a step makes of a session: in memory it has grown from what get would
\* have answered, or is new; a file is as it was, or as the memory is.
Carries(x) ==
    /\ x \in DOMAIN cache' =>
        IF Known(x) THEN GrownBy(Fetch(x), cache'[x], nextMsg)
        ELSE x \in DOMAIN disk' /\ disk'[x] = cache'[x]
    /\ x \in DOMAIN disk' =>
        \/ x \in DOMAIN disk /\ disk'[x] = disk[x]
        \/ x \in DOMAIN cache' /\ disk'[x] = cache'[x]
        \/ ~Known(x)

\* Nothing happens to it; at most it is read, or forgotten.
LEMMA UnmovedCarries ==
    ASSUME StoreOK, NEW x,
           x \in DOMAIN cache' => Known(x) /\ cache'[x] = Fetch(x),
           x \in DOMAIN disk' => x \in DOMAIN disk /\ disk'[x] = disk[x]
    PROVE  Carries(x)
<1>1. ASSUME Known(x) PROVE GrownBy(Fetch(x), Fetch(x), nextMsg)
    <2>1. Sound(Fetch(x), nextMsg) /\ nextMsg \in Nat
        BY <1>1, FetchSound DEF StoreOK
    <2>. QED
        BY <2>1, GrownReflexive
<1>. QED
    BY <1>1 DEF Carries

\* A method that changes a cached session and saves it carries all on.
LEMMA MutateCarries ==
    ASSUME StoreOK, NEW y, Known(y), NEW s, NEW outcome \in Outcomes,
           MutateAndSave(y, s, outcome), GrownBy(Fetch(y), s, nextMsg), NEW x
    PROVE  Carries(x)
<1>1. /\ cache' = Put(cache, y, s)
      /\ disk' = disk \/ disk' = Put(disk, y, s)
    BY DEF MutateAndSave, SaveFiles
<1>2. CASE x = y
    BY <1>1, <1>2 DEF Carries, Put
<1>3. CASE x # y
    <2>1. x \in DOMAIN cache' => Known(x) /\ cache'[x] = Fetch(x)
        BY <1>1, <1>3 DEF Put, Known, Fetch
    <2>2. x \in DOMAIN disk' => x \in DOMAIN disk /\ disk'[x] = disk[x]
        BY <1>1, <1>3 DEF Put
    <2>. QED
        BY <2>1, <2>2, UnmovedCarries
<1>. QED
    BY <1>2, <1>3

\* Every step does so for every session: one case per action.
LEMMA StepCarries ==
    ASSUME IInv, [Next]_vars, NEW x
    PROVE  Carries(x)
<1>1. StoreOK /\ nextMsg \in Nat \ {0}
    BY IInvFacts DEF StoreOK
<1>2. ASSUME NEW sid \in Sessions, NEW outcome \in Outcomes, Create(sid, outcome)
      PROVE  Carries(x)
    <2>1. /\ ~Known(sid)
          /\ cache' = IF outcome = "ok" THEN Put(cache, sid, FreshSession) ELSE cache
          /\ disk' = IF outcome = "fileFails" THEN disk
                     ELSE Put(disk, sid, FreshSession)
        BY <1>2 DEF Create, SaveFiles
    <2>2. CASE x = sid
        BY <2>1, <2>2 DEF Carries, Put, Known
    <2>3. CASE x # sid
        <3>1. x \in DOMAIN cache' => Known(x) /\ cache'[x] = Fetch(x)
            BY <2>1, <2>3 DEF Put, Known, Fetch
        <3>2. x \in DOMAIN disk' => x \in DOMAIN disk /\ disk'[x] = disk[x]
            BY <2>1, <2>3 DEF Put
        <3>. QED
            BY <1>1, <3>1, <3>2, UnmovedCarries
    <2>. QED
        BY <2>2, <2>3
<1>3. ASSUME NEW sid \in Sessions, NEW outcome \in Outcomes,
             Update(sid, outcome) \/ SoftDelete(sid, outcome)
                \/ BranchSwitch(sid, outcome)
      PROVE  Carries(x)
    <2>1. Known(sid) /\ Sound(Fetch(sid), nextMsg)
        BY <1>1, <1>3, FetchSound DEF Update, SoftDelete, BranchSwitch
    <2>2. Fetch(sid) \in Session
        BY <2>1 DEF Sound
    <2>3. PICK s : MutateAndSave(sid, s, outcome) /\ s.msgs = Fetch(sid).msgs
        <3>. DEFINE f == Fetch(sid)
        <3>1. ASSUME NEW v, NEW s \in {[f EXCEPT !.title = v], [f EXCEPT !.archived = v],
                                      [f EXCEPT !.totals = v], SwitchTip(f, v)}
              PROVE  s.msgs = f.msgs
            <4>. HIDE DEF f
            <4>1. f \in Session
                BY <2>2 DEF f
            <4>. QED
                BY <3>1, <4>1 DEF Session, SwitchTip
        <3>2. PICK s, v :
                /\ MutateAndSave(sid, s, outcome)
                /\ s \in {[f EXCEPT !.title = v], [f EXCEPT !.archived = v],
                          [f EXCEPT !.totals = v], SwitchTip(f, v)}
            <4>1. CASE Update(sid, outcome)
                BY <4>1 DEF Update
            <4>2. CASE SoftDelete(sid, outcome)
                BY <4>2 DEF SoftDelete
            <4>3. CASE BranchSwitch(sid, outcome)
                BY <4>3 DEF BranchSwitch
            <4>. QED
                BY <1>3, <4>1, <4>2, <4>3
        <3>3. s.msgs = f.msgs
            BY <3>1, <3>2
        <3>. QED
            BY <3>2, <3>3
    <2>4. GrownBy(Fetch(sid), s, nextMsg)
        BY <1>1, <2>1, <2>3, GrownReflexive
    <2>. QED
        BY <1>1, <2>1, <2>3, <2>4, MutateCarries
<1>4. ASSUME NEW sid \in Sessions, NEW outcome \in Outcomes, NEW role \in MsgRoles,
             Append1(sid, role, None, outcome) \/ BranchCreate(sid, role, outcome)
      PROVE  Carries(x)
    <2>1. Known(sid) /\ Sound(Fetch(sid), nextMsg)
        BY <1>1, <1>4, FetchSound DEF Append1, BranchCreate
    <2>2. PICK parentArg \in Nat : Append1(sid, role, parentArg, outcome)
        <3>1. CASE Append1(sid, role, None, outcome)
            BY <3>1 DEF None
        <3>2. CASE BranchCreate(sid, role, outcome)
            <4>1. PICK parent \in ForkPoints(sid) : Append1(sid, role, parent, outcome)
                BY <3>2 DEF BranchCreate
            <4>2. parent \in Nat
                BY <1>1, <2>1, ForkPointsOlder
            <4>. QED
                BY <4>1, <4>2
        <3>. QED
            BY <1>4, <3>1, <3>2
    <2>3. MutateAndSave(sid, AppendMessage(Fetch(sid), nextMsg, role, parentArg),
                        outcome)
        BY <2>2 DEF Append1
    <2>4. role \in Roles
        BY MsgRolesAssumption
    <2>5. GrownBy(Fetch(sid), AppendMessage(Fetch(sid), nextMsg, role, parentArg),
                  nextMsg)
        BY <1>1, <2>1, <2>4, AppendGrows
    <2>. QED
        BY <1>1, <2>1, <2>3, <2>5, MutateCarries
<1>5. ASSUME NEW sid \in Sessions, NEW outcome \in Outcomes, HardDelete(sid, outcome)
      PROVE  Carries(x)
    <2>1. /\ Known(sid)
          /\ \/ cache' = Put(cache, sid, Fetch(sid)) /\ disk' = disk
             \/ cache' = Drop(cache, sid) /\ disk' = Drop(disk, sid)
        BY <1>5 DEF HardDelete, Forget, files
    <2>2. x \in DOMAIN cache' => Known(x) /\ cache'[x] = Fetch(x)
        BY <2>1 DEF Put, Drop, Known, Fetch
    <2>3. x \in DOMAIN disk' => x \in DOMAIN disk /\ disk'[x] = disk[x]
        BY <2>1 DEF Drop
    <2>. QED
        BY <1>1, <2>2, <2>3, UnmovedCarries
<1>6. CASE (\E sid \in Sessions : Get(sid)) \/ ListSummaries
    <2>1. disk' = disk
        BY <1>6 DEF Get, ListSummaries, files
    <2>2. x \in DOMAIN cache' => Known(x) /\ cache'[x] = Fetch(x)
        <3>1. ASSUME NEW sid, Get(sid), x \in DOMAIN cache'
              PROVE  Known(x) /\ cache'[x] = Fetch(x)
            BY <3>1 DEF Get, Put, Known, Fetch
        <3>2. ASSUME ListSummaries, x \in DOMAIN cache'
              PROVE  Known(x) /\ cache'[x] = Fetch(x)
            <4>1. PICK seen \in SUBSET index' :
                    cache' = [sid \in DOMAIN cache \cup seen |-> Fetch(sid)]
                BY <3>2 DEF ListSummaries
            <4>2. index' = DOMAIN disk
                BY <3>2 DEF ListSummaries, EnsureIndex
            <4>. QED
                BY <3>2, <4>1, <4>2 DEF Known
        <3>. QED
            BY <1>6, <3>1, <3>2
    <2>. QED
        BY <1>1, <2>1, <2>2, UnmovedCarries
<1>7. CASE \/ \E sid \in Sessions : \/ BeginStream(sid) \/ EndStream(sid)
                                    \/ CancelStream(sid) \/ ClearCancel(sid)
           \/ Crash \/ LoseIndex \/ UNCHANGED vars
    <2>1. disk' = disk /\ (cache' = cache \/ DOMAIN cache' = {})
        BY <1>7 DEF BeginStream, EndStream, CancelStream, ClearCancel, Crash,
                    LoseIndex, vars, files
    <2>2. x \in DOMAIN cache' => Known(x) /\ cache'[x] = Fetch(x)
        BY <2>1 DEF Known, Fetch
    <2>. QED
        BY <1>1, <2>1, <2>2, UnmovedCarries
<1>. QED
    BY <1>2, <1>3, <1>4, <1>5, <1>6, <1>7 DEF Next

\* The first part of the invariant, in the next state.
LEMMA IInvGives == IInv' => StoreOK'
BY DEF IInv, TypeOK, StoreOK

\* The files are behind the memory, by saves that raised, never beside it.
DiskBehind == \A x \in DOMAIN cache : Grown(Load(disk[x]), cache[x])

HistoryOf(x) ==
    /\ x \in DOMAIN cache \cap DOMAIN cache' => KeepsHistory(cache[x], cache'[x])
    /\ x \in DOMAIN disk \cap DOMAIN disk' =>
            KeepsHistory(Load(disk[x]), Load(disk'[x]))

\* A session carried on keeps its history, on disk behind its memory.
LEMMA CarriesOn ==
    ASSUME StoreOK, StoreOK', DiskBehind, NEW x, Carries(x)
    PROVE  /\ HistoryOf(x)
           /\ x \in DOMAIN cache' => Grown(Load(disk'[x]), cache'[x])
<1>1. /\ nextMsg \in Nat /\ nextMsg' \in Nat
      /\ x \in DOMAIN cache => Sound(cache[x], nextMsg) /\ x \in DOMAIN disk
      /\ x \in DOMAIN disk => Sound(Load(disk[x]), nextMsg)
      /\ x \in DOMAIN cache' => Sound(cache'[x], nextMsg') /\ x \in DOMAIN disk'
    BY DEF StoreOK, SessionsSound, MemoryIsDurable
<1>2. x \in DOMAIN cache' => Load(cache'[x]) = cache'[x] /\ Len(cache'[x].msgs) \in Nat
                             /\ Grown(cache'[x], cache'[x])
    BY <1>1, SoundLoad, SoundPlaces, GrownReflexive DEF GrownBy
<1>3. ASSUME x \in DOMAIN cache, x \in DOMAIN cache'
      PROVE  KeepsHistory(cache[x], cache'[x])
    <2>1. Grown(cache[x], cache'[x])
        BY <1>3 DEF Carries, Known, Fetch, GrownBy
    <2>. QED
        BY <1>1, <1>3, <2>1, GrownKeepsHistory
<1>4. ASSUME x \in DOMAIN cache', x \in DOMAIN disk
      PROVE  Grown(Load(disk[x]), cache'[x])
    <2>1. GrownBy(Fetch(x), cache'[x], nextMsg)
        BY <1>4 DEF Carries, Known
    <2>2. CASE x \in DOMAIN cache
        <3>1. /\ Sound(Load(disk[x]), nextMsg) /\ Sound(cache[x], nextMsg)
              /\ Grown(Load(disk[x]), cache[x])
              /\ GrownBy(cache[x], cache'[x], nextMsg)
              /\ Len(cache'[x].msgs) \in Nat
            BY <1>1, <1>2, <1>4, <2>1, <2>2 DEF Fetch, DiskBehind
        <3>. QED
            BY <1>1, <3>1, GrownFurther
    <2>3. CASE x \notin DOMAIN cache
        BY <2>1, <2>3 DEF Fetch, GrownBy
    <2>. QED
        BY <2>2, <2>3
<1>5. ASSUME x \in DOMAIN disk, x \in DOMAIN disk'
      PROVE  KeepsHistory(Load(disk[x]), Load(disk'[x]))
    <2>1. Grown(Load(disk[x]), Load(disk'[x]))
        <3>1. CASE disk'[x] = disk[x]
            <4>1. Grown(Load(disk[x]), Load(disk[x]))
                BY <1>1, <1>5, GrownReflexive DEF GrownBy
            <4>. QED
                BY <3>1, <4>1
        <3>2. CASE x \in DOMAIN cache' /\ disk'[x] = cache'[x]
            BY <1>2, <1>4, <1>5, <3>2
        <3>. QED
            BY <1>5, <3>1, <3>2 DEF Carries, Known
    <2>. QED
        BY <1>1, <1>5, <2>1, GrownKeepsHistory
<1>6. ASSUME x \in DOMAIN cache'
      PROVE  Grown(Load(disk'[x]), cache'[x])
    <2>1. x \in DOMAIN disk'
        BY <1>1, <1>6
    <2>2. CASE x \in DOMAIN disk /\ disk'[x] = disk[x]
        BY <1>4, <1>6, <2>2
    <2>3. CASE disk'[x] = cache'[x]
        BY <1>2, <1>6, <2>3
    <2>. QED
        BY <1>6, <2>1, <2>2, <2>3 DEF Carries
<1>. QED
    BY <1>3, <1>5, <1>6 DEF HistoryOf

\* HistoryKept: whatever fails, crashes or is read back, a message is never
\* lost or changed, in memory or in its file, but by the cap; and the cap takes
\* from a full ledger, the oldest first (session_manager.py:437-499).  A file
\* may catch up by several messages at once, after saves that raised.
THEOREM StoreHistoryKept == Spec => HistoryKept
<1>1. Init => DiskBehind
    BY DEF Init, DiskBehind
<1>2. IInv /\ DiskBehind /\ [Next]_vars => IInv' /\ DiskBehind' /\ StepKeepsHistory
    <2>. SUFFICES ASSUME IInv, DiskBehind, [Next]_vars
                  PROVE  IInv' /\ DiskBehind' /\ StepKeepsHistory
        OBVIOUS
    <2>1. IInv'
        BY NextKeepsIInv
    <2>2. StoreOK /\ StoreOK'
        BY <2>1, IInvFacts, IInvGives
    <2>3. \A x : Carries(x)
        BY StepCarries
    <2>4. \A x : HistoryOf(x)
                 /\ (x \in DOMAIN cache' => Grown(Load(disk'[x]), cache'[x]))
        BY <2>2, <2>3, CarriesOn
    <2>. QED
        BY <2>1, <2>4 DEF DiskBehind, HistoryOf, StepKeepsHistory
<1>3. Spec => [](IInv /\ DiskBehind)
    BY <1>1, <1>2, InitIInv, PTL DEF Spec
<1>4. IInv /\ DiskBehind /\ [Next]_vars => [StepKeepsHistory]_vars
    BY <1>2
<1>5. Spec => [][StepKeepsHistory]_vars
    BY <1>3, <1>4, PTL DEF Spec
<1>. QED
    BY <1>5 DEF HistoryKept

----------------------------------------------------------------------------
\* What callers see.  The files are those of the sessions there are, and a
\* session that is cached is shown from the cache.
LEMMA WhatIsShown ==
    ASSUME StoreOK
    PROVE  /\ DOMAIN Shown = DOMAIN disk /\ DOMAIN Safe = DOMAIN disk
           /\ \A x \in DOMAIN disk : /\ Shown[x] = Fetch(x) /\ Safe[x] = Load(disk[x])
                                     /\ Known(x)
           /\ \A x \in DOMAIN cache : x \in DOMAIN disk /\ Shown[x] = cache[x]
                                      /\ Load(cache[x]) = cache[x]
           /\ \A x : Known(x) => x \in DOMAIN disk
<1>1. DOMAIN cache \subseteq DOMAIN disk
    BY DEF StoreOK, MemoryIsDurable
<1>2. ASSUME NEW x \in DOMAIN cache PROVE Load(cache[x]) = cache[x]
    BY SoundLoad DEF StoreOK, SessionsSound
<1>. QED
    BY <1>1, <1>2 DEF Shown, Safe, Fetch, Known

\* The same of the next state.
LEMMA WhatWillBeShown ==
    ASSUME StoreOK'
    PROVE  /\ DOMAIN Shown' = DOMAIN disk' /\ DOMAIN Safe' = DOMAIN disk'
           /\ \A x \in DOMAIN disk' : Shown'[x] = Fetch(x)' /\ Safe'[x] = Load(disk'[x])
           /\ \A x \in DOMAIN cache' : x \in DOMAIN disk' /\ Shown'[x] = cache'[x]
                                      /\ Load(cache'[x]) = cache'[x]
<1>1. DOMAIN cache' \subseteq DOMAIN disk'
    BY DEF StoreOK, MemoryIsDurable
<1>2. ASSUME NEW x \in DOMAIN cache' PROVE Load(cache'[x]) = cache'[x]
    BY SoundLoad DEF StoreOK, SessionsSound
<1>. QED
    BY <1>1, <1>2 DEF Shown, Safe, Fetch

\* A step that only reads: it shows what it showed.
LEMMA ReadsShowTheSame ==
    ASSUME StoreOK, StoreOK', disk' = disk, DOMAIN cache \subseteq DOMAIN cache',
           \A x \in DOMAIN cache' : cache'[x] = Fetch(x)
    PROVE  Shown' = Shown /\ Safe' = Safe
<1>1. /\ DOMAIN cache' \subseteq DOMAIN disk
      /\ DOMAIN cache \subseteq DOMAIN disk
    BY DEF StoreOK, MemoryIsDurable
<1>2. \A x \in DOMAIN disk : Fetch(x)' = Fetch(x)
    BY DEF Fetch
<1>. QED
    BY <1>1, <1>2 DEF Shown, Safe

\* A change that is saved, or is not as the save raised.
LEMMA MutateIsChange ==
    ASSUME StoreOK, StoreOK', NEW y, Known(y), NEW s, NEW outcome \in Outcomes,
           MutateAndSave(y, s, outcome), gone' = gone
    PROVE  Durable!Change(y)
<1>1. /\ cache' = Put(cache, y, s)
      /\ \/ disk' = disk /\ unsaved' = unsaved \cup {y}
         \/ disk' = Put(disk, y, s) /\ unsaved' = unsaved \ {y}
    BY DEF MutateAndSave, SaveFiles
<1>2. /\ y \in DOMAIN cache' /\ cache'[y] = s
      /\ y \in DOMAIN disk /\ y \in DOMAIN disk'
      /\ DOMAIN disk' = DOMAIN disk
    BY <1>1, WhatIsShown DEF Put
<1>3. Shown'[y] = s /\ Load(s) = s
    BY <1>2, WhatWillBeShown
<1>4. \A x \in DOMAIN disk \ {y} : /\ disk'[x] = disk[x] /\ Fetch(x)' = Fetch(x)
    BY <1>1 DEF Put, Fetch
<1>5. /\ DOMAIN Shown = DOMAIN disk /\ DOMAIN Shown' = DOMAIN disk
      /\ DOMAIN Safe = DOMAIN disk /\ DOMAIN Safe' = DOMAIN disk
    BY <1>2, WhatIsShown, WhatWillBeShown
<1>6. \A x \in DOMAIN disk \ {y} : Shown'[x] = Shown[x] /\ Safe'[x] = Safe[x]
    BY <1>2, <1>4, WhatIsShown, WhatWillBeShown
<1>7. Durable!OnlyAt(y, Shown, Shown') /\ Durable!OnlyAt(y, Safe, Safe')
    BY <1>5, <1>6 DEF Durable!OnlyAt
<1>8. CASE disk' = disk /\ unsaved' = unsaved \cup {y}
    <2>1. Safe' = Safe
        BY <1>8 DEF Safe
    <2>. QED
        BY <1>2, <1>5, <1>7, <1>8, <2>1 DEF Durable!Change
<1>9. CASE disk' = Put(disk, y, s) /\ unsaved' = unsaved \ {y}
    <2>1. Safe'[y] = Shown'[y]
        BY <1>2, <1>3, <1>9, WhatWillBeShown DEF Put
    <2>. QED
        BY <1>2, <1>5, <1>7, <1>9, <2>1 DEF Durable!Change
<1>. QED
    BY <1>1, <1>8, <1>9

\* Each step of the manager is one of the store, or changes nothing there.
LEMMA StepIsDurable ==
    ASSUME StoreOK, StoreOK', DeletedStaysDeleted, [Next]_vars
    PROVE  [Durable!Next]_(Durable!vars)
<1>. DEFINE Goal == Durable!Next \/ UNCHANGED Durable!vars
<1>. SUFFICES Goal
    OBVIOUS
<1>1. ASSUME NEW y, Durable!Change(y), Known(y) PROVE Goal
    BY <1>1, WhatIsShown DEF Durable!Next
<1>2. ASSUME Shown' = Shown, Safe' = Safe, unsaved' = unsaved, gone' = gone
      PROVE  Goal
    BY <1>2 DEF Durable!vars
<1>. HIDE DEF Goal
<1>3. ASSUME NEW sid \in Sessions, NEW outcome \in Outcomes, Create(sid, outcome)
      PROVE  Goal
    <2>1. /\ sid \notin DOMAIN cache /\ sid \notin DOMAIN disk /\ sid \notin gone
          /\ cache' = IF outcome = "ok" THEN Put(cache, sid, FreshSession) ELSE cache
          /\ disk' = IF outcome = "fileFails" THEN disk
                     ELSE Put(disk, sid, FreshSession)
          /\ unsaved' = unsaved /\ gone' = gone
        BY <1>3 DEF Create, SaveFiles, Known
    <2>2. CASE outcome = "fileFails"
        <3>1. Shown' = Shown /\ Safe' = Safe
            BY <2>1, <2>2 DEF Shown, Safe, Fetch
        <3>. QED
            BY <1>2, <2>1, <3>1
    <2>3. CASE outcome # "fileFails"
        <3>1. /\ DOMAIN disk' = DOMAIN disk \cup {sid} /\ disk'[sid] = FreshSession
              /\ \A x \in DOMAIN disk : disk'[x] = disk[x] /\ Fetch(x)' = Fetch(x)
            BY <2>1, <2>3 DEF Put, Fetch
        <3>2. Durable!Added(sid, Shown, Shown') /\ Durable!Added(sid, Safe, Safe')
            BY <2>1, <3>1, WhatIsShown, WhatWillBeShown DEF Durable!Added
        <3>3. Shown'[sid] = Safe'[sid]
            <4>1. Shown'[sid] = Fetch(sid)' /\ Safe'[sid] = Load(FreshSession)
                BY <3>1, WhatWillBeShown
            <4>2. CASE outcome = "ok"
                <5>1. sid \in DOMAIN cache' /\ cache'[sid] = FreshSession
                    BY <2>1, <4>2 DEF Put
                <5>2. Load(FreshSession) = FreshSession
                    BY <5>1, WhatWillBeShown
                <5>. QED
                    BY <4>1, <5>1, <5>2 DEF Fetch
            <4>3. CASE outcome # "ok"
                BY <2>1, <3>1, <4>1, <4>3 DEF Fetch
            <4>. QED
                BY <4>2, <4>3
        <3>4. Durable!Make(sid) /\ sid \in DOMAIN Shown'
            BY <2>1, <3>2, <3>3 DEF Durable!Make, Durable!Added
        <3>. QED
            BY <3>4 DEF Goal, Durable!Next
    <2>. QED
        BY <2>2, <2>3
<1>4. ASSUME NEW sid \in Sessions, NEW outcome \in Outcomes, HardDelete(sid, outcome)
      PROVE  Goal
    <2>1. CASE outcome = "fileFails"
        <3>1. /\ Known(sid) /\ cache' = Put(cache, sid, Fetch(sid)) /\ disk' = disk
              /\ unsaved' = unsaved /\ gone' = gone
            BY <1>4, <2>1 DEF HardDelete, files
        <3>2. /\ DOMAIN cache \subseteq DOMAIN cache'
              /\ \A x \in DOMAIN cache' : cache'[x] = Fetch(x)
            BY <3>1 DEF Put, Fetch
        <3>. QED
            BY <1>2, <3>1, <3>2, ReadsShowTheSame
    <2>2. CASE outcome # "fileFails"
        <3>1. /\ Known(sid) /\ cache' = Drop(cache, sid) /\ disk' = Drop(disk, sid)
              /\ unsaved' = unsaved \ {sid} /\ gone' = gone \cup {sid}
            BY <1>4, <2>2 DEF HardDelete, Forget
        <3>2. /\ sid \in DOMAIN disk /\ DOMAIN disk' = DOMAIN disk \ {sid}
              /\ \A x \in DOMAIN disk' : disk'[x] = disk[x] /\ Fetch(x)' = Fetch(x)
            BY <3>1, WhatIsShown DEF Drop, Fetch
        <3>3. Durable!Added(sid, Shown', Shown) /\ Durable!Added(sid, Safe', Safe)
            BY <3>2, WhatIsShown, WhatWillBeShown DEF Durable!Added
        <3>4. Durable!Remove(sid) /\ sid \in DOMAIN Shown
            BY <3>1, <3>2, <3>3, WhatIsShown DEF Durable!Remove
        <3>. QED
            BY <3>4 DEF Goal, Durable!Next
    <2>. QED
        BY <2>1, <2>2
<1>5. ASSUME NEW sid \in Sessions, NEW outcome \in Outcomes,
             \/ Update(sid, outcome)
             \/ SoftDelete(sid, outcome)
             \/ \E role \in MsgRoles : \/ Append1(sid, role, None, outcome)
                                       \/ BranchCreate(sid, role, outcome)
             \/ BranchSwitch(sid, outcome)
      PROVE  Goal
    <2>1. PICK s : Known(sid) /\ MutateAndSave(sid, s, outcome) /\ gone' = gone
        BY <1>5 DEF Update, SoftDelete, Append1, BranchCreate, BranchSwitch
    <2>. QED
        BY <1>1, <2>1, MutateIsChange
<1>6. CASE (\E sid \in Sessions : Get(sid)) \/ ListSummaries
    <2>1. disk' = disk /\ unsaved' = unsaved /\ gone' = gone
        BY <1>6 DEF Get, ListSummaries, files
    <2>2. /\ DOMAIN cache \subseteq DOMAIN cache'
          /\ \A x \in DOMAIN cache' : cache'[x] = Fetch(x)
        BY <1>6 DEF Get, ListSummaries, Put, Fetch
    <2>. QED
        BY <1>2, <2>1, <2>2, ReadsShowTheSame
<1>7. CASE \/ \E sid \in Sessions : \/ BeginStream(sid) \/ EndStream(sid)
                                    \/ CancelStream(sid) \/ ClearCancel(sid)
           \/ LoseIndex \/ UNCHANGED vars
    <2>1. cache' = cache /\ disk' = disk /\ unsaved' = unsaved /\ gone' = gone
        BY <1>7 DEF BeginStream, EndStream, CancelStream, ClearCancel, LoseIndex,
                    vars, files
    <2>2. Shown' = Shown /\ Safe' = Safe
        BY <2>1 DEF Shown, Safe, Fetch
    <2>. QED
        BY <1>2, <2>1, <2>2
<1>8. CASE Crash
    <2>1. /\ DOMAIN cache' = {} /\ disk' = disk /\ unsaved' = {} /\ gone' = gone
        BY <1>8 DEF Crash, files
    <2>2. Shown' = Safe /\ Safe' = Safe
        BY <2>1 DEF Shown, Safe, Fetch
    <2>. QED
        BY <2>1, <2>2 DEF Goal, Durable!Next, Durable!Restart
<1>. QED
    BY <1>3, <1>4, <1>5, <1>6, <1>7, <1>8 DEF Next

\* The session manager implements DurableStore: whatever is cached, back-filled,
\* half saved, listed, lost or read back, its callers see a map that each
\* operation changes in one place, with a copy that a restart goes back to
\* (session_manager.py:274-500, 590-648 and 693-730).
THEOREM StoreImplementsDurable == Spec => ImplementsDurableStore
<1>1. Init => Durable!Init
    BY DEF Init, Durable!Init, Shown, Safe, Fetch
<1>2. IInv /\ IInv' /\ [Next]_vars => [Durable!Next]_(Durable!vars)
    BY IInvFacts, IInvGives, StepIsDurable DEF IInv
<1>3. Spec => []IInv
    BY InitIInv, NextKeepsIInv, PTL DEF Spec
<1>. QED
    BY <1>1, <1>2, <1>3, PTL DEF Spec, ImplementsDurableStore, Durable!Spec

=============================================================================
