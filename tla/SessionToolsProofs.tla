-------------------------- MODULE SessionToolsProofs --------------------------
(***************************************************************************)
(* The tools of the chat view for any number of sessions, and any number   *)
(* of requests in flight.                                                  *)
(***************************************************************************)
EXTENDS SessionTools, TLAPS

\* The invariant, tool by tool: a request whose effect was not cleaned up is
\* for the session on screen.
MenuInv ==
    /\ isOpen \in BOOLEAN /\ edited \in BOOLEAN /\ fetched \in BOOLEAN
    /\ config \in Session \cup {None} /\ save \in Session \cup {None}
    /\ fetches \subseteq Fetch
    /\ \A f \in fetches : f.live => f.sid = sid /\ isOpen
    /\ isOpen /\ fetched => config = sid

FilesInv ==
    /\ panel \in BOOLEAN /\ ref \in Session \cup {None}
    /\ op \in [kind : {"upload", "delete"}, of : Session] \cup {None}
    /\ ~panel => ref = None /\ op = None

TreeInv ==
    /\ tree \in BOOLEAN /\ err \in BOOLEAN /\ path \in Session \cup {None}
    /\ reads \subseteq Fetch /\ (~tree => reads = {})
    /\ \A f \in reads : f.live => f.sid = sid
    /\ tree /\ ~err /\ (\A f \in reads : ~f.live) => path = sid

TipsInv ==
    /\ tips \in Session \cup {None} /\ listings \subseteq Session
    /\ forks \subseteq Session
    /\ switch \in [sid : Session, tip : Session] \cup {None}

ToolsInv ==
    /\ tool \in {"config", "files", "branches"} /\ sid \in Session
    /\ MenuInv /\ FilesInv /\ TreeInv /\ TipsInv

\* Requests that are cleaned up are not live; those sent are of the session.
LEMMA FetchSets ==
    ASSUME NEW fs \in SUBSET Fetch, NEW s \in Session
    PROVE  /\ Cancelled(fs) \subseteq Fetch
           /\ \A f \in Cancelled(fs) : ~f.live
           /\ Refetched(fs, s) \subseteq Fetch
           /\ \A f \in Refetched(fs, s) : f.live => f.sid = s
           /\ \E f \in Refetched(fs, s) : f.live
<1>1. ASSUME NEW f \in fs
      PROVE  [f EXCEPT !.live = FALSE] \in Fetch /\ ~[f EXCEPT !.live = FALSE].live
    BY DEF Fetch
<1>2. LET new == [sid |-> s, live |-> TRUE] IN
      new \in Fetch /\ new.live /\ new.sid = s /\ new \in Refetched(fs, s)
    BY DEF Fetch, Refetched
<1>. QED
    BY <1>1, <1>2 DEF Cancelled, Refetched

\* The tools start with the invariant.
LEMMA InitTools == Init => ToolsInv
BY DEF Init, ToolsInv, MenuInv, FilesInv, TreeInv, TipsInv

\* Every step keeps it.
LEMMA ToolsStep == ToolsInv /\ [Next]_vars => ToolsInv'
<1>. SUFFICES ASSUME ToolsInv, [Next]_vars PROVE ToolsInv'
    OBVIOUS
<1>. tool \in {"config", "files", "branches"} /\ sid \in Session
     /\ MenuInv /\ FilesInv /\ TreeInv /\ TipsInv
    BY DEF ToolsInv
\* What a step leaves alone.
<1>. DEFINE pathOnly == <<tree, path, err, reads>>
            tipsOnly == <<tips, listings, forks, switch>>
<1>1. UNCHANGED <<sid, menu>> => MenuInv'
    BY DEF menu, MenuInv
<1>2. UNCHANGED files => FilesInv'
    BY DEF files, FilesInv
<1>3. UNCHANGED <<sid, pathOnly>> => TreeInv'
    BY DEF TreeInv
<1>4. UNCHANGED tipsOnly => TipsInv'
    BY DEF TipsInv
<1>5. CASE UNCHANGED vars
    BY <1>1, <1>2, <1>3, <1>4, <1>5 DEF vars, branches, ToolsInv
<1>6. ASSUME NEW s \in Session, Select(s) PROVE ToolsInv'
    <2>1. MenuInv'
        <3>1. /\ sid' = s /\ UNCHANGED <<isOpen, config, edited, save>>
              /\ isOpen => fetches' = Refetched(fetches, s) /\ fetched' = FALSE
              /\ ~isOpen => UNCHANGED <<fetches, fetched>>
            BY <1>6 DEF Select
        <3>2. /\ Refetched(fetches, s) \subseteq Fetch
              /\ \A f \in Refetched(fetches, s) : f.live => f.sid = s
            BY FetchSets DEF MenuInv
        <3>3. CASE isOpen
            BY <3>1, <3>2, <3>3 DEF MenuInv
        <3>4. CASE ~isOpen
            BY <3>1, <3>4 DEF MenuInv
        <3>. QED
            BY <3>3, <3>4
    <2>2. TreeInv'
        BY <1>6, FetchSets DEF Select, TreeInv
    <2>3. TipsInv'
        BY <1>6 DEF Select, TipsInv
    <2>. QED
        BY <1>2, <1>6, <2>1, <2>2, <2>3 DEF Select, ToolsInv
\* The configuration menu
<1>7. ASSUME MenuInv', UNCHANGED <<tool, sid, files, branches>> PROVE ToolsInv'
    BY <1>2, <1>3, <1>4, <1>7 DEF branches, ToolsInv
<1>8. CASE OpenMenu
    <2>1. MenuInv'
        BY <1>8, FetchSets DEF OpenMenu, MenuInv
    <2>. QED
        BY <1>7, <1>8, <2>1 DEF OpenMenu
<1>9. CASE CloseMenu \/ Saved
    <2>1. MenuInv'
        BY <1>9, FetchSets DEF CloseMenu, Saved, Closed, MenuInv
    <2>. QED
        BY <1>7, <1>9, <2>1 DEF CloseMenu, Saved
<1>10. ASSUME NEW f \in fetches, ConfigAnswered(f) \/ ConfigFailed(f)
       PROVE  ToolsInv'
    <2>1. f \in Fetch
        BY DEF MenuInv
    <2>2. MenuInv'
        <3>1. UNCHANGED <<sid, isOpen, save>> /\ fetches' = fetches \ {f}
            BY <1>10 DEF ConfigAnswered, ConfigFailed
        <3>2. CASE UNCHANGED <<config, edited, fetched>>
            BY <3>1, <3>2 DEF MenuInv
        <3>3. CASE f.live /\ config' = f.sid /\ edited' = FALSE /\ fetched' = TRUE
            BY <2>1, <3>1, <3>3 DEF MenuInv, Fetch
        <3>. QED
            BY <1>10, <3>2, <3>3 DEF ConfigAnswered, ConfigFailed
    <2>. QED
        BY <1>7, <1>10, <2>2 DEF ConfigAnswered, ConfigFailed
<1>11. CASE Edit \/ Save \/ SaveFailed
    <2>1. MenuInv'
        <3>1. CASE Edit
            BY <3>1 DEF Edit, MenuInv
        <3>2. CASE Save
            BY <3>2 DEF Save, MenuInv
        <3>3. CASE SaveFailed
            BY <3>3 DEF SaveFailed, MenuInv
        <3>. QED
            BY <1>11, <3>1, <3>2, <3>3
    <2>. QED
        BY <1>7, <1>11, <2>1 DEF Edit, Save, SaveFailed
\* The attachments panel
<1>12. CASE AttachmentsPanel
    <2>1. UNCHANGED <<tool, sid, menu, branches>>
        BY <1>12 DEF AttachmentsPanel, TogglePanel, OnFile, OnDelete, OpAnswered,
                     OpFailed
    <2>2. FilesInv'
        <3>1. CASE TogglePanel
            BY <3>1 DEF TogglePanel, FilesInv
        <3>2. CASE OnFile
            BY <3>2 DEF OnFile, FilesInv
        <3>3. CASE OnDelete
            BY <3>3 DEF OnDelete, FilesInv
        <3>4. CASE OpAnswered \/ OpFailed
            BY <3>4 DEF OpAnswered, OpFailed, FilesInv
        <3>. QED
            BY <1>12, <3>1, <3>2, <3>3, <3>4 DEF AttachmentsPanel
    <2>. QED
        BY <1>1, <1>3, <1>4, <2>1, <2>2 DEF branches, ToolsInv
\* The branch tools
<1>13. ASSUME TreeInv', UNCHANGED <<tool, sid, menu, files, tipsOnly>>
       PROVE  ToolsInv'
    BY <1>1, <1>2, <1>4, <1>13 DEF ToolsInv
<1>14. ASSUME TipsInv', UNCHANGED <<tool, sid, menu, files, pathOnly>>
       PROVE  ToolsInv'
    BY <1>1, <1>2, <1>3, <1>14 DEF ToolsInv
<1>15. CASE ToggleTree
    <2>1. {} \in SUBSET Fetch
        OBVIOUS
    <2>2. TreeInv'
        BY <1>15, <2>1, FetchSets DEF ToggleTree, TreeInv
    <2>. QED
        BY <1>13, <1>15, <2>2 DEF ToggleTree
<1>16. ASSUME NEW f \in reads, PathRead(f) \/ PathFailed(f) PROVE ToolsInv'
    <2>1. f \in Fetch
        BY DEF TreeInv
    <2>2. TreeInv'
        BY <1>16, <2>1 DEF PathRead, PathFailed, TreeInv, Fetch
    <2>. QED
        BY <1>13, <1>16, <2>2 DEF PathRead, PathFailed
<1>17. ASSUME NEW s \in Session, Listed(s) \/ ForkAnswered(s) PROVE ToolsInv'
    <2>1. TipsInv'
        BY <1>17 DEF Listed, ForkAnswered, TipsInv
    <2>. QED
        BY <1>14, <1>17, <2>1 DEF Listed, ForkAnswered
<1>18. CASE Fork \/ SwitchTip \/ TipSwitched
    <2>1. TipsInv'
        BY <1>18 DEF Fork, SwitchTip, TipSwitched, TipsInv
    <2>. QED
        BY <1>14, <1>18, <2>1 DEF Fork, SwitchTip, TipSwitched
<1>. QED
    BY <1>5, <1>6, <1>8, <1>9, <1>10, <1>11, <1>12, <1>15, <1>16, <1>17, <1>18
    DEF Next, ConfigMenu, BranchTools

\* What it implies.
LEMMA ToolsParts == ToolsInv => TypeOK /\ ShownIsOfSession
BY DEF ToolsInv, MenuInv, FilesInv, TreeInv, TipsInv, TypeOK, ShownIsOfSession

\* Every variable keeps to its type, and what is not mounted has no request of
\* its own.
THEOREM ToolsTypeOK == Spec => []TypeOK
BY InitTools, ToolsStep, ToolsParts, PTL DEF Spec

\* A menu whose configuration arrived, and a tree that waits for nothing, show
\* the session on screen (or an error).
THEOREM ToolsShownIsOfSession == Spec => []ShownIsOfSession
BY InitTools, ToolsStep, ToolsParts, PTL DEF Spec

=============================================================================
