----------------------------- MODULE SessionTools -----------------------------
(***************************************************************************)
(* The tools of the chat view that work on the session on screen: the      *)
(* model configuration menu (components/ModelConfigMenu.tsx), the          *)
(* attachments panel (AttachmentsPanel.tsx), and the branch tools of the   *)
(* developer mode: the tree (PathReconstruction.tsx), the Fork buttons     *)
(* (BranchButton.tsx) and the tip switcher (LeafSwitcher.tsx).             *)
(*                                                                         *)
(* The hazard is one session's answer in another's view: each tool lives   *)
(* on when another session is selected, with requests still in flight.     *)
(* So a configuration, a file, a path and a list of tips are reduced to    *)
(* the session they are of.  The tools share nothing but the session: a    *)
(* behaviour uses one of them, `tool'.  A session is always selected, and  *)
(* the sessions have messages: there is something to fork, list and show.  *)
(***************************************************************************)
EXTENDS FiniteSets

CONSTANTS Session, None

ASSUME NoneAssumption == None \notin Session \cup [kind : {"upload", "delete"}, of : Session]

VARIABLES
    tool,       \* the tool this behaviour uses
    sid,        \* the session on screen
    \* the configuration menu
    isOpen,
    config,     \* the session whose configuration the fields show
    edited,     \* the user changed them
    fetched,    \* an answer came since the menu opened or the session changed
    fetches,    \* GETs of a configuration
    save,       \* the session of the PUT in flight, if `saving'
    \* the attachments panel
    panel,      \* it is unfolded
    ref,        \* the session of the file it shows
    op,         \* the request in flight, if `busy'
    \* the branch tools
    tree,       \* the tree is unfolded
    path, err,  \* the session whose path it shows, and whether an error
    reads,      \* GETs of the path
    tips,       \* the session of the tips listed
    listings,   \* sessions with a GET of their branches in flight
    forks,      \* sessions with a fork in flight
    switch      \* the switch in flight, if `switching': session, and that of
                \* the tip

menu == <<isOpen, config, edited, fetched, fetches, save>>
files == <<panel, ref, op>>
branches == <<tree, path, err, reads, tips, listings, forks, switch>>
vars == <<tool, sid, menu, files, branches>>

\* A request of an effect, and whether the effect has not been cleaned up.
Fetch == [sid : Session, live : BOOLEAN]
Cancelled(fs) == {[f EXCEPT !.live = FALSE] : f \in fs}
Refetched(fs, s) == Cancelled(fs) \cup {[sid |-> s, live |-> TRUE]}

Init ==
    /\ tool \in {"config", "files", "branches"}
    /\ sid \in Session
    /\ isOpen = FALSE /\ config = None /\ edited = FALSE
    /\ fetched = FALSE /\ fetches = {}
    /\ save = None
    /\ panel = FALSE /\ ref = None /\ op = None
    /\ tree = FALSE /\ path = None /\ err = FALSE /\ reads = {}
    /\ tips = None /\ listings = {sid}
    /\ forks = {} /\ switch = None

\* Another session is shown.  The effects run again where they are mounted;
\* the attachments panel has none.
Select(s) ==
    /\ s # sid
    /\ sid' = s
    /\ IF isOpen THEN fetches' = Refetched(fetches, s) /\ fetched' = FALSE
                 ELSE UNCHANGED <<fetches, fetched>>
    /\ reads' = IF tree THEN Refetched(reads, s) ELSE reads
    /\ listings' = listings \cup {s}
    /\ UNCHANGED <<tool, isOpen, config, edited, save, files, tree, path,
                   err, tips, forks, switch>>

----------------------------------------------------------------------------
\* The configuration menu.  The fields keep what they show until an answer
\* replaces it; the save button needs no answer.

OpenMenu ==
    /\ ~isOpen
    /\ isOpen' = TRUE
    /\ fetches' = Refetched(fetches, sid) /\ fetched' = FALSE
    /\ UNCHANGED <<tool, sid, config, edited, save, files, branches>>

Closed == isOpen' = FALSE /\ fetches' = Cancelled(fetches)

CloseMenu ==
    /\ isOpen
    /\ Closed
    /\ UNCHANGED <<tool, sid, config, edited, fetched, save, files, branches>>

\* A bug: no `cancelled' flag.
ConfigAnswered_Late(f) ==
    /\ f \in fetches
    /\ fetches' = fetches \ {f}
    /\ config' = f.sid /\ edited' = FALSE /\ fetched' = TRUE
    /\ UNCHANGED <<tool, sid, isOpen, save, files, branches>>

ConfigAnswered(f) ==
    /\ f \in fetches
    /\ fetches' = fetches \ {f}
    /\ IF f.live
       THEN config' = f.sid /\ edited' = FALSE /\ fetched' = TRUE
       ELSE UNCHANGED <<config, edited, fetched>>
    /\ UNCHANGED <<tool, sid, isOpen, save, files, branches>>

ConfigFailed(f) ==
    /\ f \in fetches
    /\ fetches' = fetches \ {f}
    /\ UNCHANGED <<tool, sid, isOpen, config, edited, fetched, save,
                   files, branches>>

Edit ==
    /\ isOpen
    /\ edited' = TRUE
    /\ UNCHANGED <<tool, sid, isOpen, config, fetched, fetches, save,
                   files, branches>>

Save ==
    /\ isOpen /\ save = None
    /\ save' = sid
    /\ UNCHANGED <<tool, sid, isOpen, config, edited, fetched, fetches, files, branches>>

\* The menu is closed, for whatever session it is open by now.
Saved ==
    /\ save # None
    /\ save' = None
    /\ Closed
    /\ UNCHANGED <<tool, sid, config, edited, fetched, files, branches>>

SaveFailed ==
    /\ save # None
    /\ save' = None
    /\ UNCHANGED <<tool, sid, isOpen, config, edited, fetched, fetches, files, branches>>

----------------------------------------------------------------------------
\* The attachments panel.  Folded, it is unmounted and forgets everything.

\* A bug: the file is kept while the panel is folded.
TogglePanel_Keeps ==
    /\ panel' = ~panel
    /\ op' = None
    /\ UNCHANGED <<tool, sid, menu, ref, branches>>

TogglePanel ==
    /\ panel' = ~panel
    /\ ref' = None /\ op' = None
    /\ UNCHANGED <<tool, sid, menu, branches>>

\* A file of another kind is rejected and changes nothing.
OnFile ==
    /\ panel /\ op = None
    /\ op' = [kind |-> "upload", of |-> sid]
    /\ UNCHANGED <<tool, sid, menu, panel, ref, branches>>

OnDelete ==
    /\ panel /\ ref # None /\ op = None
    /\ op' = [kind |-> "delete", of |-> ref]
    /\ UNCHANGED <<tool, sid, menu, panel, ref, branches>>

OpAnswered ==
    /\ op # None
    /\ op' = None
    /\ ref' = IF op.kind = "upload" THEN op.of ELSE None
    /\ UNCHANGED <<tool, sid, menu, panel, branches>>

OpFailed ==
    /\ op # None
    /\ op' = None
    /\ UNCHANGED <<tool, sid, menu, panel, ref, branches>>

----------------------------------------------------------------------------
\* The branch tools

ToggleTree ==
    /\ tree' = ~tree
    /\ path' = None /\ err' = FALSE
    /\ reads' = IF tree THEN {} ELSE Refetched({}, sid)
    /\ UNCHANGED <<tool, sid, menu, files, tips, listings, forks, switch>>

\* A bug: no `cancelled' flag.
PathRead_Late(f) ==
    /\ f \in reads
    /\ reads' = reads \ {f}
    /\ path' = f.sid
    /\ UNCHANGED <<tool, sid, menu, files, tree, err, tips, listings, forks, switch>>

PathRead(f) ==
    /\ f \in reads
    /\ reads' = reads \ {f}
    /\ path' = IF f.live THEN f.sid ELSE path
    /\ UNCHANGED <<tool, sid, menu, files, tree, err, tips, listings, forks, switch>>

\* A status other than ok is shown even if the effect was cleaned up, and an
\* error is never taken back.
PathFailed(f) ==
    /\ f \in reads
    /\ reads' = reads \ {f}
    /\ err' \in {TRUE, err \/ f.live}
    /\ UNCHANGED <<tool, sid, menu, files, tree, path, tips, listings, forks, switch>>

\* refreshBranches: the answer is taken whichever session is selected.
Listed(s) ==
    /\ s \in listings
    /\ listings' = listings \ {s}
    /\ tips' \in {s, tips}
    /\ UNCHANGED <<tool, sid, menu, files, tree, path, err, reads, forks, switch>>

\* One button for each message, disabled by its own request only.
Fork ==
    /\ forks' = forks \cup {sid}
    /\ UNCHANGED <<tool, sid, menu, files, tree, path, err, reads, tips, listings, switch>>

\* The tips of the session selected at the click are listed again.
ForkAnswered(s) ==
    /\ s \in forks
    /\ forks' = forks \ {s}
    /\ listings' \in {listings, listings \cup {s}}
    /\ UNCHANGED <<tool, sid, menu, files, tree, path, err, reads, tips, switch>>

SwitchTip ==
    /\ tips # None /\ switch = None
    /\ switch' = [sid |-> sid, tip |-> tips]
    /\ UNCHANGED <<tool, sid, menu, files, tree, path, err, reads, tips, listings, forks>>

\* Refused while a reply is streaming, and for a tip of another session.
TipSwitched ==
    /\ switch # None
    /\ switch' = None
    /\ \/ switch.sid = switch.tip /\ listings' = listings \cup {switch.sid}
       \/ UNCHANGED listings
    /\ UNCHANGED <<tool, sid, menu, files, tree, path, err, reads, tips, forks>>

----------------------------------------------------------------------------

ConfigMenu ==
    \/ OpenMenu \/ CloseMenu \/ Edit \/ Save \/ Saved \/ SaveFailed
    \/ \E f \in fetches : ConfigAnswered(f) \/ ConfigFailed(f)

AttachmentsPanel == TogglePanel \/ OnFile \/ OnDelete \/ OpAnswered \/ OpFailed

BranchTools ==
    \/ ToggleTree \/ Fork \/ SwitchTip \/ TipSwitched
    \/ \E f \in reads : PathRead(f) \/ PathFailed(f)
    \/ \E s \in Session : Listed(s) \/ ForkAnswered(s)

Next ==
    \/ \E s \in Session : Select(s)
    \/ tool = "config" /\ ConfigMenu
    \/ tool = "files" /\ AttachmentsPanel
    \/ tool = "branches" /\ BranchTools

\* A request of the tree is answered or fails.
Fairness ==
    \A s \in Session, l \in BOOLEAN :
        WF_vars(LET f == [sid |-> s, live |-> l] IN
                tool = "branches" /\ (PathRead(f) \/ PathFailed(f)))

Spec == Init /\ [][Next]_vars
FairSpec == Spec /\ Fairness

----------------------------------------------------------------------------
\* Properties

\* Every variable keeps to its type; what is not mounted has no request of
\* its own (ModelConfigMenu.tsx:22-24, AttachmentsPanel.tsx:49-54).
TypeOK ==
    /\ tool \in {"config", "files", "branches"} /\ sid \in Session
    /\ isOpen \in BOOLEAN /\ edited \in BOOLEAN /\ fetched \in BOOLEAN
    /\ config \in Session \cup {None}
    /\ fetches \subseteq Fetch /\ save \in Session \cup {None}
    /\ panel \in BOOLEAN /\ ref \in Session \cup {None}
    /\ op \in [kind : {"upload", "delete"}, of : Session] \cup {None}
    /\ ~panel => ref = None /\ op = None
    /\ tree \in BOOLEAN /\ err \in BOOLEAN /\ path \in Session \cup {None}
    /\ reads \subseteq Fetch /\ ~tree => reads = {}
    /\ tips \in Session \cup {None} /\ listings \subseteq Session
    /\ forks \subseteq Session
    /\ switch \in [sid : Session, tip : Session] \cup {None}

\* However requests and answers cross: a menu whose configuration arrived
\* shows that of the session on screen, so that what it saves is that
\* session's own with the user's edits (ModelConfigMenu.tsx:26-48); and a tree
\* that waits for nothing shows the path of the session on screen or an error
\* (PathReconstruction.tsx:22-56).
ShownIsOfSession ==
    /\ isOpen /\ fetched => config = sid
    /\ tree /\ ~err /\ (\A f \in reads : ~f.live) => path = sid

\* When neither session nor tree is changed any more, the tree comes to show
\* the path of the session on screen, or an error, whatever answers are still
\* to come (PathReconstruction.tsx:22-52).
TreeSettles ==
    <>[][UNCHANGED <<sid, tree>>]_vars => <>[](tree => err \/ path = sid)

=============================================================================
