---------------------------- MODULE PluginConsole ----------------------------
(***************************************************************************)
(* The Modules tab of the web client (panels/ModulesPanel.tsx and          *)
(* components/ModuleCard.tsx) against the server's plugin routes and its   *)
(* loader.                                                                 *)
(*                                                                         *)
(* A step is one callback of the browser or a run of one handler up to     *)
(* its next suspension.  The plugins that come with the harness neither    *)
(* suspend in apply or dispose nor raise in dispose; a plugin of the user  *)
(* may (Suspends, Raises).  The tab stays on screen: leaving it unmounts   *)
(* the panel, which starts as in Init, while its requests run on.          *)
(*                                                                         *)
(* The auto-load list, which Load and Unload keep on disk as well as they  *)
(* can, is left out: a restarted server loads any of the plugins, and of   *)
(* GET /healthz only the loaded plugins are kept.                          *)
(***************************************************************************)
EXTENDS Naturals, FiniteSets

CONSTANTS
    Plugin,     \* the plugins discovered
    Suspends,   \* those whose apply or dispose suspends
    Raises,     \* those whose dispose, or apply once suspended, may raise
    None,       \* null
    Slot,       \* requests of buttons that can be in flight
    Poll,       \* polls that can be in flight
    MaxLive     \* bound on the instances of a plugin that clicks set up

Paste == "paste"    \* what `busy' holds while code is scored

ASSUME PluginAssumption == /\ Suspends \subseteq Plugin /\ Raises \subseteq Plugin
                           /\ Paste \notin Plugin /\ None \notin Plugin \cup {Paste}
ASSUME SlotAssumption == IsFiniteSet(Slot)
ASSUME MaxLiveAssumption == MaxLive \in Nat \ {0}

VARIABLES
    \* the server
    loaded,     \* state.loaded
    live,       \* for each plugin, its instances that are set up
    \* the panel
    healthz,    \* the loaded plugins, as last seen
    busy,       \* the button whose request was clicked last
    requests,   \* requests of buttons
    polls       \* what a poll read, until it is answered

server == <<loaded, live>>
vars == <<server, healthz, busy, requests, polls>>

\* `at' goes from "sent", maybe over "suspended", to "done" and, when the
\* request of /healthz that follows was handled, to "read".
NoRequest == [kind |-> "none", id |-> None, at |-> "done", view |-> {}]
Request == [kind : {"none", "load", "unload", "score"},
            id : Plugin \cup {Paste, None},
            at : {"sent", "suspended", "done", "read"},
            view : SUBSET Plugin]
Health == [plugins : SUBSET Plugin]

Init ==
    /\ loaded \in SUBSET Plugin
    /\ live = [p \in Plugin |-> IF p \in loaded THEN 1 ELSE 0]
    /\ healthz = None
    /\ busy = None
    /\ requests = [i \in Slot |-> NoRequest]
    /\ polls = [q \in Poll |-> None]

----------------------------------------------------------------------------
\* The panel

Send(kind, id) ==
    \E i \in Slot :
        /\ requests[i] = NoRequest
        /\ requests' = [requests EXCEPT ![i] = [kind |-> kind, id |-> id,
                                                at |-> "sent", view |-> {}]]

\* A button is disabled while `busy' is its own id.
Click(kind, id) ==
    /\ busy # id
    /\ busy' = id
    /\ Send(kind, id)
    /\ UNCHANGED <<server, healthz, polls>>

Loading(p) == {i \in Slot : requests[i].kind = "load" /\ requests[i].id = p}
ClickLoad(p) ==
    /\ live[p] + Cardinality(Loading(p)) < MaxLive
    /\ healthz # None /\ p \notin healthz
    /\ Click("load", p)
ClickUnload(p) == healthz # None /\ p \in healthz /\ Click("unload", p)
ClickScore == Click("score", Paste)

\* The interval goes on whatever became of the polls before.  A poll that
\* fails changes nothing, and one the server has not read yet is not there.
PollAnswered(q) ==
    /\ polls[q] # None
    /\ healthz' = polls[q].plugins
    /\ polls' = [polls EXCEPT ![q] = None]
    /\ UNCHANGED <<server, busy, requests>>

\* A bug: no finally block.
Settled_Busy(i) ==
    /\ requests' = [requests EXCEPT ![i] = NoRequest]
    /\ UNCHANGED <<busy, server, polls>>

\* The finally block.  The answer to the button is not looked at, only that
\* to the /healthz after it; a score has none.
Settled(i) ==
    /\ requests' = [requests EXCEPT ![i] = NoRequest]
    /\ busy' = None
    /\ UNCHANGED <<server, polls>>

Answered(i) ==
    /\ \/ requests[i].at = "read" /\ healthz' = requests[i].view
       \/ requests[i].kind = "score" /\ requests[i].at = "done" /\ UNCHANGED healthz
    /\ Settled(i)

\* The request, or one of its answers, is lost: the fetch is rejected.
Failed(i) ==
    /\ requests[i].kind # "none" /\ requests[i].at # "suspended"
    /\ Settled(i)
    /\ UNCHANGED healthz

----------------------------------------------------------------------------
\* The server

Step(i, at) == requests' = [requests EXCEPT ![i].at = at]
Is(i, kind, at) == requests[i].kind = kind /\ requests[i].at = at

Loaded(p) ==
    /\ loaded' = loaded \cup {p}
    /\ live' = [live EXCEPT ![p] = @ + 1]

\* A bug: no 409.
PluginsLoad_Again(i) ==
    /\ Is(i, "load", "sent")
    /\ Loaded(requests[i].id) /\ Step(i, "done")
    /\ UNCHANGED <<healthz, busy, polls>>

\* 409 if the plugin is loaded, 500 if its file is not the one discovered or
\* its apply raises; else apply runs, which may suspend, and then the plugin is
\* entered in state.loaded.
PluginsLoad(i) ==
    /\ Is(i, "load", "sent")
    /\ LET p == requests[i].id IN
        \/ Step(i, "done") /\ UNCHANGED server
        \/ p \notin loaded /\ Loaded(p) /\ Step(i, "done")
        \/ p \notin loaded /\ p \in Suspends /\ Step(i, "suspended") /\ UNCHANGED server
    /\ UNCHANGED <<healthz, busy, polls>>

Applied(i) ==
    /\ Is(i, "load", "suspended")
    /\ \/ Loaded(requests[i].id)
       \/ requests[i].id \in Raises /\ UNCHANGED server
    /\ Step(i, "done")
    /\ UNCHANGED <<healthz, busy, polls>>

\* A bug: no 404.
PluginsUnload_Absent(i) ==
    /\ Is(i, "unload", "sent")
    /\ LET p == requests[i].id IN
        /\ loaded' = loaded \ {p}
        /\ live' = [live EXCEPT ![p] = @ - 1]
    /\ Step(i, "done")
    /\ UNCHANGED <<healthz, busy, polls>>

\* 404 if it is not loaded; else it is taken off state.loaded before it is
\* disposed of.  If dispose raises it stays set up.
PluginsUnload(i) ==
    /\ Is(i, "unload", "sent")
    /\ LET p == requests[i].id
           torn == live' = [live EXCEPT ![p] = @ - 1] IN
        \/ p \notin loaded /\ Step(i, "done") /\ UNCHANGED server
        \/ /\ p \in loaded /\ loaded' = loaded \ {p}
           /\ \/ torn /\ Step(i, "done")
              \/ p \in Raises /\ Step(i, "done") /\ UNCHANGED live
              \/ p \in Suspends /\ Step(i, "suspended") /\ UNCHANGED live
    /\ UNCHANGED <<healthz, busy, polls>>

Disposed(i) ==
    /\ Is(i, "unload", "suspended")
    /\ LET p == requests[i].id IN
        \/ live' = [live EXCEPT ![p] = @ - 1]
        \/ p \in Raises /\ UNCHANGED live
    /\ Step(i, "done")
    /\ UNCHANGED <<loaded, healthz, busy, polls>>

\* The code is scored in a process of its own.
ApiEval(i) ==
    /\ Is(i, "score", "sent")
    /\ Step(i, "done")
    /\ UNCHANGED <<server, healthz, busy, polls>>

HealthzRequest(i) ==
    /\ requests[i].kind \in {"load", "unload"} /\ requests[i].at = "done"
    /\ requests' = [requests EXCEPT ![i].at = "read", ![i].view = loaded]
    /\ UNCHANGED <<server, healthz, busy, polls>>

\* A bug: polled until the first answer only.
HealthzPoll_Once(q) ==
    /\ polls[q] = None /\ healthz = None
    /\ polls' = [polls EXCEPT ![q] = [plugins |-> loaded]]
    /\ UNCHANGED <<server, healthz, busy, requests>>

HealthzPoll(q) ==
    /\ polls[q] = None
    /\ polls' = [polls EXCEPT ![q] = [plugins |-> loaded]]
    /\ UNCHANGED <<server, healthz, busy, requests>>

\* The server is started anew.  A handler that was suspended ends with it.
Restart ==
    /\ loaded' \in SUBSET Plugin
    /\ live' = [p \in Plugin |-> IF p \in loaded' THEN 1 ELSE 0]
    /\ requests' = [i \in Slot |-> IF requests[i].at = "suspended"
                                   THEN [requests[i] EXCEPT !.at = "done"]
                                   ELSE requests[i]]
    /\ UNCHANGED <<healthz, busy, polls>>

----------------------------------------------------------------------------

Handler(i) == PluginsLoad(i) \/ Applied(i) \/ PluginsUnload(i) \/ Disposed(i)
              \/ ApiEval(i) \/ HealthzRequest(i)

Next ==
    \/ \E p \in Plugin : ClickLoad(p) \/ ClickUnload(p)
    \/ ClickScore \/ Restart
    \/ \E q \in Poll : PollAnswered(q) \/ HealthzPoll(q)
    \/ \E i \in Slot : Answered(i) \/ Failed(i) \/ Handler(i)

\* The interval fires and its polls are answered; a handler runs on, and a
\* request is answered or lost.
Fairness ==
    /\ \A q \in Poll : WF_vars(HealthzPoll(q)) /\ WF_vars(PollAnswered(q))
    /\ \A i \in Slot : WF_vars(Handler(i)) /\ WF_vars(Answered(i) \/ Failed(i))

Spec == Init /\ [][Next]_vars
FairSpec == Spec /\ Fairness

----------------------------------------------------------------------------
\* Properties

\* Every variable keeps to its type (ModulesPanel.tsx:62-66).
TypeOK ==
    /\ loaded \subseteq Plugin
    /\ live \in [Plugin -> Nat]
    /\ healthz = None \/ healthz \subseteq Plugin
    /\ busy \in Plugin \cup {Paste, None}
    /\ requests \in [Slot -> Request]
    /\ \A q \in Poll : polls[q] = None \/ polls[q] \in Health

\* A plugin that neither suspends nor raises is set up exactly once while it
\* is loaded and not at all otherwise, however its buttons are clicked, and
\* across restarts (service.py:390-396, loader.py:246-322).
OneInstance ==
    \A p \in Plugin \ (Suspends \cup Raises) :
        live[p] = IF p \in loaded THEN 1 ELSE 0

\* A button is not disabled for good: `busy' is taken back after every
\* request, answered or lost (ModulesPanel.tsx:87-119).
BusyFalls == (busy # None) ~> (busy = None)

\* When nothing is loaded or unloaded any more, the panel comes to show what
\* is loaded, although answers may arrive in another order than they were
\* read in (ModulesPanel.tsx:68-85).
ViewConverges == <>[][UNCHANGED <<loaded, requests>>]_vars => <>[](healthz = loaded)

=============================================================================
