------------------------------ MODULE ChatPanel ------------------------------
(***************************************************************************)
(* The chat view of the web client, panels/ChatPanel.tsx: the selected     *)
(* session, the copy of it on screen, the reply being streamed, the socket *)
(* to /ws/chat and the requests in flight, against a server that serves    *)
(* the frames of one socket in order (ChatStream has the server's side).   *)
(*                                                                         *)
(* A step is one callback of the browser: a click, a frame, an answer, a   *)
(* change of a socket's state.  A state update and the effects that depend *)
(* on it are one step.  An effect of the panel closes the socket and opens *)
(* another whenever the selected session or the search text changes.       *)
(*                                                                         *)
(* A text stands for one message the user types or picks.  What is shown   *)
(* is reduced to where it comes from: of the copy on screen the session it *)
(* is of, of the streaming bubble the texts whose deltas it shows and the  *)
(* sockets these came over.  The messages in the copy are left out.        *)
(***************************************************************************)
EXTENDS Naturals, Sequences, FiniteSets

CONSTANTS
    Session,     \* session ids
    Existing,    \* those that exist at the start
    Text,        \* what the user sends, each once
    None,        \* null
    Flight,      \* calls of newSession that start a request
    Slot,        \* requests GET /api/sessions/{id} that can be in flight
    MaxSockets,  \* bound on the sockets opened
    MaxStops     \* bound on the Stops unanswered

ASSUME ExistingAssumption == Existing \subseteq Session
ASSUME NoneAssumption == None \notin Session \cup Text \cup Flight
ASSUME SocketsAssumption == MaxSockets \in Nat \ {0} /\ MaxStops \in Nat

VARIABLES
    \* the server
    made,       \* the sessions created so far
    alive,      \* those not hard-deleted
    queue,      \* frames of the current socket it has not finished with
    serving,    \* how far it is with the turn at the head of the queue
    \* the socket
    socket,     \* its number
    ready,      \* WebSocket.readyState
    frames,     \* frames on their way to the client
    \* the panel
    activeId,   \* the selected session
    active,     \* the session the copy on screen is of
    streaming,  \* the reply being streamed
    loads,      \* loadSession calls awaiting their answer: of which session
    inFlight,   \* newSessionInFlight.current
    flights,    \* the creations: where each is, and the session it made
    waiting,    \* the texts chained to a creation
    removing,   \* an archive or delete of the session selected at the click
                \* awaits its answer
    \* ghosts
    dest,       \* the session a text was dispatched to
    meant       \* the session selected when it was picked, or made for it

server == <<made, alive, queue, serving>>
wire == <<socket, ready, frames>>
creation == <<inFlight, flights, waiting>>
ghosts == <<dest, meant>>
vars == <<server, wire, activeId, active, streaming, loads, creation,
          removing, ghosts>>

\* The session of a text is its `dest'; a cancel is for the selected one.
Frame(type, t) == [type |-> type, text |-> t]
Send(t) == Frame("send", t)
Cancel == Frame("cancel", None)
ClientFrame == [type : {"send"}, text : Text] \cup {Cancel}
ServerFrame == [type : {"delta", "tool_call", "done", "error"}, text : Text]
               \cup [type : {"cancelled", "noop"}, text : {None}]
LastFrames == {"done", "error"}

NoFlight == [at |-> "idle", made |-> None]

Init ==
    /\ made = Existing
    /\ alive = Existing
    /\ queue = <<>> /\ serving = "idle"
    /\ socket = 1 /\ ready = "connecting" /\ frames = <<>>
    /\ activeId = None /\ active = None /\ streaming = {}
    /\ loads = [i \in Slot |-> None]
    /\ inFlight = None
    /\ flights = [f \in Flight |-> NoFlight]
    /\ waiting = [f \in Flight |-> <<>>]
    /\ removing = FALSE
    /\ dest = [t \in Text |-> None]
    /\ meant = [t \in Text |-> None]

----------------------------------------------------------------------------
\* Requests for a session

LoadSession(s) ==
    \E i \in Slot : loads[i] = None /\ loads' = [loads EXCEPT ![i] = s]

\* setActive with the answer, whichever session is selected by now; a failed
\* request, or one for a session that is gone, changes nothing.
LoadAnswered(i) ==
    /\ loads[i] # None
    /\ loads' = [loads EXCEPT ![i] = None]
    /\ \/ UNCHANGED active
       \/ loads[i] \in made /\ active' = loads[i]
    /\ UNCHANGED <<server, wire, activeId, streaming, creation, removing, ghosts>>

----------------------------------------------------------------------------
\* The socket

Disconnected ==
    frames' = <<>> /\ queue' = <<>> /\ serving' = "idle"

\* The effect's cleanup closes the socket, whose frames are heard no more,
\* and its body opens the next.
Reopen ==
    /\ socket < MaxSockets
    /\ socket' = socket + 1
    /\ ready' = "connecting"
    /\ Disconnected

SocketOpens ==
    /\ ready = "connecting"
    /\ ready' = "open"
    /\ UNCHANGED <<server, socket, frames, activeId, active, streaming, loads,
                   creation, removing, ghosts>>

\* Refused or lost; nothing opens it again but the effect.
SocketCloses ==
    /\ ready \in {"connecting", "open"}
    /\ ready' = "closed"
    /\ Disconnected
    /\ UNCHANGED <<made, alive, socket, activeId, active, streaming,
                   loads, creation, removing, ghosts>>

----------------------------------------------------------------------------
\* Selecting, leaving, searching

\* setActiveId(s), with the effects on activeId: a new socket, a load, or a
\* cleared view.  The streaming bubble is left as it is.
SetActiveId(s) ==
    /\ activeId' = s
    /\ IF s = activeId
       THEN UNCHANGED <<active, loads, wire, queue, serving>>
       ELSE /\ Reopen
            /\ IF s = None
               THEN active' = None /\ UNCHANGED loads
               ELSE LoadSession(s) /\ UNCHANGED active

SelectSession(s) ==
    /\ s # activeId
    /\ SetActiveId(s)
    /\ UNCHANGED <<made, alive, streaming, creation, removing, ghosts>>

\* Typing in the search overlay.
Search ==
    /\ Reopen
    /\ UNCHANGED <<made, alive, activeId, active, streaming, loads,
                   creation, removing, ghosts>>

\* Archive keeps the session on the server, delete does not.
ClickRemove(s) ==
    /\ ~removing
    /\ removing' = (activeId = s)
    /\ alive' \in {alive, alive \ {s}}
    /\ UNCHANGED <<made, queue, serving, wire, activeId, active,
                   streaming, loads, creation, ghosts>>

\* The answer; the handler knows the session that was selected at the click.
RemoveAnswered ==
    /\ removing
    /\ removing' = FALSE
    /\ SetActiveId(None) \/ UNCHANGED <<activeId, active, loads, wire, queue,
                                       serving>>
    /\ UNCHANGED <<made, alive, streaming, creation, ghosts>>

\* A model picked in the header is stored for the session on screen, which is
\* then loaded again.
PickModel ==
    /\ active # None
    /\ LoadSession(active)
    /\ UNCHANGED <<server, wire, activeId, active, streaming, creation,
                   removing, ghosts>>

\* A fork or a switch of branches was answered: the session that was selected
\* at the click is loaded again.  Which ones were is not kept.
BranchChanged(s) ==
    /\ LoadSession(s)
    /\ UNCHANGED <<server, wire, activeId, active, streaming, creation,
                   removing, ghosts>>

----------------------------------------------------------------------------
\* Sending

\* dispatchSend for each of the texts in turn: it is sent if the socket is
\* open.  If not, nothing sends it later.
DispatchSend(s, texts) ==
    LET sent == {texts[i] : i \in 1..Len(texts)} IN
    /\ dest' = [t \in Text |-> IF t \in sent THEN s ELSE dest[t]]
    /\ IF ready = "open"
       THEN queue' = queue \o [i \in 1..Len(texts) |-> Send(texts[i])]
       ELSE UNCHANGED queue

Chained(f) == {waiting[f][i] : i \in 1..Len(waiting[f])}
Unsent(t) == dest[t] = None /\ \A f \in Flight : t \notin Chained(f)

\* InputArea is enabled when a session is selected and App's own socket is
\* open, which says nothing of this one.  Enter sends also while streaming.
TypeAndSend(t) ==
    /\ Unsent(t)
    /\ activeId # None
    /\ DispatchSend(activeId, <<t>>)
    /\ meant' = [meant EXCEPT ![t] = activeId]
    /\ UNCHANGED <<made, alive, serving, wire, activeId,
                   active, streaming, loads, creation, removing>>

\* A bug: newSession forgets to look at newSessionInFlight.
NewSession_Another(f) ==
    /\ flights[f] = NoFlight
    /\ inFlight' = f
    /\ flights' = [flights EXCEPT ![f].at = "posting"]

\* newSession: the creation in flight, or a new one.
NewSession(f) ==
    IF inFlight # None
    THEN f = inFlight /\ UNCHANGED <<inFlight, flights>>
    ELSE /\ flights[f] = NoFlight
         /\ inFlight' = f
         /\ flights' = [flights EXCEPT ![f].at = "posting"]

ClickNewChat ==
    /\ \E f \in Flight : NewSession(f)
    /\ UNCHANGED <<server, wire, activeId, active, streaming, loads, waiting,
                   removing, ghosts>>

\* A card of the welcome view, there while the copy on screen has no message.
PickSuggestion(t) ==
    /\ Unsent(t)
    /\ IF activeId # None
       THEN /\ DispatchSend(activeId, <<t>>)
            /\ meant' = [meant EXCEPT ![t] = activeId]
            /\ UNCHANGED creation
       ELSE /\ \E f \in Flight :
                /\ NewSession(f)
                /\ waiting' = [waiting EXCEPT ![f] = Append(@, t)]
                /\ meant' = [meant EXCEPT ![t] = flights[f].made]
            /\ UNCHANGED <<queue, dest>>
    /\ UNCHANGED <<made, alive, serving, wire, activeId,
                   active, streaming, loads, removing>>

\* The answer to POST /api/sessions: the new session is selected.
Created(f) ==
    /\ flights[f].at = "posting"
    /\ \E s \in Session \ made :
        /\ made' = made \cup {s}
        /\ alive' = alive \cup {s}
        /\ flights' = [flights EXCEPT ![f] = [at |-> "refreshing", made |-> s]]
        /\ SetActiveId(s)
        /\ meant' = [t \in Text |->
                        IF t \in Chained(f) THEN s ELSE meant[t]]
    /\ UNCHANGED <<streaming, inFlight, waiting, removing, dest>>

\* A bug: the texts outlive the creation they wait for.
Forgotten_KeepsTexts(f) ==
    /\ inFlight' = None
    /\ flights' = [flights EXCEPT ![f] = NoFlight]
    /\ UNCHANGED waiting

Forgotten(f) ==
    /\ inFlight' = None
    /\ flights' = [flights EXCEPT ![f] = NoFlight]
    /\ waiting' = [waiting EXCEPT ![f] = <<>>]

\* The server refused, or the answer was lost; the texts are dropped.
NotCreated(f) ==
    /\ flights[f].at = "posting"
    /\ Forgotten(f)
    /\ UNCHANGED <<server, wire, activeId, active, streaming, loads, removing,
                   ghosts>>

\* A bug: the texts go to the session that is selected by now.
Resolved_ToActive(f) ==
    /\ flights[f].at = "refreshing"
    /\ Forgotten(f)
    /\ DispatchSend(activeId, waiting[f])
    /\ UNCHANGED <<made, alive, serving, wire, activeId,
                   active, streaming, loads, removing, meant>>

\* The rail was refreshed, or that failed: the promise resolves with the new
\* session and the texts chained to it are dispatched.
Resolved(f) ==
    /\ flights[f].at = "refreshing"
    /\ Forgotten(f)
    /\ DispatchSend(flights[f].made, waiting[f])
    /\ UNCHANGED <<made, alive, serving, wire, activeId,
                   active, streaming, loads, removing, meant>>

IsStreaming == streaming # {}

Stops(fs) == Len(SelectSeq(fs, LAMBDA fr : fr.text = None))

\* The Stop button, there while a reply is streaming.
StopStreaming ==
    /\ IsStreaming
    /\ IF ready = "open" /\ activeId # None
       THEN /\ Stops(queue) + Stops(frames) < MaxStops
            /\ queue' = Append(queue, Cancel)
            /\ UNCHANGED streaming
       ELSE streaming' = {} /\ UNCHANGED queue
    /\ UNCHANGED <<made, alive, serving, wire, activeId, active,
                   loads, creation, removing, ghosts>>

----------------------------------------------------------------------------
\* Receiving

Take(type) == ready = "open" /\ frames # <<>> /\ Head(frames).type = type
              /\ frames' = Tail(frames)

OnDelta ==
    /\ Take("delta")
    /\ streaming' = streaming \cup {[text |-> Head(frames).text, over |-> socket]}
    /\ UNCHANGED <<server, socket, ready, activeId, active, loads, creation,
                   removing, ghosts>>

\* The bubble becomes a message, and the session of the frame is loaded.
OnDone ==
    /\ Take("done")
    /\ streaming' = {}
    /\ LoadSession(dest[Head(frames).text])
    /\ UNCHANGED <<server, socket, ready, activeId, active, creation, removing,
                   ghosts>>

\* A bug: the bubble is left when a turn fails.
OnError_KeepsBubble ==
    /\ Take("error")
    /\ UNCHANGED <<server, socket, ready, activeId, active, streaming, loads,
                   creation, removing, ghosts>>

OnError ==
    /\ Take("error")
    /\ streaming' = {}
    /\ UNCHANGED <<server, socket, ready, activeId, active, loads, creation,
                   removing, ghosts>>

\* Tool calls are added to the copy on screen; an answer to Stop leaves only
\* a mark for the bubble.
OnOther ==
    /\ Take("tool_call") \/ Take("cancelled") \/ Take("noop")
    /\ UNCHANGED <<server, socket, ready, activeId, active, streaming, loads,
                   creation, removing, ghosts>>

----------------------------------------------------------------------------
\* The server, one frame of the socket after the other.  A turn streams one
\* chunk at most.

HeadSend == queue # <<>> /\ Head(queue).type = "send"
Asked == Head(queue).text
Emit(new) == ready = "open" /\ frames' = frames \o new
panel == <<activeId, active, streaming, loads, creation, removing, ghosts>>

BeginTurn ==
    /\ HeadSend /\ serving = "idle" /\ dest[Asked] \in alive
    /\ serving' = "begun"
    /\ UNCHANGED <<made, alive, queue, wire, panel>>

Chunk ==
    /\ HeadSend /\ serving = "begun"
    /\ \/ Emit(<<Frame("delta", Asked)>>)
       \/ Emit(<<Frame("tool_call", Asked)>>)
    /\ serving' = "spoke"
    /\ UNCHANGED <<made, alive, queue, socket, ready, panel>>

EndTurn ==
    /\ HeadSend /\ serving # "idle"
    /\ Emit(<<Frame("done", Asked)>>)
    /\ serving' = "idle" /\ queue' = Tail(queue)
    /\ UNCHANGED <<made, alive, socket, ready, panel>>

\* The model fails, or the session is unknown.
FailTurn ==
    /\ HeadSend
    /\ serving # "idle" \/ dest[Asked] \notin alive
    /\ Emit(<<Frame("error", Asked)>>)
    /\ serving' = "idle" /\ queue' = Tail(queue)
    /\ UNCHANGED <<made, alive, socket, ready, panel>>

\* A cancel is read when the turn before it is over: it can only hit a turn
\* of another connection, as one that goes on for a socket now closed.
ReadCancel ==
    /\ queue # <<>> /\ Head(queue).type = "cancel" /\ serving = "idle"
    /\ Emit(<<Frame("noop", None)>>) \/ Emit(<<Frame("cancelled", None)>>)
    /\ queue' = Tail(queue)
    /\ UNCHANGED <<made, alive, serving, socket, ready, panel>>

----------------------------------------------------------------------------

User ==
    \/ \E s \in made : SelectSession(s) \/ ClickRemove(s) \/ BranchChanged(s)
    \/ \E t \in Text : TypeAndSend(t) \/ PickSuggestion(t)
    \/ Search \/ PickModel \/ ClickNewChat \/ StopStreaming

Answer ==
    \/ \E i \in Slot : LoadAnswered(i)
    \/ \E f \in Flight : Created(f) \/ NotCreated(f) \/ Resolved(f)
    \/ RemoveAnswered

Socket ==
    \/ SocketOpens \/ SocketCloses
    \/ OnDelta \/ OnDone \/ OnError \/ OnOther

Server ==
    \/ BeginTurn \/ Chunk \/ EndTurn \/ FailTurn \/ ReadCancel

Next == User \/ Answer \/ Socket \/ Server

Spec == Init /\ [][Next]_vars

----------------------------------------------------------------------------
\* Properties

\* Every variable keeps to its type; only sessions that were made are selected
\* and shown, and texts wait only for a creation under way
\* (ChatPanel.tsx:55-119, its state).
TypeOK ==
    /\ made \subseteq Session /\ alive \subseteq made
    /\ queue \in Seq(ClientFrame)
    /\ serving \in {"idle", "begun", "spoke"}
    /\ socket \in 1..MaxSockets
    /\ ready \in {"connecting", "open", "closed"}
    /\ frames \in Seq(ServerFrame)
    /\ activeId \in made \cup {None}
    /\ active \in made \cup {None}
    /\ streaming \subseteq [text : Text, over : 1..MaxSockets]
    /\ loads \in [Slot -> Session \cup {None}]
    /\ inFlight \in Flight \cup {None}
    /\ flights \in [Flight -> [at : {"idle", "posting", "refreshing"},
                               made : Session \cup {None}]]
    /\ waiting \in [Flight -> Seq(Text)]
    /\ \A f \in Flight : /\ flights[f].made # None <=> flights[f].at = "refreshing"
                         /\ flights[f].at = "idle" => waiting[f] = <<>>
    /\ removing \in BOOLEAN
    /\ dest \in [Text -> Session \cup {None}]
    /\ meant \in [Text -> Session \cup {None}]

\* A burst of clicks on New chat and on welcome cards makes one session: at
\* most one creation is under way.  It is the one newSessionInFlight holds, and
\* nothing is held when it has ended in whatever way, so that New chat works
\* again (ChatPanel.tsx:330-372).
SingleFlight ==
    \A f \in Flight : flights[f].at # "idle" <=> inFlight = f

\* A text goes to the session that was selected when it was typed or picked,
\* or to the one made for it, whatever was selected, removed or made in the
\* meantime (ChatPanel.tsx:422-463).
IntendedSession ==
    \A t \in Text : dest[t] # None => dest[t] = meant[t]

\* A bubble streaming over the current socket has an end: its turn is still
\* being served, or its last frame is on its way.  (A bubble left from an
\* earlier socket has none; only a later turn or a closed socket clears it.)
\* (ChatPanel.tsx:184-244.)
StreamHasEnd ==
    ready = "open" =>
        \A b \in streaming : b.over = socket =>
            \/ serving # "idle" /\ Asked = b.text
            \/ \E i \in 1..Len(frames) :
                  frames[i].type \in LastFrames /\ frames[i].text = b.text

=============================================================================
