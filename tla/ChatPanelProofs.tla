--------------------------- MODULE ChatPanelProofs ---------------------------
(***************************************************************************)
(* The chat view for any number of sessions, texts, creations, loads and   *)
(* sockets.                                                                *)
(***************************************************************************)
EXTENDS ChatPanel, SequenceTheorems, TLAPS

\* What is known of a sequence that grows or is taken from.
LEMMA SeqSteps ==
    ASSUME NEW S, NEW q \in Seq(S)
    PROVE  /\ \A x \in S : /\ Append(q, x) \in Seq(S) /\ q \o <<x>> = Append(q, x)
                           /\ Len(Append(q, x)) = Len(q) + 1
                           /\ \A i \in 1..Len(q) : Append(q, x)[i] = q[i]
                           /\ Append(q, x)[Len(q) + 1] = x
           /\ \A r \in Seq(S) : q \o r \in Seq(S)
           /\ Len(q) \in Nat
           /\ q # <<>> => /\ Tail(q) \in Seq(S) /\ Head(q) \in S /\ Len(q) > 0
                          /\ Head(q) = q[1]
                          /\ Len(Tail(q)) = Len(q) - 1
                          /\ \A i \in 1..Len(Tail(q)) : Tail(q)[i] = q[i + 1]
<1>1. Len(q) \in Nat
    BY LenProperties
<1>2. ASSUME q # <<>>
      PROVE  /\ Tail(q) \in Seq(S) /\ Head(q) \in S /\ Len(q) > 0
             /\ Head(q) = q[1]
             /\ Len(Tail(q)) = Len(q) - 1
             /\ \A i \in 1..Len(Tail(q)) : Tail(q)[i] = q[i + 1]
    BY <1>2, HeadTailProperties, EmptySeq
<1>3. \A r \in Seq(S) : q \o r \in Seq(S)
    BY ConcatProperties
<1>4. \A x \in S : /\ Append(q, x) \in Seq(S) /\ q \o <<x>> = Append(q, x)
                   /\ Len(Append(q, x)) = Len(q) + 1
                   /\ \A i \in 1..Len(q) : Append(q, x)[i] = q[i]
                   /\ Append(q, x)[Len(q) + 1] = x
    BY <1>1
<1>. QED
    BY <1>1, <1>2, <1>3, <1>4

----------------------------------------------------------------------------
\* Types

\* The frames that either side sends are frames, and carry texts.
LEMMA FrameTypes ==
    /\ Cancel \in ClientFrame
    /\ \A t \in Text : /\ Send(t) \in ClientFrame
                       /\ \A type \in {"delta", "tool_call", "done", "error"} :
                             Frame(type, t) \in ServerFrame
    /\ Frame("noop", None) \in ServerFrame /\ Frame("cancelled", None) \in ServerFrame
    /\ \A fr \in ClientFrame : fr.type = "send" => fr.text \in Text
    /\ \A fr \in ServerFrame :
          fr.type \in {"delta", "tool_call", "done", "error"} => fr.text \in Text
BY DEF Frame, Send, Cancel, ClientFrame, ServerFrame

\* A text that is dispatched is queued on the open socket, or dropped.
LEMMA DispatchTypes ==
    ASSUME NEW s, NEW texts \in Seq(Text), DispatchSend(s, texts),
           queue \in Seq(ClientFrame),
           dest \in [Text -> Session \cup {None}], s \in Session \cup {None}
    PROVE  /\ queue' \in Seq(ClientFrame)
           /\ dest' \in [Text -> Session \cup {None}]
           /\ ready # "open" => UNCHANGED queue
           /\ queue # <<>> => queue' # <<>> /\ Head(queue') = Head(queue)
<1>. DEFINE more == [i \in 1..Len(texts) |-> Send(texts[i])]
<1>1. more \in Seq(ClientFrame)
    BY ElementOfSeq, LenProperties, FrameTypes
<1>2. queue' = queue \o more \/ UNCHANGED queue
    BY DEF DispatchSend
<1>3. queue \o more \in Seq(ClientFrame)
      /\ (queue # <<>> => queue \o more # <<>> /\ Head(queue \o more) = Head(queue))
    <2>1. /\ Len(queue \o more) = Len(queue) + Len(more)
          /\ \A i \in 1..Len(queue) + Len(more) : (queue \o more)[i] =
                 IF i <= Len(queue) THEN queue[i] ELSE more[i - Len(queue)]
          /\ queue \o more \in Seq(ClientFrame)
          /\ Len(queue) \in Nat /\ Len(more) \in Nat
        BY <1>1, ConcatProperties, LenProperties
    <2>. HIDE DEF more
    <2>2. queue # <<>> => Len(queue) > 0
        BY EmptySeq
    <2>. QED
        BY <2>1, <2>2
<1>. HIDE DEF more
<1>. QED
    BY <1>2, <1>3 DEF DispatchSend

\* A selection opens a socket with nothing on it.
LEMMA SetActiveTypes ==
    ASSUME TypeOK, NEW s \in Session \cup {None}, SetActiveId(s)
    PROVE  /\ activeId' = s /\ active' \in {active, None}
           /\ loads' \in [Slot -> Session \cup {None}]
           /\ socket' \in 1..MaxSockets /\ ready' \in {"connecting", "open", "closed"}
           /\ frames' \in Seq(ServerFrame) /\ queue' \in Seq(ClientFrame)
           /\ serving' \in {"idle", "begun", "spoke"}
<1>. <<>> \in Seq(ServerFrame) /\ <<>> \in Seq(ClientFrame)
    BY EmptySeq
<1>1. loads' \in [Slot -> Session \cup {None}]
    BY DEF TypeOK, SetActiveId, LoadSession
<1>2. CASE s = activeId
    BY <1>1, <1>2 DEF TypeOK, SetActiveId, wire
<1>3. CASE s # activeId
    <2>1. Reopen /\ active' \in {active, None} /\ activeId' = s
        BY <1>3 DEF SetActiveId
    <2>2. socket' \in 1..MaxSockets
        BY <2>1, SocketsAssumption DEF Reopen, TypeOK
    <2>. QED
        BY <1>1, <2>1, <2>2 DEF Reopen, Disconnected
<1>. QED
    BY <1>2, <1>3

\* The page opens with every variable in its type.
LEMMA InitPanelType == Init => TypeOK
<1>. SUFFICES ASSUME Init PROVE TypeOK
    OBVIOUS
<1>1. \A S : <<>> \in Seq(S)
    BY EmptySeq
<1>2. /\ queue \in Seq(ClientFrame) /\ frames \in Seq(ServerFrame)
      /\ waiting \in [Flight -> Seq(Text)]
    BY <1>1 DEF Init
<1>3. /\ flights \in [Flight -> [at : {"idle", "posting", "refreshing"},
                                 made : Session \cup {None}]]
      /\ \A f \in Flight : /\ flights[f].made # None <=> flights[f].at = "refreshing"
                           /\ flights[f].at = "idle" => waiting[f] = <<>>
    BY DEF Init, NoFlight
<1>4. socket \in 1..MaxSockets
    BY SocketsAssumption DEF Init
<1>. QED
    BY <1>2, <1>3, <1>4, ExistingAssumption DEF Init, TypeOK

\* TypeOK in parts, each of which most steps leave alone.
ServerT ==
    /\ made \subseteq Session /\ alive \subseteq made
    /\ queue \in Seq(ClientFrame) /\ serving \in {"idle", "begun", "spoke"}
WireT ==
    /\ socket \in 1..MaxSockets /\ ready \in {"connecting", "open", "closed"}
    /\ frames \in Seq(ServerFrame)
ViewT ==
    /\ activeId \in made \cup {None} /\ active \in made \cup {None}
    /\ streaming \subseteq [text : Text, over : 1..MaxSockets]
    /\ loads \in [Slot -> Session \cup {None}]
    /\ removing \in BOOLEAN
CreationT ==
    /\ inFlight \in Flight \cup {None}
    /\ flights \in [Flight -> [at : {"idle", "posting", "refreshing"},
                               made : Session \cup {None}]]
    /\ waiting \in [Flight -> Seq(Text)]
    /\ \A f \in Flight : /\ flights[f].made # None <=> flights[f].at = "refreshing"
                         /\ flights[f].at = "idle" => waiting[f] = <<>>
GhostT ==
    dest \in [Text -> Session \cup {None}] /\ meant \in [Text -> Session \cup {None}]

\* The conjuncts of TypeOK, to cite it by.
LEMMA TypeParts ==
    TypeOK <=> ServerT /\ WireT /\ ViewT /\ CreationT /\ GhostT
BY DEF TypeOK, ServerT, WireT, ViewT, CreationT, GhostT

\* A creation that is over is as if it had not been.
LEMMA ForgottenTypes ==
    ASSUME CreationT, NEW f \in Flight, Forgotten(f)
    PROVE  CreationT'
<1>1. <<>> \in Seq(Text)
    BY EmptySeq
<1>2. NoFlight \in [at : {"idle", "posting", "refreshing"}, made : Session \cup {None}]
      /\ NoFlight.made = None /\ NoFlight.at = "idle"
    BY DEF NoFlight
<1>3. /\ flights' = [flights EXCEPT ![f] = NoFlight]
      /\ waiting' = [waiting EXCEPT ![f] = <<>>] /\ inFlight' = None
    BY DEF Forgotten
<1>4. ASSUME NEW g \in Flight
      PROVE  /\ flights'[g].made # None <=> flights'[g].at = "refreshing"
             /\ flights'[g].at = "idle" => waiting'[g] = <<>>
    <2>1. CASE g = f
        BY <1>2, <1>3, <2>1 DEF CreationT
    <2>2. CASE g # f
        BY <1>3, <2>2 DEF CreationT
    <2>. QED
        BY <2>1, <2>2
<1>5. /\ flights' \in [Flight -> [at : {"idle", "posting", "refreshing"},
                                 made : Session \cup {None}]]
      /\ waiting' \in [Flight -> Seq(Text)]
    BY <1>1, <1>2, <1>3 DEF CreationT
<1>. QED
    BY <1>3, <1>4, <1>5 DEF CreationT

\* The click that asks for a session takes the one flight there may be.
LEMMA NewSessionTypes ==
    ASSUME CreationT, SingleFlight, NEW f \in Flight, NewSession(f)
    PROVE  /\ inFlight' = f /\ flights'[f].at # "idle"
           /\ flights'[f].made = flights[f].made
           /\ inFlight = None => flights[f].made = None /\ waiting[f] = <<>>
           /\ flights' \in [Flight -> [at : {"idle", "posting", "refreshing"},
                                       made : Session \cup {None}]]
           /\ \A g \in Flight : flights'[g].made # None <=> flights'[g].at = "refreshing"
           /\ \A g \in Flight \ {f} : flights'[g] = flights[g]
<1>. NoFlight.at = "idle" /\ NoFlight.made = None
    BY DEF NoFlight
<1>1. CASE inFlight # None
    BY <1>1 DEF NewSession, CreationT, SingleFlight
<1>2. CASE inFlight = None
    <2>1. /\ flights[f] = NoFlight /\ inFlight' = f
          /\ flights' = [flights EXCEPT ![f].at = "posting"]
        BY <1>2 DEF NewSession
    <2>2. flights'[f] = [flights[f] EXCEPT !.at = "posting"]
        BY <2>1 DEF CreationT
    <2>3. flights'[f].at = "posting" /\ flights'[f].made = None
        BY <2>1, <2>2 DEF CreationT
    <2>4. \A g \in Flight \ {f} : flights'[g] = flights[g]
        BY <2>1 DEF CreationT
    <2>5. flights' \in [Flight -> [at : {"idle", "posting", "refreshing"},
                                   made : Session \cup {None}]]
        BY <2>1 DEF CreationT
    <2>6. waiting[f] = <<>>
        BY <2>1 DEF CreationT
    <2>. QED
        BY <2>1, <2>3, <2>4, <2>5, <2>6 DEF CreationT
<1>. QED
    BY <1>1, <1>2

\* Every step keeps the types.
LEMMA StepType == TypeOK /\ SingleFlight /\ [Next]_vars => TypeOK'
<1>. SUFFICES ASSUME TypeOK, SingleFlight, [Next]_vars PROVE TypeOK'
    OBVIOUS
<1>. ServerT /\ WireT /\ ViewT /\ CreationT /\ GhostT
    BY TypeParts
<1>. SUFFICES ServerT' /\ WireT' /\ ViewT' /\ CreationT' /\ GhostT'
    BY TypeParts DEF TypeOK, ServerT, WireT, ViewT, CreationT, GhostT
<1>. DEFINE Goal == ServerT' /\ WireT' /\ ViewT' /\ CreationT' /\ GhostT'
            viewOnly == <<activeId, active, streaming, loads, removing>>
\* What a step leaves alone.
<1>1. UNCHANGED server => ServerT'
    BY DEF server, ServerT
<1>2. UNCHANGED wire => WireT'
    BY DEF wire, WireT
<1>3. UNCHANGED viewOnly /\ made \subseteq made' => ViewT'
    BY DEF ViewT
<1>4. UNCHANGED creation => CreationT'
    BY DEF creation, CreationT
<1>5. UNCHANGED ghosts => GhostT'
    BY DEF ghosts, GhostT
<1>6. ASSUME NEW s \in Session \cup {None}, LoadSession(s)
      PROVE  loads' \in [Slot -> Session \cup {None}]
    BY <1>6 DEF LoadSession, ViewT
<1>7. CASE UNCHANGED vars
    BY <1>1, <1>2, <1>3, <1>4, <1>5, <1>7 DEF vars, server
\* The user
<1>8. ASSUME NEW s \in made, SelectSession(s) PROVE Goal
    <2>1. s \in Session /\ SetActiveId(s)
        BY <1>8 DEF SelectSession, ServerT
    <2>2. ServerT' /\ WireT' /\ ViewT'
        BY <1>8, <2>1, SetActiveTypes DEF SelectSession, ServerT, WireT, ViewT
    <2>. QED
        BY <1>4, <1>5, <1>8, <2>2 DEF SelectSession
<1>9. ASSUME NEW s \in made, ClickRemove(s) PROVE Goal
    <2>1. removing' \in BOOLEAN
        BY <1>9, Zenon DEF ClickRemove
    <2>2. ServerT' /\ ViewT'
        BY <1>9, <2>1 DEF ClickRemove, ServerT, ViewT
    <2>. QED
        BY <1>2, <1>4, <1>5, <1>9, <2>2 DEF ClickRemove
<1>10. ASSUME NEW s \in made, BranchChanged(s) PROVE Goal
    <2>1. ViewT'
        BY <1>6, <1>10 DEF BranchChanged, ViewT, ServerT, server
    <2>. QED
        BY <1>1, <1>2, <1>4, <1>5, <1>10, <2>1 DEF BranchChanged
<1>11. CASE PickModel
    <2>1. active \in Session \cup {None}
        BY DEF ViewT, ServerT
    <2>2. ViewT'
        BY <1>6, <1>11, <2>1 DEF PickModel, ViewT, server
    <2>. QED
        BY <1>1, <1>2, <1>4, <1>5, <1>11, <2>2 DEF PickModel
<1>12. CASE Search
    <2>1. <<>> \in Seq(ServerFrame) /\ <<>> \in Seq(ClientFrame)
        BY EmptySeq
    <2>2. socket' \in 1..MaxSockets
        BY <1>12, SocketsAssumption DEF Search, Reopen, WireT
    <2>3. ServerT' /\ WireT'
        BY <1>12, <2>1, <2>2 DEF Search, Reopen, Disconnected, ServerT, WireT
    <2>. QED
        BY <1>3, <1>4, <1>5, <1>12, <2>3 DEF Search
<1>13. ASSUME NEW t \in Text, DispatchSend(activeId, <<t>>),
              meant' = [meant EXCEPT ![t] = activeId],
              UNCHANGED <<made, alive, serving>>
       PROVE  ServerT' /\ GhostT'
    <2>1. <<t>> \in Seq(Text) /\ activeId \in Session \cup {None}
        BY DEF ViewT, ServerT
    <2>. QED
        BY <1>13, <2>1, DispatchTypes DEF ServerT, GhostT
<1>14. ASSUME NEW t \in Text, TypeAndSend(t) PROVE Goal
    BY <1>2, <1>3, <1>4, <1>13, <1>14 DEF TypeAndSend
<1>15. CASE ClickNewChat
    <2>1. PICK f \in Flight : NewSession(f)
        BY <1>15 DEF ClickNewChat
    <2>2. CreationT'
        <3>1. \A g \in Flight : flights'[g].at = "idle" => waiting[g] = <<>>
            BY <2>1, NewSessionTypes DEF CreationT
        <3>. QED
            BY <1>15, <2>1, <3>1, NewSessionTypes DEF ClickNewChat, CreationT
    <2>. QED
        BY <1>1, <1>2, <1>3, <1>5, <1>15, <2>2 DEF ClickNewChat, server
<1>16. ASSUME NEW t \in Text, PickSuggestion(t) PROVE Goal
    <2>1. CASE activeId # None
        BY <1>2, <1>3, <1>4, <1>13, <1>16, <2>1 DEF PickSuggestion
    <2>2. CASE activeId = None
        <3>1. PICK f \in Flight : /\ NewSession(f)
                                  /\ waiting' = [waiting EXCEPT ![f] = Append(@, t)]
                                  /\ meant' = [meant EXCEPT ![t] = flights[f].made]
            BY <1>16, <2>2 DEF PickSuggestion
        <3>2. waiting' \in [Flight -> Seq(Text)]
            BY <3>1, SeqSteps DEF CreationT
        <3>3. \A g \in Flight \ {f} : waiting'[g] = waiting[g]
            BY <3>1 DEF CreationT
        <3>4. CreationT'
            BY <3>1, <3>2, <3>3, NewSessionTypes DEF CreationT
        <3>5. flights[f].made \in Session \cup {None}
            BY DEF CreationT
        <3>6. GhostT'
            BY <1>16, <2>2, <3>1, <3>5 DEF PickSuggestion, GhostT
        <3>. QED
            BY <1>1, <1>2, <1>3, <1>16, <2>2, <3>4, <3>6
            DEF PickSuggestion, server
    <2>. QED
        BY <2>1, <2>2
<1>17. CASE StopStreaming
    <2>1. ServerT'
        BY <1>17, FrameTypes, SeqSteps DEF StopStreaming, ServerT
    <2>2. ViewT'
        BY <1>17 DEF StopStreaming, ViewT
    <2>. QED
        BY <1>2, <1>4, <1>5, <1>17, <2>1, <2>2 DEF StopStreaming
\* Answers
<1>18. ASSUME NEW i \in Slot, LoadAnswered(i) PROVE Goal
    <2>1. ViewT'
        BY <1>18 DEF LoadAnswered, ViewT, server
    <2>. QED
        BY <1>1, <1>2, <1>4, <1>5, <1>18, <2>1 DEF LoadAnswered
<1>19. ASSUME NEW f \in Flight, Created(f) PROVE Goal
    <2>1. PICK s \in Session \ made :
            /\ made' = made \cup {s}
            /\ alive' = alive \cup {s}
            /\ flights' = [flights EXCEPT ![f] = [at |-> "refreshing", made |-> s]]
            /\ SetActiveId(s)
            /\ meant' = [t \in Text |-> IF t \in Chained(f) THEN s ELSE meant[t]]
        BY <1>19 DEF Created
    <2>2. ServerT' /\ WireT' /\ ViewT'
        BY <1>19, <2>1, SetActiveTypes DEF Created, ServerT, WireT, ViewT
    <2>3. CreationT'
        <3>1. [at |-> "refreshing", made |-> s] \in
                  [at : {"idle", "posting", "refreshing"}, made : Session \cup {None}]
              /\ s # None
            BY NoneAssumption
        <3>. QED
            BY <1>19, <2>1, <3>1 DEF Created, CreationT
    <2>4. GhostT'
        BY <1>19, <2>1 DEF Created, GhostT
    <2>. QED
        BY <2>2, <2>3, <2>4
<1>20. ASSUME NEW f \in Flight, NotCreated(f) PROVE Goal
    BY <1>1, <1>2, <1>3, <1>5, <1>20, ForgottenTypes DEF NotCreated, server
<1>21. ASSUME NEW f \in Flight, Resolved(f) PROVE Goal
    <2>1. waiting[f] \in Seq(Text) /\ flights[f].made \in Session \cup {None}
        BY DEF CreationT
    <2>2. ServerT' /\ GhostT'
        BY <1>21, <2>1, DispatchTypes DEF Resolved, ServerT, GhostT
    <2>. QED
        BY <1>2, <1>3, <1>21, <2>2, ForgottenTypes DEF Resolved
<1>22. CASE RemoveAnswered
    <2>1. CASE SetActiveId(None)
        <3>1. ServerT' /\ WireT' /\ ViewT'
            BY <1>22, <2>1, SetActiveTypes DEF RemoveAnswered, ServerT, WireT, ViewT
        <3>. QED
            BY <1>4, <1>5, <1>22, <3>1 DEF RemoveAnswered
    <2>2. CASE UNCHANGED <<activeId, active, loads, wire, queue, serving>>
        <3>1. ServerT' /\ WireT' /\ ViewT'
            BY <1>22, <2>2 DEF RemoveAnswered, ServerT, WireT, ViewT, wire
        <3>. QED
            BY <1>4, <1>5, <1>22, <3>1 DEF RemoveAnswered
    <2>. QED
        BY <1>22, <2>1, <2>2 DEF RemoveAnswered
\* The socket
<1>23. CASE SocketOpens
    <2>1. WireT'
        BY <1>23 DEF SocketOpens, WireT
    <2>. QED
        BY <1>1, <1>3, <1>4, <1>5, <1>23, <2>1 DEF SocketOpens, server
<1>24. CASE SocketCloses
    <2>1. <<>> \in Seq(ServerFrame) /\ <<>> \in Seq(ClientFrame)
        BY EmptySeq
    <2>2. ServerT' /\ WireT'
        BY <1>24, <2>1 DEF SocketCloses, Disconnected, ServerT, WireT
    <2>. QED
        BY <1>3, <1>4, <1>5, <1>24, <2>2 DEF SocketCloses
<1>25. ASSUME NEW type \in {"delta", "tool_call", "done", "error", "cancelled", "noop"},
              Take(type), UNCHANGED <<socket, ready>>
       PROVE  /\ WireT'
              /\ type \in {"delta", "tool_call", "done", "error"} =>
                    Head(frames).text \in Text
    <2>1. Tail(frames) \in Seq(ServerFrame) /\ Head(frames) \in ServerFrame
        BY <1>25, SeqSteps DEF Take, WireT
    <2>. QED
        BY <1>25, <2>1, FrameTypes DEF Take, WireT
<1>26. CASE OnDelta
    <2>1. Head(frames).text \in Text /\ WireT'
        BY <1>25, <1>26 DEF OnDelta
    <2>2. ViewT'
        BY <1>26, <2>1 DEF OnDelta, ViewT, WireT, server
    <2>. QED
        BY <1>1, <1>4, <1>5, <1>26, <2>1, <2>2 DEF OnDelta
<1>27. CASE OnDone
    <2>1. Head(frames).text \in Text /\ WireT'
        BY <1>25, <1>27 DEF OnDone
    <2>2. dest[Head(frames).text] \in Session \cup {None}
        BY <2>1 DEF GhostT
    <2>3. ViewT'
        BY <1>6, <1>27, <2>2 DEF OnDone, ViewT, server
    <2>. QED
        BY <1>1, <1>4, <1>5, <1>27, <2>1, <2>3 DEF OnDone
<1>28. CASE OnError
    <2>1. ViewT'
        BY <1>28 DEF OnError, ViewT, server
    <2>2. WireT'
        BY <1>25, <1>28 DEF OnError
    <2>. QED
        BY <1>1, <1>4, <1>5, <1>28, <2>1, <2>2 DEF OnError
<1>29. CASE OnOther
    <2>1. WireT'
        BY <1>25, <1>29 DEF OnOther
    <2>. QED
        BY <1>1, <1>3, <1>4, <1>5, <1>29, <2>1 DEF OnOther, server
\* The server
<1>30. ASSUME UNCHANGED panel, UNCHANGED made, ServerT', WireT' PROVE Goal
    BY <1>3, <1>4, <1>5, <1>30 DEF panel
<1>31. CASE BeginTurn
    <2>1. ServerT'
        BY <1>31 DEF BeginTurn, ServerT
    <2>. QED
        BY <1>2, <1>30, <1>31, <2>1 DEF BeginTurn
<1>32. ASSUME NEW fr \in ServerFrame, Emit(<<fr>>), UNCHANGED <<socket, ready>>
       PROVE  WireT'
    <2>1. frames \o <<fr>> \in Seq(ServerFrame)
        BY SeqSteps DEF WireT
    <2>. QED
        BY <1>32, <2>1 DEF Emit, WireT
<1>33. HeadSend => Asked \in Text
    BY SeqSteps, FrameTypes DEF HeadSend, Asked, ServerT
<1>34. queue # <<>> => Tail(queue) \in Seq(ClientFrame)
    BY SeqSteps DEF ServerT
<1>35. CASE Chunk
    <2>1. ServerT'
        BY <1>35 DEF Chunk, ServerT
    <2>2. WireT'
        BY <1>32, <1>33, <1>35, FrameTypes DEF Chunk
    <2>. QED
        BY <1>30, <1>35, <2>1, <2>2 DEF Chunk
<1>36. CASE EndTurn \/ FailTurn
    <2>1. ServerT'
        BY <1>34, <1>36 DEF EndTurn, FailTurn, HeadSend, ServerT
    <2>2. WireT'
        BY <1>32, <1>33, <1>36, FrameTypes DEF EndTurn, FailTurn
    <2>. QED
        BY <1>30, <1>36, <2>1, <2>2 DEF EndTurn, FailTurn
<1>37. CASE ReadCancel
    <2>1. ServerT'
        BY <1>34, <1>37 DEF ReadCancel, ServerT
    <2>2. WireT'
        BY <1>32, <1>37, FrameTypes DEF ReadCancel
    <2>. QED
        BY <1>30, <1>37, <2>1, <2>2 DEF ReadCancel
<1>. QED
    BY <1>7, <1>8, <1>9, <1>10, <1>11, <1>12, <1>14, <1>15, <1>16, <1>17, <1>18,
       <1>19, <1>20, <1>21, <1>22, <1>23, <1>24, <1>26, <1>27, <1>28, <1>29,
       <1>31, <1>35, <1>36, <1>37
    DEF Next, User, Answer, Socket, Server

----------------------------------------------------------------------------
\* One creation at a time, and the session a text is for

\* The steps that start, move or end a creation.
LEMMA CreationSteps ==
    [Next]_vars =>
        \/ UNCHANGED creation
        \/ ClickNewChat
        \/ \E t \in Text : activeId = None /\ PickSuggestion(t)
        \/ \E f \in Flight : Created(f) \/ NotCreated(f) \/ Resolved(f)
BY DEF Next, User, Answer, Socket, Server, SelectSession, ClickRemove, BranchChanged,
       TypeAndSend, PickSuggestion, Search, PickModel, StopStreaming, LoadAnswered,
       RemoveAnswered, SocketOpens, SocketCloses, OnDelta, OnDone, OnError, OnOther,
       BeginTurn, Chunk, EndTurn, FailTurn, ReadCancel, panel, vars

\* No step lets a second creation start.
LEMMA SingleFlightStep == TypeOK /\ SingleFlight /\ [Next]_vars => SingleFlight'
<1>. SUFFICES ASSUME TypeOK, SingleFlight, [Next]_vars PROVE SingleFlight'
    OBVIOUS
<1>. CreationT
    BY TypeParts
<1>1. CASE UNCHANGED creation
    BY <1>1 DEF creation, SingleFlight
<1>2. ASSUME NEW f \in Flight, NewSession(f) PROVE SingleFlight'
    <2>1. \A g \in Flight \ {f} : flights[g].at = "idle"
        BY <1>2, NoneAssumption DEF SingleFlight, NewSession
    <2>. QED
        BY <1>2, <2>1, NewSessionTypes DEF SingleFlight
<1>3. ASSUME NEW f \in Flight, flights[f].at # "idle", Forgotten(f)
      PROVE  SingleFlight'
    <2>1. /\ flights' = [flights EXCEPT ![f] = NoFlight] /\ inFlight' = None
          /\ NoFlight.at = "idle"
        BY <1>3 DEF Forgotten, NoFlight
    <2>2. \A g \in Flight \ {f} : flights[g].at = "idle"
        BY <1>3 DEF SingleFlight
    <2>3. \A g \in Flight : flights'[g].at = "idle"
        BY <2>1, <2>2 DEF CreationT
    <2>4. None \notin Flight
        BY NoneAssumption
    <2>. QED
        BY <2>1, <2>3, <2>4 DEF SingleFlight
<1>4. CASE ClickNewChat
    BY <1>2, <1>4 DEF ClickNewChat
<1>5. ASSUME NEW t \in Text, activeId = None, PickSuggestion(t) PROVE SingleFlight'
    BY <1>2, <1>5 DEF PickSuggestion
<1>6. ASSUME NEW f \in Flight, Created(f) PROVE SingleFlight'
    <2>1. PICK s \in Session :
            flights' = [flights EXCEPT ![f] = [at |-> "refreshing", made |-> s]]
        BY <1>6 DEF Created
    <2>2. flights[f].at = "posting" /\ inFlight' = inFlight
        BY <1>6 DEF Created
    <2>. QED
        BY <2>1, <2>2 DEF SingleFlight, CreationT
<1>7. ASSUME NEW f \in Flight, NotCreated(f) \/ Resolved(f) PROVE SingleFlight'
    BY <1>3, <1>7 DEF NotCreated, Resolved
<1>. QED
    BY <1>1, <1>4, <1>5, <1>6, <1>7, CreationSteps

\* A text that waits was sent to no session yet, and is for the one made for
\* it once that is known.
ChainedMeant ==
    \A f \in Flight : \A t \in Chained(f) :
        /\ dest[t] = None
        /\ flights[f].made # None => meant[t] = flights[f].made

PanelInv == TypeOK /\ SingleFlight /\ ChainedMeant /\ IntendedSession

\* The texts sent at once are for the session they are sent to.
LEMMA DispatchIntended ==
    ASSUME NEW s \in Session \cup {None}, NEW texts \in Seq(Text),
           DispatchSend(s, texts), GhostT, IntendedSession,
           meant' \in [Text -> Session \cup {None}],
           \A i \in 1..Len(texts) : meant'[texts[i]] = s,
           \A t \in Text : (\A i \in 1..Len(texts) : texts[i] # t)
                              => meant'[t] = meant[t]
    PROVE  /\ IntendedSession'
           /\ \A t \in Text : (\A i \in 1..Len(texts) : texts[i] # t)
                                 => dest'[t] = dest[t]
BY DEF DispatchSend, GhostT, IntendedSession

\* No step sends a text to a session it was not meant for.
LEMMA IntendedStep == PanelInv /\ [Next]_vars => PanelInv'
<1>. SUFFICES ASSUME PanelInv, [Next]_vars PROVE PanelInv'
    OBVIOUS
<1>. TypeOK /\ SingleFlight /\ ChainedMeant /\ IntendedSession /\ TypeOK' /\ SingleFlight'
    BY StepType, SingleFlightStep DEF PanelInv
<1>. CreationT /\ GhostT /\ ViewT /\ ServerT /\ CreationT' /\ GhostT'
    <2>1. TypeOK' <=> ServerT' /\ WireT' /\ ViewT' /\ CreationT' /\ GhostT'
        BY DEF TypeOK, ServerT, WireT, ViewT, CreationT, GhostT
    <2>. QED
        BY <2>1, TypeParts
<1>. DEFINE Goal == ChainedMeant' /\ IntendedSession'
<1>. SUFFICES Goal
    BY DEF PanelInv
<1>0. \A f \in Flight : \A t \in Chained(f) : t \in Text
    BY ElementOfSeq DEF Chained, CreationT
\* A text is sent at once.
<1>1. ASSUME NEW t \in Text, Unsent(t), DispatchSend(activeId, <<t>>),
             meant' = [meant EXCEPT ![t] = activeId], UNCHANGED creation
      PROVE  Goal
    <2>1. /\ <<t>> \in Seq(Text) /\ Len(<<t>>) = 1 /\ <<t>>[1] = t
          /\ activeId \in Session \cup {None}
        BY DEF ViewT, ServerT
    <2>2. /\ meant'[t] = activeId
          /\ \A u \in Text \ {t} : meant'[u] = meant[u]
        BY <1>1 DEF GhostT
    <2>3. \A u \in Text : (\A i \in 1..Len(<<t>>) : <<t>>[i] # u) <=> u # t
        BY <2>1
    <2>4. IntendedSession' /\ \A u \in Text \ {t} : dest'[u] = dest[u]
        <3>. DEFINE texts == <<t>>
        <3>1. /\ \A i \in 1..Len(texts) : meant'[texts[i]] = activeId
              /\ \A u \in Text : (\A i \in 1..Len(texts) : texts[i] # u)
                                    => meant'[u] = meant[u]
            BY <2>1, <2>2, <2>3
        <3>2. texts \in Seq(Text) /\ DispatchSend(activeId, texts)
            BY <1>1, <2>1
        <3>3. /\ IntendedSession'
              /\ \A u \in Text : (\A i \in 1..Len(texts) : texts[i] # u)
                                    => dest'[u] = dest[u]
            <4>. HIDE DEF texts
            <4>. QED
                BY <2>1, <3>1, <3>2, DispatchIntended DEF GhostT
        <3>. QED
            BY <2>3, <3>3
    <2>5. \A f \in Flight : t \notin Chained(f) /\ Chained(f)' = Chained(f)
        BY <1>1 DEF Unsent, Chained, creation
    <2>6. ChainedMeant'
        BY <1>0, <1>1, <2>2, <2>4, <2>5 DEF ChainedMeant, creation
    <2>. QED
        BY <2>4, <2>6
<1>2. ASSUME NEW t \in Text, TypeAndSend(t) PROVE Goal
    BY <1>1, <1>2 DEF TypeAndSend
<1>3. ASSUME NEW t \in Text, PickSuggestion(t), activeId # None PROVE Goal
    BY <1>1, <1>3 DEF PickSuggestion
\* A text is chained to a creation.
<1>4. ASSUME NEW t \in Text, PickSuggestion(t), activeId = None PROVE Goal
    <2>1. PICK f \in Flight : /\ NewSession(f)
                              /\ waiting' = [waiting EXCEPT ![f] = Append(@, t)]
                              /\ meant' = [meant EXCEPT ![t] = flights[f].made]
        BY <1>4 DEF PickSuggestion
    <2>2. /\ Unsent(t) /\ UNCHANGED dest
          /\ flights'[f].made = flights[f].made
          /\ \A g \in Flight \ {f} : flights'[g] = flights[g] /\ waiting'[g] = waiting[g]
        BY <1>4, <2>1, NewSessionTypes DEF PickSuggestion, CreationT
    <2>3. Chained(f)' \subseteq Chained(f) \cup {t}
        <3>1. waiting[f] \in Seq(Text) /\ waiting'[f] = Append(waiting[f], t)
            BY <2>1 DEF CreationT
        <3>2. /\ Len(waiting'[f]) = Len(waiting[f]) + 1 /\ Len(waiting[f]) \in Nat
              /\ \A i \in 1..Len(waiting[f]) : waiting'[f][i] = waiting[f][i]
              /\ waiting'[f][Len(waiting[f]) + 1] = t
            BY <3>1, SeqSteps
        <3>. QED
            BY <3>2 DEF Chained
    <2>4. \A g \in Flight \ {f} : Chained(g)' = Chained(g)
        BY <2>2 DEF Chained
    <2>5. /\ meant'[t] = flights[f].made /\ dest[t] = None
          /\ \A u \in Text \ {t} : meant'[u] = meant[u]
          /\ \A g \in Flight : t \notin Chained(g)
        BY <2>1, <2>2 DEF GhostT, Unsent
    <2>6. ChainedMeant'
        BY <1>0, <2>2, <2>3, <2>4, <2>5 DEF ChainedMeant
    <2>7. IntendedSession'
        BY <2>2, <2>5 DEF IntendedSession, GhostT
    <2>. QED
        BY <2>6, <2>7
\* The creation ends.
<1>5. ASSUME NEW f \in Flight, Created(f) PROVE Goal
    <2>1. PICK s \in Session \ made :
            /\ flights' = [flights EXCEPT ![f] = [at |-> "refreshing", made |-> s]]
            /\ meant' = [t \in Text |-> IF t \in Chained(f) THEN s ELSE meant[t]]
        BY <1>5 DEF Created
    <2>2. UNCHANGED <<waiting, dest>> /\ flights[f].at # "idle"
        BY <1>5 DEF Created
    <2>3. \A g \in Flight \ {f} : Chained(g) = {}
        <3>1. \A g \in Flight \ {f} : waiting[g] = <<>>
            BY <2>2 DEF SingleFlight, CreationT
        <3>. QED
            BY <3>1 DEF Chained
    <2>4. \A g \in Flight : Chained(g)' = Chained(g)
        BY <2>2 DEF Chained
    <2>5. flights'[f].made = s /\ \A t \in Chained(f) : meant'[t] = s
        BY <1>0, <2>1 DEF CreationT
    <2>6. ChainedMeant'
        BY <2>2, <2>3, <2>4, <2>5 DEF ChainedMeant
    <2>7. IntendedSession'
        BY <2>1, <2>2 DEF IntendedSession, ChainedMeant
    <2>. QED
        BY <2>6, <2>7
<1>6. ASSUME NEW f \in Flight, Forgotten(f)
      PROVE  \A g \in Flight : /\ Chained(g)' \subseteq Chained(g)
                               /\ g # f => flights'[g] = flights[g]
                               /\ g = f => Chained(g)' = {}
    BY <1>6 DEF Forgotten, Chained, CreationT
<1>7. ASSUME NEW f \in Flight, NotCreated(f) PROVE Goal
    BY <1>6, <1>7 DEF NotCreated, ghosts, ChainedMeant, IntendedSession
<1>8. ASSUME NEW f \in Flight, Resolved(f) PROVE Goal
    <2>1. /\ flights[f].at = "refreshing" /\ Forgotten(f) /\ UNCHANGED meant
          /\ DispatchSend(flights[f].made, waiting[f])
        BY <1>8 DEF Resolved
    <2>2. /\ waiting[f] \in Seq(Text) /\ flights[f].made \in Session
        BY <2>1 DEF CreationT
    <2>3. \A i \in 1..Len(waiting[f]) : meant[waiting[f][i]] = flights[f].made
        BY <2>1, <2>2, NoneAssumption DEF ChainedMeant, Chained
    <2>4. /\ IntendedSession'
          /\ \A t \in Text \ Chained(f) : dest'[t] = dest[t]
        <3>1. \A t \in Text : t \notin Chained(f)
                 <=> \A i \in 1..Len(waiting[f]) : waiting[f][i] # t
            BY DEF Chained
        <3>2. /\ meant' \in [Text -> Session \cup {None}]
              /\ \A i \in 1..Len(waiting[f]) : meant'[waiting[f][i]] = flights[f].made
              /\ \A t \in Text : meant'[t] = meant[t]
            BY <2>1, <2>3 DEF GhostT
        <3>3. /\ IntendedSession'
              /\ \A t \in Text : (\A i \in 1..Len(waiting[f]) : waiting[f][i] # t)
                                    => dest'[t] = dest[t]
            BY <2>1, <2>2, <3>2, DispatchIntended
        <3>. QED
            BY <3>1, <3>3
    <2>5. \A g \in Flight \ {f} : Chained(g) = {}
        <3>1. \A g \in Flight \ {f} : waiting[g] = <<>>
            BY <2>1 DEF SingleFlight, CreationT
        <3>. QED
            BY <3>1 DEF Chained
    <2>6. ChainedMeant'
        BY <1>6, <2>1, <2>5 DEF ChainedMeant
    <2>. QED
        BY <2>4, <2>6
<1>9. CASE ClickNewChat
    <2>1. PICK f \in Flight : NewSession(f)
        BY <1>9 DEF ClickNewChat
    <2>2. \A g \in Flight : flights'[g].made = flights[g].made
        BY <2>1, NewSessionTypes
    <2>. QED
        BY <1>9, <2>2 DEF ClickNewChat, ghosts, Chained, ChainedMeant, IntendedSession
\* All other steps leave the creations and what was sent alone.
<1>10. CASE UNCHANGED <<creation, ghosts>>
    BY <1>10 DEF creation, ghosts, Chained, ChainedMeant, IntendedSession
<1>. QED
    BY <1>2, <1>3, <1>4, <1>5, <1>7, <1>8, <1>9, <1>10
    DEF Next, User, Answer, Socket, Server, SelectSession, ClickRemove, BranchChanged,
        Search, PickModel, StopStreaming, LoadAnswered, RemoveAnswered, SocketOpens,
        SocketCloses, OnDelta, OnDone, OnError, OnOther, BeginTurn, Chunk, EndTurn,
        FailTurn, ReadCancel, panel, vars

\* The page opens with the invariant.
LEMMA InitPanel == Init => PanelInv
<1>. SUFFICES ASSUME Init PROVE PanelInv
    OBVIOUS
<1>1. SingleFlight
    BY NoneAssumption DEF Init, SingleFlight, NoFlight
<1>2. \A f \in Flight : Chained(f) = {}
    BY DEF Init, Chained
<1>3. ChainedMeant /\ IntendedSession
    BY <1>2 DEF Init, ChainedMeant, IntendedSession
<1>. QED
    BY <1>1, <1>3, InitPanelType DEF PanelInv

\* Every variable keeps to its type, for any sessions, texts and sockets.
THEOREM PanelTypeOK == Spec => []TypeOK
BY InitPanel, IntendedStep, PTL DEF Spec, PanelInv

\* A burst of clicks makes one session at a time.
THEOREM PanelSingleFlight == Spec => []SingleFlight
BY InitPanel, IntendedStep, PTL DEF Spec, PanelInv

\* A text goes to the session it was meant for.
THEOREM PanelIntendedSession == Spec => []IntendedSession
BY InitPanel, IntendedStep, PTL DEF Spec, PanelInv

----------------------------------------------------------------------------
\* The end of a streaming bubble

Ends(fr, t) == fr.type \in LastFrames /\ fr.text = t
Served(t) == serving # "idle" /\ Asked = t

\* A turn is served for the text at the head of the queue, and only over an
\* open socket; a bubble is not of a socket to come; and a delta on its way has
\* its last frame behind it, or its turn is still being served.
FlowInv ==
    /\ serving # "idle" => HeadSend
    /\ ready # "open" => queue = <<>> /\ frames = <<>> /\ serving = "idle"
    /\ \A b \in streaming : /\ b.over <= socket
                            /\ ready = "connecting" => b.over < socket
    /\ \A i \in 1..Len(frames) : frames[i].type = "delta" =>
          \/ Served(frames[i].text)
          \/ \E j \in (i + 1)..Len(frames) : Ends(frames[j], frames[i].text)

Flow == FlowInv /\ StreamHasEnd

\* No step takes the last frame away from the deltas before it.
LEMMA FlowStep == TypeOK /\ Flow /\ [Next]_vars => Flow'
<1>. SUFFICES ASSUME TypeOK, Flow, [Next]_vars PROVE Flow'
    OBVIOUS
<1>. FlowInv /\ StreamHasEnd /\ ServerT /\ WireT /\ ViewT /\ CreationT /\ GhostT
    BY TypeParts DEF Flow
<1>0. /\ Len(frames) \in Nat /\ socket \in Nat /\ \A b \in streaming : b.over \in Nat
      /\ frames \in Seq(ServerFrame) /\ queue \in Seq(ClientFrame)
    BY LenProperties, SocketsAssumption DEF WireT, ViewT, ServerT
\* The queue grows behind its head.
<1>1. ASSUME UNCHANGED <<serving, wire>>, streaming' \in {streaming, {}},
             ready # "open" => UNCHANGED queue,
             queue # <<>> => queue' # <<>> /\ Head(queue') = Head(queue)
      PROVE  Flow'
    <2>1. serving # "idle" => HeadSend' /\ Asked' = Asked
        BY <1>1 DEF FlowInv, HeadSend, Asked
    <2>2. \A t : Served(t) => Served(t)'
        BY <1>1, <2>1 DEF Served
    <2>3. FlowInv'
        BY <1>1, <2>1, <2>2 DEF FlowInv, wire
    <2>4. StreamHasEnd'
        BY <1>1, <2>1 DEF StreamHasEnd, wire
    <2>. QED
        BY <2>3, <2>4 DEF Flow
\* Nothing here changes.
<1>2. ASSUME UNCHANGED <<queue, serving, wire, streaming>> PROVE Flow'
    BY <1>1, <1>2
\* Another socket.
<1>3. ASSUME Disconnected, UNCHANGED streaming,
             Reopen \/ (socket' = socket /\ ready' = "closed")
      PROVE  Flow'
    <2>1. Len(frames') = 0 /\ serving' = "idle" /\ ready' # "open"
        BY <1>3 DEF Disconnected, Reopen
    <2>2. \A b \in streaming' : /\ b.over <= socket'
                                /\ ready' = "connecting" => b.over < socket'
        BY <1>0, <1>3 DEF FlowInv, Reopen
    <2>. QED
        BY <1>3, <2>1, <2>2 DEF Flow, FlowInv, StreamHasEnd, Disconnected
\* A frame is taken: what was behind it is left.
<1>4. ASSUME NEW type, Take(type), UNCHANGED <<queue, serving, socket, ready>>
      PROVE  /\ ready = "open" /\ frames # <<>> /\ type = frames[1].type
             /\ Len(frames) > 0 /\ Len(frames') = Len(frames) - 1
             /\ Head(frames) = frames[1]
             /\ \A i \in 1..Len(frames') : frames'[i] = frames[i + 1]
             /\ Asked' = Asked
    BY <1>0, <1>4, SeqSteps DEF Take, Asked
<1>5. ASSUME NEW type, Take(type), UNCHANGED <<queue, serving, socket, ready>>,
             \A b \in streaming' : b.over <= socket
      PROVE  FlowInv'
    <2>1. ASSUME NEW i \in 1..Len(frames'), frames'[i].type = "delta"
          PROVE  \/ serving' # "idle" /\ Asked' = frames'[i].text
                 \/ \E j \in (i + 1)..Len(frames') : Ends(frames'[j], frames'[i].text)
        <3>. DEFINE t == frames'[i].text
        <3>1. /\ i + 1 \in 1..Len(frames) /\ frames[i + 1].type = "delta"
              /\ frames[i + 1].text = t
            BY <1>0, <1>4, <1>5, <2>1
        <3>2. CASE Served(t)
            BY <1>4, <1>5, <3>2 DEF Served
        <3>3. ASSUME NEW j \in (i + 2)..Len(frames), Ends(frames[j], t)
              PROVE  \E k \in (i + 1)..Len(frames') : Ends(frames'[k], t)
            <4>1. /\ j - 1 \in (i + 1)..Len(frames') /\ j - 1 \in 1..Len(frames')
                  /\ (j - 1) + 1 = j
                BY <1>0, <1>4, <1>5, <3>3
            <4>2. frames'[j - 1] = frames[j]
                BY <1>4, <1>5, <4>1
            <4>. QED
                BY <3>3, <4>1, <4>2
        <3>4. Served(t) \/ \E j \in ((i + 1) + 1)..Len(frames) : Ends(frames[j], t)
            BY <3>1 DEF FlowInv
        <3>5. (i + 1) + 1 = i + 2
            OBVIOUS
        <3>. QED
            BY <3>2, <3>3, <3>4, <3>5
    <2>2. /\ serving' # "idle" => HeadSend'
          /\ ready' = "open"
        BY <1>4, <1>5 DEF FlowInv, HeadSend
    <2>. QED
        BY <1>5, <2>1, <2>2 DEF FlowInv, Served
\* One that ends nothing: a bubble whose end is on its way keeps it.
<1>6. ASSUME NEW type, type \notin LastFrames, Take(type),
             UNCHANGED <<queue, serving, socket, ready>>,
             NEW t, NEW i \in 1..Len(frames), Ends(frames[i], t)
      PROVE  \E k \in 1..Len(frames') : Ends(frames'[k], t)
    <2>1. i # 1
        BY <1>4, <1>6 DEF Ends
    <2>2. i - 1 \in 1..Len(frames') /\ (i - 1) + 1 = i
        BY <1>0, <1>4, <1>6, <2>1
    <2>3. frames'[i - 1] = frames[i]
        BY <1>4, <1>6, <2>2
    <2>. QED
        BY <1>6, <2>2, <2>3
<1>7. CASE OnDelta
    <2>1. /\ Take("delta") /\ UNCHANGED <<queue, serving, socket, ready>>
          /\ streaming' = streaming \cup {[text |-> Head(frames).text, over |-> socket]}
        BY <1>7 DEF OnDelta, server
    <2>2. FlowInv'
        BY <1>0, <1>5, <2>1 DEF FlowInv
    <2>3. ASSUME NEW b \in streaming', b.over = socket
          PROVE  \/ Served(b.text)
                 \/ \E k \in 1..Len(frames') : Ends(frames'[k], b.text)
        <3>1. "delta" \notin LastFrames
            BY DEF LastFrames
        <3>2. Served(b.text) \/ \E i \in 1..Len(frames) : Ends(frames[i], b.text)
            <4>1. CASE b \in streaming
                BY <1>4, <2>1, <2>3, <4>1 DEF StreamHasEnd, Served, Ends
            <4>2. CASE b = [text |-> Head(frames).text, over |-> socket]
                <5>1. /\ 1 \in 1..Len(frames) /\ frames[1].type = "delta"
                      /\ frames[1].text = b.text
                    BY <1>0, <1>4, <2>1, <4>2
                <5>2. \/ Served(b.text)
                      \/ \E j \in (1 + 1)..Len(frames) : Ends(frames[j], b.text)
                    BY <5>1 DEF FlowInv
                <5>. QED
                    BY <1>0, <5>2
            <4>. QED
                BY <2>1, <2>3, <4>1, <4>2
        <3>. QED
            BY <1>6, <2>1, <3>1, <3>2
    <2>4. StreamHasEnd'
        BY <1>4, <2>1, <2>3 DEF StreamHasEnd, Served, Ends
    <2>. QED
        BY <2>2, <2>4 DEF Flow
<1>8. CASE OnDone \/ OnError
    <2>1. /\ Take("done") \/ Take("error")
          /\ streaming' = {} /\ UNCHANGED <<queue, serving, socket, ready>>
        BY <1>8 DEF OnDone, OnError, server
    <2>2. FlowInv'
        BY <1>5, <2>1
    <2>. QED
        BY <2>1, <2>2 DEF Flow, StreamHasEnd
<1>9. CASE OnOther
    <2>1. PICK type \in {"tool_call", "cancelled", "noop"} : Take(type)
        BY <1>9 DEF OnOther
    <2>2. UNCHANGED <<queue, serving, socket, ready, streaming>>
        BY <1>9 DEF OnOther, server
    <2>3. FlowInv'
        BY <1>5, <2>1, <2>2 DEF FlowInv
    <2>4. ASSUME NEW b \in streaming, b.over = socket
          PROVE  \/ Served(b.text)
                 \/ \E k \in 1..Len(frames') : Ends(frames'[k], b.text)
        <3>1. type \notin LastFrames
            BY DEF LastFrames
        <3>2. Served(b.text) \/ \E i \in 1..Len(frames) : Ends(frames[i], b.text)
            BY <1>4, <2>1, <2>2, <2>4 DEF StreamHasEnd, Served, Ends
        <3>. QED
            BY <1>6, <2>1, <2>2, <3>1, <3>2
    <2>5. StreamHasEnd'
        BY <1>4, <2>1, <2>2, <2>4 DEF StreamHasEnd, Served, Ends
    <2>. QED
        BY <2>3, <2>5 DEF Flow
\* A frame is sent behind the others.
<1>10. ASSUME NEW fr \in ServerFrame, Emit(<<fr>>)
       PROVE  /\ ready = "open" /\ Len(frames') = Len(frames) + 1
              /\ \A i \in 1..Len(frames) : frames'[i] = frames[i]
              /\ frames'[Len(frames) + 1] = fr
    <2>1. frames' = Append(frames, fr)
        BY <1>0, <1>10, SeqSteps DEF Emit
    <2>. QED
        BY <1>0, <1>10, <2>1, SeqSteps DEF Emit
<1>11. ASSUME NEW fr \in ServerFrame, Emit(<<fr>>), UNCHANGED <<socket, ready, streaming>>,
              serving' # "idle" => HeadSend',
              fr.type = "delta" => Served(fr.text)',
              \A t : Served(t) => Served(t)' \/ Ends(fr, t)
       PROVE  Flow'
    <2>1. ASSUME NEW t, Served(t)
          PROVE  (serving' # "idle" /\ Asked' = t) \/ Ends(frames'[Len(frames) + 1], t)
        BY <1>10, <1>11, <2>1 DEF Served
    <2>2. ASSUME NEW i \in 1..Len(frames'), frames'[i].type = "delta"
          PROVE  \/ serving' # "idle" /\ Asked' = frames'[i].text
                 \/ \E j \in (i + 1)..Len(frames') : Ends(frames'[j], frames'[i].text)
        <3>1. CASE i = Len(frames) + 1
            BY <1>10, <1>11, <2>2, <3>1 DEF Served
        <3>2. CASE i \in 1..Len(frames)
            <4>. DEFINE t == frames[i].text
            <4>1. frames'[i] = frames[i] /\ frames[i].type = "delta"
                BY <1>10, <1>11, <2>2, <3>2
            <4>2. Served(t) \/ \E j \in (i + 1)..Len(frames) : Ends(frames[j], t)
                BY <3>2, <4>1 DEF FlowInv
            <4>3. CASE Served(t)
                <5>1. Len(frames) + 1 \in (i + 1)..Len(frames')
                    BY <1>0, <1>10, <1>11, <3>2
                <5>. QED
                    BY <2>1, <4>1, <4>3, <5>1
            <4>4. ASSUME NEW j \in (i + 1)..Len(frames), Ends(frames[j], t)
                  PROVE  \E k \in (i + 1)..Len(frames') : Ends(frames'[k], t)
                <5>1. j \in (i + 1)..Len(frames') /\ j \in 1..Len(frames)
                    BY <1>0, <1>10, <1>11, <3>2, <4>4
                <5>2. frames'[j] = frames[j]
                    BY <1>10, <1>11, <5>1
                <5>. QED
                    BY <4>4, <5>1, <5>2
            <4>. QED
                BY <4>1, <4>2, <4>3, <4>4
        <3>. QED
            BY <1>0, <1>10, <1>11, <3>1, <3>2
    <2>3. FlowInv'
        BY <1>10, <1>11, <2>2 DEF FlowInv, Served
    <2>4. ASSUME NEW b \in streaming, b.over = socket
          PROVE  \/ serving' # "idle" /\ Asked' = b.text
                 \/ \E k \in 1..Len(frames') : Ends(frames'[k], b.text)
        <3>1. Served(b.text) \/ \E i \in 1..Len(frames) : Ends(frames[i], b.text)
            BY <1>10, <1>11, <2>4 DEF StreamHasEnd, Served, Ends
        <3>2. Len(frames) + 1 \in 1..Len(frames')
              /\ \A i \in 1..Len(frames) : i \in 1..Len(frames')
            BY <1>0, <1>10, <1>11
        <3>. QED
            BY <1>10, <1>11, <2>1, <3>1, <3>2
    <2>5. StreamHasEnd'
        BY <1>11, <2>4 DEF StreamHasEnd, Served, Ends
    <2>. QED
        BY <2>3, <2>5 DEF Flow
<1>12. HeadSend => Asked \in Text /\ queue # <<>>
    BY <1>0, SeqSteps, FrameTypes DEF HeadSend, Asked
\* The server
<1>13. CASE BeginTurn
    <2>1. /\ HeadSend /\ serving = "idle" /\ serving' # "idle"
          /\ UNCHANGED <<queue, wire, streaming>>
        BY <1>13 DEF BeginTurn, panel
    <2>2. HeadSend' /\ ready = "open"
        BY <1>12, <2>1 DEF HeadSend, FlowInv
    <2>3. ~\E t : Served(t)
        BY <2>1 DEF Served
    <2>4. FlowInv'
        BY <2>1, <2>2, <2>3 DEF FlowInv, wire
    <2>5. StreamHasEnd'
        BY <2>1, <2>2 DEF StreamHasEnd, wire
    <2>. QED
        BY <2>4, <2>5 DEF Flow
<1>14. CASE Chunk
    <2>1. PICK type \in {"delta", "tool_call"} : Emit(<<Frame(type, Asked)>>)
        BY <1>14 DEF Chunk
    <2>2. /\ HeadSend /\ serving # "idle" /\ serving' # "idle"
          /\ UNCHANGED <<queue, socket, ready, streaming>>
        BY <1>14 DEF Chunk, panel
    <2>3. /\ HeadSend' /\ Asked' = Asked /\ Frame(type, Asked).text = Asked
          /\ Frame(type, Asked) \in ServerFrame
        BY <1>12, <2>2, FrameTypes DEF HeadSend, Asked, Frame
    <2>4. \A t : Served(t)' <=> t = Asked
        BY <2>2, <2>3 DEF Served
    <2>5. \A t : Served(t) => t = Asked
        BY DEF Served
    <2>. QED
        BY <1>11, <2>1, <2>2, <2>3, <2>4, <2>5
<1>15. CASE EndTurn \/ FailTurn
    <2>1. PICK type \in LastFrames : Emit(<<Frame(type, Asked)>>)
        BY <1>15 DEF EndTurn, FailTurn, LastFrames
    <2>2. HeadSend /\ serving' = "idle" /\ UNCHANGED <<socket, ready, streaming>>
        BY <1>15 DEF EndTurn, FailTurn, panel
    <2>3. /\ Frame(type, Asked) \in ServerFrame /\ Frame(type, Asked).type = type
          /\ Frame(type, Asked).text = Asked /\ type # "delta"
        BY <1>12, <2>2, FrameTypes DEF Frame, LastFrames
    <2>4. \A t : Served(t) => Ends(Frame(type, Asked), t)
        BY <2>3 DEF Served, Ends
    <2>. QED
        BY <1>11, <2>1, <2>2, <2>3, <2>4
<1>16. CASE ReadCancel
    <2>1. PICK type \in {"noop", "cancelled"} : Emit(<<Frame(type, None)>>)
        BY <1>16 DEF ReadCancel
    <2>2. /\ serving = "idle" /\ serving' = "idle"
          /\ UNCHANGED <<socket, ready, streaming>>
        BY <1>16 DEF ReadCancel, panel
    <2>3. Frame(type, None) \in ServerFrame /\ Frame(type, None).type # "delta"
        BY FrameTypes DEF Frame
    <2>4. \A t : ~Served(t)
        BY <2>2 DEF Served
    <2>. QED
        BY <1>11, <2>1, <2>2, <2>3, <2>4
\* The socket
<1>17. CASE SocketOpens
    <2>1. /\ ready = "connecting" /\ ready' = "open"
          /\ UNCHANGED <<queue, serving, socket, frames, streaming>>
        BY <1>17 DEF SocketOpens, server
    <2>2. \A b \in streaming : b.over # socket /\ b.over <= socket
        BY <1>0, <2>1 DEF FlowInv
    <2>3. frames = <<>> /\ Len(frames) = 0 /\ serving = "idle"
        BY <2>1 DEF FlowInv
    <2>. QED
        BY <2>1, <2>2, <2>3 DEF Flow, FlowInv, StreamHasEnd
<1>18. CASE SocketCloses
    BY <1>3, <1>18 DEF SocketCloses
<1>19. ASSUME NEW s, SetActiveId(s), UNCHANGED streaming PROVE Flow'
    <2>1. CASE s = activeId
        BY <1>2, <1>19, <2>1 DEF SetActiveId
    <2>2. CASE s # activeId
        <3>1. Reopen /\ Disconnected
            BY <1>19, <2>2 DEF SetActiveId, Reopen
        <3>. QED
            BY <1>3, <1>19, <3>1
    <2>. QED
        BY <2>1, <2>2
\* The user and the answers
<1>20. CASE Search
    <2>1. Reopen /\ Disconnected /\ UNCHANGED streaming
        BY <1>20 DEF Search, Reopen
    <2>. QED
        BY <1>3, <2>1
<1>21. ASSUME NEW s, SelectSession(s) PROVE Flow'
    BY <1>19, <1>21 DEF SelectSession
<1>22. CASE RemoveAnswered
    BY <1>2, <1>19, <1>22 DEF RemoveAnswered
<1>23. ASSUME NEW f, Created(f) PROVE Flow'
    BY <1>19, <1>23 DEF Created
<1>24. ASSUME NEW s \in Session \cup {None}, NEW texts \in Seq(Text), DispatchSend(s, texts),
              UNCHANGED <<serving, wire, streaming>>
       PROVE  Flow'
    BY <1>0, <1>1, <1>24, DispatchTypes DEF GhostT
<1>25. activeId \in Session \cup {None}
    BY DEF ViewT, ServerT
<1>26. \A t \in Text : <<t>> \in Seq(Text)
    OBVIOUS
<1>27. ASSUME NEW t \in Text, TypeAndSend(t) PROVE Flow'
    BY <1>24, <1>25, <1>26, <1>27 DEF TypeAndSend
<1>28. ASSUME NEW t \in Text, PickSuggestion(t) PROVE Flow'
    <2>1. UNCHANGED <<serving, wire, streaming>>
          /\ (UNCHANGED queue \/ DispatchSend(activeId, <<t>>))
        BY <1>28 DEF PickSuggestion
    <2>. QED
        BY <1>2, <1>24, <1>25, <1>26, <2>1
<1>29. ASSUME NEW f \in Flight, Resolved(f) PROVE Flow'
    <2>1. flights[f].made \in Session \cup {None} /\ waiting[f] \in Seq(Text)
        BY DEF CreationT
    <2>. QED
        BY <1>24, <1>29, <2>1 DEF Resolved
<1>30. CASE StopStreaming
    <2>1. \/ ready = "open" /\ queue' = Append(queue, Cancel) /\ UNCHANGED streaming
          \/ streaming' = {} /\ UNCHANGED queue
        BY <1>30 DEF StopStreaming
    <2>2. UNCHANGED <<serving, wire>>
        BY <1>30 DEF StopStreaming
    <2>3. queue # <<>> => /\ Append(queue, Cancel) # <<>>
                          /\ Head(Append(queue, Cancel)) = Head(queue)
        <3>1. /\ Append(queue, Cancel) \in Seq(ClientFrame)
              /\ Len(Append(queue, Cancel)) = Len(queue) + 1 /\ Len(queue) \in Nat
              /\ \A i \in 1..Len(queue) : Append(queue, Cancel)[i] = queue[i]
            BY <1>0, FrameTypes, SeqSteps
        <3>2. Len(Append(queue, Cancel)) > 0
            BY <3>1
        <3>3. Append(queue, Cancel) # <<>>
            BY <3>2, EmptySeq
        <3>4. Head(Append(queue, Cancel)) = Append(queue, Cancel)[1]
            BY <3>1, <3>3, SeqSteps
        <3>5. queue # <<>> => 1 \in 1..Len(queue) /\ Head(queue) = queue[1]
            BY <1>0, <3>1, SeqSteps
        <3>. QED
            BY <3>1, <3>3, <3>4, <3>5
    <2>. QED
        BY <1>1, <2>1, <2>2, <2>3
<1>31. ASSUME NEW s, ClickRemove(s) \/ BranchChanged(s) PROVE Flow'
    BY <1>2, <1>31 DEF ClickRemove, BranchChanged, server
<1>32. CASE PickModel \/ ClickNewChat
    BY <1>2, <1>32 DEF PickModel, ClickNewChat, server
<1>33. ASSUME NEW i, LoadAnswered(i) PROVE Flow'
    BY <1>2, <1>33 DEF LoadAnswered, server
<1>34. ASSUME NEW f, NotCreated(f) PROVE Flow'
    BY <1>2, <1>34 DEF NotCreated, server
<1>35. CASE UNCHANGED vars
    BY <1>2, <1>35 DEF vars, server
<1>. QED
    BY <1>7, <1>8, <1>9, <1>13, <1>14, <1>15, <1>16, <1>17, <1>18, <1>20, <1>21, <1>22,
       <1>23, <1>27, <1>28, <1>29, <1>30, <1>31, <1>32, <1>33, <1>34, <1>35
    DEF Next, User, Answer, Socket, Server

\* A bubble streaming over the current socket has an end.
THEOREM PanelStreamHasEnd == Spec => []StreamHasEnd
<1>1. Init => Flow
    BY DEF Init, Flow, FlowInv, StreamHasEnd
<1>. QED
    BY <1>1, InitPanel, IntendedStep, FlowStep, PTL DEF Spec, PanelInv, Flow

=============================================================================
