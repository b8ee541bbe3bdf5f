------------------------- MODULE TurnProtocolProofs -------------------------
(***************************************************************************)
(* The /ws/chat handler implements TurnProtocol for each of its clients:   *)
(* ChatStream's initial states are initial states of the protocol, and     *)
(* each of its steps, of whichever handler or client, is a step of the     *)
(* protocol or a stutter.                                                  *)
(*                                                                         *)
(* What makes it so is Agrees, which ties the place of a handler to the    *)
(* frames it has sent.  The steps are sorted by what one socket sees of    *)
(* them; a socket sees nothing of most steps (Quiet).                      *)
(*                                                                         *)
(* Two sections follow on what a turn has taken from its script when it    *)
(* ends: the reply it stores against the frames it has sent, and the       *)
(* tokens it is billed against the usage the provider reported.            *)
(***************************************************************************)
EXTENDS ChatStreamProofs

LastFrames == {"done", "error"}
Over(d) == out[d] # <<>> /\ out[d][Len(out[d])] \in LastFrames

\* No last frame before the handler closes the turn, one when it does, unless
\* the client is gone.
Agrees(d) ==
    /\ pc[d] = "start" => out[d] \in {<<>>, <<"notice">>}
    /\ pc[d] \in {"next", "yield", "sending"} => ~Over(d)
    /\ pc[d] = "closing" => Over(d) \/ ~open[d]

Agree == \A d \in Conns : Agrees(d)

Keeps(d) == Agrees(d)' /\ [Protocol(d)!Next]_(Protocol(d)!vars)

Quiet(d) == UNCHANGED <<pc[d], out[d], open[d]>>
\* The socket's own handler goes from one place to another.
Goes(d, from, to) == pc[d] \in from /\ pc'[d] \in to /\ open'[d] = open[d]

\* Most steps are not seen.
LEMMA QuietKeeps ==
    ASSUME NEW d \in Conns, Agrees(d), Quiet(d)
    PROVE  Keeps(d)
BY DEF Agrees, Over, Quiet, Keeps, Protocol!vars, InTurn

\* The handler gets on without a frame.
LEMMA SilentKeeps ==
    ASSUME NEW d \in Conns, Agrees(d), out'[d] = out[d],
           \/ Goes(d, Loop \cup {"start"}, Loop)
           \/ Goes(d, {"idle"}, {"idle"})
           \/ ~open[d] /\ Goes(d, {"sending", "yield"}, {"closing"})
    PROVE  Keeps(d)
<1>1. pc[d] = "start" => ~Over(d)
    BY DEF Agrees, Over, LastFrames
<1>. QED
    BY <1>1 DEF Agrees, Over, Goes, Loop, Keeps, Protocol!vars, InTurn

\* The handler is gone, from whatever place.
LEMMA GoneKeeps ==
    ASSUME NEW d \in Conns, out'[d] = out[d], pc'[d] = "dead"
    PROVE  Keeps(d)
BY DEF Agrees, Keeps, Protocol!vars, Protocol!Next, Protocol!Lose,
       Protocol!Release, InTurn

----------------------------------------------------------------------------
\* Frames that are sent are the end of what was sent.
LEMMA LastOfConcat ==
    ASSUME NEW S, NEW s \in Seq(S), NEW t \in Seq(S), t # <<>>
    PROVE  s \o t # <<>> /\ (s \o t)[Len(s \o t)] = t[Len(t)]
<1>1. Len(s) \in Nat /\ Len(t) \in Nat /\ Len(t) > 0
    OBVIOUS
<1>2. Len(s \o t) = Len(s) + Len(t)
    OBVIOUS
<1>. QED
    BY <1>1, <1>2

\* One frame and two more.
LEMMA OneAndTwo ==
    ASSUME NEW S, NEW a \in S, NEW b \in S, NEW c \in S
    PROVE  <<a>> \o <<b, c>> = <<a, b, c>>
<1>1. <<a>> \o <<b, c>> \in Seq(S) /\ <<a, b, c>> \in Seq(S)
    OBVIOUS
<1>2. Len(<<a>> \o <<b, c>>) = 3
    OBVIOUS
<1>3. \A i \in 1..3 : (<<a>> \o <<b, c>>)[i] = <<a, b, c>>[i]
    OBVIOUS
<1>. QED
    BY <1>1, <1>2, <1>3, SeqEqual

\* A last frame, if the client is there to get it; the turn may be over with
\* it, and a handler that cannot send it is closing or gone.
LEMMA EndKeeps ==
    ASSUME WireOK, NEW d \in Conns, Agrees(d), NEW f \in LastFrames, Say(d, <<f>>),
           \/ Goes(d, Loop, {"closing"})
           \/ Goes(d, {"start"}, {AfterSend(d, "idle")})
    PROVE  Keeps(d)
<1>1. ~Over(d)
    BY DEF Agrees, Over, LastFrames, Goes, Loop
<1>2. CASE open[d]
    <2>1. out[d] \in Seq(Kinds) /\ <<f>> \in Seq(Kinds) /\ out'[d] = out[d] \o <<f>>
        BY <1>2 DEF WireOK, Kinds, LastFrames, Say
    <2>2. out'[d] = Append(out[d], f) /\ Over(d)'
        BY <2>1, LastOfConcat DEF Over
    <2>3. Agrees(d)'
        BY <1>2, <2>2 DEF Agrees, Goes, AfterSend
    <2>4. Protocol(d)!End
        BY <1>1, <2>2 DEF Protocol!End, Protocol!Ended, Protocol!LastFrames, Over,
                          LastFrames, Goes, Loop, InTurn
    <2>. QED
        BY <2>3, <2>4 DEF Keeps, Protocol!Next
<1>3. CASE ~open[d]
    <2>1. out'[d] = out[d]
        BY <1>3 DEF Say, WireOK
    <2>2. CASE Goes(d, Loop, {"closing"})
        BY <1>3, <2>1, <2>2 DEF Agrees, Goes, Loop, Keeps, Protocol!vars, InTurn
    <2>3. CASE Goes(d, {"start"}, {AfterSend(d, "idle")})
        BY <1>3, <2>1, <2>3, GoneKeeps DEF Goes, AfterSend
    <2>. QED
        BY <2>2, <2>3
<1>. QED
    BY <1>2, <1>3

\* The frames of a chunk that says something.
LEMMA ContentKeeps ==
    ASSUME WireOK, NEW d \in Conns, Agrees(d), open[d],
           Goes(d, Loop, {"sending"}),
           NEW chunk \in Chunk, Speaks(chunk), Say(d, WsFrames(chunk))
    PROVE  Keeps(d)
<1>. DEFINE fs == WsFrames(chunk)
<1>1. fs \in {<<"delta">>, <<"tool_call", "tool_call">>,
              <<"delta", "tool_call", "tool_call">>}
    <2>1. CASE chunk.delta /\ chunk.tools
        <3>1. fs = <<"delta">> \o <<"tool_call", "tool_call">>
            BY <2>1 DEF WsFrames
        <3>2. "delta" \in Kinds /\ "tool_call" \in Kinds
            BY DEF Kinds
        <3>3. <<"delta">> \o <<"tool_call", "tool_call">>
                = <<"delta", "tool_call", "tool_call">>
            BY <3>2, OneAndTwo
        <3>. QED
            BY <3>1, <3>3
    <2>2. CASE chunk.delta /\ ~chunk.tools
        <3>1. fs = <<"delta">> \o <<>>
            BY <2>2 DEF WsFrames
        <3>. QED
            BY <3>1
    <2>3. CASE ~chunk.delta /\ chunk.tools
        <3>1. fs = <<>> \o <<"tool_call", "tool_call">>
            BY <2>3 DEF WsFrames
        <3>. QED
            BY <3>1
    <2>. QED
        BY <2>1, <2>2, <2>3 DEF Speaks
<1>2. fs \in Seq(Kinds) /\ fs # <<>> /\ fs[Len(fs)] \notin LastFrames
    <2>1. CASE fs = <<"delta">>
        BY <2>1 DEF Kinds, LastFrames
    <2>2. CASE fs = <<"tool_call", "tool_call">>
        BY <2>2 DEF Kinds, LastFrames
    <2>3. CASE fs = <<"delta", "tool_call", "tool_call">>
        BY <2>3 DEF Kinds, LastFrames
    <2>. QED
        BY <1>1, <2>1, <2>2, <2>3
<1>3. out[d] \in Seq(Kinds) /\ out'[d] = out[d] \o fs
    BY DEF WireOK, Say
<1>. HIDE DEF fs
<1>4. ~Over(d)'
    BY <1>2, <1>3, LastOfConcat DEF Over
<1>5. Protocol(d)!Content
    BY <1>1, <1>3 DEF Protocol!Content, Protocol!Ended, Protocol!LastFrames, Over,
                      Agrees, LastFrames, Goes, Loop, InTurn
<1>. QED
    BY <1>4, <1>5 DEF Agrees, Goes, Keeps, Protocol!Next

\* The turn is closed after its last frame.
LEMMA CloseKeeps ==
    ASSUME NEW d \in Conns, Agrees(d), out'[d] = out[d],
           Goes(d, {"closing"}, {AfterSend(d, "idle")})
    PROVE  Keeps(d)
<1>1. CASE open[d]
    BY <1>1 DEF Agrees, Over, LastFrames, Goes, AfterSend, Keeps, Protocol!Next,
                Protocol!Release, Protocol!Ended, Protocol!LastFrames, InTurn
<1>2. CASE ~open[d]
    BY <1>2, GoneKeeps DEF Goes, AfterSend
<1>. QED
    BY <1>1, <1>2

\* A chat.send is received.
LEMMA ReceiveKeeps ==
    ASSUME WireOK, TurnsOK, NEW d \in Conns, ReceiveSend(d)
    PROVE  Keeps(d)
<1>1. /\ pc[d] = "idle" /\ open'[d] = open[d]
      /\ out'[d] \in {<<>>, <<"notice">>}
      /\ pc'[d] = "start" \/ pc'[d] = "dead"
    BY DEF ReceiveSend, AfterSend, WireOK, TurnsOK, Handlers
<1>2. Protocol(d)!Begin
    BY <1>1 DEF Protocol!Begin, InTurn
<1>. QED
    BY <1>1, <1>2 DEF Agrees, Keeps, Protocol!Next

\* The connection is lost, or made anew.
LEMMA ConnectionKeeps ==
    ASSUME WireOK, TurnsOK, NEW d \in Conns, Agrees(d), Disconnect(d) \/ Reconnect(d)
    PROVE  Keeps(d)
<1>1. CASE Disconnect(d)
    <2>1. pc'[d] = pc[d] /\ out'[d] = out[d] /\ ~open'[d]
        BY <1>1 DEF Disconnect, WireOK
    <2>. QED
        BY <2>1 DEF Agrees, Over, Keeps, Protocol!Next, Protocol!Lose, InTurn
<1>2. CASE Reconnect(d)
    <2>1. pc[d] = "dead" /\ pc'[d] = "idle" /\ out'[d] = <<>>
        BY <1>2 DEF Reconnect, WireOK, TurnsOK, Handlers
    <2>. QED
        BY <2>1 DEF Agrees, Keeps, Protocol!Next, Protocol!Lose, InTurn
<1>. QED
    BY <1>1, <1>2

----------------------------------------------------------------------------
\* What one handler does is not seen on the other sockets.
LEMMA OthersQuiet ==
    ASSUME WireOK, TurnsOK, NEW c \in Conns, NEW d \in Conns, d # c, WsStep(c)
    PROVE  Quiet(d)
<1>. DEFINE Local ==
        /\ UNCHANGED open
        /\ pc' = [pc EXCEPT ![c] = pc'[c]]
        /\ out' = out \/ out' = [out EXCEPT ![c] = out'[c]]
<1>0. /\ pc \in [Handlers -> Places] /\ c \in Handlers
      /\ out \in [Conns -> Seq(Kinds)]
    BY DEF WireOK, TurnsOK, Handlers
<1>1. \A place : pc' = [pc EXCEPT ![c] = place] => pc' = [pc EXCEPT ![c] = pc'[c]]
    BY <1>0
<1>2. \A fs : out' = [out EXCEPT ![c] = fs] => out' = [out EXCEPT ![c] = out'[c]]
    BY <1>0
<1>3. \A fs : Say(c, fs) => out' = [out EXCEPT ![c] = out'[c]]
    BY <1>2 DEF Say
<1>4. ASSUME NEW t, WsComplete(c, t) PROVE Local
    BY <1>1, <1>3, <1>4 DEF WsComplete, wire
<1>5. ASSUME NEW t, NEW chunk, WsContinue(c, t, chunk) PROVE Local
    BY <1>1, <1>4, <1>5 DEF WsContinue, wire
<1>6. ASSUME ReceiveSend(c) PROVE Local
    BY <1>1, <1>2, <1>6 DEF ReceiveSend
<1>7. ASSUME ReceiveCancel(c) \/ WsLeave(c) PROVE Local
    BY <1>1, <1>7 DEF ReceiveCancel, WsLeave, wire
<1>8. ASSUME WsUnknownSession(c) PROVE Local
    BY <1>1, <1>3, <1>8 DEF WsUnknownSession, wire
<1>9. ASSUME WsStart(c) PROVE Local
    BY <1>1, <1>3, <1>9 DEF WsStart, BeginTurn, RefuseTurn
<1>10. ASSUME WsChunk(c) \/ WsSendFails(c) \/ WsClose(c) \/ WsTimerKills(c)
       PROVE  Local
    BY <1>1, <1>10 DEF WsChunk, WsSendFails, WsClose, WsTimerKills, wire
<1>11. ASSUME WsExhausted(c) \/ WsCancelled(c) PROVE Local
    BY <1>4, <1>11 DEF WsExhausted, WsCancelled
<1>12. ASSUME WsProviderFails(c) \/ WsDeliver(c) PROVE Local
    BY <1>1, <1>3, <1>12 DEF WsProviderFails, WsDeliver, wire
<1>13. ASSUME WsSilent(c) \/ WsSent(c) PROVE Local
    BY <1>5, <1>13 DEF WsSilent, WsSent
<1>14. Local
    BY <1>6, <1>7, <1>8, <1>9, <1>10, <1>11, <1>12, <1>13 DEF WsStep
<1>. QED
    BY <1>0, <1>14 DEF Quiet, Handlers

\* Where a handler goes, as one socket's two states.
LEMMA Moves ==
    ASSUME WireOK, TurnsOK, NEW d \in Conns, NEW place,
           pc' = [pc EXCEPT ![d] = place], UNCHANGED open
    PROVE  \A from : pc[d] \in from => Goes(d, from, {place})
BY DEF Goes, TurnsOK, WireOK, Handlers

\* A turn that is complete.
LEMMA CompleteKeeps ==
    ASSUME WireOK, TurnsOK, NEW d \in Conns, Agrees(d), pc[d] \in Loop,
           NEW t, WsComplete(d, t)
    PROVE  Keeps(d)
<1>1. /\ Goes(d, Loop, {"closing"})
      /\ \E f \in LastFrames : Say(d, <<f>>)
    BY Moves DEF WsComplete, wire, LastFrames
<1>. QED
    BY <1>1, EndKeeps

\* The loop goes on, or its turn is complete.
LEMMA ContinueKeeps ==
    ASSUME WireOK, TurnsOK, NEW d \in Conns, Agrees(d), pc[d] \in Loop,
           NEW t, NEW chunk, WsContinue(d, t, chunk)
    PROVE  Keeps(d)
<1>1. CASE chunk.finish
    BY <1>1, CompleteKeeps DEF WsContinue
<1>2. CASE ~chunk.finish
    <2>1. Goes(d, Loop, {"next"}) /\ out'[d] = out[d]
        BY <1>2, Moves DEF WsContinue, wire
    <2>. QED
        BY <2>1, SilentKeeps DEF Goes, Loop
<1>. QED
    BY <1>1, <1>2

\* The step of a socket's own handler: one case per action.
LEMMA OwnKeeps ==
    ASSUME MemOK, WireOK, TurnsOK, NEW d \in Conns, Agrees(d), WsStep(d)
    PROVE  Keeps(d)
<1>1. CASE ReceiveSend(d)
    BY <1>1, ReceiveKeeps
<1>2. CASE ReceiveCancel(d)
    <2>1. Goes(d, {"idle"}, {AfterSend(d, "idle")}) /\ out'[d] = out[d]
        BY <1>2, Moves DEF ReceiveCancel
    <2>. QED
        BY <2>1, SilentKeeps, GoneKeeps DEF AfterSend, Goes
<1>3. CASE WsLeave(d)
    <2>1. Goes(d, {"idle"}, {"dead"}) /\ out'[d] = out[d]
        BY <1>3, Moves DEF WsLeave, wire
    <2>. QED
        BY <2>1, GoneKeeps DEF Goes
<1>4. CASE WsUnknownSession(d)
    <2>1. Goes(d, {"start"}, {AfterSend(d, "idle")}) /\ Say(d, <<"error">>)
        BY <1>4, Moves DEF WsUnknownSession, wire
    <2>. QED
        BY <2>1, EndKeeps DEF LastFrames
<1>5. CASE WsStart(d)
    <2>1. CASE BeginTurn(d, turn[d].sid) /\ UNCHANGED out
        <3>1. Goes(d, {"start"}, {"next"}) /\ out'[d] = out[d]
            BY <1>5, <2>1, Moves DEF WsStart, BeginTurn
        <3>. QED
            BY <3>1, SilentKeeps DEF Goes, Loop
    <2>2. CASE /\ RefuseTurn(d, turn[d].sid, AfterSend(d, "idle"))
               /\ Say(d, <<"error">>)
        <3>1. Goes(d, {"start"}, {AfterSend(d, "idle")})
            BY <1>5, <2>2, Moves DEF WsStart, RefuseTurn
        <3>. QED
            BY <2>2, <3>1, EndKeeps DEF LastFrames
    <2>3. CASE RefuseTurn(d, turn[d].sid, "dead") /\ UNCHANGED out
        <3>1. Goes(d, {"start"}, {"dead"}) /\ out'[d] = out[d]
            BY <1>5, <2>3, Moves DEF WsStart, RefuseTurn
        <3>. QED
            BY <3>1, GoneKeeps DEF Goes
    <2>. QED
        BY <1>5, <2>1, <2>2, <2>3 DEF WsStart
<1>6. CASE WsChunk(d)
    <2>1. Goes(d, {"next"}, {"yield"}) /\ out'[d] = out[d]
        BY <1>6, Moves DEF WsChunk, wire
    <2>. QED
        BY <2>1, SilentKeeps DEF Goes, Loop
<1>7. CASE WsExhausted(d) \/ WsCancelled(d)
    BY <1>7, CompleteKeeps DEF WsExhausted, WsCancelled, Loop
<1>8. CASE WsProviderFails(d)
    <2>1. Goes(d, {"next"}, {"closing"}) /\ Say(d, <<"error">>)
        BY <1>8, Moves DEF WsProviderFails, wire
    <2>. QED
        BY <2>1, EndKeeps DEF Goes, Loop, LastFrames
<1>9. CASE WsDeliver(d)
    <2>. DEFINE chunk == turn[d].script[turn[d].at]
    <2>1. chunk \in Chunk /\ Speaks(chunk) /\ Say(d, WsFrames(chunk))
        BY <1>9, HandlersTurn, ChunkTyped DEF WsDeliver, TurnsOK, Handlers
    <2>2. Goes(d, {"yield"}, {IF open[d] THEN "sending" ELSE "closing"})
        BY <1>9, Moves DEF WsDeliver, wire
    <2>. HIDE DEF chunk
    <2>3. CASE open[d]
        BY <2>1, <2>2, <2>3, ContentKeeps DEF Goes, Loop
    <2>4. CASE ~open[d]
        <3>1. out'[d] = out[d]
            BY <2>1, <2>4 DEF Say, WireOK
        <3>. QED
            BY <2>2, <2>4, <3>1, SilentKeeps DEF Goes
    <2>. QED
        BY <2>3, <2>4
<1>10. CASE WsSilent(d) \/ WsSent(d)
    BY <1>10, ContinueKeeps DEF WsSilent, WsSent, Loop
<1>11. CASE WsSendFails(d)
    <2>1. Goes(d, {"sending"}, {"closing"}) /\ out'[d] = out[d] /\ ~open[d]
        BY <1>11, Moves DEF WsSendFails, wire
    <2>. QED
        BY <2>1, SilentKeeps DEF Goes
<1>12. CASE WsClose(d)
    <2>1. Goes(d, {"closing"}, {AfterSend(d, "idle")}) /\ out'[d] = out[d]
        BY <1>12, Moves DEF WsClose, wire
    <2>. QED
        BY <2>1, CloseKeeps
<1>13. CASE WsTimerKills(d)
    <2>1. Goes(d, {"yield", "sending"}, {"dead"}) /\ out'[d] = out[d]
        BY <1>13, Moves DEF WsTimerKills, wire
    <2>. QED
        BY <2>1, GoneKeeps DEF Goes
<1>. QED
    BY <1>1, <1>2, <1>3, <1>4, <1>5, <1>6, <1>7, <1>8, <1>9, <1>10, <1>11,
       <1>12, <1>13 DEF WsStep

\* What the sockets do not see at all: requests, routes, frames not received.
LEMMA RestQuiet ==
    ASSUME WireOK, TurnsOK, NEW d \in Conns,
           \/ \E p \in Posts : HttpStep(p) \/ HttpStart(p)
           \/ \E c \in Conns : ClientSends(c)
           \/ \E c \in Conns \ {d} : Disconnect(c) \/ Reconnect(c)
           \/ \E sid \in DOMAIN mem : Fork(sid) \/ Switch(sid) \/ HardDelete(sid)
           \/ UNCHANGED vars
    PROVE  Quiet(d)
<1>1. ASSUME NEW p \in Posts, NEW place, pc' = [pc EXCEPT ![p] = place]
      PROVE  pc'[d] = pc[d]
    BY <1>1, ClientsAssumption DEF TurnsOK, Handlers
<1>2. ASSUME NEW p \in Posts, HttpStart(p) PROVE Quiet(d)
    BY <1>1, <1>2 DEF HttpStart, BeginTurn, RefuseTurn, Quiet
<1>3. ASSUME NEW p \in Posts, HttpChunk(p) \/ HttpProviderFails(p) PROVE Quiet(d)
    BY <1>1, <1>3 DEF HttpChunk, HttpProviderFails, wire, Quiet
<1>4. ASSUME NEW p \in Posts, HttpExhausted(p) PROVE Quiet(d)
    BY <1>1, <1>4 DEF HttpExhausted, HttpComplete, wire, Quiet
<1>5. ASSUME NEW c \in Conns, ClientSends(c) PROVE Quiet(d)
    BY <1>5 DEF ClientSends, Quiet
<1>6. ASSUME NEW c \in Conns \ {d}, Disconnect(c) PROVE Quiet(d)
    BY <1>6 DEF Disconnect, WireOK, Quiet
<1>7. ASSUME NEW c \in Conns \ {d}, Reconnect(c) PROVE Quiet(d)
    BY <1>7 DEF Reconnect, WireOK, TurnsOK, Handlers, Quiet
<1>8. ASSUME NEW sid, Fork(sid) \/ Switch(sid) \/ HardDelete(sid) PROVE Quiet(d)
    BY <1>8 DEF Fork, Switch, HardDelete, wire, Quiet
<1>9. CASE UNCHANGED vars
    BY <1>9 DEF vars, Quiet
<1>. QED
    BY <1>2, <1>3, <1>4, <1>5, <1>6, <1>7, <1>8, <1>9 DEF HttpStep

\* Every step keeps the protocol on every socket.
LEMMA NextKeepsProtocol ==
    ASSUME IInv, Agree, [Next]_vars
    PROVE  Agree' /\ \A d \in Conns : [Protocol(d)!Next]_(Protocol(d)!vars)
<1>. SUFFICES ASSUME NEW d \in Conns PROVE Keeps(d)
    BY DEF Agree, Keeps
<1>1. MemOK /\ TurnsOK /\ WireOK /\ Agrees(d)
    BY IInvParts DEF Agree
<1>2. CASE WsStep(d)
    BY <1>1, <1>2, OwnKeeps
<1>3. ASSUME NEW c \in Conns \ {d}, WsStep(c) PROVE Keeps(d)
    BY <1>1, <1>3, OthersQuiet, QuietKeeps
<1>4. CASE Disconnect(d) \/ Reconnect(d)
    BY <1>1, <1>4, ConnectionKeeps
<1>5. CASE \/ \E p \in Posts : HttpStep(p) \/ HttpStart(p)
           \/ \E c \in Conns : ClientSends(c)
           \/ \E c \in Conns \ {d} : Disconnect(c) \/ Reconnect(c)
           \/ \E sid \in DOMAIN mem : Fork(sid) \/ Switch(sid) \/ HardDelete(sid)
           \/ UNCHANGED vars
    BY <1>1, <1>5, RestQuiet, QuietKeeps
<1>. QED
    BY <1>2, <1>3, <1>4, <1>5 DEF Next, ClientStep

\* The initial states of the server are initial states of the protocol.
LEMMA InitAgrees == Init => Agree /\ \A d \in Conns : Protocol(d)!Init
BY DEF Init, Agree, Agrees, Handlers, Protocol!Init, InTurn

\* The step refinement: to every client, over however many sockets, requests
\* and sessions, and whatever fails or is deleted meanwhile, the handler keeps
\* the turn protocol: nothing before the turn, nothing after its last frame,
\* and no turn given up on a live connection (service.py:1615-1855).
THEOREM ChatKeepsTurnProtocol == Spec => KeepsTurnProtocol
<1>1. Init => IInv /\ Agree
    BY InitIInv, InitAgrees
<1>2. IInv /\ Agree /\ [Next]_vars => IInv' /\ Agree'
    BY NextKeepsIInv, NextKeepsProtocol
<1>3. Spec => [](IInv /\ Agree)
    BY <1>1, <1>2, PTL DEF Spec
<1>4. IInv /\ Agree /\ [Next]_vars
        => [\A c \in Conns : [Protocol(c)!Next]_(Protocol(c)!vars)]_vars
    BY NextKeepsProtocol
<1>5. Spec => [][\A c \in Conns : [Protocol(c)!Next]_(Protocol(c)!vars)]_vars
    BY <1>3, <1>4, PTL DEF Spec
<1>6. Spec => \A c \in Conns : Protocol(c)!Init
    BY InitAgrees DEF Spec
<1>. QED
    BY <1>5, <1>6 DEF KeepsTurnProtocol

----------------------------------------------------------------------------
\* What a turn has streamed, stored and counted.
Serving == Loop \cup {"closing"}

\* What the others do leaves a socket's turn and frames alone.
LEMMA SocketStep ==
    ASSUME IInv, [Next]_vars, NEW d \in Conns
    PROVE  \/ WsStep(d)
           \/ pc'[d] = pc[d] /\ out'[d] = out[d] /\ turn'[d] = turn[d]
           \/ pc'[d] \notin Serving
<1>1. MemOK /\ TurnsOK /\ WireOK /\ d \in Handlers
    BY IInvParts DEF Handlers
<1>2. ASSUME NEW c \in Conns \ {d}, WsStep(c)
      PROVE  Quiet(d) /\ turn'[d] = turn[d]
    <2>1. OthersStay(c)
        BY <1>1, <1>2, WsStepFlags
        DEF FlagStep, BetweenTurns, Begins, GoesOn, Ends, Leaks
    <2>. QED
        BY <1>1, <1>2, <2>1, OthersQuiet DEF OthersStay
<1>3. ASSUME NEW p \in Posts, HttpStep(p) \/ HttpStart(p)
      PROVE  Quiet(d) /\ turn'[d] = turn[d]
    <2>1. OthersStay(p)
        BY <1>1, <1>3, HttpStepFlags
        DEF FlagStep, BetweenTurns, Begins, GoesOn, Ends, Leaks
    <2>. QED
        BY <1>1, <1>3, <2>1, RestQuiet, ClientsAssumption DEF OthersStay
<1>4. CASE \/ \E c \in Conns : ClientSends(c)
           \/ \E c \in Conns \ {d} : Disconnect(c) \/ Reconnect(c)
           \/ \E sid \in DOMAIN mem : Fork(sid) \/ Switch(sid) \/ HardDelete(sid)
           \/ UNCHANGED vars
    <2>1. turn' = turn
        BY <1>4 DEF ClientSends, Disconnect, Reconnect, Fork, Switch, HardDelete, vars
    <2>. QED
        BY <1>1, <1>4, <2>1, RestQuiet DEF Quiet
<1>5. CASE Disconnect(d)
    BY <1>5 DEF Disconnect
<1>6. CASE Reconnect(d)
    BY <1>1, <1>6 DEF Reconnect, Serving, Loop, TurnsOK
<1>. QED
    BY <1>2, <1>3, <1>4, <1>5, <1>6 DEF Next, ClientStep, Quiet

\* What a socket's own step does to a turn that it serves: begins it; ends it
\* with its last frame, cancelled or at the end of its script, or broken off;
\* takes a chunk, or goes on with it.
Begun(d) ==
    /\ pc[d] = "start" /\ pc'[d] = "next" /\ out'[d] = out[d]
    /\ turn'[d].text = 0 /\ turn'[d].at = 1

\* All but the flag that says the turn was cancelled.
SameCounts(t, u) ==
    /\ t.script = u.script /\ t.at = u.at /\ t.text = u.text /\ t.got = u.got

Finished(d, t) ==
    /\ pc[d] \in Loop /\ pc'[d] = "closing"
    /\ turn'[d] = t
    /\ \E f \in LastFrames : Say(d, <<f>>)

Broken(d) ==
    /\ pc[d] \in Loop /\ pc'[d] = "closing"
    /\ turn'[d] = turn[d]
    /\ Say(d, <<"error">>) \/ out'[d] = out[d]

GoneOn(d, t) ==
    /\ pc[d] \in Loop /\ pc'[d] \in {"next", "yield"}
    /\ turn'[d] = t /\ out'[d] = out[d]

ThisChunk(d) == turn[d].script[turn[d].at]
Delivered(d) ==
    /\ pc[d] = "yield"
    /\ turn'[d] = WsAbsorb(turn[d], ThisChunk(d))
    /\ Speaks(ThisChunk(d)) /\ Say(d, WsFrames(ThisChunk(d)))
    /\ pc'[d] = IF open[d] THEN "sending" ELSE "closing"

Moved(d) ==
    \/ Begun(d) \/ Broken(d) \/ Delivered(d)
    \/ GoneOn(d, turn[d])
    \/ pc[d] = "next" /\ Exhausted(turn[d]) /\ Finished(d, turn[d])
    \/ \E t \in Turn : SameCounts(t, turn[d]) /\ t.cancelled /\ Finished(d, t)
    \/ /\ pc[d] = "sending" /\ turn[d].script[turn[d].at - 1].finish
       /\ Finished(d, turn[d])
    \/ /\ pc[d] = "yield" /\ ~Speaks(ThisChunk(d))
       /\ LET t == WsAbsorb(turn[d], ThisChunk(d))
          IN  GoneOn(d, t) \/ (ThisChunk(d).finish /\ Finished(d, t))

\* A turn that is complete says so, or that it failed.
LEMMA CompleteFinishes ==
    ASSUME TurnsOK, NEW d \in Conns, pc[d] \in Loop, NEW t, WsComplete(d, t)
    PROVE  Finished(d, t)
BY DEF WsComplete, Finished, LastFrames, TurnsOK, Handlers

\* After a chunk the handler goes on, or ends the turn if the chunk finishes.
LEMMA ContinueMoves ==
    ASSUME TurnsOK, WireOK, NEW d \in Conns, pc[d] \in Loop, NEW t, NEW chunk,
           WsContinue(d, t, chunk)
    PROVE  GoneOn(d, t) \/ (chunk.finish /\ Finished(d, t))
<1>1. CASE chunk.finish
    BY <1>1, CompleteFinishes DEF WsContinue
<1>2. CASE ~chunk.finish
    BY <1>2 DEF WsContinue, GoneOn, TurnsOK, Handlers
<1>. QED
    BY <1>1, <1>2

\* A socket's handler does one of these, or is not serving afterwards.
LEMMA WsStepMoves ==
    ASSUME MemOK, TurnsOK, WireOK, NEW d \in Conns, WsStep(d)
    PROVE  Moved(d) \/ pc'[d] \notin Serving
<1>1. d \in Handlers /\ turn[d] \in Turn
    BY DEF TurnsOK, Handlers
<1>2. CASE \/ ReceiveSend(d) \/ ReceiveCancel(d) \/ WsUnknownSession(d)
           \/ WsClose(d) \/ WsTimerKills(d) \/ WsLeave(d)
    <2>1. pc'[d] \in {"start", "idle", "dead"}
        BY <1>1, <1>2 DEF ReceiveSend, ReceiveCancel, WsUnknownSession, WsClose,
                          WsTimerKills, WsLeave, AfterSend, TurnsOK
    <2>. QED
        BY <2>1 DEF Serving, Loop
<1>3. CASE WsStart(d)
    <2>1. ASSUME BeginTurn(d, turn[d].sid), UNCHANGED out PROVE Begun(d)
        <3>1. PICK script \in Scripts :
                turn' = [turn EXCEPT ![d] =
                    NewTurn(turn[d].sid, nextMsg, mem[turn[d].sid].tip,
                            mem[turn[d].sid].totals, script)]
            BY <2>1 DEF BeginTurn
        <3>2. turn'[d].text = 0 /\ turn'[d].at = 1
            BY <1>1, <3>1 DEF NewTurn, TurnsOK
        <3>. QED
            BY <1>1, <1>3, <2>1, <3>2 DEF Begun, WsStart, BeginTurn, TurnsOK
    <2>2. ASSUME NEW place \in {"idle", "dead"}, RefuseTurn(d, turn[d].sid, place)
          PROVE  pc'[d] \notin Serving
        BY <1>1, <2>2 DEF RefuseTurn, Serving, Loop, TurnsOK
    <2>. QED
        BY <1>3, <2>1, <2>2 DEF WsStart, AfterSend, Moved
<1>4. CASE WsChunk(d)
    <2>1. GoneOn(d, turn[d])
        BY <1>1, <1>4 DEF WsChunk, GoneOn, Loop, TurnsOK
    <2>. QED
        BY <2>1 DEF Moved
<1>5. CASE WsExhausted(d)
    <2>1. Finished(d, turn[d])
        BY <1>5, CompleteFinishes DEF WsExhausted, Loop
    <2>. QED
        BY <1>5, <2>1 DEF WsExhausted, Moved
<1>6. CASE WsCancelled(d)
    <2>. DEFINE t == [turn[d] EXCEPT !.cancelled = TRUE]
    <2>1. t \in Turn /\ SameCounts(t, turn[d]) /\ t.cancelled
        BY <1>1 DEF Turn, SameCounts
    <2>2. WsComplete(d, t) /\ pc[d] \in Loop
        BY <1>6 DEF WsCancelled, Loop
    <2>. HIDE DEF t
    <2>3. Finished(d, t)
        BY <2>2, CompleteFinishes
    <2>. QED
        BY <2>1, <2>3 DEF Moved
<1>7. CASE WsProviderFails(d) \/ WsSendFails(d)
    <2>1. Broken(d)
        BY <1>1, <1>7 DEF WsProviderFails, WsSendFails, Broken, Loop, TurnsOK
    <2>. QED
        BY <2>1 DEF Moved
<1>8. CASE WsDeliver(d)
    <2>. DEFINE t == WsAbsorb(turn[d], ThisChunk(d))
                place == IF open[d] THEN "sending" ELSE "closing"
    <2>1. /\ pc[d] = "yield" /\ Speaks(ThisChunk(d)) /\ Say(d, WsFrames(ThisChunk(d)))
          /\ turn' = [turn EXCEPT ![d] = t] /\ pc' = [pc EXCEPT ![d] = place]
        BY <1>8 DEF WsDeliver, ThisChunk
    <2>2. Delivered(d)
        <3>. HIDE DEF t, place
        <3>1. turn'[d] = t /\ pc'[d] = place
            BY <1>1, <2>1 DEF TurnsOK
        <3>. QED
            BY <2>1, <3>1 DEF Delivered, t, place
    <2>. QED
        BY <2>2 DEF Moved
<1>9. CASE WsSilent(d)
    <2>1. /\ pc[d] = "yield" /\ ~Speaks(ThisChunk(d))
          /\ WsContinue(d, WsAbsorb(turn[d], ThisChunk(d)), ThisChunk(d))
        BY <1>9 DEF WsSilent, ThisChunk
    <2>2. \/ GoneOn(d, WsAbsorb(turn[d], ThisChunk(d)))
          \/ ThisChunk(d).finish /\ Finished(d, WsAbsorb(turn[d], ThisChunk(d)))
        BY <2>1, ContinueMoves DEF Loop
    <2>. QED
        BY <2>1, <2>2 DEF Moved
<1>10. CASE WsSent(d)
    <2>1. /\ pc[d] = "sending"
          /\ WsContinue(d, turn[d], turn[d].script[turn[d].at - 1])
        BY <1>10 DEF WsSent
    <2>2. \/ GoneOn(d, turn[d])
          \/ turn[d].script[turn[d].at - 1].finish /\ Finished(d, turn[d])
        BY <2>1, ContinueMoves DEF Loop
    <2>. QED
        BY <2>1, <2>2 DEF Moved
<1>. QED
    BY <1>2, <1>3, <1>4, <1>5, <1>6, <1>7, <1>8, <1>9, <1>10 DEF WsStep

----------------------------------------------------------------------------
\* The stored reply.  How often a frame occurs among those sent.
Occurs(s, x) == Cardinality({i \in DOMAIN s : s[i] = x})

\* A frame more, if it is such a frame.
LEMMA OccursAppend ==
    ASSUME NEW S, NEW s \in Seq(S), NEW e \in S, NEW x
    PROVE  /\ Occurs(s, x) \in Nat
           /\ Occurs(Append(s, e), x) = Occurs(s, x) + One(e = x)
<1>. DEFINE old == {i \in DOMAIN s : s[i] = x}
            new == {i \in DOMAIN Append(s, e) : Append(s, e)[i] = x}
<1>1. PICK n \in Nat : n = Len(s) /\ DOMAIN s = 1..n
    BY LenProperties
<1>2. /\ DOMAIN Append(s, e) = 1..(n + 1)
      /\ \A i \in 1..n : Append(s, e)[i] = s[i]
      /\ Append(s, e)[n + 1] = e
    <2>1. Append(s, e) \in Seq(S) /\ Len(Append(s, e)) = n + 1
        BY <1>1, AppendProperties
    <2>2. /\ \A i \in 1..n : Append(s, e)[i] = s[i]
          /\ Append(s, e)[n + 1] = e
        BY <1>1, AppendProperties
    <2>. QED
        BY <2>1, <2>2, LenProperties
<1>3. IsFiniteSet(old) /\ Cardinality(old) \in Nat
    <2>1. IsFiniteSet(1..n) /\ old \in SUBSET (1..n)
        BY <1>1, FS_Interval
    <2>. HIDE DEF old
    <2>. QED
        BY <2>1, FS_Subset, FS_CardinalityType
<1>4. n + 1 \notin old /\ new = IF e = x THEN old \cup {n + 1} ELSE old
    BY <1>1, <1>2
<1>. HIDE DEF old, new
<1>5. Cardinality(old \cup {n + 1}) = Cardinality(old) + 1
    BY <1>3, <1>4, FS_AddElement
<1>6. CASE e = x
    <2>1. One(e = x) = 1 /\ new = old \cup {n + 1}
        BY <1>4, <1>6 DEF One
    <2>. QED
        BY <1>3, <1>5, <2>1 DEF Occurs, old, new
<1>7. CASE e # x
    <2>1. One(e = x) = 0 /\ new = old
        BY <1>4, <1>7 DEF One
    <2>2. Cardinality(new) = Cardinality(old) + One(e = x)
        BY <1>3, <2>1
    <2>. QED
        BY <1>3, <2>2 DEF Occurs, old, new
<1>. QED
    BY <1>6, <1>7

\* A last frame is no delta.
LEMMA LastFrameCounts ==
    ASSUME WireOK, NEW d \in Conns, NEW f \in LastFrames, Say(d, <<f>>)
    PROVE  Count(d, "delta")' = Count(d, "delta")
<1>1. CASE open[d]
    <2>1. out[d] \in Seq(Kinds) /\ f \in Kinds /\ out'[d] = out[d] \o <<f>>
        BY <1>1 DEF WireOK, Say, Kinds, LastFrames
    <2>2. out'[d] = Append(out[d], f)
        BY <2>1
    <2>3. /\ Occurs(out[d], "delta") \in Nat
          /\ Occurs(Append(out[d], f), "delta")
                = Occurs(out[d], "delta") + One(f = "delta")
        BY <2>1, OccursAppend
    <2>4. One(f = "delta") = 0
        BY DEF One, LastFrames
    <2>5. Occurs(out'[d], "delta") = Occurs(out[d], "delta")
        BY <2>2, <2>3, <2>4
    <2>. QED
        BY <2>5 DEF Occurs, Count
<1>2. CASE ~open[d]
    BY <1>2 DEF WireOK, Say, Count
<1>. QED
    BY <1>1, <1>2

\* The frames of a chunk without a text and tool calls at once: one delta if it
\* has text, none if it has not.
LEMMA ChunkCounts ==
    ASSUME WireOK, NEW d \in Conns, NEW chunk \in Chunk, Speaks(chunk),
           ~(chunk.delta /\ chunk.tools), open[d], Say(d, WsFrames(chunk))
    PROVE  Count(d, "delta")' = Count(d, "delta") + One(chunk.delta)
<1>. DEFINE s == out[d]
            once == Append(s, "tool_call")
<1>1. /\ s \in Seq(Kinds) /\ "delta" \in Kinds /\ "tool_call" \in Kinds
      /\ out'[d] = s \o WsFrames(chunk)
    BY DEF WireOK, Say, Kinds
<1>. HIDE DEF s
<1>2. CASE chunk.delta
    <2>1. WsFrames(chunk) = <<"delta">>
        <3>1. WsFrames(chunk) = <<"delta">> \o <<>>
            BY <1>2 DEF WsFrames
        <3>. QED
            BY <3>1
    <2>2. out'[d] = Append(s, "delta")
        BY <1>1, <2>1
    <2>3. Occurs(Append(s, "delta"), "delta")
            = Occurs(s, "delta") + One("delta" = "delta")
        BY <1>1, OccursAppend
    <2>4. One("delta" = "delta") = 1 /\ One(chunk.delta) = 1
        BY <1>2 DEF One
    <2>5. Occurs(out'[d], "delta") = Occurs(s, "delta") + One(chunk.delta)
        BY <2>2, <2>3, <2>4
    <2>. QED
        BY <2>5 DEF Occurs, Count, s
<1>3. CASE ~chunk.delta
    <2>1. WsFrames(chunk) = <<"tool_call", "tool_call">>
        <3>1. WsFrames(chunk) = <<>> \o <<"tool_call", "tool_call">>
            BY <1>3 DEF WsFrames, Speaks
        <3>. QED
            BY <3>1
    <2>2. out'[d] = Append(once, "tool_call") /\ once \in Seq(Kinds)
        BY <1>1, <2>1
    <2>. HIDE DEF once
    <2>3. /\ Occurs(Append(once, "tool_call"), "delta")
                = Occurs(once, "delta") + One("tool_call" = "delta")
          /\ Occurs(once, "delta") \in Nat
        BY <1>1, <2>2, OccursAppend
    <2>4. /\ Occurs(once, "delta") = Occurs(s, "delta") + One("tool_call" = "delta")
          /\ Occurs(s, "delta") \in Nat
        BY <1>1, OccursAppend DEF once
    <2>5. One("tool_call" = "delta") = 0 /\ One(chunk.delta) = 0
        BY <1>3 DEF One
    <2>6. Occurs(out'[d], "delta") = Occurs(s, "delta") + One(chunk.delta)
        BY <2>2, <2>3, <2>4, <2>5
    <2>. QED
        BY <2>6 DEF Occurs, Count, s
<1>. QED
    BY <1>2, <1>3

\* No chunk carries a text and tool calls at once.
PlainScripts ==
    \A script \in Scripts : \A i \in DOMAIN script :
        ~(script[i].delta /\ script[i].tools)

\* While a turn is served, its text is what was streamed; a send that fails
\* leaves a text that was not, but then there is no chat.done.
Streamed(d) ==
    /\ pc[d] \in Loop => turn[d].text = Count(d, "delta")
    /\ pc[d] = "closing" /\ SaidDone(d) => turn[d].text = Count(d, "delta")

\* A handler out of sleep(0) has a chunk of its script in hand.
LEMMA ChunkAtHand ==
    ASSUME TurnsOK, ChunkInHand, NEW d \in Conns, pc[d] = "yield"
    PROVE  turn[d].script \in Scripts /\ turn[d].at \in DOMAIN turn[d].script
BY ScriptsAssumption DEF TurnsOK, ChunkInHand, Handlers, Exhausted, Turn

\* A step of the socket itself keeps Streamed.
LEMMA MovedStreamed ==
    ASSUME PlainScripts, TurnsOK, WireOK, ChunkInHand, NEW d \in Conns,
           Agrees(d), Streamed(d), Moved(d)
    PROVE  Streamed(d)'
<1>1. turn[d] \in Turn /\ turn[d].text \in Nat /\ Count(d, "delta") \in Nat
    <2>1. turn[d] \in Turn /\ turn[d].text \in Nat
        BY DEF TurnsOK, Handlers, Turn
    <2>2. out[d] \in Seq(Kinds) /\ "done" \in Kinds
        BY DEF WireOK, Kinds
    <2>3. Occurs(out[d], "delta") \in Nat
        BY <2>2, OccursAppend
    <2>. QED
        BY <2>1, <2>3 DEF Occurs, Count
<1>2. SUFFICES \/ turn'[d].text = Count(d, "delta")'
               \/ pc'[d] = "closing" /\ ~SaidDone(d)'
    BY DEF Streamed, Loop
<1>3. ASSUME NEW t, t.text = turn[d].text, Finished(d, t)
      PROVE  turn'[d].text = Count(d, "delta")'
    BY <1>3, LastFrameCounts DEF Finished, Streamed
<1>4. ASSUME NEW t, t.text = turn[d].text, GoneOn(d, t)
      PROVE  turn'[d].text = Count(d, "delta")'
    BY <1>4 DEF GoneOn, Streamed, Count
<1>5. CASE Begun(d)
    <2>1. out'[d] \in {<<>>, <<"notice">>} /\ turn'[d].text = 0
        BY <1>5 DEF Begun, Agrees
    <2>2. {i \in DOMAIN out'[d] : out'[d][i] = "delta"} = {}
        BY <2>1
    <2>. QED
        BY <2>1, <2>2, FS_EmptySet DEF Count
<1>6. CASE Broken(d)
    <2>1. Count(d, "delta")' = Count(d, "delta")
        BY <1>6, LastFrameCounts DEF Broken, LastFrames, Count
    <2>. QED
        BY <1>6, <2>1 DEF Broken, Streamed
<1>7. ASSUME pc[d] = "yield"
      PROVE  WsAbsorb(turn[d], ThisChunk(d)).text
                = turn[d].text + One(ThisChunk(d).delta)
    <2>1. turn[d].script \in Scripts /\ turn[d].at \in DOMAIN turn[d].script
        BY <1>7, ChunkAtHand
    <2>2. ThisChunk(d) \in Chunk /\ ~(ThisChunk(d).delta /\ ThisChunk(d).tools)
        BY <2>1, ScriptsAssumption DEF PlainScripts, ThisChunk
    <2>3. One(ThisChunk(d).delta /\ ThisChunk(d).tools) = 0
          /\ One(ThisChunk(d).delta) \in Nat
        BY <2>2 DEF One
    <2>. QED
        BY <1>1, <2>3 DEF WsAbsorb, Turn
<1>8. CASE Delivered(d)
    <2>. DEFINE chunk == ThisChunk(d)
    <2>1. turn[d].script \in Scripts /\ turn[d].at \in DOMAIN turn[d].script
        BY <1>8, ChunkAtHand DEF Delivered
    <2>2. chunk \in Chunk /\ ~(chunk.delta /\ chunk.tools)
        BY <2>1, ScriptsAssumption DEF PlainScripts, ThisChunk
    <2>3. turn'[d].text = turn[d].text + One(chunk.delta)
        BY <1>7, <1>8 DEF Delivered
    <2>4. turn[d].text = Count(d, "delta")
        BY <1>8 DEF Delivered, Streamed, Loop
    <2>5. CASE open[d]
        <3>1. Speaks(chunk) /\ Say(d, WsFrames(chunk))
            BY <1>8 DEF Delivered
        <3>. HIDE DEF chunk
        <3>2. Count(d, "delta")' = Count(d, "delta") + One(chunk.delta)
            BY <2>2, <2>5, <3>1, ChunkCounts
        <3>. QED
            BY <2>3, <2>4, <3>2
    <2>6. CASE ~open[d]
        <3>1. out'[d] = out[d] /\ pc'[d] = "closing"
            BY <1>8, <2>6 DEF Delivered, Say, WireOK
        <3>2. ~SaidDone(d)
            BY <1>8 DEF Delivered, Agrees, Over, LastFrames, SaidDone
        <3>. QED
            BY <3>1, <3>2 DEF SaidDone
    <2>. QED
        BY <2>5, <2>6
<1>9. ASSUME pc[d] = "yield", ~Speaks(ThisChunk(d))
      PROVE  WsAbsorb(turn[d], ThisChunk(d)).text = turn[d].text
    <2>1. One(ThisChunk(d).delta) = 0
        BY <1>9 DEF Speaks, One
    <2>. QED
        BY <1>1, <1>7, <1>9, <2>1
<1>. QED
    BY <1>3, <1>4, <1>5, <1>6, <1>8, <1>9 DEF Moved, SameCounts

\* Every step keeps it.
LEMMA StepStreamed ==
    ASSUME PlainScripts, IInv, Agree, [Next]_vars, NEW d \in Conns, Streamed(d)
    PROVE  Streamed(d)'
<1>1. /\ MemOK /\ TurnsOK /\ WireOK
      /\ ChunkInHand /\ Agrees(d)
    BY IInvParts DEF IInv, Agree
<1>2. ASSUME pc'[d] \notin Serving PROVE Streamed(d)'
    BY <1>2 DEF Streamed, Serving
<1>3. CASE WsStep(d)
    BY <1>1, <1>2, <1>3, WsStepMoves, MovedStreamed
<1>4. CASE pc'[d] = pc[d] /\ out'[d] = out[d] /\ turn'[d] = turn[d]
    BY <1>4 DEF Streamed, Count, SaidDone
<1>. QED
    BY <1>2, <1>3, <1>4, SocketStep

\* StoredIsStreamed: the reply stored at the end of a turn has as many pieces
\* as there were deltas on the wire, whatever the handlers and clients do and
\* wherever a stream breaks off, if no chunk has a text and tool calls at once.
\* (The handler of /ws/chat adds the text of such a chunk twice and sends it
\* once, service.py:1783-1798.)
THEOREM ChatStoredIsStreamed ==
    ASSUME PlainScripts
    PROVE  Spec => []StoredIsStreamed
<1>. DEFINE AllStreamed == \A d \in Conns : Streamed(d)
<1>1. Init => IInv /\ Agree /\ AllStreamed
    <2>1. ASSUME Init PROVE AllStreamed
        BY <2>1 DEF Init, Streamed, Loop, Handlers
    <2>. QED
        BY <2>1, InitIInv, InitAgrees
<1>2. IInv /\ Agree /\ AllStreamed /\ [Next]_vars => IInv' /\ Agree' /\ AllStreamed'
    BY NextKeepsIInv, NextKeepsProtocol, StepStreamed
<1>3. AllStreamed => StoredIsStreamed
    BY DEF StoredIsStreamed, Streamed
<1>. QED
    BY <1>1, <1>2, <1>3, PTL DEF Spec

----------------------------------------------------------------------------
\* The tokens a turn is billed.  Usage comes with the last chunk, and no chunk
\* before it finishes: the handler would not read on.
UsageInTime ==
    \A script \in Scripts : \A i \in DOMAIN script :
        script[i].usage > 0 =>
            /\ i = Len(script)
            /\ \A j \in DOMAIN script : j < i => ~script[j].finish

BilledBy(t, i) == t.script[i].usage > 0 => t.got = t.script[i].usage
BilledBefore(t, n) == \A i \in DOMAIN t.script : i < n => BilledBy(t, i)
BilledWhole(t) == \A i \in DOMAIN t.script : BilledBy(t, i)

\* What was reported so far counts, and at the end all that was reported.
Billed(d) ==
    /\ pc[d] \in Loop => BilledBefore(turn[d], turn[d].at)
    /\ pc[d] = "sending" => turn[d].at > 1
    /\ pc[d] = "closing" /\ SaidDone(d) /\ ~turn[d].cancelled
        => BilledWhole(turn[d])

\* The shape of a turn's script.
LEMMA ScriptShape ==
    ASSUME NEW t \in Turn
    PROVE  /\ t.at \in Nat \ {0} /\ t.got \in Nat
           /\ \A i \in DOMAIN t.script :
                /\ t.script \in Scripts
                /\ i \in Nat \ {0} /\ i <= Len(t.script)
                /\ t.script[i].usage \in Nat
           /\ Len(t.script) \in Nat /\ DOMAIN t.script = 1..Len(t.script)
<1>1. CASE t.script \in Scripts
    BY <1>1, ScriptsAssumption DEF Turn, Chunk
<1>2. CASE t.script = <<>>
    BY <1>2 DEF Turn
<1>. QED
    BY <1>1, <1>2 DEF Turn

\* A chunk that finishes has all the usage there is before it or in it.
LEMMA FinishBills ==
    ASSUME UsageInTime, NEW t \in Turn, NEW n \in DOMAIN t.script,
           t.script[n].finish, BilledBefore(t, n + 1)
    PROVE  BilledWhole(t)
<1>1. SUFFICES ASSUME NEW i \in DOMAIN t.script, t.script[i].usage > 0
               PROVE  i < n + 1
    BY DEF BilledBefore, BilledWhole, BilledBy
<1>2. t.script \in Scripts /\ i \in Nat /\ n \in Nat
    BY ScriptShape
<1>3. ~(n < i)
    BY <1>1, <1>2 DEF UsageInTime
<1>. QED
    BY <1>2, <1>3

\* Taking a chunk bills it, and the ones before it had no usage if it is there.
LEMMA AbsorbBills ==
    ASSUME UsageInTime, NEW t \in Turn, t.at \in DOMAIN t.script,
           BilledBefore(t, t.at)
    PROVE  LET u == WsAbsorb(t, t.script[t.at])
           IN  /\ u.script = t.script /\ u.at = t.at + 1
               /\ BilledBefore(u, u.at)
<1>. DEFINE u == WsAbsorb(t, t.script[t.at])
<1>1. /\ u.script = t.script /\ u.at = t.at + 1
      /\ t.script[t.at].usage > 0 => u.got = t.script[t.at].usage
    BY ScriptShape DEF WsAbsorb, Turn
<1>. HIDE DEF u
<1>2. SUFFICES ASSUME NEW i \in DOMAIN t.script, i < t.at + 1,
                      t.script[i].usage > 0
               PROVE  u.got = t.script[i].usage
    BY <1>1 DEF u, BilledBefore, BilledBy
<1>3. i = Len(t.script) /\ i \in Nat /\ t.at \in Nat /\ t.at <= Len(t.script)
    BY <1>2, ScriptShape DEF UsageInTime
<1>4. i = t.at
    BY <1>2, <1>3
<1>. QED
    BY <1>1, <1>2, <1>4

\* A step of the socket itself keeps Billed.
LEMMA MovedBilled ==
    ASSUME UsageInTime, TurnsOK, WireOK, ChunkInHand, NEW d \in Conns,
           turn'[d] \in Turn, Agrees(d), Billed(d), Moved(d)
    PROVE  Billed(d)'
<1>1. turn[d] \in Turn
    BY DEF TurnsOK, Handlers
<1>2. ASSUME NEW t \in Turn, Finished(d, t), t.cancelled \/ BilledWhole(t)
      PROVE  Billed(d)'
    BY <1>2 DEF Finished, Billed, Loop
<1>3. ASSUME NEW t, GoneOn(d, t), BilledBefore(t, t.at)
      PROVE  Billed(d)'
    BY <1>3 DEF GoneOn, Billed, Loop
<1>4. CASE Begun(d)
    <2>1. BilledBefore(turn'[d], turn'[d].at)
        <3>1. turn'[d].at = 1
            BY <1>4 DEF Begun
        <3>2. \A i \in DOMAIN turn'[d].script : i \in Nat /\ ~(i < 1)
            BY ScriptShape
        <3>. QED
            BY <3>1, <3>2 DEF BilledBefore
    <2>. QED
        BY <1>4, <2>1 DEF Begun, Billed, Loop
<1>5. ASSUME pc[d] \in Loop, out'[d] = out[d] PROVE ~SaidDone(d)'
    BY <1>5 DEF Agrees, Over, LastFrames, SaidDone, Loop
<1>6. CASE Broken(d)
    <2>1. ~SaidDone(d)'
        <3>1. CASE out'[d] = out[d]
            BY <1>5, <1>6, <3>1 DEF Broken
        <3>2. CASE Say(d, <<"error">>) /\ open[d]
            <4>1. out[d] \in Seq(Kinds) /\ "error" \in Kinds
                BY DEF WireOK, Kinds
            <4>2. out'[d] = out[d] \o <<"error">>
                BY <3>2 DEF Say, WireOK
            <4>3. out'[d][Len(out'[d])] = "error"
                BY <4>1, <4>2
            <4>. QED
                BY <4>3 DEF SaidDone
        <3>3. CASE Say(d, <<"error">>) /\ ~open[d]
            BY <1>5, <1>6, <3>3 DEF Broken, Say, WireOK
        <3>. QED
            BY <1>6, <3>1, <3>2, <3>3 DEF Broken
    <2>. QED
        BY <1>6, <2>1 DEF Broken, Billed, Loop
<1>7. ASSUME pc[d] = "yield"
      PROVE  /\ turn[d].at \in DOMAIN turn[d].script
             /\ WsAbsorb(turn[d], ThisChunk(d)).script = turn[d].script
             /\ WsAbsorb(turn[d], ThisChunk(d)).at = turn[d].at + 1
             /\ BilledBefore(WsAbsorb(turn[d], ThisChunk(d)),
                             WsAbsorb(turn[d], ThisChunk(d)).at)
    <2>1. turn[d].at \in DOMAIN turn[d].script
        BY <1>7, ChunkAtHand
    <2>2. BilledBefore(turn[d], turn[d].at)
        BY <1>7 DEF Billed, Loop
    <2>. QED
        BY <1>1, <2>1, <2>2, AbsorbBills DEF ThisChunk
<1>8. CASE Delivered(d)
    <2>. DEFINE t == WsAbsorb(turn[d], ThisChunk(d))
    <2>1. pc[d] = "yield" /\ turn'[d] = t
          /\ pc'[d] = IF open[d] THEN "sending" ELSE "closing"
        BY <1>8 DEF Delivered
    <2>2. t.at > 1 /\ BilledBefore(t, t.at)
        BY <1>1, <1>7, <2>1 DEF Turn
    <2>. HIDE DEF t
    <2>3. CASE open[d]
        BY <2>1, <2>2, <2>3 DEF Billed, Loop
    <2>4. CASE ~open[d]
        <3>1. ~SaidDone(d)'
            BY <1>5, <1>8, <2>1, <2>4 DEF Delivered, Say, WireOK, Loop
        <3>. QED
            BY <2>1, <2>4, <3>1 DEF Billed, Loop
    <2>. QED
        BY <2>3, <2>4
<1>9. CASE GoneOn(d, turn[d])
    BY <1>3, <1>9 DEF GoneOn, Billed
<1>10. CASE pc[d] = "next" /\ Exhausted(turn[d]) /\ Finished(d, turn[d])
    <2>1. BilledWhole(turn[d])
        <3>1. BilledBefore(turn[d], turn[d].at)
            BY <1>10 DEF Billed, Loop
        <3>2. \A i \in DOMAIN turn[d].script : i < turn[d].at
            BY <1>1, <1>10, ScriptShape DEF Exhausted
        <3>. QED
            BY <3>1, <3>2 DEF BilledBefore, BilledWhole
    <2>. QED
        BY <1>1, <1>2, <1>10, <2>1
<1>11. CASE \E t \in Turn : SameCounts(t, turn[d]) /\ t.cancelled /\ Finished(d, t)
    BY <1>2, <1>11
<1>12. CASE /\ pc[d] = "sending" /\ turn[d].script[turn[d].at - 1].finish
            /\ Finished(d, turn[d])
    <2>1. BilledBefore(turn[d], turn[d].at) /\ turn[d].at > 1
        BY <1>12 DEF Billed, Loop
    <2>2. CASE turn[d].at - 1 \in DOMAIN turn[d].script
        <3>1. (turn[d].at - 1) + 1 = turn[d].at
            BY <1>1 DEF Turn
        <3>2. BilledWhole(turn[d])
            BY <1>1, <1>12, <2>1, <2>2, <3>1, FinishBills
        <3>. QED
            BY <1>1, <1>2, <1>12, <3>2
    <2>3. CASE turn[d].at - 1 \notin DOMAIN turn[d].script
        <3>1. \A i \in DOMAIN turn[d].script : i < turn[d].at
            BY <1>1, <2>1, <2>3, ScriptShape
        <3>. QED
            BY <1>1, <1>2, <1>12, <2>1, <3>1 DEF BilledBefore, BilledWhole
    <2>. QED
        BY <2>2, <2>3
<1>13. CASE /\ pc[d] = "yield" /\ ~Speaks(ThisChunk(d))
            /\ LET t == WsAbsorb(turn[d], ThisChunk(d))
               IN  GoneOn(d, t) \/ (ThisChunk(d).finish /\ Finished(d, t))
    <2>. DEFINE t == WsAbsorb(turn[d], ThisChunk(d))
    <2>1. /\ t.script = turn[d].script /\ t.at = turn[d].at + 1
          /\ BilledBefore(t, t.at) /\ turn[d].at \in DOMAIN t.script
        BY <1>7, <1>13
    <2>2. CASE GoneOn(d, t)
        BY <1>3, <2>1, <2>2
    <2>3. CASE ThisChunk(d).finish /\ Finished(d, t)
        <3>1. t \in Turn
            BY <2>3 DEF Finished
        <3>2. t.script[turn[d].at].finish
            BY <2>1, <2>3 DEF ThisChunk
        <3>. HIDE DEF t
        <3>3. BilledWhole(t)
            BY <2>1, <3>1, <3>2, FinishBills
        <3>. QED
            BY <1>2, <2>3, <3>1, <3>3
    <2>. QED
        BY <1>13, <2>2, <2>3
<1>. QED
    BY <1>4, <1>6, <1>8, <1>9, <1>10, <1>11, <1>12, <1>13 DEF Moved

\* Every step keeps it.
LEMMA StepBilled ==
    ASSUME UsageInTime, IInv, Agree, [Next]_vars, NEW d \in Conns, Billed(d)
    PROVE  Billed(d)'
<1>1. /\ MemOK /\ TurnsOK /\ WireOK
      /\ ChunkInHand /\ Agrees(d)
    BY IInvParts DEF IInv, Agree
<1>2. ASSUME pc'[d] \notin Serving PROVE Billed(d)'
    BY <1>2 DEF Billed, Serving, Loop
<1>3. CASE WsStep(d)
    <2>1. turn'[d] \in Turn
        BY NextKeepsIInv, IInvPartsPrime DEF TurnsOK, Handlers
    <2>. QED
        BY <1>1, <1>2, <1>3, <2>1, WsStepMoves, MovedBilled
<1>4. CASE pc'[d] = pc[d] /\ out'[d] = out[d] /\ turn'[d] = turn[d]
    BY <1>4 DEF Billed, SaidDone
<1>. QED
    BY <1>2, <1>3, <1>4, SocketStep

\* ReportedUsageWins: however its turn interleaves with others, a reply that
\* was not cancelled is billed by the usage the provider reported, if that
\* comes with the last chunk of the stream and no chunk finishes before it.
\* (After a chunk that finishes the loop of /ws/chat is left,
\* service.py:1812-1813.)
THEOREM ChatReportedUsageWins ==
    ASSUME UsageInTime
    PROVE  Spec => []ReportedUsageWins
<1>. DEFINE AllBilled == \A d \in Conns : Billed(d)
<1>1. Init => IInv /\ Agree /\ AllBilled
    <2>1. ASSUME Init PROVE AllBilled
        BY <2>1 DEF Init, Billed, Loop, Handlers
    <2>. QED
        BY <2>1, InitIInv, InitAgrees
<1>2. IInv /\ Agree /\ AllBilled /\ [Next]_vars => IInv' /\ Agree' /\ AllBilled'
    BY NextKeepsIInv, NextKeepsProtocol, StepBilled
<1>3. AllBilled => ReportedUsageWins
    BY DEF ReportedUsageWins, Billed, BilledWhole, BilledBy
<1>. QED
    BY <1>1, <1>2, <1>3, PTL DEF Spec

=============================================================================
