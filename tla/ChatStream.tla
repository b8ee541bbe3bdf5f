----------------------------- MODULE ChatStream -----------------------------
(***************************************************************************)
(* Chat turns of the C1 web core: the /ws/chat handler (one per socket)    *)
(* and POST /api/sessions/{id}/messages (one per request) running as       *)
(* coroutines of one event loop over the shared SessionManager, together   *)
(* with the branch routes and hard delete.                                 *)
(*                                                                         *)
(* A step runs from one await to the next.  The awaits of the WS handler   *)
(* are: receive a frame; send the redaction notice; read a chunk from the  *)
(* adapter; sleep(0) after it; send the chunk's frames; send the last      *)
(* frame.  The HTTP handler awaits chunks only.  Everything between two    *)
(* awaits is atomic.                                                       *)
(*                                                                         *)
(* What the model provider streams is a script: a finite sequence of       *)
(* chunks, which may break off with an exception or a timeout.  Texts are  *)
(* counted in pieces (one per non-empty delta) and tokens likewise: the    *)
(* estimate max(1, len / 4) is 1 for a short piece.                        *)
(***************************************************************************)
EXTENDS SessionLedger

CONSTANTS
    Sessions,     \* the sessions that exist at the start
    Conns,        \* /ws/chat sockets
    Senders,      \* the sockets whose client sends chat.send
    Posts,        \* concurrent POST .../messages requests
    Scripts,      \* what the adapter may stream
    AdapterWired, \* may ctx.inject("llm") find the adapter?
    DiskFaults,   \* can a save raise?
    ForkRoles,    \* the roles the clients fork with
    MaxRequests   \* bound on frames, posts and forks the clients send

Chunk == [delta : BOOLEAN, tools : BOOLEAN, usage : Nat, finish : BOOLEAN]
Handlers == Conns \cup Posts

ASSUME ClientsAssumption ==
    /\ Senders \subseteq Conns
    /\ Conns \cap Posts = {}
ASSUME ScriptsAssumption ==
    \A script \in Scripts :
        /\ DOMAIN script = 1..Len(script)
        /\ Len(script) \in Nat
        /\ \A i \in DOMAIN script : script[i] \in Chunk
ASSUME ChatBoundsAssumption ==
    /\ AdapterWired \subseteq BOOLEAN
    /\ DiskFaults \in BOOLEAN
    /\ ForkRoles \subseteq Roles
    /\ MaxRequests \in Nat

VARIABLES
    mem,        \* SessionManager._cache
    streaming,  \* SessionManager._stream_in_progress
    cancelled,  \* SessionManager._cancel_requested
    nextMsg,    \* the next message id
    pc,         \* where each handler awaits
    turn,       \* the local variables of its current turn
    inbox,      \* frames sent to a socket and not yet received
    open,       \* the client's end of the socket is open
    out,        \* frames of the turn sent since the last chat.send (the answers
                \* to chat.cancel are left out)
    requests,   \* requests made so far
    spent,      \* ghost: tokens of all the finished turns of a session
    answered,   \* ghost: pairs <<question, reply>> of message ids
    astray      \* ghost: pairs <<session, message>> of the forks from an id that
                \* was no message of the session

store == <<mem, streaming, cancelled, nextMsg>>
wire == <<inbox, open, requests>>
ghosts == <<spent, answered, astray>>
vars == <<mem, streaming, cancelled, nextMsg, pc, turn, inbox, open, out,
          requests, spent, answered, astray>>

\* idle: awaiting a request; start: a chat.send was received, its notice is
\* being sent if its text was redacted; next: awaiting a chunk; yield: in
\* sleep(0) with a chunk; sending: sending a chunk's frames; closing: sending
\* the last frame; dead: the handler has returned or was killed.
Places == {"idle", "start", "next", "yield", "sending", "closing", "dead"}
InTurn(h) == pc[h] \in {"next", "yield", "sending", "closing"}

Turn == [sid : Sessions, user : Nat, pin : Nat, prior : Nat, got : Nat,
         text : Nat, script : Scripts \cup {<<>>}, at : Nat \ {0},
         cancelled : BOOLEAN]

\* What the server sends.
Kinds == {"notice", "delta", "tool_call", "done", "error"}

\* What the client sends; a secret is a key in the text, to be redacted.
Frame == [type : {"send", "cancel"}, sid : Sessions, secret : BOOLEAN]

NewTurn(sid, user, pin, prior, script) ==
    [sid |-> sid, user |-> user, pin |-> pin, prior |-> prior, got |-> 0,
     text |-> 0, script |-> script, at |-> 1, cancelled |-> FALSE]

NoTurn(sid) == NewTurn(sid, None, None, 0, <<>>)

Put(f, k, v) == [x \in DOMAIN f \cup {k} |-> IF x = k THEN v ELSE f[x]]
Drop(f, k) == [x \in DOMAIN f \ {k} |-> f[x]]

\* Every session exists, empty; every socket is connected.
Init ==
    /\ mem = [sid \in Sessions |-> FreshSession]
    /\ streaming = {}
    /\ cancelled = {}
    /\ nextMsg = 1
    /\ pc = [h \in Handlers |-> "idle"]
    /\ turn \in [Handlers -> {NoTurn(sid) : sid \in Sessions}]
    /\ inbox = [c \in Conns |-> <<>>]
    /\ open = [c \in Conns |-> TRUE]
    /\ out = [c \in Conns |-> <<>>]
    /\ requests = 0
    /\ spent = [sid \in Sessions |-> 0]
    /\ answered = {}
    /\ astray = {}

----------------------------------------------------------------------------
\* The clients

Request == requests < MaxRequests /\ requests' = requests + 1

ClientSends(c) ==
    /\ Request
    /\ open[c]
    /\ \E frame \in Frame :
        /\ frame.type = "send" => c \in Senders
        /\ frame.type = "cancel" => ~frame.secret
        /\ inbox' = [inbox EXCEPT ![c] = Append(@, frame)]
    /\ UNCHANGED <<store, pc, turn, open, out, ghosts>>

Disconnect(c) ==
    /\ open[c]
    /\ open' = [open EXCEPT ![c] = FALSE]
    /\ UNCHANGED <<store, pc, turn, inbox, out, requests, ghosts>>

\* A new socket takes the place of one whose handler has gone.
Reconnect(c) ==
    /\ Request
    /\ pc[c] = "dead"
    /\ pc' = [pc EXCEPT ![c] = "idle"]
    /\ open' = [open EXCEPT ![c] = TRUE]
    /\ inbox' = [inbox EXCEPT ![c] = <<>>]
    /\ out' = [out EXCEPT ![c] = <<>>]
    /\ UNCHANGED <<store, turn, ghosts>>

----------------------------------------------------------------------------
\* Frames to the client.  A send on a socket the client has closed raises.

Say(c, frames) == out' = [out EXCEPT ![c] = IF open[c] THEN @ \o frames ELSE @]

\* Where a send outside of the try block leaves the handler.
AfterSend(c, place) == IF open[c] THEN place ELSE "dead"

----------------------------------------------------------------------------
\* The start of a turn

\* append_message(sid, "user", ...) changes the session even if its save
\* raises.
AppendUser(sid) ==
    /\ mem' = Put(mem, sid, AppendMessage(mem[sid], nextMsg, "user", None))
    /\ nextMsg' = nextMsg + 1

\* Mutant: begin_stream is not called.
RaiseFlag_Not(sid) == UNCHANGED streaming

RaiseFlag(sid) == streaming' = streaming \cup {sid}

\* From the append of the user message to the first chunk: the pin is the
\* parent the message was given, the totals are read before the stream.
BeginTurn(h, sid) ==
    /\ TRUE \in AdapterWired
    /\ AppendUser(sid)
    /\ RaiseFlag(sid)
    /\ pc' = [pc EXCEPT ![h] = "next"]
    /\ \E script \in Scripts :
        turn' = [turn EXCEPT ![h] =
            NewTurn(sid, nextMsg, mem[sid].tip, mem[sid].totals, script)]
    /\ UNCHANGED <<cancelled, inbox, open, ghosts>>

\* No adapter, or a save that raises: the user message stays, with no answer.
RefuseTurn(h, sid, place) ==
    /\ AppendUser(sid)
    /\ pc' = [pc EXCEPT ![h] = place]
    /\ UNCHANGED <<streaming, cancelled, turn, inbox, open, ghosts>>

\* A chat.send is taken off the socket; a text with a key in it is scrubbed,
\* and the client told.  (Without a redaction there is no await before
\* WsStart: stopping here too only lets other steps come before the turn.)
ReceiveSend(c) ==
    /\ pc[c] = "idle"
    /\ inbox[c] # <<>>
    /\ LET frame == Head(inbox[c])
       IN  /\ frame.type = "send"
           /\ pc' = [pc EXCEPT ![c] =
                        IF frame.secret THEN AfterSend(c, "start") ELSE "start"]
           /\ turn' = [turn EXCEPT ![c] = NoTurn(frame.sid)]
           /\ out' = [out EXCEPT ![c] =
                        IF frame.secret /\ open[c] THEN <<"notice">> ELSE <<>>]
    /\ inbox' = [inbox EXCEPT ![c] = Tail(@)]
    /\ UNCHANGED <<store, open, requests, ghosts>>

\* session_not_found and append_failed: the session is not there (any more).
WsUnknownSession(c) ==
    /\ pc[c] = "start"
    /\ turn[c].sid \notin DOMAIN mem
    /\ pc' = [pc EXCEPT ![c] = AfterSend(c, "idle")]
    /\ Say(c, <<"error">>)
    /\ UNCHANGED <<store, turn, wire, ghosts>>

\* A save that raises here is outside of the try block: the handler is gone.
WsStart(c) ==
    /\ pc[c] = "start"
    /\ turn[c].sid \in DOMAIN mem
    /\ UNCHANGED requests
    /\ \/ BeginTurn(c, turn[c].sid) /\ UNCHANGED out
       \/ /\ FALSE \in AdapterWired
          /\ RefuseTurn(c, turn[c].sid, AfterSend(c, "idle"))
          /\ Say(c, <<"error">>)
       \/ /\ DiskFaults
          /\ RefuseTurn(c, turn[c].sid, "dead")
          /\ UNCHANGED out

\* POST .../messages; a missing session is a 404, with no effect.
HttpStart(p) ==
    /\ pc[p] = "idle"
    /\ Request
    /\ \E sid \in DOMAIN mem :
        \/ BeginTurn(p, sid)
        \/ (FALSE \in AdapterWired \/ DiskFaults) /\ RefuseTurn(p, sid, "idle")
    /\ UNCHANGED out

----------------------------------------------------------------------------
\* The end of a turn: the assistant message is appended under the pin (under
\* the tip of that moment if the pin is None), then the totals are written:
\* what they were when the turn began plus the tokens of the turn.  Both do
\* nothing if the session was deleted meanwhile.

\* Mutants: the reply is not pinned; the totals are those of this turn only;
\* the turn is added twice; the operands are swapped and subtracted.
WithReply_AtTip(s, t) == AppendMessage(s, nextMsg, "assistant", None)
WithTotals_ThisTurn(s, t) == [s EXCEPT !.totals = t.got]
WithTotals_Twice(s, t) == [s EXCEPT !.totals = t.prior + t.got + t.got]
WithTotals_Difference(s, t) == [s EXCEPT !.totals = t.got - t.prior]

WithReply(s, t) == AppendMessage(s, nextMsg, "assistant", t.pin)
WithTotals(s, t) == [s EXCEPT !.totals = t.prior + t.got]

\* counted: the totals were written too.  (When the save inside the append
\* raises they are not; when the save of the totals raises they are.)
StoreReply(t, counted) ==
    IF t.sid \in DOMAIN mem
    THEN LET replied == WithReply(mem[t.sid], t)
         IN  /\ mem' = Put(mem, t.sid,
                           IF counted THEN WithTotals(replied, t) ELSE replied)
             /\ nextMsg' = nextMsg + 1
             /\ spent' = IF counted THEN [spent EXCEPT ![t.sid] = @ + t.got]
                         ELSE spent
             /\ answered' = answered \cup {<<t.user, nextMsg>>}
             /\ UNCHANGED astray
    ELSE UNCHANGED <<mem, nextMsg, ghosts>>

\* The WS handler ends a turn with chat.done, or with chat.error if a save
\* raised; the flags fall in its finally block, in Close.
WsComplete(c, t) ==
    /\ turn' = [turn EXCEPT ![c] = t]
    /\ pc' = [pc EXCEPT ![c] = "closing"]
    /\ \/ StoreReply(t, TRUE) /\ Say(c, <<"done">>)
       \/ /\ DiskFaults
          /\ \E counted \in BOOLEAN : StoreReply(t, counted)
          /\ Say(c, <<"error">>)
    /\ UNCHANGED <<streaming, cancelled, wire>>

\* The HTTP handler has no finally block: its last statement drops the flag,
\* if no save raised before it.  It never looks at the cancel flag.
HttpComplete(p, t) ==
    /\ turn' = [turn EXCEPT ![p] = t]
    /\ pc' = [pc EXCEPT ![p] = "idle"]
    /\ \/ StoreReply(t, TRUE) /\ streaming' = streaming \ {t.sid}
       \/ /\ DiskFaults
          /\ \E counted \in BOOLEAN : StoreReply(t, counted)
          /\ UNCHANGED streaming
    /\ UNCHANGED <<cancelled, wire, out>>

----------------------------------------------------------------------------
\* The chunk loop

Speaks(chunk) == chunk.delta \/ chunk.tools
One(b) == IF b THEN 1 ELSE 0

\* Mutants: the text of the finishing chunk is lost; the reported usage is
\* added to the estimate.
WsAbsorb_LosesLast(t, chunk) ==
    [t EXCEPT !.at = @ + 1, !.text = @ + One(chunk.delta /\ ~chunk.finish),
              !.got = IF chunk.usage > 0 THEN chunk.usage ELSE @ + One(chunk.delta)]
WsAbsorb_AddsUsage(t, chunk) ==
    [t EXCEPT !.at = @ + 1, !.text = @ + One(chunk.delta),
              !.got = @ + chunk.usage + One(chunk.delta)]

\* The WS loop: a chunk with tool calls goes through the delta accounting
\* once more, and its frame is sent twice.  Reported usage replaces the
\* estimate.
WsAbsorb(t, chunk) ==
    [t EXCEPT
        !.at = @ + 1,
        !.text = @ + One(chunk.delta) + One(chunk.delta /\ chunk.tools),
        !.got = IF chunk.usage > 0 THEN chunk.usage
                ELSE @ + One(chunk.delta) + One(chunk.tools)]

WsFrames(chunk) ==
    (IF chunk.delta THEN <<"delta">> ELSE <<>>) \o
    (IF chunk.tools THEN <<"tool_call", "tool_call">> ELSE <<>>)

\* The HTTP loop counts at least one token for every chunk.
HttpAbsorb(t, chunk) ==
    [t EXCEPT
        !.at = @ + 1,
        !.text = @ + One(chunk.delta),
        !.got = IF chunk.usage > 0 THEN chunk.usage ELSE @ + 1]

Exhausted(t) == t.at > Len(t.script)

\* The adapter yields a chunk; the WS handler goes to sleep(0) with it.
WsChunk(c) ==
    /\ pc[c] = "next"
    /\ ~Exhausted(turn[c])
    /\ pc' = [pc EXCEPT ![c] = "yield"]
    /\ UNCHANGED <<store, turn, wire, out, ghosts>>

HttpChunk(p) ==
    /\ pc[p] = "next"
    /\ ~Exhausted(turn[p])
    /\ turn' = [turn EXCEPT ![p] = HttpAbsorb(@, @.script[@.at])]
    /\ UNCHANGED <<store, pc, wire, out, ghosts>>

\* The stream is over without, or after, a finish_reason.
WsExhausted(c) ==
    /\ pc[c] = "next"
    /\ Exhausted(turn[c])
    /\ WsComplete(c, turn[c])

HttpExhausted(p) ==
    /\ pc[p] = "next"
    /\ Exhausted(turn[p])
    /\ HttpComplete(p, turn[p])

\* After sleep(0) the WS handler finds its turn cancelled ...
WsCancelled(c) ==
    /\ pc[c] = "yield"
    /\ turn[c].sid \in cancelled
    /\ WsComplete(c, [turn[c] EXCEPT !.cancelled = TRUE])

\* ... or sends what the chunk says.  A send on a closed socket raises, into
\* the except clause, whose own send raises too.
WsDeliver(c) ==
    LET chunk == turn[c].script[turn[c].at]
    IN  /\ pc[c] = "yield"
        /\ turn[c].sid \notin cancelled
        /\ Speaks(chunk)
        /\ pc' = [pc EXCEPT ![c] = IF open[c] THEN "sending" ELSE "closing"]
        /\ turn' = [turn EXCEPT ![c] = WsAbsorb(@, chunk)]
        /\ Say(c, WsFrames(chunk))
        /\ UNCHANGED <<store, wire, ghosts>>

\* The loop breaks after a chunk with a finish_reason.
WsContinue(c, t, chunk) ==
    IF chunk.finish THEN WsComplete(c, t)
    ELSE /\ pc' = [pc EXCEPT ![c] = "next"]
         /\ turn' = [turn EXCEPT ![c] = t]
         /\ UNCHANGED <<store, wire, out, ghosts>>

WsSent(c) ==
    /\ pc[c] = "sending"
    /\ open[c]
    /\ WsContinue(c, turn[c], turn[c].script[turn[c].at - 1])

WsSilent(c) ==
    LET chunk == turn[c].script[turn[c].at]
    IN  /\ pc[c] = "yield"
        /\ turn[c].sid \notin cancelled
        /\ ~Speaks(chunk)
        /\ WsContinue(c, WsAbsorb(turn[c], chunk), chunk)

\* The client went away while the handler was sending to it.
WsSendFails(c) ==
    /\ pc[c] = "sending"
    /\ ~open[c]
    /\ pc' = [pc EXCEPT ![c] = "closing"]
    /\ UNCHANGED <<store, turn, wire, out, ghosts>>

\* Mutant: the exception is swallowed.
WsProviderFails_Silent(c) ==
    /\ pc[c] = "next"
    /\ pc' = [pc EXCEPT ![c] = "closing"]
    /\ UNCHANGED <<store, turn, wire, out, ghosts>>

\* The adapter raises: a provider error, or the time limit of the stream
\* passing while the adapter is reading from the provider.
WsProviderFails(c) ==
    /\ pc[c] = "next"
    /\ pc' = [pc EXCEPT ![c] = "closing"]
    /\ Say(c, <<"error">>)
    /\ UNCHANGED <<store, turn, wire, ghosts>>

\* Mutant: the except clause does not drop the flag.
HttpProviderFails_KeepsFlag(p) ==
    /\ pc[p] = "next"
    /\ pc' = [pc EXCEPT ![p] = "idle"]
    /\ UNCHANGED <<store, turn, wire, out, ghosts>>

HttpProviderFails(p) ==
    /\ pc[p] = "next"
    /\ pc' = [pc EXCEPT ![p] = "idle"]
    /\ streaming' = streaming \ {turn[p].sid}
    /\ UNCHANGED <<mem, cancelled, nextMsg, turn, wire, out, ghosts>>

\* Mutants: the finally block forgets one flag or the other.
DropFlags_KeepsCancel(sid) ==
    /\ streaming' = streaming \ {sid}
    /\ UNCHANGED <<mem, cancelled, nextMsg>>
DropFlags_KeepsStream(sid) ==
    /\ cancelled' = cancelled \ {sid}
    /\ UNCHANGED <<mem, streaming, nextMsg>>

\* The finally block of the WS handler.
DropFlags(sid) ==
    /\ streaming' = streaming \ {sid}
    /\ cancelled' = cancelled \ {sid}
    /\ UNCHANGED <<mem, nextMsg>>

\* Mutant: the cleanup is skipped for a client that is gone.
WsClose_IfOpen(c) ==
    /\ pc[c] = "closing"
    /\ open[c]
    /\ pc' = [pc EXCEPT ![c] = "idle"]
    /\ DropFlags(turn[c].sid)
    /\ UNCHANGED <<turn, wire, out, ghosts>>

WsClose(c) ==
    /\ pc[c] = "closing"
    /\ pc' = [pc EXCEPT ![c] = AfterSend(c, "idle")]
    /\ DropFlags(turn[c].sid)
    /\ UNCHANGED <<turn, wire, out, ghosts>>

\* asyncio.timeout is entered inside the adapter's generator, and cancels the
\* task.  When it expires while the generator is suspended at its yield, the
\* CancelledError comes out of the await of the handler's own loop body: no
\* except clause takes it, the finally block runs, and the handler is gone.
WsTimerKills(c) ==
    /\ pc[c] \in {"yield", "sending"}
    /\ pc' = [pc EXCEPT ![c] = "dead"]
    /\ DropFlags(turn[c].sid)
    /\ UNCHANGED <<turn, wire, out, ghosts>>

----------------------------------------------------------------------------
\* chat.cancel, which a socket's handler can only receive between turns.
ReceiveCancel(c) ==
    /\ pc[c] = "idle"
    /\ inbox[c] # <<>>
    /\ LET frame == Head(inbox[c])
       IN  /\ frame.type = "cancel"
           /\ cancelled' = IF frame.sid \in streaming
                           THEN cancelled \cup {frame.sid} ELSE cancelled
    /\ inbox' = [inbox EXCEPT ![c] = Tail(@)]
    /\ pc' = [pc EXCEPT ![c] = AfterSend(c, "idle")]
    /\ UNCHANGED <<mem, streaming, nextMsg, turn, open, out, requests, ghosts>>

\* The receive loop ends when the client has closed its end.
WsLeave(c) ==
    /\ pc[c] = "idle"
    /\ inbox[c] = <<>>
    /\ ~open[c]
    /\ pc' = [pc EXCEPT ![c] = "dead"]
    /\ UNCHANGED <<store, turn, wire, out, ghosts>>

----------------------------------------------------------------------------
\* The branch routes and hard delete

\* POST .../branches, which no stream holds up.  Neither the route nor
\* branch_create looks the parent up: any id will do, of a message of this
\* session, of another one, of one that the cap dropped, or of none at all.
\* The number nextMsg stands for the last kind, and is spent on it.
Fork(sid) ==
    /\ Request
    /\ \E role \in ForkRoles, parent \in 1..nextMsg :
        /\ mem' = Put(mem, sid, AppendMessage(mem[sid], nextMsg + 1, role, parent))
        /\ astray' = IF parent \in Ids(mem[sid]) THEN astray
                     ELSE astray \cup {<<sid, nextMsg + 1>>}
    /\ nextMsg' = nextMsg + 2
    /\ UNCHANGED <<streaming, cancelled, pc, turn, inbox, open, out, spent,
                   answered>>

\* PATCH .../active-tip: 409 while the session has its stream flag.
Switch(sid) ==
    /\ sid \notin streaming
    /\ \E leaf \in Ids(mem[sid]) : mem' = Put(mem, sid, SwitchTip(mem[sid], leaf))
    /\ UNCHANGED <<streaming, cancelled, nextMsg, pc, turn, wire, out, ghosts>>

\* DELETE ...?hard=1
HardDelete(sid) ==
    /\ mem' = Drop(mem, sid)
    /\ UNCHANGED <<streaming, cancelled, nextMsg, pc, turn, wire, out, ghosts>>

----------------------------------------------------------------------------
WsStep(c) ==
    \/ ReceiveSend(c) \/ ReceiveCancel(c) \/ WsUnknownSession(c) \/ WsStart(c)
    \/ WsChunk(c) \/ WsExhausted(c) \/ WsProviderFails(c)
    \/ WsCancelled(c) \/ WsDeliver(c) \/ WsSilent(c) \/ WsTimerKills(c)
    \/ WsSent(c) \/ WsSendFails(c)
    \/ WsClose(c) \/ WsLeave(c)

HttpStep(p) == HttpChunk(p) \/ HttpExhausted(p) \/ HttpProviderFails(p)

ClientStep ==
    \/ \E c \in Conns : ClientSends(c) \/ Disconnect(c) \/ Reconnect(c)
    \/ \E p \in Posts : HttpStart(p)
    \/ \E sid \in DOMAIN mem : Fork(sid) \/ Switch(sid) \/ HardDelete(sid)

Next ==
    \/ \E c \in Conns : WsStep(c)
    \/ \E p \in Posts : HttpStep(p)
    \/ ClientStep

Spec == Init /\ [][Next]_vars

\* The event loop runs every coroutine that can run: a receive, a sleep(0) or
\* a send completes, and the adapter yields, ends or times out.  The clients
\* owe nothing.
Fairness ==
    /\ \A c \in Conns : WF_vars(WsStep(c))
    /\ \A p \in Posts : WF_vars(HttpStep(p))

FairSpec == Spec /\ Fairness

----------------------------------------------------------------------------
\* Properties

\* Every variable has its shape.
TypeOK ==
    /\ \E D \in SUBSET Sessions : mem \in [D -> Session]
    /\ streaming \subseteq Sessions
    /\ cancelled \subseteq Sessions
    /\ nextMsg \in Nat \ {0}
    /\ pc \in [Handlers -> Places]
    /\ turn \in [Handlers -> Turn]
    /\ inbox \in [Conns -> Seq(Frame)]
    /\ open \in [Conns -> BOOLEAN]
    /\ out \in [Conns -> Seq(Kinds)]
    /\ requests \in Nat
    /\ spent \in [Sessions -> Nat]
    /\ answered \subseteq Nat \X Nat
    /\ astray \subseteq Sessions \X Nat

\* However turns overlap, the totals of a session never claim more tokens
\* than its finished turns used: a snapshot taken before the stream can make
\* the read-modify-write of usage_totals lose a turn, never invent one.
NeverOvercounts == \A sid \in DOMAIN mem : mem[sid].totals <= spent[sid]

\* What makes NeverOvercounts inductive: a snapshot of the totals is never
\* ahead of the ledger of finished turns, and a handler that comes out of
\* sleep(0) does have a chunk of its script in hand.
SnapshotsBehind == \A h \in Handlers : turn[h].prior <= spent[turn[h].sid]
ChunkInHand == \A h \in Handlers : pc[h] = "yield" => ~Exhausted(turn[h])

IInv == TypeOK /\ NeverOvercounts /\ SnapshotsBehind /\ ChunkInHand

\* "The lifetime totals are additive across turns" (comment in the WS
\* handler): the totals are the sum over the finished turns.  Holds while one
\* client sends; two overlapping turns of a session lose an update.
TotalsAreAdditive == \A sid \in DOMAIN mem : mem[sid].totals = spent[sid]

\* "While a stream is active on a session, branch.switch is refused"
\* (ADR-0019): a handler in its turn has the flag of its session up.
\* Holds while one client sends; otherwise the first handler to finish drops
\* the flag of the other.
FlagGuardsStream ==
    \A h \in Handlers : InTurn(h) => turn[h].sid \in streaming

\* A flag that is up belongs to a turn that is going on, so that no session
\* is closed to branch switches for good.  Holds when no save raises; the
\* HTTP handler, which has no finally block, leaves it up otherwise.
FlagHasOwner ==
    \A sid \in streaming : \E h \in Handlers : InTurn(h) /\ turn[h].sid = sid

\* "Calling cancel_stream on a session that is not streaming is a no-op", and
\* the flag is cleared with the stream's (comments in session_manager): no
\* cancel request outlives the stream it was made for, to hit a later turn.
\* Holds for WS streams; POST .../messages never clears it.
CancelDiesWithStream == cancelled \subseteq streaming

\* When the connection is up, the handler is: a time limit that passes is
\* answered with chat.error / stream_timeout, not with a dead socket (comment
\* of the adapter).
HandlerSurvivesTimeout == \A c \in Conns : pc[c] = "dead" => ~open[c]

Count(c, type) == Cardinality({i \in DOMAIN out[c] : out[c][i] = type})
SaidDone(c) == out[c] # <<>> /\ out[c][Len(out[c])] = "done"

\* The reply that is stored is the reply that was streamed ("writes a single
\* assistant message with the full reply", chat-architecture.md): as many
\* pieces in the message as delta frames on the wire.
StoredIsStreamed ==
    \A c \in Conns : pc[c] = "closing" /\ SaidDone(c) =>
        turn[c].text = Count(c, "delta")

\* "If the provider returned a usage block on the terminating chunk, prefer
\* it over the estimate" (comment in the WS handler): a turn that is not
\* cancelled and whose stream carries usage is billed by it.
ReportedUsageWins ==
    \A c \in Conns : pc[c] = "closing" /\ SaidDone(c) /\ ~turn[c].cancelled =>
        \A i \in DOMAIN turn[c].script : turn[c].script[i].usage > 0 =>
            turn[c].got = turn[c].script[i].usage

\* The reply to a question that is not a root hangs from the parent of the
\* question, whatever forks, switches and other turns came while it was
\* streamed: "the server uses the user message's parent_id" (ADR-0019:100, the
\* rule of stream pinning).  That makes it a sibling of its question, where the
\* text around the rule promises a child (ADR-0019:67 and 92).
ReplyOnItsBranch ==
    \A sid \in DOMAIN mem : \A pair \in answered :
        /\ {pair[1], pair[2]} \subseteq Ids(mem[sid])
        /\ ById(mem[sid], pair[1]).parent # None
        => ById(mem[sid], pair[2]).parent = ById(mem[sid], pair[1]).parent

\* The handlers and the branch routes keep the ledger in order between them,
\* whatever ids and roles the forks name: ids grow, parents are older than
\* their children, the cap holds as far as it can (so that one drop is enough),
\* and the tip is a message of the session, unless system messages fill the
\* cap.
LedgerSound ==
    \A sid \in DOMAIN mem :
        Ordered(mem[sid]) /\ WithinCap(mem[sid]) /\ TipHolds(mem[sid])

\* GET /branches shows each message on some branch, and each branch with its
\* tip, whatever turns, forks and switches did to the session, but for what
\* hangs from a fork made from an unknown id: the session keeps such a message,
\* and no branch shows it.  No reply that was streamed and no branch that was
\* left is lost from view otherwise.  Claimed of a session below the cap (which
\* would have cut it) and for none of whose branches the depth guard trips.
BranchesRecoverable ==
    \A sid \in DOMAIN mem :
        LET s == mem[sid]
            paths == BranchPaths(s)
            rooted == {id \in Ids(s) :
                         \A elder \in Ancestry(s, id) : <<sid, elder>> \notin astray}
        IN  /\ Len(s.msgs) < MaxMessages
            /\ \A tip \in DOMAIN paths : paths[tip].result # "raised"
            => /\ \A tip \in DOMAIN paths \cap rooted : tip \in paths[tip].ids
               /\ rooted = UNION {paths[tip].ids : tip \in DOMAIN paths}

\* Every turn comes to its end, and every stream flag falls, under fairness:
\* no stream keeps a session from its branch switch for ever.
FlagFalls == \A sid \in Sessions : sid \in streaming ~> sid \notin streaming

\* TurnProtocol, as the client of socket c sees it.
Protocol(c) == INSTANCE TurnProtocol WITH
    frames <- out[c],
    busy <- pc[c] = "start" \/ InTurn(c),
    lost <- ~open[c] \/ pc[c] = "dead"

\* To each client the handler keeps the turn protocol
\* (the formula is \A c \in Conns : Protocol(c)!Spec, as TLC can check it).
KeepsTurnProtocol ==
    /\ \A c \in Conns : Protocol(c)!Init
    /\ [][\A c \in Conns : [Protocol(c)!Next]_(Protocol(c)!vars)]_vars

\* Under fairness every turn of every socket ends, its last frame sent or its
\* connection lost.
EveryTurnEnds == \A c \in Conns : Protocol(c)!TurnEnds

=============================================================================
