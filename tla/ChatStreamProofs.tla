-------------------------- MODULE ChatStreamProofs --------------------------
(***************************************************************************)
(* ChatStream for every set of sessions, sockets, requests and scripts:    *)
(* its type invariant; that overlapping turns never make the totals of a   *)
(* session claim more tokens than its turns used; that the ledgers stay    *)
(* sound whatever forks the clients make; where a reply hangs; that below  *)
(* the cap the branch view loses nothing but what hangs from a fork made   *)
(* from an unknown id; and what the flags and the totals mean with one     *)
(* client that sends, or without POST turns.                               *)
(*                                                                         *)
(* IInv is proved conjunct group by conjunct group: what is in the ledger  *)
(* (MemOK), the flags, the handlers' turns (TurnsOK) and the wire.  Each   *)
(* further section adds an invariant of its own on top of IInv, and says   *)
(* first which of its variables a step of each handler may change.         *)
(***************************************************************************)
EXTENDS ChatStream, SessionLedgerProofs

MemOK ==
    /\ \E D \in SUBSET Sessions : mem \in [D -> Session]
    /\ nextMsg \in Nat \ {0}
    /\ spent \in [Sessions -> Nat]
    /\ answered \subseteq Nat \X Nat
    /\ astray \subseteq Sessions \X Nat
    /\ \A sid \in DOMAIN mem : mem[sid].totals <= spent[sid]

FlagsOK == streaming \subseteq Sessions /\ cancelled \subseteq Sessions

TurnsOK ==
    /\ pc \in [Handlers -> Places]
    /\ turn \in [Handlers -> Turn]
    /\ \A h \in Handlers : turn[h].prior <= spent[turn[h].sid]
    /\ \A h \in Handlers : pc[h] = "yield" => ~Exhausted(turn[h])

WireOK ==
    /\ inbox \in [Conns -> Seq(Frame)]
    /\ open \in [Conns -> BOOLEAN]
    /\ out \in [Conns -> Seq(Kinds)]
    /\ requests \in Nat

\* The invariant is the conjunction of four parts, each on variables of its own.
LEMMA IInvParts == IInv <=> MemOK /\ FlagsOK /\ TurnsOK /\ WireOK
BY DEF IInv, TypeOK, NeverOvercounts, SnapshotsBehind, ChunkInHand, MemOK,
       FlagsOK, TurnsOK, WireOK

\* The same in the next state.
LEMMA IInvPartsPrime == IInv' <=> MemOK' /\ FlagsOK' /\ TurnsOK' /\ WireOK'
BY DEF IInv, TypeOK, NeverOvercounts, SnapshotsBehind, ChunkInHand, MemOK,
       FlagsOK, TurnsOK, WireOK

\* The sessions start empty, the handlers idle.
LEMMA InitIInv == Init => IInv
<1>. SUFFICES ASSUME Init PROVE IInv
    OBVIOUS
<1>1. FreshSession \in Session /\ FreshSession.totals = 0
    BY DEF FreshSession, Session, Titles, None
<1>2. MemOK
    BY <1>1 DEF Init, MemOK
<1>3. FlagsOK
    BY DEF Init, FlagsOK
<1>4. \A sid \in Sessions : NoTurn(sid) \in Turn /\ NoTurn(sid).prior = 0
    BY DEF NoTurn, NewTurn, Turn, None
<1>5. turn \in [Handlers -> Turn] /\ \A h \in Handlers : turn[h].prior = 0
    BY <1>4 DEF Init
<1>6. \A h \in Handlers : turn[h].sid \in Sessions
    BY <1>5 DEF Turn
<1>7. TurnsOK
    BY <1>5, <1>6 DEF Init, TurnsOK, Places
<1>8. WireOK
    BY DEF Init, WireOK
<1>. QED
    BY <1>2, <1>3, <1>7, <1>8, IInvParts

----------------------------------------------------------------------------
\* Storing one session.
LEMMA PutKeepsMem ==
    ASSUME MemOK, NEW sid \in DOMAIN mem, NEW s \in Session,
           mem' = Put(mem, sid, s),
           nextMsg' \in Nat \ {0},
           spent' \in [Sessions -> Nat],
           answered' \subseteq Nat \X Nat,
           astray' \subseteq Sessions \X Nat,
           \A x \in Sessions : spent[x] <= spent'[x],
           s.totals <= spent'[sid]
    PROVE  MemOK'
<1>1. PICK D \in SUBSET Sessions : mem \in [D -> Session]
    BY DEF MemOK
<1>2. mem' \in [D -> Session]
    BY <1>1 DEF Put
<1>3. ASSUME NEW x \in DOMAIN mem'
      PROVE  mem'[x].totals <= spent'[x]
    <2>1. CASE x = sid
        BY <1>1, <2>1 DEF Put
    <2>2. CASE x # sid
        <3>1. x \in D /\ mem'[x] = mem[x]
            BY <1>1, <2>2 DEF Put
        <3>2. mem[x].totals \in Nat /\ spent[x] \in Nat /\ spent'[x] \in Nat
            BY <1>1, <3>1 DEF MemOK, Session
        <3>. QED
            BY <1>1, <3>1, <3>2 DEF MemOK
    <2>. QED
        BY <2>1, <2>2
<1>. QED
    BY <1>2, <1>3 DEF MemOK

\* What a Put of a session of the same totals asks for.
LEMMA PutSameTotals ==
    ASSUME MemOK, NEW sid \in DOMAIN mem, NEW s \in Session,
           s.totals = mem[sid].totals,
           mem' = Put(mem, sid, s),
           nextMsg' \in Nat \ {0},
           UNCHANGED <<spent, answered>>,
           astray' \subseteq Sessions \X Nat
    PROVE  MemOK'
<1>1. \A x \in Sessions : spent[x] \in Nat /\ spent[x] <= spent'[x]
    BY DEF MemOK
<1>2. s.totals <= spent'[sid]
    BY DEF MemOK
<1>3. /\ spent' \in [Sessions -> Nat]
      /\ answered' \subseteq Nat \X Nat
    BY DEF MemOK
<1>. QED
    BY <1>1, <1>2, <1>3, PutKeepsMem

\* What the invariant says of one session of the manager.
LEMMA SessionInMem ==
    ASSUME MemOK, NEW sid \in DOMAIN mem
    PROVE  /\ sid \in Sessions
           /\ mem[sid] \in Session
           /\ mem[sid].totals \in Nat
           /\ mem[sid].tip \in Nat
           /\ spent[sid] \in Nat
           /\ mem[sid].totals <= spent[sid]
BY DEF MemOK, Session

\* Frames sent to a socket, if it is open, are appended to what it got.
LEMMA SayKeepsWire ==
    ASSUME WireOK, NEW c \in Conns, NEW frames \in Seq(Kinds),
           Say(c, frames), UNCHANGED wire
    PROVE  WireOK'
<1>1. out[c] \in Seq(Kinds) /\ out[c] \o frames \in Seq(Kinds)
    BY ConcatProperties DEF WireOK
<1>. QED
    BY <1>1 DEF WireOK, Say, wire

\* One handler moves, its turn being a turn that is still behind the ledger.
LEMMA HandlerKeepsTurns ==
    ASSUME TurnsOK, NEW h \in Handlers, NEW t \in Turn, NEW place \in Places,
           pc' = [pc EXCEPT ![h] = place],
           turn' = [turn EXCEPT ![h] = t],
           spent \in [Sessions -> Nat],
           spent' \in [Sessions -> Nat],
           \A x \in Sessions : spent[x] <= spent'[x],
           t.prior <= spent'[t.sid],
           place = "yield" => ~Exhausted(t)
    PROVE  TurnsOK'
<1>1. pc' \in [Handlers -> Places] /\ turn' \in [Handlers -> Turn]
    BY DEF TurnsOK
<1>2. ASSUME NEW g \in Handlers
      PROVE  /\ turn'[g].prior <= spent'[turn'[g].sid]
             /\ pc'[g] = "yield" => ~Exhausted(turn'[g])
    <2>1. CASE g = h
        BY <2>1 DEF TurnsOK
    <2>2. CASE g # h
        <3>1. turn'[g] = turn[g] /\ pc'[g] = pc[g]
            BY <2>2 DEF TurnsOK
        <3>2. turn[g].sid \in Sessions /\ turn[g].prior \in Nat
            BY DEF TurnsOK, Turn
        <3>3. turn[g].prior <= spent[turn[g].sid]
            BY DEF TurnsOK
        <3>4. turn[g].prior <= spent'[turn[g].sid]
            <4>1. /\ spent[turn[g].sid] \in Nat
                  /\ spent'[turn[g].sid] \in Nat
                  /\ spent[turn[g].sid] <= spent'[turn[g].sid]
                BY <3>2
            <4>. QED
                BY <3>2, <3>3, <4>1
        <3>. QED
            BY <3>1, <3>4 DEF TurnsOK
    <2>. QED
        BY <2>1, <2>2
<1>. QED
    BY <1>1, <1>2 DEF TurnsOK

\* The same, for a step that leaves the turn, or the ledger, alone.
LEMMA PlaceKeepsTurns ==
    ASSUME MemOK, TurnsOK, NEW h \in Handlers, NEW place \in Places \ {"yield"},
           pc' = [pc EXCEPT ![h] = place],
           UNCHANGED <<turn, spent>>
    PROVE  TurnsOK'
<1>1. turn' = [turn EXCEPT ![h] = turn[h]] /\ turn[h] \in Turn
    BY DEF TurnsOK
<1>2. turn[h].prior <= spent'[turn[h].sid]
    BY DEF TurnsOK
<1>3. /\ spent \in [Sessions -> Nat] /\ spent' \in [Sessions -> Nat]
      /\ \A x \in Sessions : spent[x] <= spent'[x]
    BY DEF MemOK
<1>. QED
    BY <1>1, <1>2, <1>3, HandlerKeepsTurns

----------------------------------------------------------------------------
\* The end of a turn adds to the ledger what it adds to the totals, on top of
\* a snapshot that was not ahead of the ledger.
LEMMA StoreReplyKeepsMem ==
    ASSUME MemOK, NEW t \in Turn, t.prior <= spent[t.sid],
           NEW counted \in BOOLEAN, StoreReply(t, counted)
    PROVE  /\ MemOK'
           /\ spent \in [Sessions -> Nat]
           /\ spent' \in [Sessions -> Nat]
           /\ \A x \in Sessions : spent[x] <= spent'[x]
<1>1. /\ t.sid \in Sessions /\ t.prior \in Nat /\ t.got \in Nat
      /\ t.pin \in Nat /\ t.user \in Nat
    BY DEF Turn
<1>2. spent \in [Sessions -> Nat] /\ nextMsg \in Nat \ {0}
    BY DEF MemOK
<1>3. CASE t.sid \notin DOMAIN mem
    <2>1. UNCHANGED <<mem, nextMsg, ghosts>>
        BY <1>3 DEF StoreReply
    <2>. QED
        BY <1>2, <2>1 DEF MemOK, ghosts
<1>4. CASE t.sid \in DOMAIN mem
    <2>. DEFINE replied == WithReply(mem[t.sid], t)
                final == IF counted THEN WithTotals(replied, t) ELSE replied
    <2>1. replied \in Session /\ replied.totals = mem[t.sid].totals
        <3>1. mem[t.sid] \in Session /\ "assistant" \in Roles
            BY <1>4, SessionInMem DEF Roles
        <3>2. ASSUME NEW s \in Session, NEW id \in Nat \ {0}, NEW pin \in Nat
              PROVE  LET new == AppendMessage(s, id, "assistant", pin)
                     IN  new \in Session /\ new.totals = s.totals
            BY <3>1, AppendMessageType
        <3>. QED
            BY <1>1, <1>2, <3>1, <3>2 DEF WithReply
    <2>2. /\ mem' = Put(mem, t.sid, final)
          /\ nextMsg' = nextMsg + 1
          /\ spent' = IF counted THEN [spent EXCEPT ![t.sid] = @ + t.got] ELSE spent
          /\ answered' = answered \cup {<<t.user, nextMsg>>}
          /\ astray' = astray
        BY <1>4 DEF StoreReply
    <2>. HIDE DEF replied
    <2>3. /\ final \in Session
          /\ final.totals = IF counted THEN t.prior + t.got ELSE mem[t.sid].totals
        <3>1. ASSUME NEW s \in Session
              PROVE  LET counts == WithTotals(s, t)
                     IN  counts \in Session /\ counts.totals = t.prior + t.got
            <4>1. t.prior + t.got \in Nat
                BY <1>1
            <4>. QED
                BY <4>1 DEF WithTotals, Session
        <3>. QED
            BY <2>1, <3>1
    <2>. HIDE DEF final
    <2>4. /\ spent' \in [Sessions -> Nat]
          /\ \A x \in Sessions : spent[x] <= spent'[x]
        <3>1. CASE counted
            <4>1. spent' = [spent EXCEPT ![t.sid] = @ + t.got]
                BY <2>2, <3>1
            <4>2. \A x \in Sessions : spent[x] \in Nat
                BY <1>2
            <4>. QED
                BY <1>1, <1>2, <4>1, <4>2
        <3>2. CASE ~counted
            <4>1. \A x \in Sessions : spent[x] \in Nat
                BY <1>2
            <4>. QED
                BY <1>2, <2>2, <3>2, <4>1
        <3>. QED
            BY <3>1, <3>2
    <2>5. final.totals <= spent'[t.sid]
        <3>1. /\ spent[t.sid] \in Nat /\ mem[t.sid].totals \in Nat
              /\ mem[t.sid].totals <= spent[t.sid]
            BY <1>4, SessionInMem
        <3>2. CASE counted
            <4>1. spent'[t.sid] = spent[t.sid] + t.got
                BY <1>1, <1>2, <2>2, <3>2
            <4>2. final.totals = t.prior + t.got
                BY <2>3, <3>2
            <4>. QED
                BY <1>1, <3>1, <4>1, <4>2
        <3>3. CASE ~counted
            BY <2>2, <2>3, <3>1, <3>3
        <3>. QED
            BY <3>2, <3>3
    <2>6. /\ nextMsg' \in Nat \ {0}
          /\ answered' \subseteq Nat \X Nat
          /\ astray' \subseteq Sessions \X Nat
        BY <1>1, <1>2, <2>2 DEF MemOK
    <2>7. MemOK'
        BY <1>4, <2>2, <2>3, <2>4, <2>5, <2>6, PutKeepsMem
    <2>. QED
        BY <1>2, <2>4, <2>7
<1>. QED
    BY <1>3, <1>4

\* The end of a WS turn: with all its saves done, or with one that raised.
LEMMA WsCompleteKeepsIInv ==
    ASSUME IInv, NEW c \in Conns, NEW t \in Turn, t.prior <= spent[t.sid],
           WsComplete(c, t)
    PROVE  IInv'
<1>1. MemOK /\ FlagsOK /\ TurnsOK /\ WireOK
    BY IInvParts
<1>2. PICK counted \in BOOLEAN : StoreReply(t, counted)
    BY DEF WsComplete
<1>3. /\ MemOK'
      /\ spent \in [Sessions -> Nat] /\ spent' \in [Sessions -> Nat]
      /\ \A x \in Sessions : spent[x] <= spent'[x]
    BY <1>1, <1>2, StoreReplyKeepsMem
<1>4. FlagsOK'
    BY <1>1 DEF WsComplete, FlagsOK
<1>5. TurnsOK'
    <2>1. /\ turn' = [turn EXCEPT ![c] = t]
          /\ pc' = [pc EXCEPT ![c] = "closing"]
          /\ c \in Handlers /\ "closing" \in Places
        BY DEF WsComplete, Handlers, Places
    <2>2. t.sid \in Sessions /\ t.prior \in Nat
        BY DEF Turn
    <2>3. spent[t.sid] \in Nat /\ spent'[t.sid] \in Nat
          /\ spent[t.sid] <= spent'[t.sid]
        BY <1>3, <2>2
    <2>4. t.prior <= spent'[t.sid]
        BY <2>2, <2>3
    <2>. QED
        BY <1>1, <1>3, <2>1, <2>4, HandlerKeepsTurns
<1>6. WireOK'
    <2>1. <<"done">> \in Seq(Kinds) /\ <<"error">> \in Seq(Kinds)
        BY DEF Kinds
    <2>2. UNCHANGED wire /\ (Say(c, <<"done">>) \/ Say(c, <<"error">>))
        BY DEF WsComplete
    <2>. QED
        BY <1>1, <2>1, <2>2, SayKeepsWire
<1>. QED
    BY <1>3, <1>4, <1>5, <1>6, IInvPartsPrime

\* The end of an HTTP turn, likewise.
LEMMA HttpCompleteKeepsIInv ==
    ASSUME IInv, NEW p \in Posts, NEW t \in Turn, t.prior <= spent[t.sid],
           HttpComplete(p, t)
    PROVE  IInv'
<1>1. MemOK /\ FlagsOK /\ TurnsOK /\ WireOK
    BY IInvParts
<1>2. PICK counted \in BOOLEAN : StoreReply(t, counted)
    BY DEF HttpComplete
<1>3. /\ MemOK'
      /\ spent \in [Sessions -> Nat] /\ spent' \in [Sessions -> Nat]
      /\ \A x \in Sessions : spent[x] <= spent'[x]
    BY <1>1, <1>2, StoreReplyKeepsMem
<1>4. FlagsOK'
    BY <1>1 DEF HttpComplete, FlagsOK
<1>5. TurnsOK'
    <2>1. /\ turn' = [turn EXCEPT ![p] = t]
          /\ pc' = [pc EXCEPT ![p] = "idle"]
          /\ p \in Handlers /\ "idle" \in Places
        BY DEF HttpComplete, Handlers, Places
    <2>2. t.sid \in Sessions /\ t.prior \in Nat
        BY DEF Turn
    <2>3. spent[t.sid] \in Nat /\ spent'[t.sid] \in Nat
          /\ spent[t.sid] <= spent'[t.sid]
        BY <1>3, <2>2
    <2>4. t.prior <= spent'[t.sid]
        BY <2>2, <2>3
    <2>. QED
        BY <1>1, <1>3, <2>1, <2>4, HandlerKeepsTurns
<1>6. WireOK'
    BY <1>1 DEF HttpComplete, wire, WireOK
<1>. QED
    BY <1>3, <1>4, <1>5, <1>6, IInvPartsPrime

----------------------------------------------------------------------------
\* The start of a turn, and the chunks of its script.
LEMMA HandlersTurn ==
    ASSUME MemOK, TurnsOK, NEW h \in Handlers
    PROVE  /\ turn[h] \in Turn
           /\ turn[h].sid \in Sessions
           /\ turn[h].prior <= spent[turn[h].sid]
           /\ pc[h] = "yield" => ~Exhausted(turn[h])
           /\ spent \in [Sessions -> Nat]
BY DEF MemOK, TurnsOK, Turn

\* A stream that is not exhausted has a chunk to give.
LEMMA ChunkTyped ==
    ASSUME NEW t \in Turn, ~Exhausted(t)
    PROVE  t.script[t.at] \in Chunk
<1>1. t.script \in Scripts
    BY DEF Turn, Exhausted
<1>2. t.at \in 1..Len(t.script)
    BY <1>1, ScriptsAssumption DEF Turn, Exhausted
<1>. QED
    BY <1>1, <1>2, ScriptsAssumption

\* A chunk changes what a turn has counted, not its session nor its snapshot.
LEMMA AbsorbTyped ==
    ASSUME NEW t \in Turn, NEW chunk \in Chunk
    PROVE  /\ WsAbsorb(t, chunk) \in Turn
           /\ WsAbsorb(t, chunk).sid = t.sid
           /\ WsAbsorb(t, chunk).prior = t.prior
           /\ HttpAbsorb(t, chunk) \in Turn
           /\ HttpAbsorb(t, chunk).sid = t.sid
           /\ HttpAbsorb(t, chunk).prior = t.prior
<1>1. \A b \in BOOLEAN : One(b) \in Nat
    BY DEF One
<1>2. /\ chunk.delta \in BOOLEAN /\ chunk.tools \in BOOLEAN
      /\ (chunk.delta /\ chunk.tools) \in BOOLEAN
      /\ chunk.usage \in Nat
    BY DEF Chunk
<1>. /\ t.at \in Nat \ {0} /\ t.text \in Nat /\ t.got \in Nat
     /\ One(chunk.delta) \in Nat /\ One(chunk.tools) \in Nat
     /\ One(chunk.delta /\ chunk.tools) \in Nat
    BY <1>1, <1>2 DEF Turn
<1>3. /\ t.at + 1 \in Nat \ {0}
      /\ t.text + One(chunk.delta) + One(chunk.delta /\ chunk.tools) \in Nat
      /\ t.text + One(chunk.delta) \in Nat
      /\ t.got + One(chunk.delta) + One(chunk.tools) \in Nat
      /\ t.got + 1 \in Nat
    OBVIOUS
<1>4. WsAbsorb(t, chunk) \in Turn
    BY <1>2, <1>3 DEF WsAbsorb, Turn
<1>5. HttpAbsorb(t, chunk) \in Turn
    BY <1>2, <1>3 DEF HttpAbsorb, Turn
<1>6. /\ WsAbsorb(t, chunk).sid = t.sid
      /\ WsAbsorb(t, chunk).prior = t.prior
      /\ HttpAbsorb(t, chunk).sid = t.sid
      /\ HttpAbsorb(t, chunk).prior = t.prior
    BY DEF WsAbsorb, HttpAbsorb, Turn
<1>. QED
    BY <1>4, <1>5, <1>6

\* The locals of a handler before it has appended anything.
LEMMA FreshTurn ==
    ASSUME NEW sid \in Sessions
    PROVE  NoTurn(sid) \in Turn /\ NoTurn(sid).prior = 0 /\ NoTurn(sid).sid = sid
BY DEF NoTurn, NewTurn, Turn, None

\* The user message leaves the totals as they are.
LEMMA AppendUserKeepsMem ==
    ASSUME MemOK, NEW sid \in DOMAIN mem, AppendUser(sid), UNCHANGED ghosts
    PROVE  MemOK'
<1>1. mem[sid] \in Session /\ "user" \in Roles /\ None \in Nat
      /\ nextMsg \in Nat \ {0}
    BY SessionInMem DEF Roles, None, MemOK
<1>2. /\ AppendMessage(mem[sid], nextMsg, "user", None) \in Session
      /\ AppendMessage(mem[sid], nextMsg, "user", None).totals = mem[sid].totals
    BY <1>1, AppendMessageType
<1>3. nextMsg' \in Nat \ {0}
    BY <1>1 DEF AppendUser
<1>. QED
    BY <1>2, <1>3, PutSameTotals DEF AppendUser, ghosts, MemOK

\* A turn begins: its snapshot of the totals is what the session has, which is
\* at most what its finished turns spent.
LEMMA BeginTurnKeepsIInv ==
    ASSUME IInv, NEW h \in Handlers, NEW sid \in DOMAIN mem,
           BeginTurn(h, sid), UNCHANGED out, requests' \in Nat
    PROVE  IInv'
<1>1. MemOK /\ FlagsOK /\ TurnsOK /\ WireOK
    BY IInvParts
<1>2. /\ sid \in Sessions
      /\ mem[sid].totals \in Nat /\ mem[sid].tip \in Nat
      /\ mem[sid].totals <= spent[sid]
    BY <1>1, SessionInMem
<1>3. MemOK'
    BY <1>1, AppendUserKeepsMem DEF BeginTurn
<1>4. FlagsOK'
    BY <1>1, <1>2 DEF BeginTurn, RaiseFlag, FlagsOK
<1>5. TurnsOK'
    <2>1. PICK script \in Scripts :
            turn' = [turn EXCEPT ![h] =
                NewTurn(sid, nextMsg, mem[sid].tip, mem[sid].totals, script)]
        BY DEF BeginTurn
    <2>. DEFINE t == NewTurn(sid, nextMsg, mem[sid].tip, mem[sid].totals, script)
    <2>2. t \in Turn /\ t.prior = mem[sid].totals /\ t.sid = sid
        <3>1. nextMsg \in Nat
            BY <1>1 DEF MemOK
        <3>. QED
            BY <1>2, <3>1 DEF NewTurn, Turn
    <2>3. pc' = [pc EXCEPT ![h] = "next"] /\ UNCHANGED spent /\ "next" \in Places
        BY DEF BeginTurn, ghosts, Places
    <2>4. spent \in [Sessions -> Nat] /\ spent' \in [Sessions -> Nat]
          /\ \A x \in Sessions : spent[x] <= spent'[x]
        BY <1>1, <2>3 DEF MemOK
    <2>. HIDE DEF t
    <2>5. turn' = [turn EXCEPT ![h] = t]
        BY <2>1 DEF t
    <2>6. t.prior <= spent'[t.sid]
        BY <1>2, <2>2, <2>3
    <2>. QED
        BY <1>1, <2>2, <2>3, <2>4, <2>5, <2>6, HandlerKeepsTurns
<1>6. WireOK'
    BY <1>1 DEF BeginTurn, WireOK
<1>. QED
    BY <1>3, <1>4, <1>5, <1>6, IInvPartsPrime

\* A turn is refused after its user message was appended.
LEMMA RefuseTurnKeepsIInv ==
    ASSUME IInv, NEW h \in Handlers, NEW sid \in DOMAIN mem,
           NEW place \in Places \ {"yield"},
           RefuseTurn(h, sid, place), WireOK'
    PROVE  IInv'
<1>1. MemOK /\ FlagsOK /\ TurnsOK /\ WireOK
    BY IInvParts
<1>2. MemOK'
    BY <1>1, AppendUserKeepsMem DEF RefuseTurn
<1>3. FlagsOK'
    BY <1>1 DEF RefuseTurn, FlagsOK
<1>4. TurnsOK'
    BY <1>1, PlaceKeepsTurns DEF RefuseTurn, ghosts
<1>. QED
    BY <1>2, <1>3, <1>4, IInvPartsPrime

----------------------------------------------------------------------------
\* Every step keeps IInv.
LEMMA ClientStepsKeepIInv ==
    ASSUME IInv, NEW c \in Conns,
           ClientSends(c) \/ Disconnect(c) \/ Reconnect(c)
    PROVE  IInv'
<1>1. MemOK /\ FlagsOK /\ TurnsOK /\ WireOK
    BY IInvParts
<1>2. c \in Handlers
    BY DEF Handlers
<1>3. MemOK' /\ FlagsOK'
    BY <1>1 DEF ClientSends, Disconnect, Reconnect, store, ghosts, MemOK, FlagsOK
<1>4. TurnsOK'
    <2>1. CASE ClientSends(c) \/ Disconnect(c)
        BY <1>1, <2>1 DEF ClientSends, Disconnect, ghosts, TurnsOK
    <2>2. CASE Reconnect(c)
        <3>1. "idle" \in Places
            BY DEF Places
        <3>. QED
            BY <1>1, <1>2, <2>2, <3>1, PlaceKeepsTurns DEF Reconnect, ghosts
    <2>. QED
        BY <2>1, <2>2
<1>5. WireOK'
    <2>1. CASE ClientSends(c)
        <3>1. PICK frame \in Frame : inbox' = [inbox EXCEPT ![c] = Append(@, frame)]
            BY <2>1 DEF ClientSends
        <3>2. Append(inbox[c], frame) \in Seq(Frame)
            BY <1>1, AppendProperties DEF WireOK
        <3>. QED
            BY <1>1, <2>1, <3>1, <3>2 DEF ClientSends, Request, WireOK
    <2>2. CASE Disconnect(c)
        BY <1>1, <2>2 DEF Disconnect, WireOK
    <2>3. CASE Reconnect(c)
        BY <1>1, <2>3 DEF Reconnect, Request, WireOK
    <2>. QED
        BY <2>1, <2>2, <2>3
<1>. QED
    BY <1>3, <1>4, <1>5, IInvPartsPrime

\* The branch routes and hard delete leave totals and turns alone.
LEMMA RouteStepsKeepIInv ==
    ASSUME IInv, NEW sid \in DOMAIN mem, Fork(sid) \/ Switch(sid) \/ HardDelete(sid)
    PROVE  IInv'
<1>1. MemOK /\ FlagsOK /\ TurnsOK /\ WireOK
    BY IInvParts
<1>2. mem[sid] \in Session /\ nextMsg \in Nat \ {0}
    BY <1>1, SessionInMem DEF MemOK
<1>3. \A id \in Ids(mem[sid]) : id \in Nat
    <2>1. ASSUME NEW i \in DOMAIN mem[sid].msgs
          PROVE  mem[sid].msgs[i].id \in Nat
        <3>1. mem[sid].msgs \in Seq(Message)
            BY <1>2 DEF Session
        <3>2. mem[sid].msgs[i] \in Message
            BY <3>1, ElementOfSeq, LenProperties
        <3>. QED
            BY <3>2 DEF Message
    <2>. QED
        BY <2>1 DEF Ids
<1>4. FlagsOK' /\ TurnsOK' /\ WireOK'
    BY <1>1 DEF Fork, Switch, HardDelete, Request, wire, ghosts, FlagsOK, TurnsOK,
                WireOK
<1>5. CASE Fork(sid)
    <2>1. PICK role \in ForkRoles, parent \in 1..nextMsg :
            /\ mem' = Put(mem, sid, AppendMessage(mem[sid], nextMsg + 1, role, parent))
            /\ astray' \subseteq astray \cup {<<sid, nextMsg + 1>>}
        BY <1>5 DEF Fork
    <2>2. parent \in Nat /\ role \in Roles /\ nextMsg + 1 \in Nat \ {0}
        BY <1>2, ChatBoundsAssumption
    <2>3. /\ AppendMessage(mem[sid], nextMsg + 1, role, parent) \in Session
          /\ AppendMessage(mem[sid], nextMsg + 1, role, parent).totals
                = mem[sid].totals
        <3>1. ASSUME NEW s \in Session, NEW id \in Nat \ {0}
              PROVE  LET new == AppendMessage(s, id, role, parent)
                     IN  new \in Session /\ new.totals = s.totals
            BY <2>2, AppendMessageType
        <3>. QED
            BY <1>2, <2>2, <3>1
    <2>4. nextMsg' \in Nat \ {0} /\ UNCHANGED <<spent, answered>>
        BY <1>2, <1>5 DEF Fork
    <2>5. astray' \subseteq Sessions \X Nat
        <3>1. sid \in Sessions /\ astray \subseteq Sessions \X Nat
            BY <1>1, SessionInMem DEF MemOK
        <3>. QED
            BY <2>1, <2>2, <3>1
    <2>6. MemOK'
        BY <1>1, <2>1, <2>3, <2>4, <2>5, PutSameTotals
    <2>. QED
        BY <1>4, <2>6, IInvPartsPrime
<1>6. CASE Switch(sid)
    <2>1. PICK leaf \in Ids(mem[sid]) :
            mem' = Put(mem, sid, SwitchTip(mem[sid], leaf))
        BY <1>6 DEF Switch
    <2>2. /\ SwitchTip(mem[sid], leaf) \in Session
          /\ SwitchTip(mem[sid], leaf).totals = mem[sid].totals
        BY <1>2, <1>3 DEF SwitchTip, Session
    <2>3. /\ nextMsg' \in Nat \ {0} /\ UNCHANGED <<spent, answered>>
          /\ astray' \subseteq Sessions \X Nat
        BY <1>1, <1>2, <1>6 DEF Switch, ghosts, MemOK
    <2>4. MemOK'
        BY <1>1, <2>1, <2>2, <2>3, PutSameTotals
    <2>. QED
        BY <1>4, <2>4, IInvPartsPrime
<1>7. CASE HardDelete(sid)
    <2>1. PICK D \in SUBSET Sessions : mem \in [D -> Session]
        BY <1>1 DEF MemOK
    <2>2. mem' \in [D \ {sid} -> Session]
        BY <1>7, <2>1 DEF HardDelete, Drop
    <2>3. \A x \in DOMAIN mem' : mem'[x] = mem[x] /\ x \in DOMAIN mem
        BY <1>7, <2>1 DEF HardDelete, Drop
    <2>4. UNCHANGED <<nextMsg, spent, answered, astray>>
        BY <1>7 DEF HardDelete, ghosts
    <2>5. MemOK'
        BY <1>1, <2>2, <2>3, <2>4 DEF MemOK
    <2>. QED
        BY <1>4, <2>5, IInvPartsPrime
<1>. QED
    BY <1>5, <1>6, <1>7

\* The steps of POST .../messages.
LEMMA HttpStepsKeepIInv ==
    ASSUME IInv, NEW p \in Posts, HttpStart(p) \/ HttpStep(p)
    PROVE  IInv'
<1>1. MemOK /\ FlagsOK /\ TurnsOK /\ WireOK
    BY IInvParts
<1>2. p \in Handlers /\ "idle" \in Places \ {"yield"} /\ "next" \in Places
    BY DEF Handlers, Places
<1>3. /\ turn[p] \in Turn /\ turn[p].prior <= spent[turn[p].sid]
      /\ spent \in [Sessions -> Nat]
    BY <1>1, <1>2, HandlersTurn
<1>4. CASE HttpStart(p)
    <2>1. PICK sid \in DOMAIN mem : BeginTurn(p, sid) \/ RefuseTurn(p, sid, "idle")
        BY <1>4 DEF HttpStart
    <2>2. requests' \in Nat /\ UNCHANGED out
        BY <1>1, <1>4 DEF HttpStart, Request, WireOK
    <2>3. CASE BeginTurn(p, sid)
        BY <1>2, <2>2, <2>3, BeginTurnKeepsIInv
    <2>4. CASE RefuseTurn(p, sid, "idle")
        <3>1. WireOK'
            BY <1>1, <2>2, <2>4 DEF RefuseTurn, WireOK
        <3>. QED
            BY <1>2, <2>4, <3>1, RefuseTurnKeepsIInv
    <2>. QED
        BY <2>1, <2>3, <2>4
<1>5. CASE HttpChunk(p)
    <2>. DEFINE t == HttpAbsorb(turn[p], turn[p].script[turn[p].at])
    <2>1. t \in Turn /\ t.sid = turn[p].sid /\ t.prior = turn[p].prior
        BY <1>3, <1>5, ChunkTyped, AbsorbTyped DEF HttpChunk
    <2>2. turn' = [turn EXCEPT ![p] = t] /\ pc' = [pc EXCEPT ![p] = "next"]
        BY <1>1, <1>5 DEF HttpChunk, TurnsOK
    <2>. HIDE DEF t
    <2>3. UNCHANGED <<store, wire, out, ghosts>>
        BY <1>5 DEF HttpChunk
    <2>4. MemOK' /\ FlagsOK' /\ WireOK'
        BY <1>1, <2>3 DEF store, wire, ghosts, MemOK, FlagsOK, WireOK
    <2>5. /\ spent' \in [Sessions -> Nat]
          /\ \A x \in Sessions : spent[x] <= spent'[x]
          /\ t.prior <= spent'[t.sid]
        BY <1>3, <2>1, <2>3 DEF ghosts
    <2>6. TurnsOK'
        BY <1>1, <1>2, <1>3, <2>1, <2>2, <2>5, HandlerKeepsTurns
    <2>. QED
        BY <2>4, <2>6, IInvPartsPrime
<1>6. CASE HttpExhausted(p)
    BY <1>3, <1>6, HttpCompleteKeepsIInv DEF HttpExhausted
<1>7. CASE HttpProviderFails(p)
    <2>1. MemOK' /\ FlagsOK' /\ WireOK'
        BY <1>1, <1>7 DEF HttpProviderFails, wire, ghosts, MemOK, FlagsOK, WireOK
    <2>2. TurnsOK'
        BY <1>1, <1>2, <1>7, PlaceKeepsTurns DEF HttpProviderFails, ghosts
    <2>. QED
        BY <2>1, <2>2, IInvPartsPrime
<1>. QED
    BY <1>4, <1>5, <1>6, <1>7 DEF HttpStep

\* A socket's handler moves to another place, and nothing else that IInv
\* speaks of but the flags and the wire changes.
LEMMA WsPlaceKeepsIInv ==
    ASSUME IInv, NEW c \in Conns, NEW place \in Places \ {"yield"},
           pc' = [pc EXCEPT ![c] = place],
           UNCHANGED <<mem, nextMsg, turn, ghosts>>,
           FlagsOK', WireOK'
    PROVE  IInv'
<1>1. MemOK /\ TurnsOK /\ c \in Handlers
    BY IInvParts DEF Handlers
<1>2. MemOK'
    BY <1>1 DEF MemOK, ghosts
<1>3. TurnsOK'
    BY <1>1, PlaceKeepsTurns DEF ghosts
<1>. QED
    BY <1>2, <1>3, IInvPartsPrime

\* The finally block of the WS handler.
LEMMA DropFlagsKeepsFlags ==
    ASSUME FlagsOK, NEW sid, DropFlags(sid)
    PROVE  FlagsOK'
BY DEF FlagsOK, DropFlags

\* A chunk that leaves the loop going, or ends the turn.
LEMMA WsContinueKeepsIInv ==
    ASSUME IInv, NEW c \in Conns, NEW t \in Turn, t.prior <= spent[t.sid],
           NEW chunk, WsContinue(c, t, chunk)
    PROVE  IInv'
<1>1. MemOK /\ FlagsOK /\ TurnsOK /\ WireOK
    BY IInvParts
<1>2. CASE WsComplete(c, t)
    BY <1>2, WsCompleteKeepsIInv
<1>3. CASE ~chunk.finish
    <2>1. /\ pc' = [pc EXCEPT ![c] = "next"]
          /\ turn' = [turn EXCEPT ![c] = t]
          /\ UNCHANGED <<store, wire, out, ghosts>>
        BY <1>3 DEF WsContinue
    <2>2. MemOK' /\ FlagsOK' /\ WireOK'
        BY <1>1, <2>1 DEF store, wire, ghosts, MemOK, FlagsOK, WireOK
    <2>3. /\ spent \in [Sessions -> Nat] /\ spent' \in [Sessions -> Nat]
          /\ \A x \in Sessions : spent[x] <= spent'[x]
          /\ t.prior <= spent'[t.sid]
        BY <1>1, <2>1 DEF MemOK, ghosts
    <2>4. c \in Handlers /\ "next" \in Places
        BY DEF Handlers, Places
    <2>5. TurnsOK'
        BY <1>1, <2>1, <2>3, <2>4, HandlerKeepsTurns
    <2>. QED
        BY <2>2, <2>5, IInvPartsPrime
<1>. QED
    BY <1>2, <1>3 DEF WsContinue

\* A request is received, and its turn begins.
LEMMA WsReceiveKeepsIInv ==
    ASSUME IInv, NEW c \in Conns,
           \/ ReceiveSend(c) \/ ReceiveCancel(c)
           \/ WsUnknownSession(c) \/ WsStart(c) \/ WsLeave(c)
    PROVE  IInv'
<1>1. MemOK /\ FlagsOK /\ TurnsOK /\ WireOK
    BY IInvParts
<1>2. c \in Handlers /\ \A place \in {"idle", "start", "dead"} :
            /\ place \in Places \ {"yield"}
            /\ AfterSend(c, place) \in Places \ {"yield"}
    BY DEF Handlers, Places, AfterSend
<1>3. /\ turn[c] \in Turn /\ turn[c].sid \in Sessions
      /\ spent \in [Sessions -> Nat]
    BY <1>1, <1>2, HandlersTurn
<1>4. inbox[c] # <<>> => Head(inbox[c]) \in Frame /\ Tail(inbox[c]) \in Seq(Frame)
    BY <1>1, HeadTailProperties DEF WireOK
<1>5. CASE ReceiveSend(c)
    <2>. DEFINE frame == Head(inbox[c])
    <2>1. frame \in Frame /\ Tail(inbox[c]) \in Seq(Frame) /\ frame.sid \in Sessions
        BY <1>4, <1>5 DEF ReceiveSend, Frame
    <2>2. PICK place \in Places \ {"yield"} : pc' = [pc EXCEPT ![c] = place]
        BY <1>2, <1>5 DEF ReceiveSend
    <2>3. turn' = [turn EXCEPT ![c] = NoTurn(frame.sid)]
        BY <1>5 DEF ReceiveSend
    <2>4. UNCHANGED <<store, ghosts>>
        BY <1>5 DEF ReceiveSend
    <2>5. MemOK' /\ FlagsOK'
        BY <1>1, <2>4 DEF store, ghosts, MemOK, FlagsOK
    <2>6. NoTurn(frame.sid) \in Turn /\ NoTurn(frame.sid).prior = 0
          /\ NoTurn(frame.sid).sid = frame.sid
        BY <2>1, FreshTurn
    <2>7. /\ spent' \in [Sessions -> Nat]
          /\ \A x \in Sessions : spent[x] <= spent'[x]
          /\ NoTurn(frame.sid).prior <= spent'[NoTurn(frame.sid).sid]
        BY <1>3, <2>1, <2>4, <2>6 DEF ghosts
    <2>8. TurnsOK'
        BY <1>1, <1>2, <1>3, <2>2, <2>3, <2>6, <2>7, HandlerKeepsTurns
    <2>9. WireOK'
        <3>1. <<"notice">> \in Seq(Kinds) /\ <<>> \in Seq(Kinds)
            BY DEF Kinds
        <3>. QED
            BY <1>1, <1>5, <2>1, <3>1 DEF ReceiveSend, WireOK
    <2>. QED
        BY <2>5, <2>8, <2>9, IInvPartsPrime
<1>6. CASE ReceiveCancel(c)
    <2>1. Head(inbox[c]) \in Frame /\ Head(inbox[c]).sid \in Sessions
        BY <1>4, <1>6 DEF ReceiveCancel, Frame
    <2>2. FlagsOK'
        BY <1>1, <1>6, <2>1 DEF ReceiveCancel, FlagsOK
    <2>3. WireOK'
        BY <1>1, <1>4, <1>6 DEF ReceiveCancel, WireOK
    <2>. QED
        BY <1>2, <1>6, <2>2, <2>3, WsPlaceKeepsIInv DEF ReceiveCancel
<1>7. CASE WsUnknownSession(c)
    <2>1. <<"error">> \in Seq(Kinds)
        BY DEF Kinds
    <2>2. WireOK'
        BY <1>1, <1>7, <2>1, SayKeepsWire DEF WsUnknownSession
    <2>3. FlagsOK'
        BY <1>1, <1>7 DEF WsUnknownSession, store, FlagsOK
    <2>. QED
        BY <1>2, <1>7, <2>2, <2>3, WsPlaceKeepsIInv DEF WsUnknownSession, store
<1>8. CASE WsStart(c)
    <2>1. turn[c].sid \in DOMAIN mem /\ UNCHANGED requests /\ requests' \in Nat
        BY <1>1, <1>8 DEF WsStart, WireOK
    <2>2. CASE BeginTurn(c, turn[c].sid) /\ UNCHANGED out
        BY <1>2, <2>1, <2>2, BeginTurnKeepsIInv
    <2>3. CASE RefuseTurn(c, turn[c].sid, AfterSend(c, "idle")) /\ Say(c, <<"error">>)
        <3>1. <<"error">> \in Seq(Kinds) /\ UNCHANGED wire
            BY <2>1, <2>3 DEF Kinds, RefuseTurn, wire
        <3>2. WireOK'
            BY <1>1, <2>3, <3>1, SayKeepsWire
        <3>. QED
            BY <1>2, <2>1, <2>3, <3>2, RefuseTurnKeepsIInv
    <2>4. CASE RefuseTurn(c, turn[c].sid, "dead") /\ UNCHANGED out
        <3>1. WireOK'
            BY <1>1, <2>1, <2>4 DEF RefuseTurn, WireOK
        <3>. QED
            BY <1>2, <2>1, <2>4, <3>1, RefuseTurnKeepsIInv
    <2>. QED
        BY <1>8, <2>2, <2>3, <2>4 DEF WsStart
<1>9. CASE WsLeave(c)
    <2>1. FlagsOK' /\ WireOK'
        BY <1>1, <1>9 DEF WsLeave, store, wire, FlagsOK, WireOK
    <2>. QED
        BY <1>2, <1>9, <2>1, WsPlaceKeepsIInv DEF WsLeave, store
<1>. QED
    BY <1>5, <1>6, <1>7, <1>8, <1>9

\* The chunk loop and its ends.
LEMMA WsLoopKeepsIInv ==
    ASSUME IInv, NEW c \in Conns,
           \/ WsChunk(c) \/ WsExhausted(c) \/ WsProviderFails(c)
           \/ WsCancelled(c) \/ WsDeliver(c) \/ WsSilent(c) \/ WsTimerKills(c)
           \/ WsSent(c) \/ WsSendFails(c) \/ WsClose(c)
    PROVE  IInv'
<1>1. MemOK /\ FlagsOK /\ TurnsOK /\ WireOK
    BY IInvParts
<1>2. c \in Handlers /\ \A place \in {"idle", "sending", "closing", "dead"} :
            /\ place \in Places \ {"yield"}
            /\ AfterSend(c, place) \in Places \ {"yield"}
    BY DEF Handlers, Places, AfterSend
<1>3. /\ turn[c] \in Turn /\ turn[c].prior <= spent[turn[c].sid]
      /\ spent \in [Sessions -> Nat]
      /\ pc[c] = "yield" => ~Exhausted(turn[c])
    BY <1>1, <1>2, HandlersTurn
<1>4. pc[c] = "yield" =>
        LET chunk == turn[c].script[turn[c].at]
        IN  /\ chunk \in Chunk
            /\ WsAbsorb(turn[c], chunk) \in Turn
            /\ WsAbsorb(turn[c], chunk).sid = turn[c].sid
            /\ WsAbsorb(turn[c], chunk).prior = turn[c].prior
    BY <1>3, ChunkTyped, AbsorbTyped
<1>5. CASE WsChunk(c)
    <2>1. MemOK' /\ FlagsOK' /\ WireOK'
        BY <1>1, <1>5 DEF WsChunk, store, wire, ghosts, MemOK, FlagsOK, WireOK
    <2>2. /\ pc' = [pc EXCEPT ![c] = "yield"] /\ "yield" \in Places
          /\ turn' = [turn EXCEPT ![c] = turn[c]]
          /\ ~Exhausted(turn[c])
          /\ UNCHANGED spent
        BY <1>1, <1>5 DEF WsChunk, ghosts, Places, TurnsOK
    <2>3. /\ \A x \in Sessions : spent[x] <= spent'[x]
          /\ turn[c].prior <= spent'[turn[c].sid]
        BY <1>3, <2>2
    <2>4. TurnsOK'
        BY <1>1, <1>2, <1>3, <2>2, <2>3, HandlerKeepsTurns
    <2>. QED
        BY <2>1, <2>4, IInvPartsPrime
<1>6. CASE WsExhausted(c)
    BY <1>3, <1>6, WsCompleteKeepsIInv DEF WsExhausted
<1>7. CASE WsCancelled(c)
    <2>. DEFINE t == [turn[c] EXCEPT !.cancelled = TRUE]
    <2>1. t \in Turn /\ t.prior = turn[c].prior /\ t.sid = turn[c].sid
        BY <1>3 DEF Turn
    <2>. QED
        BY <1>3, <1>7, <2>1, WsCompleteKeepsIInv DEF WsCancelled
<1>8. CASE WsDeliver(c)
    <2>. DEFINE chunk == turn[c].script[turn[c].at]
                t == WsAbsorb(turn[c], chunk)
    <2>1. /\ chunk \in Chunk
          /\ t \in Turn /\ t.sid = turn[c].sid /\ t.prior = turn[c].prior
        BY <1>4, <1>8 DEF WsDeliver
    <2>2. WsFrames(chunk) \in Seq(Kinds)
        <3>1. /\ <<>> \in Seq(Kinds) /\ <<"delta">> \in Seq(Kinds)
              /\ <<"tool_call", "tool_call">> \in Seq(Kinds)
            BY DEF Kinds
        <3>. QED
            BY <3>1, ConcatProperties DEF WsFrames
    <2>3. /\ turn' = [turn EXCEPT ![c] = t]
          /\ Say(c, WsFrames(chunk))
          /\ UNCHANGED <<store, wire, ghosts>>
        BY <1>8 DEF WsDeliver
    <2>4. PICK place \in Places \ {"yield"} : pc' = [pc EXCEPT ![c] = place]
        BY <1>2, <1>8 DEF WsDeliver
    <2>. HIDE DEF t
    <2>5. MemOK' /\ FlagsOK'
        BY <1>1, <2>3 DEF store, ghosts, MemOK, FlagsOK
    <2>6. WireOK'
        BY <1>1, <2>2, <2>3, SayKeepsWire
    <2>7. /\ spent' \in [Sessions -> Nat]
          /\ \A x \in Sessions : spent[x] <= spent'[x]
          /\ t.prior <= spent'[t.sid]
        BY <1>3, <2>1, <2>3 DEF ghosts
    <2>8. TurnsOK'
        BY <1>1, <1>2, <1>3, <2>1, <2>3, <2>4, <2>7, HandlerKeepsTurns
    <2>. QED
        BY <2>5, <2>6, <2>8, IInvPartsPrime
<1>9. CASE WsSilent(c)
    <2>. DEFINE chunk == turn[c].script[turn[c].at]
    <2>1. /\ WsAbsorb(turn[c], chunk) \in Turn
          /\ WsAbsorb(turn[c], chunk).prior
                <= spent[WsAbsorb(turn[c], chunk).sid]
          /\ WsContinue(c, WsAbsorb(turn[c], chunk), chunk)
        BY <1>3, <1>4, <1>9 DEF WsSilent
    <2>. QED
        BY <2>1, WsContinueKeepsIInv
<1>10. CASE WsSent(c)
    BY <1>3, <1>10, WsContinueKeepsIInv DEF WsSent
<1>11. CASE WsProviderFails(c)
    <2>1. <<"error">> \in Seq(Kinds)
        BY DEF Kinds
    <2>2. FlagsOK' /\ WireOK'
        BY <1>1, <1>11, <2>1, SayKeepsWire DEF WsProviderFails, store, FlagsOK
    <2>. QED
        BY <1>2, <1>11, <2>2, WsPlaceKeepsIInv DEF WsProviderFails, store
<1>12. CASE WsSendFails(c)
    <2>1. FlagsOK' /\ WireOK'
        BY <1>1, <1>12 DEF WsSendFails, store, wire, FlagsOK, WireOK
    <2>. QED
        BY <1>2, <1>12, <2>1, WsPlaceKeepsIInv DEF WsSendFails, store
<1>13. CASE WsClose(c) \/ WsTimerKills(c)
    <2>1. FlagsOK' /\ WireOK'
        BY <1>1, <1>13, DropFlagsKeepsFlags DEF WsClose, WsTimerKills, wire, WireOK
    <2>. QED
        BY <1>2, <1>13, <2>1, WsPlaceKeepsIInv DEF WsClose, WsTimerKills, DropFlags
<1>. QED
    BY <1>5, <1>6, <1>7, <1>8, <1>9, <1>10, <1>11, <1>12, <1>13

\* A step of the rest of the world.
LEMMA StutterKeepsIInv == IInv /\ UNCHANGED vars => IInv'
<1>. SUFFICES ASSUME IInv, UNCHANGED vars PROVE IInv'
    OBVIOUS
<1>1. MemOK /\ FlagsOK /\ TurnsOK /\ WireOK
    BY IInvParts
<1>2. MemOK' /\ FlagsOK' /\ TurnsOK' /\ WireOK'
    BY <1>1 DEF vars, MemOK, FlagsOK, TurnsOK, WireOK
<1>. QED
    BY <1>2, IInvPartsPrime

\* Every step keeps the invariant: one case per action.
LEMMA NextKeepsIInv == IInv /\ [Next]_vars => IInv'
<1>. SUFFICES ASSUME IInv, [Next]_vars PROVE IInv'
    OBVIOUS
<1>1. ASSUME NEW c \in Conns, WsStep(c) PROVE IInv'
    BY <1>1, WsReceiveKeepsIInv, WsLoopKeepsIInv DEF WsStep
<1>2. ASSUME NEW p \in Posts, HttpStep(p) PROVE IInv'
    BY <1>2, HttpStepsKeepIInv
<1>3. CASE ClientStep
    BY <1>3, ClientStepsKeepIInv, HttpStepsKeepIInv, RouteStepsKeepIInv
    DEF ClientStep
<1>. QED
    BY <1>1, <1>2, <1>3, StutterKeepsIInv DEF Next

----------------------------------------------------------------------------
\* The inductive invariant is one.
THEOREM ChatInvariant == Spec => []IInv
BY InitIInv, NextKeepsIInv, PTL DEF Spec

\* Every variable keeps its shape, for every set of sessions, sockets,
\* requests and scripts.
THEOREM ChatTypeOK == Spec => []TypeOK
<1>1. IInv => TypeOK
    BY DEF IInv
<1>. QED
    BY <1>1, ChatInvariant, PTL

\* However many sockets and requests chat in a session at a time, in whatever
\* order their chunks, errors, timeouts, failing saves, forks, switches and
\* deletes come: the read-modify-write of usage_totals may lose a turn, and
\* never counts one twice.
THEOREM ChatNeverOvercounts == Spec => []NeverOvercounts
<1>1. IInv => NeverOvercounts
    BY DEF IInv
<1>. QED
    BY <1>1, ChatInvariant, PTL

----------------------------------------------------------------------------
\* The ledgers.  A session is chained when it is in order, within the cap as
\* far as may be, older than the next message, and its tip holds.
Chained(s, next) ==
    /\ s \in Session
    /\ Ordered(s)
    /\ WithinCap(s)
    /\ TipHolds(s)
    /\ s.tip < next
    /\ \A i \in DOMAIN s.msgs : s.msgs[i].id < next

PinsOlder == \A h \in Handlers : turn[h].pin < nextMsg
LedgerInv == PinsOlder /\ \A sid \in DOMAIN mem : Chained(mem[sid], nextMsg)

\* A message is appended, under any parent that is older.
LEMMA ChainedAppend ==
    ASSUME NEW next \in Nat \ {0}, NEW s, Chained(s, next),
           NEW role \in Roles, NEW parentArg \in Nat, parentArg < next
    PROVE  Chained(AppendMessage(s, next, role, parentArg), next + 1)
<1>. DEFINE new == AppendMessage(s, next, role, parentArg)
<1>1. /\ s \in Session /\ Ordered(s) /\ WithinCap(s) /\ s.tip < next
      /\ \A i \in DOMAIN s.msgs : s.msgs[i].id < next
    BY DEF Chained
<1>2. new \in Session /\ new.tip = next
    BY <1>1, AppendMessageType
<1>3. Ordered(new) /\ \A i \in DOMAIN new.msgs : new.msgs[i].id <= next
    BY <1>1, AppendMessageOrdered
<1>4. TipHolds(new)
    BY <1>1, AppendMessageTip
<1>5. WithinCap(new)
    BY <1>1, AppendMessageWithinCap
<1>. HIDE DEF new
<1>6. \A i \in DOMAIN new.msgs : new.msgs[i].id < next + 1
    <2>1. \A i \in DOMAIN new.msgs : new.msgs[i] \in Message
        BY <1>2, ElementOfSeq, LenProperties DEF Session
    <2>. QED
        BY <1>3, <2>1 DEF Message
<1>7. Chained(new, next + 1)
    BY <1>2, <1>3, <1>4, <1>5, <1>6 DEF Chained
<1>. QED
    BY <1>7 DEF new

\* A session stays chained while ids go on being drawn.
LEMMA ChainedLater ==
    ASSUME NEW next \in Nat, NEW s, Chained(s, next)
    PROVE  Chained(s, next + 1)
<1>1. s \in Session /\ s.tip \in Nat /\ s.msgs \in Seq(Message)
    BY DEF Chained, Session
<1>2. \A i \in DOMAIN s.msgs : s.msgs[i].id \in Nat
    <2>1. \A i \in DOMAIN s.msgs : s.msgs[i] \in Message
        BY <1>1, ElementOfSeq, LenProperties
    <2>. QED
        BY <2>1 DEF Message
<1>. QED
    BY <1>1, <1>2 DEF Chained

\* The ids of a chained session are drawn already.
LEMMA ChainedIds ==
    ASSUME NEW s, NEW next, Chained(s, next)
    PROVE  /\ s.tip \in Nat /\ s.tip < next
           /\ \A id \in Ids(s) : id \in Nat \ {0} /\ id < next
<1>1. s.msgs \in Seq(Message) /\ s.tip \in Nat
    BY DEF Chained, Session
<1>2. \A i \in DOMAIN s.msgs : s.msgs[i] \in Message
    BY <1>1, ElementOfSeq, LenProperties
<1>3. \A id \in Ids(s) : id \in Nat \ {0} /\ id < next
    BY <1>2 DEF Ids, Message, Chained
<1>. QED
    BY <1>1, <1>3 DEF Chained

\* What became of one session, and of the pins.
LEMMA LedgerPut ==
    ASSUME LedgerInv, nextMsg \in Nat, NEW sid, NEW s,
           mem' = Put(mem, sid, s), Chained(s, nextMsg'),
           nextMsg' \in {nextMsg, nextMsg + 1, nextMsg + 2}, PinsOlder'
    PROVE  LedgerInv'
<1>1. ASSUME NEW x \in DOMAIN mem
      PROVE  Chained(mem[x], nextMsg')
    <2>1. Chained(mem[x], nextMsg)
        BY DEF LedgerInv
    <2>2. Chained(mem[x], nextMsg + 1)
        BY <2>1, ChainedLater
    <2>3. Chained(mem[x], nextMsg + 1 + 1) /\ nextMsg + 1 + 1 = nextMsg + 2
        BY <2>2, ChainedLater, nextMsg + 1 \in Nat
    <2>. QED
        BY <2>1, <2>2, <2>3
<1>. QED
    BY <1>1 DEF LedgerInv, Put

\* A handler's turn keeps its pin, or starts with one that is older.
LEMMA PinsStay ==
    ASSUME TurnsOK, PinsOlder, nextMsg \in Nat \ {0},
           nextMsg' \in {nextMsg, nextMsg + 1, nextMsg + 2},
           \/ turn' = turn
           \/ \E h \in Handlers : \E t : /\ turn' = [turn EXCEPT ![h] = t]
                                       /\ t.pin \in Nat /\ t.pin < nextMsg
    PROVE  PinsOlder'
<1>1. \A h \in Handlers : turn[h].pin \in Nat
    BY DEF TurnsOK, Turn
<1>2. ASSUME NEW h \in Handlers, NEW t, turn' = [turn EXCEPT ![h] = t],
             t.pin \in Nat, t.pin < nextMsg, NEW g \in Handlers
      PROVE  turn'[g].pin < nextMsg'
    <2>1. g # h => turn'[g] = turn[g]
        BY <1>2 DEF TurnsOK
    <2>2. g = h => turn'[g] = t
        BY <1>2 DEF TurnsOK
    <2>3. t.pin < nextMsg'
        BY <1>1, <1>2 DEF PinsOlder
    <2>. QED
        BY <1>1, <2>1, <2>2, <2>3 DEF PinsOlder
<1>3. CASE turn' = turn
    BY <1>1, <1>3 DEF PinsOlder
<1>. QED
    BY <1>2, <1>3 DEF PinsOlder

\* A step that stores nothing.
LEMMA LedgerStays ==
    ASSUME IInv, LedgerInv, UNCHANGED <<mem, nextMsg>>,
           \/ turn' = turn
           \/ \E h \in Handlers : \E t : /\ turn' = [turn EXCEPT ![h] = t]
                                       /\ t.pin \in Nat /\ t.pin < nextMsg
    PROVE  LedgerInv'
<1>1. PinsOlder'
    BY PinsStay, IInvParts DEF LedgerInv, MemOK
<1>. QED
    BY <1>1 DEF LedgerInv

\* The user's message of a turn, and its pin.
LEMMA AppendUserKeepsLedger ==
    ASSUME IInv, LedgerInv, NEW sid \in DOMAIN mem, AppendUser(sid),
           \/ turn' = turn
           \/ \E h \in Handlers : \E t : /\ turn' = [turn EXCEPT ![h] = t]
                                       /\ t.pin = mem[sid].tip
    PROVE  LedgerInv'
<1>1. MemOK /\ TurnsOK /\ PinsOlder /\ nextMsg \in Nat \ {0}
      /\ Chained(mem[sid], nextMsg)
    BY IInvParts DEF LedgerInv, MemOK
<1>2. mem[sid].tip \in Nat /\ mem[sid].tip < nextMsg
    BY <1>1, ChainedIds
<1>3. nextMsg' = nextMsg + 1
      /\ mem' = Put(mem, sid, AppendMessage(mem[sid], nextMsg, "user", None))
    BY DEF AppendUser
<1>4. PinsOlder'
    BY <1>1, <1>2, <1>3, PinsStay
<1>5. None \in Nat /\ None < nextMsg
    BY <1>1 DEF None
<1>6. Chained(AppendMessage(mem[sid], nextMsg, "user", None), nextMsg')
    BY <1>1, <1>3, <1>5, ChainedAppend DEF Roles
<1>. QED
    BY <1>1, <1>3, <1>4, <1>6, LedgerPut

\* The reply of a turn, under its pin.
LEMMA StoreReplyKeepsLedger ==
    ASSUME IInv, LedgerInv, NEW h \in Handlers, NEW t \in Turn, t.pin < nextMsg,
           NEW counted \in BOOLEAN, StoreReply(t, counted),
           turn' = [turn EXCEPT ![h] = t]
    PROVE  LedgerInv'
<1>1. MemOK /\ TurnsOK /\ PinsOlder /\ nextMsg \in Nat \ {0}
    BY IInvParts DEF LedgerInv, MemOK
<1>2. t.pin \in Nat /\ t.prior + t.got \in Nat
    BY DEF Turn
<1>3. CASE t.sid \notin DOMAIN mem
    BY <1>2, <1>3, LedgerStays DEF StoreReply
<1>4. CASE t.sid \in DOMAIN mem
    <2>. DEFINE replied == AppendMessage(mem[t.sid], nextMsg, "assistant", t.pin)
    <2>1. nextMsg' = nextMsg + 1
          /\ \/ mem' = Put(mem, t.sid, replied)
             \/ mem' = Put(mem, t.sid, [replied EXCEPT !.totals = t.prior + t.got])
        BY <1>4 DEF StoreReply, WithReply, WithTotals
    <2>2. Chained(replied, nextMsg + 1)
        BY <1>1, <1>2, <1>4, ChainedAppend DEF LedgerInv, Roles
    <2>. HIDE DEF replied
    <2>3. ASSUME NEW n \in Nat
          PROVE  Chained([replied EXCEPT !.totals = n], nextMsg + 1)
        <3>1. /\ [replied EXCEPT !.totals = n] \in Session
              /\ [replied EXCEPT !.totals = n].msgs = replied.msgs
              /\ [replied EXCEPT !.totals = n].tip = replied.tip
            BY <2>2 DEF Chained, Session
        <3>. QED
            BY <2>2, <3>1 DEF Chained, Ordered, WithinCap, TipHolds, Ids
    <2>4. PinsOlder'
        BY <1>1, <1>2, <2>1, PinsStay
    <2>. QED
        BY <1>1, <1>2, <2>1, <2>2, <2>3, <2>4, LedgerPut
<1>. QED
    BY <1>3, <1>4

\* Fork, switch and hard delete.
LEMMA RoutesKeepLedger ==
    ASSUME IInv, LedgerInv, NEW sid \in DOMAIN mem,
           Fork(sid) \/ Switch(sid) \/ HardDelete(sid)
    PROVE  LedgerInv'
<1>1. MemOK /\ TurnsOK /\ PinsOlder /\ nextMsg \in Nat \ {0}
      /\ Chained(mem[sid], nextMsg)
    BY IInvParts DEF LedgerInv, MemOK
<1>2. \A id \in Ids(mem[sid]) : id \in Nat \ {0} /\ id < nextMsg
    BY <1>1, ChainedIds
<1>3. CASE Fork(sid)
    <2>1. PICK role \in ForkRoles, parent \in 1..nextMsg :
            mem' = Put(mem, sid, AppendMessage(mem[sid], nextMsg + 1, role, parent))
        BY <1>3 DEF Fork
    <2>2. nextMsg' = nextMsg + 2 /\ turn' = turn
        BY <1>3 DEF Fork
    <2>3. /\ nextMsg + 1 \in Nat \ {0} /\ role \in Roles
          /\ parent \in Nat /\ parent < nextMsg + 1
          /\ nextMsg + 1 + 1 = nextMsg'
        BY <1>1, <2>2, ChatBoundsAssumption
    <2>4. Chained(mem[sid], nextMsg + 1)
        BY <1>1, ChainedLater
    <2>5. Chained(AppendMessage(mem[sid], nextMsg + 1, role, parent), nextMsg')
        <3>1. ASSUME NEW next \in Nat \ {0}, Chained(mem[sid], next), parent < next
              PROVE  Chained(AppendMessage(mem[sid], next, role, parent), next + 1)
            BY <2>3, <3>1, ChainedAppend
        <3>. QED
            BY <2>3, <2>4, <3>1
    <2>6. PinsOlder'
        BY <1>1, <2>2, PinsStay
    <2>. QED
        BY <1>1, <2>1, <2>2, <2>5, <2>6, LedgerPut
<1>4. CASE Switch(sid)
    <2>1. PICK leaf \in Ids(mem[sid]) : mem' = Put(mem, sid, SwitchTip(mem[sid], leaf))
        BY <1>4 DEF Switch
    <2>2. nextMsg' = nextMsg /\ turn' = turn
        BY <1>4 DEF Switch
    <2>3. Chained(SwitchTip(mem[sid], leaf), nextMsg)
        <3>1. /\ SwitchTip(mem[sid], leaf) \in Session
              /\ SwitchTip(mem[sid], leaf).msgs = mem[sid].msgs
              /\ SwitchTip(mem[sid], leaf).tip = leaf
            BY <1>1, <1>2 DEF SwitchTip, Chained, Session
        <3>. QED
            BY <1>1, <1>2, <3>1 DEF Chained, Ordered, WithinCap, TipHolds, Ids
    <2>4. PinsOlder'
        BY <1>1, <2>2, PinsStay
    <2>. QED
        BY <1>1, <2>1, <2>2, <2>3, <2>4, LedgerPut
<1>5. CASE HardDelete(sid)
    BY <1>5 DEF HardDelete, Drop, LedgerInv, PinsOlder
<1>. QED
    BY <1>3, <1>4, <1>5

\* What the steps below need to know of a handler's turn.
LEMMA TurnPin ==
    ASSUME IInv, LedgerInv, NEW h \in Handlers
    PROVE  /\ turn[h] \in Turn /\ turn[h].pin \in Nat /\ turn[h].pin < nextMsg
           /\ nextMsg \in Nat \ {0}
BY IInvParts DEF LedgerInv, PinsOlder, TurnsOK, MemOK, Turn

\* The pin of a new turn is the tip its question was asked at.
LEMMA BeginTurnPin ==
    ASSUME NEW h, NEW sid, BeginTurn(h, sid)
    PROVE  \E t : turn' = [turn EXCEPT ![h] = t] /\ t.pin = mem[sid].tip
<1>1. PICK script \in Scripts :
        turn' = [turn EXCEPT ![h] =
                    NewTurn(sid, nextMsg, mem[sid].tip, mem[sid].totals, script)]
    BY DEF BeginTurn
<1>2. NewTurn(sid, nextMsg, mem[sid].tip, mem[sid].totals, script).pin = mem[sid].tip
    BY DEF NewTurn
<1>. QED
    BY <1>1, <1>2

\* A turn of either handler that is complete.
LEMMA CompleteKeepsLedger ==
    ASSUME IInv, LedgerInv, NEW h \in Handlers, NEW t \in Turn, t.pin < nextMsg,
           WsComplete(h, t) \/ HttpComplete(h, t)
    PROVE  LedgerInv'
BY StoreReplyKeepsLedger DEF WsComplete, HttpComplete

\* The loop goes on, or its turn is complete.
LEMMA ContinueKeepsLedger ==
    ASSUME IInv, LedgerInv, NEW c \in Conns, NEW t \in Turn, t.pin < nextMsg,
           NEW chunk, WsContinue(c, t, chunk)
    PROVE  LedgerInv'
<1>1. c \in Handlers /\ t.pin \in Nat
    BY DEF Handlers, Turn
<1>2. CASE chunk.finish
    BY <1>1, <1>2, CompleteKeepsLedger DEF WsContinue
<1>3. CASE ~chunk.finish
    BY <1>1, <1>3, LedgerStays DEF WsContinue, store
<1>. QED
    BY <1>2, <1>3

\* A socket's handler.
LEMMA WsStepKeepsLedger ==
    ASSUME IInv, LedgerInv, NEW c \in Conns, WsStep(c)
    PROVE  LedgerInv'
<1>1. c \in Handlers
    BY DEF Handlers
<1>2. /\ turn[c] \in Turn /\ turn[c].pin \in Nat /\ turn[c].pin < nextMsg
      /\ nextMsg \in Nat \ {0}
    BY <1>1, TurnPin
<1>3. CASE ReceiveSend(c)
    <2>1. turn' = [turn EXCEPT ![c] = NoTurn(Head(inbox[c]).sid)]
          /\ UNCHANGED <<mem, nextMsg>>
        BY <1>3 DEF ReceiveSend, store
    <2>2. NoTurn(Head(inbox[c]).sid).pin = 0
        BY DEF NoTurn, NewTurn, None
    <2>3. NoTurn(Head(inbox[c]).sid).pin \in Nat
          /\ NoTurn(Head(inbox[c]).sid).pin < nextMsg
        BY <1>2, <2>2
    <2>. QED
        BY <1>1, <2>1, <2>3, LedgerStays
<1>4. CASE ReceiveCancel(c) \/ WsUnknownSession(c) \/ WsChunk(c) \/ WsLeave(c)
    BY <1>4, LedgerStays DEF ReceiveCancel, WsUnknownSession, WsChunk, WsLeave, store
<1>5. CASE WsSendFails(c) \/ WsProviderFails(c) \/ WsClose(c) \/ WsTimerKills(c)
    BY <1>5, LedgerStays DEF WsSendFails, WsProviderFails, WsClose, WsTimerKills,
                             DropFlags, store
<1>6. CASE WsStart(c)
    <2>1. ASSUME BeginTurn(c, turn[c].sid) PROVE LedgerInv'
        <3>1. AppendUser(turn[c].sid) /\ turn[c].sid \in DOMAIN mem
            BY <1>6, <2>1 DEF BeginTurn, WsStart
        <3>2. \E t : turn' = [turn EXCEPT ![c] = t] /\ t.pin = mem[turn[c].sid].tip
            BY <2>1, BeginTurnPin
        <3>. QED
            BY <1>1, <3>1, <3>2, AppendUserKeepsLedger
    <2>2. ASSUME NEW place, RefuseTurn(c, turn[c].sid, place) PROVE LedgerInv'
        BY <1>6, <2>2, AppendUserKeepsLedger DEF RefuseTurn, WsStart
    <2>. QED
        BY <1>6, <2>1, <2>2 DEF WsStart
<1>7. CASE WsExhausted(c)
    BY <1>1, <1>2, <1>7, CompleteKeepsLedger DEF WsExhausted
<1>8. CASE WsCancelled(c)
    <2>. DEFINE t == [turn[c] EXCEPT !.cancelled = TRUE]
    <2>1. t \in Turn /\ t.pin = turn[c].pin
        BY <1>2 DEF Turn
    <2>2. WsComplete(c, t)
        BY <1>8 DEF WsCancelled
    <2>. HIDE DEF t
    <2>. QED
        BY <1>1, <1>2, <2>1, <2>2, CompleteKeepsLedger
<1>9. CASE WsSent(c)
    BY <1>2, <1>9, ContinueKeepsLedger DEF WsSent
<1>10. CASE WsDeliver(c) \/ WsSilent(c)
    <2>. DEFINE chunk == turn[c].script[turn[c].at]
                t == WsAbsorb(turn[c], chunk)
    <2>1. ~Exhausted(turn[c])
        BY <1>1, <1>10, IInvParts DEF TurnsOK, WsDeliver, WsSilent
    <2>2. chunk \in Chunk
        BY <1>2, <2>1, ChunkTyped
    <2>. HIDE DEF chunk
    <2>3. t \in Turn /\ t.pin = turn[c].pin
        BY <1>2, <2>2, AbsorbTyped DEF WsAbsorb, Turn
    <2>4. CASE WsDeliver(c)
        <3>1. turn' = [turn EXCEPT ![c] = t] /\ UNCHANGED <<mem, nextMsg>>
            BY <2>4 DEF WsDeliver, store, chunk
        <3>. HIDE DEF t
        <3>. QED
            BY <1>1, <1>2, <2>3, <3>1, LedgerStays
    <2>5. CASE WsSilent(c)
        <3>1. WsContinue(c, t, chunk)
            BY <2>5 DEF WsSilent, chunk
        <3>. HIDE DEF t
        <3>. QED
            BY <1>2, <2>3, <3>1, ContinueKeepsLedger
    <2>. QED
        BY <1>10, <2>4, <2>5
<1>. QED
    BY <1>3, <1>4, <1>5, <1>6, <1>7, <1>8, <1>9, <1>10 DEF WsStep

\* A request's handler.
LEMMA HttpStepKeepsLedger ==
    ASSUME IInv, LedgerInv, NEW p \in Posts, HttpStart(p) \/ HttpStep(p)
    PROVE  LedgerInv'
<1>1. p \in Handlers
    BY DEF Handlers
<1>2. /\ turn[p] \in Turn /\ turn[p].pin \in Nat /\ turn[p].pin < nextMsg
    BY <1>1, TurnPin
<1>3. CASE HttpStart(p)
    <2>1. PICK sid \in DOMAIN mem : BeginTurn(p, sid) \/ RefuseTurn(p, sid, "idle")
        BY <1>3 DEF HttpStart
    <2>2. CASE BeginTurn(p, sid)
        <3>1. \E t : turn' = [turn EXCEPT ![p] = t] /\ t.pin = mem[sid].tip
            BY <2>2, BeginTurnPin
        <3>. QED
            BY <1>1, <2>2, <3>1, AppendUserKeepsLedger DEF BeginTurn
    <2>3. CASE RefuseTurn(p, sid, "idle")
        BY <2>3, AppendUserKeepsLedger DEF RefuseTurn
    <2>. QED
        BY <2>1, <2>2, <2>3
<1>4. CASE HttpChunk(p)
    <2>1. \A chunk : HttpAbsorb(turn[p], chunk).pin = turn[p].pin
        BY <1>2 DEF HttpAbsorb, Turn
    <2>2. /\ turn' = [turn EXCEPT ![p] =
                        HttpAbsorb(turn[p], turn[p].script[turn[p].at])]
          /\ UNCHANGED <<mem, nextMsg>>
        BY <1>1, <1>4, IInvParts DEF HttpChunk, store, TurnsOK
    <2>. QED
        BY <1>1, <1>2, <2>1, <2>2, LedgerStays
<1>5. CASE HttpExhausted(p)
    BY <1>1, <1>2, <1>5, CompleteKeepsLedger DEF HttpExhausted
<1>6. CASE HttpProviderFails(p)
    BY <1>6, LedgerStays DEF HttpProviderFails
<1>. QED
    BY <1>3, <1>4, <1>5, <1>6 DEF HttpStep

\* Every step keeps the ledgers.
LEMMA NextKeepsLedger == IInv /\ LedgerInv /\ [Next]_vars => LedgerInv'
<1>. SUFFICES ASSUME IInv, LedgerInv, [Next]_vars PROVE LedgerInv'
    OBVIOUS
<1>1. ASSUME NEW c \in Conns, ClientSends(c) \/ Disconnect(c) \/ Reconnect(c)
      PROVE  LedgerInv'
    BY <1>1, LedgerStays DEF ClientSends, Disconnect, Reconnect, store
<1>2. CASE UNCHANGED vars
    BY <1>2, LedgerStays DEF vars
<1>. QED
    BY <1>1, <1>2, WsStepKeepsLedger, HttpStepKeepsLedger, RoutesKeepLedger
    DEF Next, ClientStep

\* The sessions start empty, without pins.
LEMMA InitLedger == Init => LedgerInv
<1>. SUFFICES ASSUME Init PROVE LedgerInv
    OBVIOUS
<1>1. FreshSession \in Session /\ FreshSession.msgs = <<>> /\ FreshSession.tip = 0
    BY DEF FreshSession, Session, Titles, None
<1>2. Chained(FreshSession, 1)
    BY <1>1 DEF Chained, Ordered, WithinCap, TipHolds, None
<1>3. PinsOlder
    <2>1. \A sid \in Sessions : NoTurn(sid).pin = 0
        BY DEF NoTurn, NewTurn, None
    <2>. QED
        BY <2>1 DEF Init, PinsOlder
<1>. QED
    BY <1>2, <1>3 DEF Init, LedgerInv

\* Turns, forks and switches that overlap keep every ledger in order and within
\* the cap, with a tip that is there unless system messages fill the cap: a
\* reply whose pin is stale, and a fork from whatever id, still hang from
\* something older, and one drop is enough (append_message, under the handlers
\* of service.py:1615-1855 and the branch routes).
THEOREM ChatLedgerSound == Spec => []LedgerSound
<1>1. Init => IInv /\ LedgerInv
    BY InitIInv, InitLedger
<1>2. IInv /\ LedgerInv /\ [Next]_vars => IInv' /\ LedgerInv'
    BY NextKeepsIInv, NextKeepsLedger
<1>3. LedgerInv => LedgerSound
    BY DEF LedgerInv, LedgerSound, Chained
<1>. QED
    BY <1>1, <1>2, <1>3, PTL DEF Spec
----------------------------------------------------------------------------
\* The flags.  What a step may do to them, and to the turn of the handler h
\* that takes it: nothing while h is between turns (but for a cancel of a
\* session that is streaming); raise the flag as a turn begins; nothing while
\* the turn goes on; drop the flag, a socket's handler the cancel flag too, as
\* it ends; or leave the flag up, when a save raises in a POST handler.
OthersStay(h) ==
    \A g \in Handlers \ {h} : pc'[g] = pc[g] /\ turn'[g] = turn[g]

BetweenTurns(h) ==
    /\ OthersStay(h)
    /\ ~InTurn(h) /\ ~InTurn(h)'
    /\ streaming' = streaming
    /\ cancelled' \subseteq cancelled \cup streaming

Begins(h) ==
    /\ OthersStay(h)
    /\ ~InTurn(h) /\ InTurn(h)'
    /\ streaming' = streaming \cup {turn'[h].sid}
    /\ cancelled' = cancelled

GoesOn(h) ==
    /\ OthersStay(h)
    /\ InTurn(h) /\ InTurn(h)' /\ turn'[h].sid = turn[h].sid
    /\ UNCHANGED <<streaming, cancelled>>

Ends(h) ==
    /\ OthersStay(h)
    /\ InTurn(h) /\ ~InTurn(h)'
    /\ streaming' = streaming \ {turn[h].sid}
    /\ cancelled' = IF h \in Conns THEN cancelled \ {turn[h].sid} ELSE cancelled

Leaks(h) ==
    /\ OthersStay(h)
    /\ DiskFaults /\ h \in Posts
    /\ InTurn(h) /\ ~InTurn(h)'
    /\ UNCHANGED <<streaming, cancelled>>

FlagStep(h) == BetweenTurns(h) \/ Begins(h) \/ GoesOn(h) \/ Ends(h) \/ Leaks(h)

\* One handler has moved.
LEMMA OneMoves ==
    ASSUME TurnsOK, NEW h \in Handlers, NEW place,
           pc' = [pc EXCEPT ![h] = place],
           \/ turn' = turn
           \/ turn' = [turn EXCEPT ![h] = turn'[h]]
    PROVE  OthersStay(h) /\ pc'[h] = place
BY DEF OthersStay, TurnsOK

\* A socket's turn that is complete goes on until it is closed.
LEMMA WsCompleteGoesOn ==
    ASSUME TurnsOK, NEW c \in Conns, InTurn(c), NEW t, t.sid = turn[c].sid,
           WsComplete(c, t)
    PROVE  GoesOn(c)
<1>1. c \in Handlers
    BY DEF Handlers
<1>2. turn'[c] = t /\ turn' = [turn EXCEPT ![c] = turn'[c]]
    BY <1>1 DEF WsComplete, TurnsOK
<1>3. OthersStay(c) /\ pc'[c] = "closing"
    BY <1>1, <1>2, OneMoves DEF WsComplete
<1>. QED
    BY <1>2, <1>3 DEF GoesOn, InTurn, WsComplete

\* So does a turn whose loop goes on.
LEMMA WsContinueGoesOn ==
    ASSUME TurnsOK, NEW c \in Conns, InTurn(c), NEW t, t.sid = turn[c].sid,
           NEW chunk, WsContinue(c, t, chunk)
    PROVE  GoesOn(c)
<1>1. c \in Handlers
    BY DEF Handlers
<1>2. CASE chunk.finish
    BY <1>2, WsCompleteGoesOn DEF WsContinue
<1>3. CASE ~chunk.finish
    <2>1. turn'[c] = t /\ turn' = [turn EXCEPT ![c] = turn'[c]]
        BY <1>1, <1>3 DEF WsContinue, TurnsOK
    <2>2. OthersStay(c) /\ pc'[c] = "next"
        BY <1>1, <1>3, <2>1, OneMoves DEF WsContinue
    <2>. QED
        BY <1>3, <2>1, <2>2 DEF GoesOn, InTurn, WsContinue, store
<1>. QED
    BY <1>2, <1>3

\* A turn that begins has a turn of the session whose flag it raises.
LEMMA BeginTurnBegins ==
    ASSUME TurnsOK, NEW h \in Handlers, ~InTurn(h), NEW sid, BeginTurn(h, sid)
    PROVE  Begins(h)
<1>1. PICK script \in Scripts :
        turn' = [turn EXCEPT ![h] =
                    NewTurn(sid, nextMsg, mem[sid].tip, mem[sid].totals, script)]
    BY DEF BeginTurn
<1>2. turn'[h].sid = sid /\ turn' = [turn EXCEPT ![h] = turn'[h]]
    BY <1>1 DEF TurnsOK, NewTurn
<1>3. OthersStay(h) /\ pc'[h] = "next"
    BY <1>2, OneMoves DEF BeginTurn
<1>. QED
    BY <1>2, <1>3 DEF Begins, InTurn, BeginTurn, RaiseFlag

\* A socket's handler.
LEMMA WsStepFlags ==
    ASSUME TurnsOK, NEW c \in Conns, WsStep(c)
    PROVE  FlagStep(c)
<1>1. c \in Handlers
    BY DEF Handlers
<1>2. CASE ReceiveSend(c) \/ ReceiveCancel(c) \/ WsUnknownSession(c) \/ WsLeave(c)
    <2>1. \A place :
            /\ pc' = [pc EXCEPT ![c] = place]
            /\ turn' = turn \/ turn' = [turn EXCEPT ![c] = turn'[c]]
            => OthersStay(c) /\ pc'[c] = place
        BY <1>1, OneMoves
    <2>2. CASE ReceiveSend(c)
        <3>1. turn' = [turn EXCEPT ![c] = turn'[c]]
            BY <1>1, <2>2 DEF ReceiveSend, TurnsOK
        <3>2. OthersStay(c) /\ pc'[c] \in {"start", "dead"}
            BY <2>1, <2>2, <3>1 DEF ReceiveSend, AfterSend
        <3>. QED
            BY <2>2, <3>2 DEF FlagStep, BetweenTurns, InTurn, ReceiveSend, store
    <2>3. CASE ReceiveCancel(c)
        <3>1. OthersStay(c) /\ pc'[c] \in {"idle", "dead"}
            BY <2>1, <2>3 DEF ReceiveCancel, AfterSend
        <3>. QED
            BY <2>3, <3>1 DEF FlagStep, BetweenTurns, InTurn, ReceiveCancel
    <2>4. CASE WsUnknownSession(c)
        <3>1. OthersStay(c) /\ pc'[c] \in {"idle", "dead"}
            BY <2>1, <2>4 DEF WsUnknownSession, AfterSend
        <3>. QED
            BY <2>4, <3>1 DEF FlagStep, BetweenTurns, InTurn, WsUnknownSession, store
    <2>5. CASE WsLeave(c)
        <3>1. OthersStay(c) /\ pc'[c] = "dead"
            BY <2>1, <2>5 DEF WsLeave
        <3>. QED
            BY <2>5, <3>1 DEF FlagStep, BetweenTurns, InTurn, WsLeave, store
    <2>. QED
        BY <1>2, <2>2, <2>3, <2>4, <2>5
<1>3. CASE WsStart(c)
    <2>1. ~InTurn(c)
        BY <1>3 DEF WsStart, InTurn
    <2>2. ASSUME NEW place \in {"idle", "dead"}, RefuseTurn(c, turn[c].sid, place)
          PROVE  BetweenTurns(c)
        <3>1. OthersStay(c) /\ pc'[c] = place
            BY <1>1, <2>2, OneMoves DEF RefuseTurn
        <3>. QED
            BY <2>1, <2>2, <3>1 DEF BetweenTurns, InTurn, RefuseTurn
    <2>. QED
        BY <1>1, <1>3, <2>1, <2>2, BeginTurnBegins DEF WsStart, AfterSend, FlagStep
<1>4. CASE WsChunk(c) \/ WsSendFails(c) \/ WsProviderFails(c)
    <2>1. OthersStay(c) /\ pc'[c] \in {"yield", "closing"} /\ turn' = turn
        BY <1>1, <1>4, OneMoves DEF WsChunk, WsSendFails, WsProviderFails
    <2>. QED
        BY <1>4, <2>1 DEF FlagStep, GoesOn, InTurn, WsChunk, WsSendFails,
                          WsProviderFails, store
<1>5. CASE WsExhausted(c)
    BY <1>5, WsCompleteGoesOn DEF WsExhausted, FlagStep, InTurn
<1>6. CASE WsCancelled(c)
    <2>1. [turn[c] EXCEPT !.cancelled = TRUE].sid = turn[c].sid
        BY <1>1 DEF TurnsOK, Turn
    <2>. QED
        BY <1>6, <2>1, WsCompleteGoesOn DEF WsCancelled, FlagStep, InTurn
<1>7. \A chunk : WsAbsorb(turn[c], chunk).sid = turn[c].sid
    BY <1>1 DEF WsAbsorb, TurnsOK, Turn
<1>8. CASE WsDeliver(c)
    <2>1. /\ turn' = [turn EXCEPT ![c] = turn'[c]]
          /\ turn'[c].sid = turn[c].sid
        BY <1>1, <1>7, <1>8 DEF WsDeliver, TurnsOK
    <2>2. OthersStay(c) /\ pc'[c] \in {"sending", "closing"}
        BY <1>1, <1>8, <2>1, OneMoves DEF WsDeliver
    <2>. QED
        BY <1>8, <2>1, <2>2 DEF FlagStep, GoesOn, InTurn, WsDeliver, store
<1>9. CASE WsSilent(c) \/ WsSent(c)
    BY <1>7, <1>9, WsContinueGoesOn DEF WsSilent, WsSent, FlagStep, InTurn
<1>10. CASE WsClose(c) \/ WsTimerKills(c)
    <2>1. OthersStay(c) /\ pc'[c] \in {"idle", "dead"}
        BY <1>1, <1>10, OneMoves DEF WsClose, WsTimerKills, AfterSend
    <2>. QED
        BY <1>10, <2>1 DEF FlagStep, Ends, InTurn, WsClose, WsTimerKills, DropFlags
<1>. QED
    BY <1>2, <1>3, <1>4, <1>5, <1>6, <1>8, <1>9, <1>10 DEF WsStep

\* A request's handler.
LEMMA HttpStepFlags ==
    ASSUME TurnsOK, NEW p \in Posts, HttpStart(p) \/ HttpStep(p)
    PROVE  FlagStep(p)
<1>1. p \in Handlers /\ p \notin Conns
    BY ClientsAssumption DEF Handlers
<1>2. CASE HttpStart(p)
    <2>1. ~InTurn(p)
        BY <1>2 DEF HttpStart, InTurn
    <2>2. PICK sid \in DOMAIN mem : BeginTurn(p, sid) \/ RefuseTurn(p, sid, "idle")
        BY <1>2 DEF HttpStart
    <2>3. CASE RefuseTurn(p, sid, "idle")
        <3>1. OthersStay(p) /\ pc'[p] = "idle"
            BY <1>1, <2>3, OneMoves DEF RefuseTurn
        <3>. QED
            BY <2>1, <2>3, <3>1 DEF FlagStep, BetweenTurns, InTurn, RefuseTurn
    <2>. QED
        BY <1>1, <2>1, <2>2, <2>3, BeginTurnBegins DEF FlagStep
<1>3. CASE HttpChunk(p)
    <2>1. turn'[p].sid = turn[p].sid /\ OthersStay(p) /\ pc'[p] = pc[p]
        BY <1>1, <1>3 DEF HttpChunk, HttpAbsorb, TurnsOK, Turn, OthersStay
    <2>. QED
        BY <1>3, <2>1 DEF FlagStep, GoesOn, InTurn, HttpChunk, store
<1>4. CASE HttpExhausted(p)
    <2>1. /\ InTurn(p)
          /\ HttpComplete(p, turn[p])
        BY <1>4 DEF HttpExhausted, InTurn
    <2>2. turn' = turn
        BY <2>1 DEF HttpComplete, TurnsOK
    <2>3. OthersStay(p) /\ pc'[p] = "idle"
        BY <1>1, <2>1, <2>2, OneMoves DEF HttpComplete
    <2>. QED
        BY <1>1, <2>1, <2>3 DEF FlagStep, Ends, Leaks, InTurn, HttpComplete
<1>5. CASE HttpProviderFails(p)
    <2>1. OthersStay(p) /\ pc'[p] = "idle"
        BY <1>1, <1>5, OneMoves DEF HttpProviderFails
    <2>. QED
        BY <1>1, <1>5, <2>1 DEF FlagStep, Ends, InTurn, HttpProviderFails
<1>. QED
    BY <1>2, <1>3, <1>4, <1>5 DEF HttpStep

\* Every step is a handler's, or touches neither flags nor turns.
LEMMA NextFlags ==
    ASSUME IInv, [Next]_vars
    PROVE  \/ \E h \in Handlers : FlagStep(h)
           \/ /\ UNCHANGED <<streaming, cancelled, turn>>
              /\ \A h \in Handlers : InTurn(h)' = InTurn(h)
<1>1. TurnsOK
    BY IInvParts
<1>2. ASSUME NEW c \in Conns, ClientSends(c) \/ Disconnect(c) \/ Reconnect(c)
      PROVE  /\ UNCHANGED <<streaming, cancelled, turn>>
             /\ \A h \in Handlers : InTurn(h)' = InTurn(h)
    <2>1. UNCHANGED <<streaming, cancelled, turn>>
        BY <1>2 DEF ClientSends, Disconnect, Reconnect, store
    <2>2. ASSUME NEW h \in Handlers
          PROVE  pc'[h] = pc[h] \/ (pc[h] = "dead" /\ pc'[h] = "idle")
        BY <1>1, <1>2 DEF ClientSends, Disconnect, Reconnect, TurnsOK
    <2>. QED
        BY <2>1, <2>2 DEF InTurn
<1>3. ASSUME NEW sid \in DOMAIN mem, Fork(sid) \/ Switch(sid) \/ HardDelete(sid)
      PROVE  UNCHANGED <<streaming, cancelled, turn, pc>>
    BY <1>3 DEF Fork, Switch, HardDelete
<1>4. CASE UNCHANGED vars
    BY <1>4 DEF vars, InTurn
<1>. QED
    BY <1>1, <1>2, <1>3, <1>4, WsStepFlags, HttpStepFlags
    DEF Next, ClientStep, Handlers, InTurn

\* The flag of a session falls with the turn that ends first, so that a flag
\* that is up has a turn that goes on: unless a save raised in a POST handler.
LEMMA FlagStepOwner ==
    ASSUME FlagHasOwner, NEW h \in Handlers, FlagStep(h), ~Leaks(h)
    PROVE  FlagHasOwner'
<1>. SUFFICES ASSUME NEW sid \in streaming'
              PROVE  \E g \in Handlers : InTurn(g)' /\ turn'[g].sid = sid
    BY DEF FlagHasOwner
<1>1. CASE sid \in streaming
    <2>1. PICK g \in Handlers : InTurn(g) /\ turn[g].sid = sid
        BY <1>1 DEF FlagHasOwner
    <2>2. CASE g = h
        BY <2>1, <2>2 DEF FlagStep, BetweenTurns, Begins, GoesOn, Ends
    <2>3. CASE g # h
        <3>1. pc'[g] = pc[g] /\ turn'[g] = turn[g]
            BY <2>3 DEF FlagStep, BetweenTurns, Begins, GoesOn, Ends, OthersStay
        <3>. QED
            BY <2>1, <3>1 DEF InTurn
    <2>. QED
        BY <2>2, <2>3
<1>2. CASE sid \notin streaming
    BY <1>2 DEF FlagStep, BetweenTurns, Begins, GoesOn, Ends
<1>. QED
    BY <1>1, <1>2

\* No session stays closed to branch switches: a stream flag that is up is
\* that of a turn that goes on, over any number of sockets and requests, if no
\* save raises or nothing is posted over HTTP, whose handler has no finally
\* block (service.py:1119-1143, 1852-1854).
THEOREM ChatFlagHasOwner ==
    ASSUME ~DiskFaults \/ Posts = {}
    PROVE  Spec => []FlagHasOwner
<1>1. Init => FlagHasOwner
    BY DEF Init, FlagHasOwner
<1>2. IInv /\ FlagHasOwner /\ [Next]_vars => FlagHasOwner'
    <2>. SUFFICES ASSUME IInv, FlagHasOwner, [Next]_vars PROVE FlagHasOwner'
        OBVIOUS
    <2>1. CASE \E h \in Handlers : FlagStep(h)
        BY <2>1, FlagStepOwner DEF Leaks
    <2>2. CASE /\ UNCHANGED <<streaming, cancelled, turn>>
               /\ \A h \in Handlers : InTurn(h)' = InTurn(h)
        BY <2>2 DEF FlagHasOwner
    <2>. QED
        BY <2>1, <2>2, NextFlags
<1>. QED
    BY <1>1, <1>2, ChatInvariant, PTL DEF Spec

\* No cancel request outlives the stream it was made for, to end a later turn
\* of the session, however many sockets chat in it: as long as nothing is
\* posted over HTTP, whose handler never clears the request
\* (session_manager.py:670-689, service.py:1852-1854).
THEOREM ChatCancelDiesWithStream ==
    ASSUME Posts = {}
    PROVE  Spec => []CancelDiesWithStream
<1>1. Init => CancelDiesWithStream
    BY DEF Init, CancelDiesWithStream
<1>2. IInv /\ CancelDiesWithStream /\ [Next]_vars => CancelDiesWithStream'
    <2>. SUFFICES ASSUME IInv, CancelDiesWithStream, [Next]_vars
                  PROVE  CancelDiesWithStream'
        OBVIOUS
    <2>1. ASSUME NEW h \in Handlers, FlagStep(h) PROVE CancelDiesWithStream'
        <3>1. h \in Conns
            BY DEF Handlers
        <3>. QED
            BY <2>1, <3>1 DEF CancelDiesWithStream, FlagStep, BetweenTurns, Begins,
                              GoesOn, Ends, Leaks
    <2>. QED
        BY <2>1, NextFlags DEF CancelDiesWithStream
<1>. QED
    BY <1>1, <1>2, ChatInvariant, PTL DEF Spec

----------------------------------------------------------------------------
\* One client chats at a time: no two sockets that send, and no POST next to
\* one.  Other sockets may cancel, and any client may fork and switch.
OneClient == \A g, h \in Senders \cup Posts : g = h

\* A socket that does not send is never in a turn.
OnlyCancels(c) ==
    /\ pc[c] \in {"idle", "dead"}
    /\ \A i \in 1..Len(inbox[c]) : inbox[c][i].type # "send"

SendersChat == \A c \in Conns \ Senders : OnlyCancels(c)

\* A frame is received, or sent: the others stay where they were.
LEMMA InboxStays ==
    ASSUME WireOK, NEW c \in Conns,
           \/ inbox' = inbox
           \/ inbox[c] # <<>> /\ inbox' = [inbox EXCEPT ![c] = Tail(inbox[c])]
           \/ inbox' = [inbox EXCEPT ![c] = <<>>]
           \/ \E f \in Frame : f.type # "send"
                               /\ inbox' = [inbox EXCEPT ![c] = Append(inbox[c], f)],
           \A i \in 1..Len(inbox[c]) : inbox[c][i].type # "send"
    PROVE  \A i \in 1..Len(inbox'[c]) : inbox'[c][i].type # "send"
<1>1. inbox[c] \in Seq(Frame) /\ Len(inbox[c]) \in Nat
    BY DEF WireOK
<1>2. CASE inbox' = inbox
    BY <1>2
<1>3. CASE inbox[c] # <<>> /\ inbox' = [inbox EXCEPT ![c] = Tail(inbox[c])]
    <2>1. /\ inbox'[c] = Tail(inbox[c])
          /\ Len(inbox'[c]) = Len(inbox[c]) - 1
          /\ \A i \in 1..Len(inbox'[c]) : inbox'[c][i] = inbox[c][i + 1]
        BY <1>1, <1>3, HeadTailProperties DEF WireOK
    <2>. QED
        BY <1>1, <2>1
<1>4. CASE inbox' = [inbox EXCEPT ![c] = <<>>]
    <2>1. inbox'[c] = <<>>
        BY <1>4 DEF WireOK
    <2>. QED
        BY <2>1
<1>5. ASSUME NEW f \in Frame, f.type # "send",
             inbox' = [inbox EXCEPT ![c] = Append(inbox[c], f)]
      PROVE  \A i \in 1..Len(inbox'[c]) : inbox'[c][i].type # "send"
    <2>1. inbox'[c] = Append(inbox[c], f)
        BY <1>5 DEF WireOK
    <2>2. /\ Len(inbox'[c]) = Len(inbox[c]) + 1
          /\ \A i \in 1..Len(inbox[c]) : inbox'[c][i] = inbox[c][i]
          /\ inbox'[c][Len(inbox[c]) + 1] = f
        BY <1>1, <2>1, AppendProperties
    <2>. QED
        BY <1>1, <1>5, <2>2
<1>. QED
    BY <1>2, <1>3, <1>4, <1>5

\* What another handler, or another client, does.
LEMMA OthersKeepCancels ==
    ASSUME NEW d \in Conns, OnlyCancels(d), pc'[d] = pc[d], inbox'[d] = inbox[d]
    PROVE  OnlyCancels(d)'
BY DEF OnlyCancels

\* The steps of the socket itself.
LEMMA OwnKeepsCancels ==
    ASSUME TurnsOK, WireOK, NEW d \in Conns, d \notin Senders, OnlyCancels(d),
           WsStep(d) \/ ClientSends(d) \/ Disconnect(d) \/ Reconnect(d)
    PROVE  OnlyCancels(d)'
<1>1. d \in Handlers /\ inbox[d] \in Seq(Frame)
    BY DEF Handlers, WireOK
<1>2. \/ ReceiveCancel(d) \/ WsLeave(d)
      \/ ClientSends(d) \/ Disconnect(d) \/ Reconnect(d)
    <2>1. ~ReceiveSend(d)
        <3>1. inbox[d] # <<>> => 1 \in 1..Len(inbox[d]) /\ Head(inbox[d]) = inbox[d][1]
            BY <1>1
        <3>. QED
            BY <3>1 DEF ReceiveSend, OnlyCancels
    <2>. QED
        BY <2>1 DEF WsStep, OnlyCancels, WsUnknownSession, WsStart, WsChunk, WsExhausted,
                    WsProviderFails, WsCancelled, WsDeliver, WsSilent, WsTimerKills,
                    WsSent, WsSendFails, WsClose
<1>3. pc'[d] \in {"idle", "dead"}
    BY <1>1, <1>2 DEF OnlyCancels, ReceiveCancel, WsLeave, ClientSends, Disconnect,
                      Reconnect, AfterSend, TurnsOK
<1>4. \/ inbox' = inbox
      \/ inbox[d] # <<>> /\ inbox' = [inbox EXCEPT ![d] = Tail(inbox[d])]
      \/ inbox' = [inbox EXCEPT ![d] = <<>>]
      \/ \E f \in Frame : f.type # "send"
                          /\ inbox' = [inbox EXCEPT ![d] = Append(inbox[d], f)]
    BY <1>2 DEF ReceiveCancel, WsLeave, ClientSends, Disconnect, Reconnect, wire
<1>5. \A i \in 1..Len(inbox'[d]) : inbox'[d][i].type # "send"
    BY <1>4, InboxStays DEF OnlyCancels
<1>. QED
    BY <1>3, <1>5 DEF OnlyCancels

\* What one socket's step leaves alone on another.
LEMMA InboxOfOthers ==
    ASSUME WireOK, NEW c \in Conns, NEW d \in Conns, d # c,
           WsStep(c) \/ ClientSends(c) \/ Disconnect(c) \/ Reconnect(c)
    PROVE  inbox'[d] = inbox[d]
<1>1. ASSUME NEW t, WsComplete(c, t) PROVE inbox' = inbox
    BY <1>1 DEF WsComplete, wire
<1>2. ASSUME NEW t, NEW chunk, WsContinue(c, t, chunk) PROVE inbox' = inbox
    BY <1>1, <1>2 DEF WsContinue, wire
<1>3. CASE ReceiveSend(c) \/ ReceiveCancel(c) \/ ClientSends(c) \/ Reconnect(c)
    BY <1>3 DEF ReceiveSend, ReceiveCancel, ClientSends, Reconnect, WireOK
<1>4. CASE WsUnknownSession(c) \/ WsStart(c) \/ WsChunk(c) \/ WsLeave(c) \/ Disconnect(c)
    BY <1>4 DEF WsUnknownSession, WsStart, BeginTurn, RefuseTurn, WsChunk, WsLeave,
                Disconnect, wire
<1>5. CASE \/ WsProviderFails(c) \/ WsDeliver(c) \/ WsTimerKills(c) \/ WsSendFails(c)
           \/ WsClose(c)
    BY <1>5 DEF WsProviderFails, WsDeliver, WsTimerKills, WsSendFails, WsClose, wire
<1>6. CASE WsExhausted(c) \/ WsCancelled(c) \/ WsSilent(c) \/ WsSent(c)
    BY <1>1, <1>2, <1>6 DEF WsExhausted, WsCancelled, WsSilent, WsSent
<1>. QED
    BY <1>3, <1>4, <1>5, <1>6 DEF WsStep

\* What requests and routes leave alone.
LEMMA RequestsKeepInbox ==
    ASSUME TurnsOK, NEW d \in Conns,
           \/ \E p \in Posts : HttpStep(p) \/ HttpStart(p)
           \/ \E sid \in DOMAIN mem : Fork(sid) \/ Switch(sid) \/ HardDelete(sid)
           \/ UNCHANGED vars
    PROVE  pc'[d] = pc[d] /\ inbox'[d] = inbox[d]
<1>1. ASSUME NEW p \in Posts, NEW place, pc' = [pc EXCEPT ![p] = place]
      PROVE  pc'[d] = pc[d]
    BY <1>1, ClientsAssumption DEF TurnsOK, Handlers
<1>2. ASSUME NEW p \in Posts, HttpStart(p) PROVE pc'[d] = pc[d] /\ inbox' = inbox
    BY <1>1, <1>2 DEF HttpStart, BeginTurn, RefuseTurn
<1>3. ASSUME NEW p \in Posts, HttpChunk(p) \/ HttpProviderFails(p)
      PROVE  pc'[d] = pc[d] /\ inbox' = inbox
    BY <1>1, <1>3 DEF HttpChunk, HttpProviderFails, wire
<1>4. ASSUME NEW p \in Posts, HttpExhausted(p) PROVE pc'[d] = pc[d] /\ inbox' = inbox
    BY <1>1, <1>4 DEF HttpExhausted, HttpComplete, wire
<1>5. ASSUME NEW sid, Fork(sid) \/ Switch(sid) \/ HardDelete(sid)
      PROVE  pc'[d] = pc[d] /\ inbox' = inbox
    BY <1>5 DEF Fork, Switch, HardDelete, wire
<1>6. CASE UNCHANGED vars
    BY <1>6 DEF vars
<1>. QED
    BY <1>2, <1>3, <1>4, <1>5, <1>6 DEF HttpStep

\* Only the clients that send have turns.
LEMMA NextSendersChat == IInv /\ SendersChat /\ [Next]_vars => SendersChat'
<1>. SUFFICES ASSUME IInv, SendersChat, [Next]_vars, NEW d \in Conns \ Senders
              PROVE  OnlyCancels(d)'
    BY DEF SendersChat
<1>1. TurnsOK /\ WireOK /\ OnlyCancels(d)
    BY IInvParts DEF SendersChat
<1>2. CASE WsStep(d) \/ ClientSends(d) \/ Disconnect(d) \/ Reconnect(d)
    BY <1>1, <1>2, OwnKeepsCancels
<1>3. ASSUME NEW c \in Conns \ {d},
             WsStep(c) \/ ClientSends(c) \/ Disconnect(c) \/ Reconnect(c)
      PROVE  OnlyCancels(d)'
    <2>1. inbox'[d] = inbox[d]
        BY <1>1, <1>3, InboxOfOthers
    <2>2. CASE WsStep(c)
        <3>1. OthersStay(c)
            BY <1>1, <2>2, WsStepFlags DEF FlagStep, BetweenTurns, Begins, GoesOn, Ends, Leaks
        <3>. QED
            BY <1>1, <2>1, <3>1, OthersKeepCancels DEF OthersStay, Handlers
    <2>3. CASE ClientSends(c) \/ Disconnect(c) \/ Reconnect(c)
        <3>1. pc'[d] = pc[d]
            BY <1>1, <2>3 DEF ClientSends, Disconnect, Reconnect, TurnsOK, Handlers
        <3>. QED
            BY <1>1, <2>1, <3>1, OthersKeepCancels
    <2>. QED
        BY <1>3, <2>2, <2>3
<1>4. CASE \/ \E p \in Posts : HttpStep(p) \/ HttpStart(p)
           \/ \E sid \in DOMAIN mem : Fork(sid) \/ Switch(sid) \/ HardDelete(sid)
           \/ UNCHANGED vars
    BY <1>1, <1>4, RequestsKeepInbox, OthersKeepCancels
<1>. QED
    BY <1>2, <1>3, <1>4 DEF Next, ClientStep

\* At the start nothing was sent.
LEMMA InitSendersChat == Init => SendersChat
BY DEF Init, SendersChat, OnlyCancels, Handlers

\* So that no two turns overlap.
LEMMA OneTurn ==
    ASSUME OneClient, SendersChat, NEW g \in Handlers, NEW h \in Handlers,
           InTurn(g), InTurn(h)
    PROVE  g = h
BY DEF OneClient, SendersChat, OnlyCancels, InTurn, Handlers

\* "While a stream is active on a session, branch.switch is refused"
\* (ADR-0019): with one client that chats, whatever the others cancel, fork,
\* switch and delete, a turn has the flag of its session up until its end.
THEOREM ChatFlagGuardsStream ==
    ASSUME OneClient
    PROVE  Spec => []FlagGuardsStream
<1>1. Init => SendersChat /\ FlagGuardsStream
    BY InitSendersChat DEF Init, FlagGuardsStream, InTurn
<1>2. IInv /\ SendersChat /\ FlagGuardsStream /\ [Next]_vars
        => SendersChat' /\ FlagGuardsStream'
    <2>. SUFFICES ASSUME IInv, SendersChat, FlagGuardsStream, [Next]_vars
                  PROVE  FlagGuardsStream'
        BY NextSendersChat
    <2>1. ASSUME NEW h \in Handlers, FlagStep(h),
                 NEW g \in Handlers, InTurn(g)'
          PROVE  turn'[g].sid \in streaming'
        <3>1. CASE g = h
            BY <2>1, <3>1 DEF FlagStep, BetweenTurns, Begins, GoesOn, Ends, Leaks,
                              FlagGuardsStream
        <3>2. CASE g # h
            <4>1. InTurn(g) /\ turn'[g] = turn[g]
                BY <2>1, <3>2 DEF FlagStep, BetweenTurns, Begins, GoesOn, Ends, Leaks,
                                  OthersStay, InTurn
            <4>2. ~InTurn(h)
                BY <3>2, <4>1, OneTurn
            <4>. QED
                BY <2>1, <4>1, <4>2 DEF FlagStep, BetweenTurns, Begins, GoesOn, Ends,
                                        Leaks, FlagGuardsStream
        <3>. QED
            BY <3>1, <3>2
    <2>. QED
        BY <2>1, NextFlags DEF FlagGuardsStream
<1>. QED
    BY <1>1, <1>2, ChatInvariant, PTL DEF Spec

----------------------------------------------------------------------------
\* The totals.  A turn has read them when it is in its loop, and nothing else
\* writes them.
Loop == {"next", "yield", "sending"}

SameTotals(sid) ==
    /\ sid \in DOMAIN mem
    /\ mem'[sid].totals = mem[sid].totals
    /\ spent'[sid] = spent[sid]

TotalsKept == \A sid \in DOMAIN mem' : SameTotals(sid)

\* The snapshot of a turn in its loop is one it had, or was just taken.
SnapshotKept(h) ==
    pc'[h] \in Loop =>
        \/ /\ pc[h] \in Loop
           /\ turn'[h].sid = turn[h].sid /\ turn'[h].prior = turn[h].prior
        \/ /\ turn'[h].sid \in DOMAIN mem
           /\ turn'[h].prior = mem[turn'[h].sid].totals

\* A turn that ends its loop may write them: what it has read, and its tokens.
Counted(h) ==
    /\ pc[h] \in Loop /\ pc'[h] \notin Loop
    /\ \A sid \in DOMAIN mem' :
        \/ SameTotals(sid)
        \/ /\ sid = turn[h].sid /\ sid \in DOMAIN mem
           /\ \E got \in Nat : /\ mem'[sid].totals = turn[h].prior + got
                               /\ spent'[sid] = spent[sid] + got

TotalsStep(h) ==
    /\ OthersStay(h)
    /\ \/ TotalsKept /\ SnapshotKept(h)
       \/ Counted(h)

\* A step that stores nothing.
LEMMA UnchangedTotals ==
    ASSUME UNCHANGED <<mem, spent>>
    PROVE  TotalsKept
BY DEF TotalsKept, SameTotals

\* A message is appended.
LEMMA AppendKeepsTotals ==
    ASSUME MemOK, NEW sid \in DOMAIN mem, NEW id \in Nat \ {0}, NEW role \in Roles,
           NEW parentArg \in Nat,
           mem' = Put(mem, sid, AppendMessage(mem[sid], id, role, parentArg)),
           spent' = spent
    PROVE  TotalsKept
<1>1. AppendMessage(mem[sid], id, role, parentArg).totals = mem[sid].totals
    BY SessionInMem, AppendMessageType
<1>. QED
    BY <1>1 DEF TotalsKept, SameTotals, Put

\* The reply is appended, and the totals are written if no save raised first.
LEMMA StoreReplyTotals ==
    ASSUME MemOK, NEW t \in Turn, NEW counted \in BOOLEAN, StoreReply(t, counted),
           NEW sid \in DOMAIN mem'
    PROVE  \/ SameTotals(sid)
           \/ /\ sid = t.sid /\ sid \in DOMAIN mem
              /\ mem'[sid].totals = t.prior + t.got
              /\ spent'[sid] = spent[sid] + t.got
<1>1. CASE t.sid \notin DOMAIN mem
    BY <1>1 DEF StoreReply, ghosts, SameTotals
<1>2. CASE t.sid \in DOMAIN mem
    <2>. DEFINE replied == WithReply(mem[t.sid], t)
    <2>1. replied \in Session /\ replied.totals = mem[t.sid].totals
        <3>1. mem[t.sid] \in Session /\ "assistant" \in Roles
            BY <1>2, SessionInMem DEF Roles
        <3>2. ASSUME NEW s \in Session, NEW id \in Nat \ {0}, NEW pin \in Nat
              PROVE  LET new == AppendMessage(s, id, "assistant", pin)
                     IN  new \in Session /\ new.totals = s.totals
            BY <3>1, AppendMessageType
        <3>. QED
            BY <3>1, <3>2 DEF WithReply, MemOK, Turn
    <2>2. /\ mem' = Put(mem, t.sid, IF counted THEN WithTotals(replied, t) ELSE replied)
          /\ spent' = IF counted THEN [spent EXCEPT ![t.sid] = @ + t.got] ELSE spent
        BY <1>2 DEF StoreReply
    <2>. HIDE DEF replied
    <2>3. WithTotals(replied, t).totals = t.prior + t.got
        BY <2>1 DEF WithTotals, Session
    <2>4. sid \in DOMAIN mem /\ spent \in [Sessions -> Nat] /\ t.sid \in Sessions
        BY <1>2, <2>2 DEF Put, MemOK, Turn
    <2>5. CASE sid # t.sid
        BY <2>2, <2>4, <2>5 DEF Put, SameTotals
    <2>6. CASE sid = t.sid /\ counted
        BY <2>2, <2>3, <2>4, <2>6 DEF Put
    <2>7. CASE sid = t.sid /\ ~counted
        BY <2>1, <2>2, <2>4, <2>7 DEF Put, SameTotals
    <2>. QED
        BY <2>5, <2>6, <2>7
<1>. QED
    BY <1>1, <1>2

\* A turn of either handler that is complete.
LEMMA CompleteCounts ==
    ASSUME MemOK, TurnsOK, NEW h \in Handlers, pc[h] \in Loop,
           NEW t \in Turn, t.sid = turn[h].sid, t.prior = turn[h].prior,
           WsComplete(h, t) \/ HttpComplete(h, t)
    PROVE  TotalsStep(h)
<1>1. turn' = [turn EXCEPT ![h] = turn'[h]]
    BY DEF WsComplete, HttpComplete, TurnsOK
<1>2. OthersStay(h) /\ pc'[h] \in {"closing", "idle"}
    BY <1>1, OneMoves DEF WsComplete, HttpComplete
<1>3. \E counted \in BOOLEAN : StoreReply(t, counted)
    BY DEF WsComplete, HttpComplete
<1>4. t.got \in Nat
    BY DEF Turn
<1>5. Counted(h)
    BY <1>2, <1>3, <1>4, StoreReplyTotals DEF Counted, Loop
<1>. QED
    BY <1>2, <1>5 DEF TotalsStep

\* The loop goes on, or its turn is complete.
LEMMA ContinueCounts ==
    ASSUME MemOK, TurnsOK, NEW c \in Conns, pc[c] \in Loop,
           NEW t \in Turn, t.sid = turn[c].sid, t.prior = turn[c].prior,
           NEW chunk, WsContinue(c, t, chunk)
    PROVE  TotalsStep(c)
<1>1. c \in Handlers
    BY DEF Handlers
<1>2. CASE chunk.finish
    BY <1>1, <1>2, CompleteCounts DEF WsContinue
<1>3. CASE ~chunk.finish
    <2>1. turn'[c] = t /\ turn' = [turn EXCEPT ![c] = turn'[c]]
        BY <1>1, <1>3 DEF WsContinue, TurnsOK
    <2>2. OthersStay(c) /\ pc'[c] = "next"
        BY <1>1, <1>3, <2>1, OneMoves DEF WsContinue
    <2>3. TotalsKept
        BY <1>3, UnchangedTotals DEF WsContinue, store, ghosts
    <2>. QED
        BY <2>1, <2>2, <2>3 DEF TotalsStep, SnapshotKept
<1>. QED
    BY <1>2, <1>3

\* The user's message of a turn is appended, with or without the turn.
LEMMA StartCounts ==
    ASSUME MemOK, TurnsOK, NEW h \in Handlers, NEW sid \in DOMAIN mem,
           \/ BeginTurn(h, sid)
           \/ \E place \in {"idle", "dead"} : RefuseTurn(h, sid, place)
    PROVE  TotalsStep(h)
<1>1. TotalsKept
    <2>1. AppendUser(sid) /\ spent' = spent
        BY DEF BeginTurn, RefuseTurn, ghosts
    <2>2. nextMsg \in Nat \ {0} /\ "user" \in Roles /\ None \in Nat
        BY DEF MemOK, Roles, None
    <2>. QED
        BY <2>1, <2>2, AppendKeepsTotals DEF AppendUser
<1>2. CASE BeginTurn(h, sid)
    <2>1. PICK script \in Scripts :
            turn' = [turn EXCEPT ![h] =
                        NewTurn(sid, nextMsg, mem[sid].tip, mem[sid].totals, script)]
        BY <1>2 DEF BeginTurn
    <2>2. /\ turn'[h].sid = sid /\ turn'[h].prior = mem[sid].totals
          /\ turn' = [turn EXCEPT ![h] = turn'[h]]
        BY <2>1 DEF TurnsOK, NewTurn
    <2>3. OthersStay(h)
        BY <1>2, <2>2, OneMoves DEF BeginTurn
    <2>. QED
        BY <1>1, <2>2, <2>3 DEF TotalsStep, SnapshotKept
<1>3. ASSUME NEW place \in {"idle", "dead"}, RefuseTurn(h, sid, place)
      PROVE  TotalsStep(h)
    <2>1. OthersStay(h) /\ pc'[h] = place
        BY <1>3, OneMoves DEF RefuseTurn
    <2>. QED
        BY <1>1, <2>1 DEF TotalsStep, SnapshotKept, Loop
<1>. QED
    BY <1>2, <1>3

\* A socket's handler.
LEMMA WsStepTotals ==
    ASSUME MemOK, TurnsOK, NEW c \in Conns, WsStep(c)
    PROVE  TotalsStep(c)
<1>1. c \in Handlers /\ turn[c] \in Turn
    BY DEF Handlers, TurnsOK
<1>2. OthersStay(c)
    BY WsStepFlags DEF FlagStep, BetweenTurns, Begins, GoesOn, Ends, Leaks
<1>3. CASE \/ ReceiveSend(c) \/ ReceiveCancel(c) \/ WsUnknownSession(c)
           \/ WsLeave(c) \/ WsSendFails(c) \/ WsProviderFails(c)
           \/ WsClose(c) \/ WsTimerKills(c)
    <2>1. TotalsKept
        BY <1>3, UnchangedTotals
        DEF ReceiveSend, ReceiveCancel, WsUnknownSession, WsLeave, WsSendFails,
            WsProviderFails, WsClose, WsTimerKills, DropFlags, store, ghosts
    <2>2. pc'[c] \notin Loop
        BY <1>1, <1>3 DEF ReceiveSend, ReceiveCancel, WsUnknownSession, WsLeave,
                          WsSendFails, WsProviderFails, WsClose, WsTimerKills,
                          AfterSend, Loop, TurnsOK
    <2>. QED
        BY <1>2, <2>1, <2>2 DEF TotalsStep, SnapshotKept
<1>4. CASE WsStart(c)
    BY <1>1, <1>4, StartCounts DEF WsStart, AfterSend
<1>5. CASE WsChunk(c)
    BY <1>2, <1>5, UnchangedTotals
    DEF WsChunk, store, ghosts, TotalsStep, SnapshotKept, Loop
<1>6. CASE WsExhausted(c)
    BY <1>1, <1>6, CompleteCounts DEF WsExhausted, Loop
<1>7. CASE WsCancelled(c)
    <2>1. /\ [turn[c] EXCEPT !.cancelled = TRUE] \in Turn
          /\ [turn[c] EXCEPT !.cancelled = TRUE].sid = turn[c].sid
          /\ [turn[c] EXCEPT !.cancelled = TRUE].prior = turn[c].prior
        BY <1>1 DEF Turn
    <2>. QED
        BY <1>1, <1>7, <2>1, CompleteCounts DEF WsCancelled, Loop
<1>8. CASE WsDeliver(c) \/ WsSilent(c)
    <2>. DEFINE chunk == turn[c].script[turn[c].at]
                t == WsAbsorb(turn[c], chunk)
    <2>1. ~Exhausted(turn[c])
        BY <1>1, <1>8 DEF TurnsOK, WsDeliver, WsSilent
    <2>2. chunk \in Chunk
        BY <1>1, <2>1, ChunkTyped
    <2>. HIDE DEF chunk
    <2>3. t \in Turn /\ t.sid = turn[c].sid /\ t.prior = turn[c].prior
        BY <1>1, <2>2, AbsorbTyped DEF WsAbsorb, Turn
    <2>4. CASE WsDeliver(c)
        <3>1. turn'[c] = t /\ pc[c] \in Loop /\ UNCHANGED <<mem, spent>>
            BY <1>1, <2>4 DEF WsDeliver, store, ghosts, chunk, Loop, TurnsOK
        <3>. HIDE DEF t
        <3>. QED
            BY <1>2, <2>3, <3>1, UnchangedTotals DEF TotalsStep, SnapshotKept
    <2>5. CASE WsSilent(c)
        <3>1. WsContinue(c, t, chunk) /\ pc[c] \in Loop
            BY <2>5 DEF WsSilent, chunk, Loop
        <3>. HIDE DEF t
        <3>. QED
            BY <2>3, <3>1, ContinueCounts
    <2>. QED
        BY <1>8, <2>4, <2>5
<1>9. CASE WsSent(c)
    BY <1>1, <1>9, ContinueCounts DEF WsSent, Loop
<1>. QED
    BY <1>3, <1>4, <1>5, <1>6, <1>7, <1>8, <1>9 DEF WsStep

\* A request's handler.
LEMMA HttpStepTotals ==
    ASSUME MemOK, TurnsOK, NEW p \in Posts, HttpStart(p) \/ HttpStep(p)
    PROVE  TotalsStep(p)
<1>1. p \in Handlers /\ turn[p] \in Turn
    BY DEF Handlers, TurnsOK
<1>2. OthersStay(p)
    BY HttpStepFlags DEF FlagStep, BetweenTurns, Begins, GoesOn, Ends, Leaks
<1>3. CASE HttpStart(p)
    BY <1>1, <1>3, StartCounts DEF HttpStart
<1>4. CASE HttpChunk(p)
    <2>1. /\ turn'[p].sid = turn[p].sid /\ turn'[p].prior = turn[p].prior
          /\ pc[p] \in Loop /\ UNCHANGED <<mem, spent>>
        BY <1>1, <1>4 DEF HttpChunk, HttpAbsorb, Turn, TurnsOK, store, ghosts, Loop
    <2>. QED
        BY <1>2, <2>1, UnchangedTotals DEF TotalsStep, SnapshotKept
<1>5. CASE HttpExhausted(p)
    BY <1>1, <1>5, CompleteCounts DEF HttpExhausted, Loop
<1>6. CASE HttpProviderFails(p)
    <2>1. pc'[p] \notin Loop
        BY <1>1, <1>6 DEF HttpProviderFails, Loop, TurnsOK
    <2>. QED
        BY <1>2, <1>6, <2>1, UnchangedTotals
        DEF HttpProviderFails, ghosts, TotalsStep, SnapshotKept
<1>. QED
    BY <1>3, <1>4, <1>5, <1>6 DEF HttpStep

\* The clients and the routes: no turn moves, and no totals.
LEMMA NextTotals ==
    ASSUME IInv, [Next]_vars
    PROVE  \/ \E h \in Handlers : TotalsStep(h)
           \/ /\ TotalsKept
              /\ \A h \in Handlers : /\ turn'[h] = turn[h]
                                     /\ pc'[h] \in Loop <=> pc[h] \in Loop
<1>1. MemOK /\ TurnsOK
    BY IInvParts
<1>2. ASSUME NEW c \in Conns, ClientSends(c) \/ Disconnect(c) \/ Reconnect(c)
      PROVE  /\ TotalsKept
             /\ turn' = turn
             /\ \A h \in Handlers : pc'[h] \in Loop <=> pc[h] \in Loop
    <2>1. TotalsKept
        BY <1>2, UnchangedTotals DEF ClientSends, Disconnect, Reconnect, store, ghosts
    <2>. QED
        BY <1>1, <1>2, <2>1 DEF ClientSends, Disconnect, Reconnect, TurnsOK, Loop
<1>3. ASSUME NEW sid \in DOMAIN mem, Fork(sid) \/ Switch(sid) \/ HardDelete(sid)
      PROVE  TotalsKept /\ UNCHANGED <<turn, pc>>
    <2>1. UNCHANGED <<turn, pc>>
        BY <1>3 DEF Fork, Switch, HardDelete
    <2>2. CASE Fork(sid)
        <3>1. PICK role \in ForkRoles, parent \in 1..nextMsg :
                mem' = Put(mem, sid, AppendMessage(mem[sid], nextMsg + 1, role, parent))
            BY <2>2 DEF Fork
        <3>2. role \in Roles /\ parent \in Nat /\ nextMsg + 1 \in Nat \ {0}
            BY <1>1, ChatBoundsAssumption DEF MemOK
        <3>3. spent' = spent
            BY <2>2 DEF Fork
        <3>4. TotalsKept
            <4>1. ASSUME NEW id \in Nat \ {0},
                         mem' = Put(mem, sid, AppendMessage(mem[sid], id, role, parent))
                  PROVE  TotalsKept
                BY <1>1, <3>2, <3>3, <4>1, AppendKeepsTotals
            <4>. QED
                BY <3>1, <3>2, <4>1
        <3>. QED
            BY <2>1, <3>4
    <2>3. CASE Switch(sid)
        <3>1. PICK leaf : mem' = Put(mem, sid, SwitchTip(mem[sid], leaf))
            BY <2>3 DEF Switch
        <3>2. SwitchTip(mem[sid], leaf).totals = mem[sid].totals
            BY <1>1, SessionInMem DEF SwitchTip, Session
        <3>. QED
            BY <2>1, <2>3, <3>1, <3>2 DEF Switch, ghosts, TotalsKept, SameTotals, Put
    <2>4. CASE HardDelete(sid)
        BY <2>1, <2>4 DEF HardDelete, ghosts, TotalsKept, SameTotals, Drop
    <2>. QED
        BY <1>3, <2>2, <2>3, <2>4
<1>4. CASE UNCHANGED vars
    BY <1>4, UnchangedTotals DEF vars
<1>. QED
    BY <1>1, <1>2, <1>3, <1>4, WsStepTotals, HttpStepTotals
    DEF Next, ClientStep, Handlers

\* The snapshot of a turn in its loop is what the totals still are.
SnapshotFresh ==
    \A h \in Handlers : pc[h] \in Loop /\ turn[h].sid \in DOMAIN mem =>
        turn[h].prior = mem[turn[h].sid].totals

\* "The lifetime totals are additive across turns" (comment in the WS
\* handler): with one client that chats, whatever the others do, the totals
\* are the sum over the finished turns; no save that raises, no disconnect and
\* no time limit makes the ledger and the totals differ.
THEOREM ChatTotalsAreAdditive ==
    ASSUME OneClient
    PROVE  Spec => []TotalsAreAdditive
<1>1. Init => SendersChat /\ TotalsAreAdditive /\ SnapshotFresh
    BY InitSendersChat
    DEF Init, TotalsAreAdditive, SnapshotFresh, FreshSession, Loop
<1>2. IInv /\ SendersChat /\ TotalsAreAdditive /\ SnapshotFresh /\ [Next]_vars
        => SendersChat' /\ TotalsAreAdditive' /\ SnapshotFresh'
    <2>. SUFFICES ASSUME IInv, SendersChat, TotalsAreAdditive, SnapshotFresh, [Next]_vars
                  PROVE  TotalsAreAdditive' /\ SnapshotFresh'
        BY NextSendersChat
    <2>1. CASE /\ TotalsKept
               /\ \A h \in Handlers : /\ turn'[h] = turn[h]
                                      /\ pc'[h] \in Loop <=> pc[h] \in Loop
        BY <2>1 DEF TotalsKept, SameTotals, TotalsAreAdditive, SnapshotFresh
    <2>2. ASSUME NEW h \in Handlers, OthersStay(h), TotalsKept, SnapshotKept(h)
          PROVE  TotalsAreAdditive' /\ SnapshotFresh'
        <3>1. TotalsAreAdditive'
            BY <2>2 DEF TotalsKept, SameTotals, TotalsAreAdditive
        <3>2. ASSUME NEW g \in Handlers, pc'[g] \in Loop, turn'[g].sid \in DOMAIN mem'
              PROVE  turn'[g].prior = mem'[turn'[g].sid].totals
            BY <2>2, <3>2 DEF OthersStay, TotalsKept, SameTotals, SnapshotKept, SnapshotFresh
        <3>. QED
            BY <3>1, <3>2 DEF SnapshotFresh
    <2>3. ASSUME NEW h \in Handlers, OthersStay(h), Counted(h)
          PROVE  TotalsAreAdditive' /\ SnapshotFresh'
        <3>1. ASSUME NEW sid \in DOMAIN mem' PROVE mem'[sid].totals = spent'[sid]
            BY <2>3 DEF Counted, SameTotals, TotalsAreAdditive, SnapshotFresh
        <3>2. ASSUME NEW g \in Handlers, pc'[g] \in Loop PROVE FALSE
            <4>1. g # h /\ pc[g] \in Loop
                BY <2>3, <3>2 DEF Counted, OthersStay
            <4>. QED
                BY <2>3, <4>1, OneTurn DEF Counted, InTurn, Loop
        <3>. QED
            BY <3>1, <3>2 DEF TotalsAreAdditive, SnapshotFresh
    <2>. QED
        BY <2>1, <2>2, <2>3, NextTotals DEF TotalsStep
<1>. QED
    BY <1>1, <1>2, ChatInvariant, PTL DEF Spec

----------------------------------------------------------------------------
\* The messages.  Whatever a step does to them is one append_message: by a
\* turn, under the tip or its pin, or by a fork, under whatever id; the fork is
\* put down as astray if its parent is no message of the session.
Parents(sid) ==
    {None} \cup Ids(mem[sid])
           \cup {turn[h].pin : h \in {g \in Handlers : turn[g].sid = sid}}

Growth(sid, id, parent) ==
    \/ mem'[sid].msgs = mem[sid].msgs
    \/ \E role \in Roles : \E parentArg \in Nat :
        /\ mem'[sid].msgs = AppendMessage(mem[sid], id, role, parentArg).msgs
        /\ parent = ParentFor(mem[sid], parentArg)
        /\ parentArg \in Parents(sid) \/ <<sid, id>> \in astray'

MessageStep(id, parent) ==
    /\ id \in {nextMsg, nextMsg + 1} /\ nextMsg' \in {nextMsg, id + 1}
    /\ \A sid \in DOMAIN mem' : sid \in DOMAIN mem /\ Growth(sid, id, parent)
    /\ astray \subseteq astray'
    /\ \A pair \in astray' \ astray :
        /\ pair[2] = id /\ nextMsg' = id + 1
        /\ parent \notin Ids(mem[pair[1]]) \cup {None}

\* A turn keeps its question and its pin, is forgotten, or begins with the
\* message that is appended, pinned to the tip it is asked at.
TurnKept(h) ==
    /\ turn'[h].sid = turn[h].sid
    /\ turn'[h].user = turn[h].user
    /\ turn'[h].pin = turn[h].pin
TurnCleared(h) == turn'[h].user = None /\ turn'[h].pin = None
TurnAsked(h, parent) ==
    /\ nextMsg' = nextMsg + 1
    /\ turn'[h].user = nextMsg
    /\ turn'[h].sid \in DOMAIN mem
    /\ turn'[h].pin = mem[turn'[h].sid].tip
    /\ turn'[h].pin = parent

Answers(h, parent) ==
    /\ nextMsg' = nextMsg + 1
    /\ answered' = answered \cup {<<turn[h].user, nextMsg>>}
    /\ turn[h].pin # None => parent = turn[h].pin

AnswerStep(h, parent) ==
    /\ MessageStep(nextMsg, parent)
    /\ \A g \in Handlers \ {h} : turn'[g] = turn[g]
    /\ TurnKept(h) \/ TurnCleared(h) \/ TurnAsked(h, parent)
    /\ answered' = answered \/ Answers(h, parent)

\* A step that stores nothing.
LEMMA NothingAppended ==
    ASSUME UNCHANGED <<mem, nextMsg, answered, astray>>, NEW h \in Handlers, NEW parent,
           \A g \in Handlers \ {h} : turn'[g] = turn[g],
           TurnKept(h) \/ TurnCleared(h)
    PROVE  AnswerStep(h, parent)
BY DEF AnswerStep, MessageStep, Growth

\* A step of a turn that appends one message to one session.
LEMMA MessageAppended ==
    ASSUME NEW sid \in DOMAIN mem, NEW role \in Roles, NEW parentArg \in Nat,
           parentArg \in Parents(sid), NEW s,
           s.msgs = AppendMessage(mem[sid], nextMsg, role, parentArg).msgs,
           mem' = Put(mem, sid, s), nextMsg' = nextMsg + 1, astray' = astray
    PROVE  MessageStep(nextMsg, ParentFor(mem[sid], parentArg))
BY DEF MessageStep, Growth, Put

\* The user's message of a turn, with or without the turn.
LEMMA StartAppends ==
    ASSUME TurnsOK, NEW h \in Handlers, NEW sid \in DOMAIN mem,
           \/ BeginTurn(h, sid)
           \/ \E place : RefuseTurn(h, sid, place)
    PROVE  \E parent : AnswerStep(h, parent)
<1>. DEFINE parent == mem[sid].tip
<1>1. AppendUser(sid) /\ UNCHANGED <<answered, astray>>
    BY DEF BeginTurn, RefuseTurn, ghosts
<1>2. MessageStep(nextMsg, parent)
    <2>1. /\ None \in Parents(sid) /\ None \in Nat /\ "user" \in Roles
          /\ ParentFor(mem[sid], None) = parent
        BY DEF Parents, ParentFor, None, Roles
    <2>2. \E s : /\ s = AppendMessage(mem[sid], nextMsg, "user", None)
                 /\ mem' = Put(mem, sid, s) /\ nextMsg' = nextMsg + 1
        BY <1>1 DEF AppendUser
    <2>. HIDE DEF parent
    <2>. QED
        BY <1>1, <2>1, <2>2, MessageAppended
<1>3. CASE BeginTurn(h, sid)
    <2>1. PICK script \in Scripts :
            turn' = [turn EXCEPT ![h] =
                        NewTurn(sid, nextMsg, mem[sid].tip, mem[sid].totals, script)]
        BY <1>3 DEF BeginTurn
    <2>2. /\ turn'[h].sid = sid /\ turn'[h].user = nextMsg /\ turn'[h].pin = parent
          /\ \A g \in Handlers \ {h} : turn'[g] = turn[g]
        BY <2>1 DEF TurnsOK, NewTurn
    <2>3. TurnAsked(h, parent)
        BY <1>1, <2>2 DEF TurnAsked, AppendUser
    <2>. QED
        BY <1>1, <1>2, <2>2, <2>3 DEF AnswerStep
<1>4. CASE \E place : RefuseTurn(h, sid, place)
    <2>1. turn' = turn
        BY <1>4 DEF RefuseTurn
    <2>. QED
        BY <1>1, <1>2, <2>1 DEF AnswerStep, TurnKept
<1>. QED
    BY <1>3, <1>4

\* The reply of a turn, unless its session is gone.
LEMMA StoreReplyAppends ==
    ASSUME MemOK, TurnsOK, NEW h \in Handlers, NEW t \in Turn,
           t.sid = turn[h].sid, t.user = turn[h].user, t.pin = turn[h].pin,
           turn' = [turn EXCEPT ![h] = t],
           NEW counted \in BOOLEAN, StoreReply(t, counted)
    PROVE  \E parent : AnswerStep(h, parent)
<1>1. TurnKept(h) /\ \A g \in Handlers \ {h} : turn'[g] = turn[g]
    BY DEF TurnKept, TurnsOK
<1>2. CASE t.sid \notin DOMAIN mem
    BY <1>1, <1>2, NothingAppended DEF StoreReply, ghosts
<1>3. CASE t.sid \in DOMAIN mem
    <2>. DEFINE replied == AppendMessage(mem[t.sid], nextMsg, "assistant", t.pin)
                final == IF counted THEN WithTotals(replied, t) ELSE replied
                parent == ParentFor(mem[t.sid], t.pin)
    <2>1. /\ mem' = Put(mem, t.sid, final)
          /\ nextMsg' = nextMsg + 1
          /\ answered' = answered \cup {<<turn[h].user, nextMsg>>}
          /\ astray' = astray
        BY <1>3 DEF StoreReply, WithReply
    <2>2. final.msgs = replied.msgs
        <3>1. replied = [replied EXCEPT !.msgs = replied.msgs]
            BY DEF AppendMessage
        <3>2. replied \in Session
            <4>1. /\ mem[t.sid] \in Session /\ nextMsg \in Nat \ {0}
                  /\ "assistant" \in Roles /\ t.pin \in Nat
                BY <1>3, SessionInMem DEF MemOK, Roles, Turn
            <4>. QED
                BY <4>1, AppendMessageType
        <3>. HIDE DEF replied
        <3>. QED
            BY <3>2 DEF WithTotals, Session
    <2>3. t.pin \in Parents(t.sid) /\ t.pin \in Nat /\ "assistant" \in Roles
        BY DEF Parents, Turn, Roles
    <2>. HIDE DEF final
    <2>4. MessageStep(nextMsg, parent)
        BY <1>3, <2>1, <2>2, <2>3, MessageAppended
    <2>5. Answers(h, parent)
        BY <2>1 DEF Answers, ParentFor
    <2>. QED
        BY <1>1, <2>4, <2>5 DEF AnswerStep
<1>. QED
    BY <1>2, <1>3

\* A turn of either handler that is complete.
LEMMA CompleteAppends ==
    ASSUME MemOK, TurnsOK, NEW h \in Handlers, NEW t \in Turn,
           t.sid = turn[h].sid, t.user = turn[h].user, t.pin = turn[h].pin,
           WsComplete(h, t) \/ HttpComplete(h, t)
    PROVE  \E parent : AnswerStep(h, parent)
<1>1. turn' = [turn EXCEPT ![h] = t] /\ \E counted \in BOOLEAN : StoreReply(t, counted)
    BY DEF WsComplete, HttpComplete
<1>. QED
    BY <1>1, StoreReplyAppends

\* The loop goes on, or its turn is complete.
LEMMA ContinueAppends ==
    ASSUME MemOK, TurnsOK, NEW c \in Conns, NEW t \in Turn,
           t.sid = turn[c].sid, t.user = turn[c].user, t.pin = turn[c].pin,
           NEW chunk, WsContinue(c, t, chunk)
    PROVE  \E parent : AnswerStep(c, parent)
<1>1. c \in Handlers
    BY DEF Handlers
<1>2. CASE chunk.finish
    BY <1>1, <1>2, CompleteAppends DEF WsContinue
<1>3. CASE ~chunk.finish
    <2>1. TurnKept(c) /\ \A g \in Handlers \ {c} : turn'[g] = turn[g]
        BY <1>1, <1>3 DEF WsContinue, TurnsOK, TurnKept
    <2>2. UNCHANGED <<mem, nextMsg, answered, astray>>
        BY <1>3 DEF WsContinue, store, ghosts
    <2>. QED
        BY <1>1, <2>1, <2>2, NothingAppended
<1>. QED
    BY <1>2, <1>3

\* A socket's handler.
LEMMA WsStepAppends ==
    ASSUME MemOK, TurnsOK, NEW c \in Conns, WsStep(c)
    PROVE  \E parent : AnswerStep(c, parent)
<1>1. c \in Handlers /\ turn[c] \in Turn
    BY DEF Handlers, TurnsOK
<1>2. CASE \/ ReceiveCancel(c) \/ WsUnknownSession(c) \/ WsChunk(c)
           \/ WsLeave(c) \/ WsSendFails(c) \/ WsProviderFails(c)
           \/ WsClose(c) \/ WsTimerKills(c)
    <2>1. UNCHANGED <<mem, nextMsg, answered, astray, turn>>
        BY <1>2 DEF ReceiveCancel, WsUnknownSession, WsChunk, WsLeave, WsSendFails,
                    WsProviderFails, WsClose, WsTimerKills, DropFlags, store, ghosts
    <2>. QED
        BY <1>1, <2>1, NothingAppended DEF TurnKept
<1>3. CASE ReceiveSend(c)
    <2>1. /\ UNCHANGED <<mem, nextMsg, answered, astray>>
          /\ TurnCleared(c) /\ \A g \in Handlers \ {c} : turn'[g] = turn[g]
        BY <1>1, <1>3 DEF ReceiveSend, store, ghosts, TurnCleared, NoTurn, NewTurn,
                          TurnsOK
    <2>. QED
        BY <1>1, <2>1, NothingAppended
<1>4. CASE WsStart(c)
    BY <1>1, <1>4, StartAppends DEF WsStart
<1>5. CASE WsExhausted(c)
    BY <1>1, <1>5, CompleteAppends DEF WsExhausted
<1>6. CASE WsCancelled(c)
    <2>. DEFINE t == [turn[c] EXCEPT !.cancelled = TRUE]
    <2>1. /\ t \in Turn /\ t.sid = turn[c].sid
          /\ t.user = turn[c].user /\ t.pin = turn[c].pin
        BY <1>1 DEF Turn
    <2>2. WsComplete(c, t)
        BY <1>6 DEF WsCancelled
    <2>. HIDE DEF t
    <2>. QED
        BY <1>1, <2>1, <2>2, CompleteAppends
<1>7. CASE WsDeliver(c) \/ WsSilent(c)
    <2>. DEFINE chunk == turn[c].script[turn[c].at]
                t == WsAbsorb(turn[c], chunk)
    <2>1. ~Exhausted(turn[c])
        BY <1>1, <1>7 DEF TurnsOK, WsDeliver, WsSilent
    <2>2. chunk \in Chunk
        BY <1>1, <2>1, ChunkTyped
    <2>. HIDE DEF chunk
    <2>3. /\ t \in Turn /\ t.sid = turn[c].sid
          /\ t.user = turn[c].user /\ t.pin = turn[c].pin
        BY <1>1, <2>2, AbsorbTyped DEF WsAbsorb, Turn
    <2>4. CASE WsDeliver(c)
        <3>1. turn' = [turn EXCEPT ![c] = t] /\ UNCHANGED <<mem, nextMsg, answered, astray>>
            BY <2>4 DEF WsDeliver, store, ghosts, chunk
        <3>. HIDE DEF t
        <3>2. TurnKept(c) /\ \A g \in Handlers \ {c} : turn'[g] = turn[g]
            BY <1>1, <2>3, <3>1 DEF TurnKept, TurnsOK
        <3>. QED
            BY <1>1, <3>1, <3>2, NothingAppended
    <2>5. CASE WsSilent(c)
        <3>1. WsContinue(c, t, chunk)
            BY <2>5 DEF WsSilent, chunk
        <3>. HIDE DEF t
        <3>. QED
            BY <2>3, <3>1, ContinueAppends
    <2>. QED
        BY <1>7, <2>4, <2>5
<1>8. CASE WsSent(c)
    BY <1>1, <1>8, ContinueAppends DEF WsSent
<1>. QED
    BY <1>2, <1>3, <1>4, <1>5, <1>6, <1>7, <1>8 DEF WsStep

\* A request's handler.
LEMMA HttpStepAppends ==
    ASSUME MemOK, TurnsOK, NEW p \in Posts, HttpStart(p) \/ HttpStep(p)
    PROVE  \E parent : AnswerStep(p, parent)
<1>1. p \in Handlers /\ turn[p] \in Turn
    BY DEF Handlers, TurnsOK
<1>2. CASE HttpStart(p)
    BY <1>1, <1>2, StartAppends DEF HttpStart
<1>3. CASE HttpChunk(p) \/ HttpProviderFails(p)
    <2>1. UNCHANGED <<mem, nextMsg, answered, astray>>
        BY <1>3 DEF HttpChunk, HttpProviderFails, store, ghosts
    <2>2. CASE HttpChunk(p)
        <3>. DEFINE t == HttpAbsorb(turn[p], turn[p].script[turn[p].at])
        <3>1. turn' = [turn EXCEPT ![p] = t]
            BY <2>2 DEF HttpChunk
        <3>2. t.sid = turn[p].sid /\ t.user = turn[p].user /\ t.pin = turn[p].pin
            BY <1>1 DEF HttpAbsorb, Turn
        <3>. HIDE DEF t
        <3>3. TurnKept(p) /\ \A g \in Handlers \ {p} : turn'[g] = turn[g]
            BY <1>1, <3>1, <3>2 DEF TurnKept, TurnsOK
        <3>. QED
            BY <1>1, <2>1, <3>3, NothingAppended
    <2>3. CASE HttpProviderFails(p)
        BY <1>1, <2>1, <2>3, NothingAppended DEF HttpProviderFails, TurnKept
    <2>. QED
        BY <1>3, <2>2, <2>3
<1>4. CASE HttpExhausted(p)
    BY <1>1, <1>4, CompleteAppends DEF HttpExhausted
<1>. QED
    BY <1>2, <1>3, <1>4 DEF HttpStep

\* A fork: its parent is a message of the session, or it is put down as astray.
LEMMA ForkAppends ==
    ASSUME MemOK, NEW sid \in DOMAIN mem, Fork(sid)
    PROVE  \E parent : MessageStep(nextMsg + 1, parent)
<1>1. PICK role \in ForkRoles, parent \in 1..nextMsg :
        /\ mem' = Put(mem, sid, AppendMessage(mem[sid], nextMsg + 1, role, parent))
        /\ astray' = IF parent \in Ids(mem[sid]) THEN astray
                     ELSE astray \cup {<<sid, nextMsg + 1>>}
    BY DEF Fork
<1>2. /\ role \in Roles /\ parent \in Nat /\ parent # None
      /\ ParentFor(mem[sid], parent) = parent
    BY ChatBoundsAssumption DEF MemOK, None, ParentFor
<1>3. nextMsg' = nextMsg + 1 + 1
    BY DEF Fork, MemOK
<1>4. parent \in Parents(sid) \/ <<sid, nextMsg + 1>> \in astray'
    BY <1>1 DEF Parents
<1>5. /\ sid \in DOMAIN mem'
      /\ mem'[sid] = AppendMessage(mem[sid], nextMsg + 1, role, parent)
      /\ \A x \in DOMAIN mem' : x \in DOMAIN mem /\ (x # sid => mem'[x] = mem[x])
    BY <1>1 DEF Put
<1>6. Growth(sid, nextMsg + 1, parent)
    BY <1>2, <1>4, <1>5 DEF Growth
<1>7. \A x \in DOMAIN mem' : x \in DOMAIN mem /\ Growth(x, nextMsg + 1, parent)
    BY <1>5, <1>6 DEF Growth
<1>8. \A pair \in astray' \ astray :
        pair = <<sid, nextMsg + 1>> /\ parent \notin Ids(mem[sid])
    BY <1>1
<1>9. \A pair \in astray' \ astray :
        pair[2] = nextMsg + 1 /\ parent \notin Ids(mem[pair[1]]) \cup {None}
    BY <1>2, <1>8
<1>10. astray \subseteq astray'
    BY <1>1
<1>. QED
    BY <1>3, <1>7, <1>9, <1>10 DEF MessageStep

\* The clients and the routes.
LEMMA NextAppends ==
    ASSUME IInv, [Next]_vars
    PROVE  \E parent : \/ \E h \in Handlers : AnswerStep(h, parent)
                       \/ /\ \E id : MessageStep(id, parent)
                          /\ UNCHANGED <<turn, answered>>
<1>1. MemOK /\ TurnsOK
    BY IInvParts
<1>2. ASSUME NEW c \in Conns, ClientSends(c) \/ Disconnect(c) \/ Reconnect(c)
      PROVE  UNCHANGED <<mem, nextMsg, turn, answered, astray>>
    BY <1>2 DEF ClientSends, Disconnect, Reconnect, store, ghosts
<1>3. UNCHANGED vars => UNCHANGED <<mem, nextMsg, turn, answered, astray>>
    BY DEF vars
<1>4. ASSUME UNCHANGED <<mem, nextMsg, turn, answered, astray>>
      PROVE  MessageStep(nextMsg, None) /\ UNCHANGED <<turn, answered>>
    BY <1>4 DEF MessageStep, Growth
<1>5. ASSUME NEW sid \in DOMAIN mem, Fork(sid)
      PROVE  UNCHANGED <<turn, answered>>
    BY <1>5 DEF Fork
<1>6. ASSUME NEW sid \in DOMAIN mem, Switch(sid) \/ HardDelete(sid)
      PROVE  MessageStep(nextMsg, None) /\ UNCHANGED <<turn, answered>>
    <2>1. CASE Switch(sid)
        <3>1. PICK leaf : mem' = Put(mem, sid, SwitchTip(mem[sid], leaf))
            BY <2>1 DEF Switch
        <3>2. SwitchTip(mem[sid], leaf).msgs = mem[sid].msgs
            BY <1>1, SessionInMem DEF SwitchTip, Session
        <3>. QED
            BY <2>1, <3>1, <3>2 DEF Switch, ghosts, MessageStep, Growth, Put
    <2>2. CASE HardDelete(sid)
        BY <2>2 DEF HardDelete, ghosts, MessageStep, Growth, Drop
    <2>. QED
        BY <1>6, <2>1, <2>2
<1>. QED
    BY <1>1, <1>2, <1>3, <1>4, <1>5, <1>6, ForkAppends, WsStepAppends,
       HttpStepAppends
    DEF Next, ClientStep, Handlers

\* Ids are handed out in order, so that the new one is of no other message.
IdsOlder ==
    /\ \A h \in Handlers : turn[h].user < nextMsg
    /\ \A pair \in answered : pair[1] < nextMsg /\ pair[2] < nextMsg

\* Wherever the question of a turn still is, its parent is the turn's pin.
QuestionsPinned ==
    \A sid \in DOMAIN mem : \A h \in Handlers : \A parent :
        Linked(mem[sid], turn[h].user, parent) => parent = turn[h].pin

\* And wherever a question and its reply still are, they hang from the same
\* message, unless the question is a root.
RepliesPinned ==
    \A sid \in DOMAIN mem : \A pair \in answered : \A q, r :
        Linked(mem[sid], pair[1], q) /\ q # None /\ Linked(mem[sid], pair[2], r) =>
            r = q

\* The links of a session after a step: the old ones, and one from the new
\* message, whose parent is one that a turn may name unless it is astray.
LEMMA StepLinks ==
    ASSUME IInv, LedgerInv, NEW id, NEW parent, MessageStep(id, parent),
           NEW sid \in DOMAIN mem', NEW a, NEW b, Linked(mem'[sid], a, b)
    PROVE  /\ sid \in DOMAIN mem
           /\ \/ a < nextMsg /\ Linked(mem[sid], a, b)
              \/ a = id /\ b = parent
           /\ \/ Linked(mem[sid], a, b)
              \/ <<sid, a>> \in astray'
              \/ \E arg \in Parents(sid) : b = ParentFor(mem[sid], arg)
<1>1. /\ sid \in DOMAIN mem /\ mem[sid] \in Session
      /\ id \in Nat \ {0} /\ Growth(sid, id, parent)
    BY IInvParts, SessionInMem DEF MessageStep, MemOK
<1>2. \A x \in Ids(mem[sid]) : x \in Nat \ {0} /\ x < nextMsg
    BY <1>1, ChainedIds DEF LedgerInv
<1>3. Linked(mem[sid], a, b) => a < nextMsg
    BY <1>2 DEF Linked, Ids
<1>4. CASE mem'[sid].msgs = mem[sid].msgs
    <2>1. Linked(mem[sid], a, b)
        BY <1>4 DEF Linked
    <2>. QED
        BY <1>1, <1>3, <2>1
<1>5. CASE mem'[sid].msgs # mem[sid].msgs
    <2>1. PICK role \in Roles, arg \in Nat :
            /\ mem'[sid].msgs = AppendMessage(mem[sid], id, role, arg).msgs
            /\ parent = ParentFor(mem[sid], arg)
            /\ arg \in Parents(sid) \/ <<sid, id>> \in astray'
        BY <1>1, <1>5 DEF Growth
    <2>2. Linked(AppendMessage(mem[sid], id, role, arg), a, b)
        BY <2>1 DEF Linked
    <2>3. Linked(mem[sid], a, b) \/ (a = id /\ b = parent)
        BY <1>1, <2>1, <2>2, AppendMessageLinks
    <2>. QED
        BY <1>1, <1>3, <2>1, <2>3
<1>. QED
    BY <1>4, <1>5

\* A step of a handler keeps the links of questions and replies.
LEMMA AnswerStepPinned ==
    ASSUME IInv, LedgerInv, IdsOlder, QuestionsPinned, RepliesPinned,
           NEW h \in Handlers, NEW parent, AnswerStep(h, parent)
    PROVE  IdsOlder' /\ QuestionsPinned' /\ RepliesPinned'
<1>1. /\ nextMsg \in Nat \ {0} /\ nextMsg' \in {nextMsg, nextMsg + 1}
      /\ \A g \in Handlers : turn[g].user \in Nat
      /\ answered \subseteq Nat \X Nat
    BY IInvParts DEF AnswerStep, MessageStep, MemOK, TurnsOK, Turn
<1>2. \A sid \in DOMAIN mem' : \A a, b :
        Linked(mem'[sid], a, b) =>
            /\ sid \in DOMAIN mem
            /\ \/ a < nextMsg /\ Linked(mem[sid], a, b)
               \/ a = nextMsg /\ b = parent
    BY StepLinks DEF AnswerStep
<1>3. \A sid \in DOMAIN mem' : \A a, b :
        Linked(mem'[sid], a, b) /\ a < nextMsg =>
            sid \in DOMAIN mem /\ Linked(mem[sid], a, b)
    BY <1>1, <1>2
<1>4. \A sid \in DOMAIN mem' : \A b :
        Linked(mem'[sid], nextMsg, b) => b = parent
    BY <1>1, <1>2
<1>5. IdsOlder'
    <2>1. ASSUME NEW g \in Handlers PROVE turn'[g].user < nextMsg'
        BY <1>1, <2>1 DEF IdsOlder, AnswerStep, TurnKept, TurnCleared, TurnAsked, None
    <2>2. ASSUME NEW pair \in answered'
          PROVE  pair[1] < nextMsg' /\ pair[2] < nextMsg'
        <3>1. CASE pair \in answered
            <4>1. pair[1] \in Nat /\ pair[2] \in Nat
                BY <1>1, <3>1
            <4>. QED
                BY <1>1, <3>1, <4>1 DEF IdsOlder
        <3>2. CASE pair \notin answered
            <4>1. pair[1] = turn[h].user /\ pair[2] = nextMsg /\ nextMsg' = nextMsg + 1
                BY <3>2 DEF AnswerStep, Answers
            <4>. QED
                BY <1>1, <4>1 DEF IdsOlder
        <3>. QED
            BY <3>1, <3>2
    <2>. QED
        BY <2>1, <2>2 DEF IdsOlder
<1>6. QuestionsPinned'
    <2>1. ASSUME NEW sid \in DOMAIN mem', NEW g \in Handlers, NEW b,
                 Linked(mem'[sid], turn'[g].user, b)
          PROVE  b = turn'[g].pin
        <3>1. CASE turn'[g].user = turn[g].user /\ turn'[g].pin = turn[g].pin
            BY <1>3, <2>1, <3>1 DEF IdsOlder, QuestionsPinned
        <3>2. CASE TurnCleared(g)
            <4>1. sid \in DOMAIN mem /\ Linked(mem[sid], None, b)
                BY <1>1, <1>3, <2>1, <3>2 DEF TurnCleared, None
            <4>2. None \in Ids(mem[sid])
                BY <4>1 DEF Linked, Ids
            <4>. QED
                BY <4>1, <4>2, ChainedIds DEF LedgerInv, None
        <3>3. CASE TurnAsked(g, parent)
            BY <1>4, <2>1, <3>3 DEF TurnAsked
        <3>. QED
            BY <3>1, <3>2, <3>3 DEF AnswerStep, TurnKept
    <2>. QED
        BY <2>1 DEF QuestionsPinned
<1>7. RepliesPinned'
    <2>1. ASSUME NEW sid \in DOMAIN mem', NEW pair \in answered', NEW q, NEW r,
                 Linked(mem'[sid], pair[1], q), q # None, Linked(mem'[sid], pair[2], r)
          PROVE  r = q
        <3>1. CASE pair \in answered
            <4>1. pair[1] < nextMsg /\ pair[2] < nextMsg
                BY <3>1 DEF IdsOlder
            <4>2. /\ sid \in DOMAIN mem
                  /\ Linked(mem[sid], pair[1], q) /\ Linked(mem[sid], pair[2], r)
                BY <1>3, <2>1, <4>1
            <4>. QED
                BY <2>1, <3>1, <4>2 DEF RepliesPinned
        <3>2. CASE pair \notin answered
            <4>1. Answers(h, parent) /\ pair[1] = turn[h].user /\ pair[2] = nextMsg
                BY <3>2 DEF AnswerStep, Answers
            <4>2. q = turn[h].pin
                BY <1>3, <2>1, <4>1 DEF IdsOlder, QuestionsPinned
            <4>3. r = parent
                BY <1>4, <2>1, <4>1
            <4>. QED
                BY <2>1, <4>1, <4>2, <4>3 DEF Answers
        <3>. QED
            BY <3>1, <3>2
    <2>. QED
        BY <2>1 DEF RepliesPinned
<1>. QED
    BY <1>5, <1>6, <1>7

\* And so does a step of a client or of a route.
LEMMA RoutesKeepPinned ==
    ASSUME IInv, LedgerInv, IdsOlder, QuestionsPinned, RepliesPinned,
           NEW id, NEW parent, MessageStep(id, parent), UNCHANGED <<turn, answered>>
    PROVE  IdsOlder' /\ QuestionsPinned' /\ RepliesPinned'
<1>1. /\ nextMsg \in Nat \ {0} /\ id \in {nextMsg, nextMsg + 1}
      /\ nextMsg' \in Nat /\ nextMsg <= nextMsg'
      /\ \A g \in Handlers : turn[g].user \in Nat
      /\ \A pair \in answered : pair[1] \in Nat /\ pair[2] \in Nat
    BY IInvParts DEF MessageStep, MemOK, TurnsOK, Turn
<1>2. IdsOlder'
    BY <1>1 DEF IdsOlder
<1>3. \A sid \in DOMAIN mem' : \A a, b :
        Linked(mem'[sid], a, b) /\ a < nextMsg =>
            sid \in DOMAIN mem /\ Linked(mem[sid], a, b)
    <2>1. ASSUME NEW sid \in DOMAIN mem', NEW a, NEW b,
                 Linked(mem'[sid], a, b), a < nextMsg
          PROVE  sid \in DOMAIN mem /\ Linked(mem[sid], a, b)
        <3>1. /\ sid \in DOMAIN mem
              /\ \/ a < nextMsg /\ Linked(mem[sid], a, b)
                 \/ a = id /\ b = parent
            BY <2>1, StepLinks
        <3>. QED
            BY <1>1, <2>1, <3>1
    <2>. QED
        BY <2>1
<1>4. QuestionsPinned'
    BY <1>3 DEF IdsOlder, QuestionsPinned
<1>5. RepliesPinned'
    BY <1>3 DEF IdsOlder, RepliesPinned
<1>. QED
    BY <1>2, <1>4, <1>5

\* The reply to a question that is not a root hangs from the parent of the
\* question, whatever forks, switches, deletes and other turns came while it
\* was streamed, and whatever the cap dropped: the pin that _handle_chat_send
\* takes from the user's message (service.py:1728) is the parent it gives to
\* append_message for the reply.  That is the rule of ADR-0019:100; the child of
\* the question that the text promises elsewhere the reply is not.
THEOREM ChatReplyOnItsBranch == Spec => []ReplyOnItsBranch
<1>1. Init => IdsOlder /\ QuestionsPinned /\ RepliesPinned
    <2>. SUFFICES ASSUME Init PROVE IdsOlder /\ QuestionsPinned /\ RepliesPinned
        OBVIOUS
    <2>1. \A h \in Handlers : turn[h].user = 0
        BY DEF Init, NoTurn, NewTurn, None
    <2>2. \A sid \in DOMAIN mem : \A a, b : ~Linked(mem[sid], a, b)
        BY DEF Init, FreshSession, Linked
    <2>. QED
        BY <2>1, <2>2 DEF Init, IdsOlder, QuestionsPinned, RepliesPinned
<1>2. IInv /\ LedgerInv /\ IdsOlder /\ QuestionsPinned /\ RepliesPinned /\ [Next]_vars
        => IdsOlder' /\ QuestionsPinned' /\ RepliesPinned'
    BY NextAppends, AnswerStepPinned, RoutesKeepPinned
<1>3. RepliesPinned => ReplyOnItsBranch
    <2>. SUFFICES ASSUME RepliesPinned, NEW sid \in DOMAIN mem, NEW pair \in answered,
                         {pair[1], pair[2]} \subseteq Ids(mem[sid]),
                         ById(mem[sid], pair[1]).parent # None
                  PROVE  ById(mem[sid], pair[2]).parent = ById(mem[sid], pair[1]).parent
        BY DEF ReplyOnItsBranch
    <2>1. ASSUME NEW id \in Ids(mem[sid])
          PROVE  Linked(mem[sid], id, ById(mem[sid], id).parent)
        BY DEF Ids, ById, Linked
    <2>. QED
        BY <2>1 DEF RepliesPinned
<1>. QED
    BY <1>1, <1>2, <1>3, ChatInvariant, InitLedger, NextKeepsLedger, PTL DEF Spec

----------------------------------------------------------------------------
\* The branches.  Below the cap, where nothing is lost, every parent is there,
\* and so is the pin of every turn that goes on, but for the forks that went
\* astray; those have no parent there, and never get one.
BelowCap(sid) == sid \in DOMAIN mem /\ Len(mem[sid].msgs) < MaxMessages

ParentsThere ==
    /\ \A sid : BelowCap(sid) => \A a, b : Linked(mem[sid], a, b) =>
            b \in Ids(mem[sid]) \cup {None} \/ <<sid, a>> \in astray
    /\ \A h \in Handlers : BelowCap(turn[h].sid) =>
            turn[h].pin \in Ids(mem[turn[h].sid]) \cup {None}

AstrayLost == \A pair \in astray :
    /\ pair[2] < nextMsg
    /\ pair[1] \in DOMAIN mem => \A b : Linked(mem[pair[1]], pair[2], b) =>
            b \notin Ids(mem[pair[1]]) \cup {None}

\* What is below the cap after a step was, and has lost no message.
LEMMA StepBelowCap ==
    ASSUME IInv, LedgerInv, NEW id, NEW parent, MessageStep(id, parent),
           NEW sid, BelowCap(sid)'
    PROVE  /\ sid \in DOMAIN mem /\ sid \in DOMAIN mem'
           /\ BelowCap(sid)
           /\ Ids(mem[sid]) \subseteq Ids(mem'[sid])
<1>0. sid \in DOMAIN mem'
    BY DEF BelowCap
<1>1. /\ sid \in DOMAIN mem /\ mem[sid] \in Session
      /\ nextMsg \in Nat \ {0} /\ id \in Nat \ {0} /\ nextMsg <= id
      /\ Growth(sid, id, parent)
    BY <1>0, IInvParts, SessionInMem DEF MessageStep, MemOK
<1>2. CASE mem'[sid].msgs = mem[sid].msgs
    BY <1>0, <1>1, <1>2 DEF BelowCap, Ids
<1>3. CASE mem'[sid].msgs # mem[sid].msgs
    <2>1. PICK role \in Roles, arg \in Nat :
            mem'[sid].msgs = AppendMessage(mem[sid], id, role, arg).msgs
        BY <1>1, <1>3 DEF Growth
    <2>2. /\ Ordered(mem[sid])
          /\ \A i \in DOMAIN mem[sid].msgs : mem[sid].msgs[i].id < id
        <3>1. Chained(mem[sid], nextMsg)
            BY <1>1 DEF LedgerInv
        <3>2. \A i \in DOMAIN mem[sid].msgs : mem[sid].msgs[i].id \in Ids(mem[sid])
            BY DEF Ids
        <3>3. \A x \in Ids(mem[sid]) : x \in Nat /\ x < nextMsg
            BY <3>1, ChainedIds
        <3>. QED
            BY <1>1, <3>1, <3>2, <3>3 DEF Chained
    <2>3. Len(AppendMessage(mem[sid], id, role, arg).msgs) < MaxMessages
        BY <2>1 DEF BelowCap
    <2>4. /\ Len(mem[sid].msgs) < MaxMessages
          /\ Ids(mem[sid]) \subseteq Ids(AppendMessage(mem[sid], id, role, arg))
        BY <1>1, <2>2, <2>3, AppendMessageBelowCap
    <2>. QED
        BY <1>0, <1>1, <2>1, <2>4 DEF BelowCap, Ids
<1>. QED
    BY <1>2, <1>3

\* Below the cap the tip is a message of the session, if it has any.
LEMMA TipBelowCap ==
    ASSUME IInv, LedgerInv, NEW sid, BelowCap(sid)
    PROVE  mem[sid].tip \in Ids(mem[sid]) \cup {None}
<1>1. TipHolds(mem[sid]) /\ mem[sid] \in Session
    BY DEF BelowCap, LedgerInv, Chained
<1>2. Len(mem[sid].msgs) \in Nat /\ MaxMessages \in Nat
    BY <1>1, LenProperties, MaxMessagesAssumption DEF Session
<1>. QED
    BY <1>1, <1>2 DEF BelowCap, TipHolds

\* The parents of a session that is below the cap after a step.
LEMMA StepParents ==
    ASSUME IInv, LedgerInv, ParentsThere, NEW id, NEW parent, MessageStep(id, parent),
           NEW sid, BelowCap(sid)', NEW a, NEW b, Linked(mem'[sid], a, b)
    PROVE  b \in Ids(mem'[sid]) \cup {None} \/ <<sid, a>> \in astray'
<1>1. /\ sid \in DOMAIN mem'
      /\ BelowCap(sid) /\ Ids(mem[sid]) \subseteq Ids(mem'[sid])
    BY StepBelowCap
<1>2. astray \subseteq astray'
    BY DEF MessageStep
<1>3. CASE Linked(mem[sid], a, b)
    BY <1>1, <1>2, <1>3 DEF ParentsThere
<1>4. ASSUME NEW arg \in Parents(sid), b = ParentFor(mem[sid], arg)
      PROVE  b \in Ids(mem'[sid]) \cup {None}
    <2>1. arg \in Ids(mem[sid]) \cup {None}
        BY <1>1 DEF Parents, ParentsThere
    <2>2. mem[sid].tip \in Ids(mem[sid]) \cup {None}
        BY <1>1, TipBelowCap
    <2>. QED
        BY <1>1, <1>4, <2>1, <2>2 DEF ParentFor
<1>. QED
    BY <1>1, <1>3, <1>4, StepLinks

\* A turn that goes on keeps its pin; one that begins takes the tip.
LEMMA NextParentsThere ==
    ASSUME IInv, LedgerInv, ParentsThere, [Next]_vars
    PROVE  ParentsThere'
<1>1. PICK parent : \/ \E h \in Handlers : AnswerStep(h, parent)
                    \/ /\ \E id : MessageStep(id, parent)
                       /\ UNCHANGED <<turn, answered>>
    BY NextAppends
<1>2. PICK id : MessageStep(id, parent)
    BY <1>1 DEF AnswerStep
<1>3. \A sid : BelowCap(sid)' =>
        /\ sid \in DOMAIN mem /\ BelowCap(sid)
        /\ Ids(mem[sid]) \subseteq Ids(mem'[sid])
    BY <1>2, StepBelowCap
<1>4. ASSUME NEW g \in Handlers, NEW sid, sid = turn'[g].sid, BelowCap(sid)'
      PROVE  turn'[g].pin \in Ids(mem'[sid]) \cup {None}
    <2>1. CASE turn'[g].sid = turn[g].sid /\ turn'[g].pin = turn[g].pin
        BY <1>3, <1>4, <2>1 DEF ParentsThere
    <2>2. CASE TurnCleared(g)
        BY <2>2 DEF TurnCleared
    <2>3. CASE TurnAsked(g, parent)
        <3>1. mem[sid].tip \in Ids(mem[sid]) \cup {None}
            BY <1>3, <1>4, TipBelowCap
        <3>. QED
            BY <1>3, <1>4, <2>3, <3>1 DEF TurnAsked
    <2>. QED
        BY <1>1, <2>1, <2>2, <2>3 DEF AnswerStep, TurnKept
<1>5. \A sid : BelowCap(sid)' => \A a, b : Linked(mem'[sid], a, b) =>
        b \in Ids(mem'[sid]) \cup {None} \/ <<sid, a>> \in astray'
    BY <1>2, StepParents
<1>. QED
    BY <1>4, <1>5 DEF ParentsThere

\* The parent of a message that went astray is no message of its session, and
\* does not become one: it is older than all that come.
LEMMA NextAstrayLost ==
    ASSUME IInv, LedgerInv, LedgerInv', AstrayLost, [Next]_vars
    PROVE  AstrayLost'
<1>1. PICK id, parent : MessageStep(id, parent)
    BY NextAppends DEF AnswerStep
<1>2. /\ nextMsg \in Nat \ {0} /\ id \in Nat /\ nextMsg <= id
      /\ nextMsg' \in Nat /\ nextMsg <= nextMsg'
      /\ astray \subseteq Sessions \X Nat
    BY <1>1, IInvParts DEF MessageStep, MemOK
<1>3. ASSUME NEW pair \in astray'
      PROVE  pair[2] < nextMsg'
    <2>1. CASE pair \in astray
        <3>1. pair[2] \in Nat /\ pair[2] < nextMsg
            BY <1>2, <2>1 DEF AstrayLost
        <3>. QED
            BY <1>2, <3>1
    <2>2. CASE pair \notin astray
        <3>1. pair[2] = id /\ nextMsg' = id + 1
            BY <1>1, <2>2 DEF MessageStep
        <3>. QED
            BY <1>2, <3>1
    <2>. QED
        BY <2>1, <2>2
<1>4. ASSUME NEW sid \in DOMAIN mem', NEW a, NEW b, Linked(mem'[sid], a, b)
      PROVE  /\ sid \in DOMAIN mem
             /\ \/ a < nextMsg /\ Linked(mem[sid], a, b)
                \/ a = id /\ b = parent
    <2>1. MessageStep(id, parent)
        BY <1>1
    <2>. QED
        BY ONLY IInv, LedgerInv, <1>4, <2>1, StepLinks
<1>5. ASSUME NEW pair \in astray', NEW sid \in DOMAIN mem', pair[1] = sid,
             NEW a, a = pair[2], NEW b, Linked(mem'[sid], a, b)
      PROVE  b \notin Ids(mem'[sid]) \cup {None}
    <2>1. /\ sid \in DOMAIN mem
          /\ \/ a < nextMsg /\ Linked(mem[sid], a, b)
             \/ a = id /\ b = parent
        BY <1>4, <1>5
    <2>2. b \notin Ids(mem[sid]) \cup {None}
        <3>1. CASE pair \in astray
            <4>1. a \in Nat /\ a < nextMsg
                BY <1>2, <1>5, <3>1 DEF AstrayLost
            <4>2. a # id
                BY <1>2, <4>1
            <4>. QED
                BY <1>5, <2>1, <3>1, <4>2 DEF AstrayLost
        <3>2. CASE pair \notin astray
            <4>1. a = id /\ parent \notin Ids(mem[sid]) \cup {None}
                BY <1>1, <1>5, <3>2 DEF MessageStep
            <4>2. ~(a < nextMsg)
                BY <1>2, <4>1
            <4>. QED
                BY <2>1, <4>1, <4>2
        <3>. QED
            BY <3>1, <3>2
    <2>3. \A x \in Ids(mem'[sid]) : x \in Ids(mem[sid]) \/ x = id
        <3>1. ASSUME NEW x \in Ids(mem'[sid]), x \notin Ids(mem[sid])
              PROVE  x = id
            <4>1. PICK y : Linked(mem'[sid], x, y)
                BY DEF Ids, Linked
            <4>2. ~Linked(mem[sid], x, y)
                BY <3>1 DEF Ids, Linked
            <4>. QED
                BY <1>4, <4>1, <4>2
        <3>. QED
            BY <3>1
    <2>4. b # id
        <3>1. PICK i \in DOMAIN mem'[sid].msgs :
                mem'[sid].msgs[i].id = a /\ mem'[sid].msgs[i].parent = b
            BY <1>5 DEF Linked
        <3>2. /\ mem'[sid].msgs[i] \in Message
              /\ mem'[sid].msgs[i].parent < mem'[sid].msgs[i].id
            <4>1. mem'[sid] \in Session /\ Ordered(mem'[sid])
                BY <1>5 DEF LedgerInv, Chained
            <4>. QED
                BY <4>1, ElementOfSeq, LenProperties DEF Session, Ordered
        <3>3. b < a /\ b \in Nat /\ a \in Nat
            BY <3>1, <3>2 DEF Message
        <3>4. a < nextMsg \/ a = id
            BY <2>1
        <3>. QED
            BY <1>2, <3>3, <3>4
    <2>. QED
        BY <2>2, <2>3, <2>4
<1>. QED
    BY <1>3, <1>5 DEF AstrayLost

\* Below the cap, the messages whose ancestry is there are those above which no
\* fork went astray.
LEMMA RootedIsWhole ==
    ASSUME IInv, LedgerInv, ParentsThere, AstrayLost, NEW sid, BelowCap(sid)
    PROVE  Whole(mem[sid]) =
             {id \in Ids(mem[sid]) :
                \A elder \in Ancestry(mem[sid], id) : <<sid, elder>> \notin astray}
<1>. DEFINE s == mem[sid]
<1>1. s \in Session /\ Ordered(s) /\ sid \in DOMAIN mem
    BY DEF BelowCap, LedgerInv, Chained
<1>2. \A id \in Ids(s) : Linked(s, id, Parent(s, id))
    BY DEF Ids, Parent, ById, Linked
<1>3. ASSUME NEW id \in Ids(s)
      PROVE  id \in Ancestry(s, id) /\ Closed(s, Ancestry(s, id))
    BY <1>1, AncestryLeast, AncestryClosed
<1>4. ASSUME NEW id \in Whole(s), NEW elder \in Ancestry(s, id), <<sid, elder>> \in astray
      PROVE  FALSE
    <2>1. id \in Ids(s) /\ elder \in Ids(s) /\ Ancestry(s, id) \subseteq Ids(s)
        BY <1>4 DEF Whole
    <2>2. Parent(s, elder) \in Ids(s) \cup {None}
        BY <1>3, <2>1 DEF Closed
    <2>3. <<sid, elder>>[1] = sid /\ <<sid, elder>>[2] = elder
        OBVIOUS
    <2>4. Parent(s, elder) \notin Ids(s) \cup {None}
        BY <1>1, <1>2, <1>4, <2>1, <2>3 DEF AstrayLost
    <2>. QED
        BY <2>2, <2>4
<1>5. ASSUME NEW id \in Ids(s),
             \A elder \in Ancestry(s, id) : <<sid, elder>> \notin astray
      PROVE  id \in Whole(s)
    <2>. DEFINE known == Ancestry(s, id) \cap Ids(s)
    <2>1. Closed(s, known)
        BY <1>2, <1>3, <1>5 DEF Closed, ParentsThere
    <2>2. id \in known
        BY <1>3
    <2>. HIDE DEF known
    <2>3. Ancestry(s, id) \subseteq known
        BY <1>1, <2>1, <2>2, AncestryLeast
    <2>. QED
        BY <2>3 DEF Whole, known
<1>. QED
    BY <1>4, <1>5 DEF Whole

\* GET /branches (list_branches and reconstruct_path) shows each message on some
\* branch, and each branch with its tip, but for what hangs from a fork made from
\* an unknown id: for a session of any length below the cap, for none of whose
\* branches the depth guard trips, whatever turns, forks and switches did to it.
THEOREM ChatBranchesRecoverable == Spec => []BranchesRecoverable
<1>1. Init => ParentsThere /\ AstrayLost
    <2>. SUFFICES ASSUME Init PROVE ParentsThere /\ AstrayLost
        OBVIOUS
    <2>1. \A h \in Handlers : turn[h].pin = None
        BY DEF Init, NoTurn, NewTurn
    <2>2. \A sid : BelowCap(sid) => \A a, b : ~Linked(mem[sid], a, b)
        BY DEF Init, BelowCap, FreshSession, Linked
    <2>. QED
        BY <2>1, <2>2 DEF Init, ParentsThere, AstrayLost
<1>2. IInv /\ LedgerInv /\ ParentsThere /\ AstrayLost => BranchesRecoverable
    <2>. SUFFICES ASSUME IInv, LedgerInv, ParentsThere, AstrayLost,
                         NEW sid \in DOMAIN mem, Len(mem[sid].msgs) < MaxMessages,
                         \A tip \in DOMAIN BranchPaths(mem[sid]) :
                            BranchPaths(mem[sid])[tip].result # "raised",
                         NEW rooted,
                         rooted = {id \in Ids(mem[sid]) :
                                     \A elder \in Ancestry(mem[sid], id) :
                                        <<sid, elder>> \notin astray}
                  PROVE  LET paths == BranchPaths(mem[sid])
                         IN  /\ \A tip \in DOMAIN paths \cap rooted :
                                    tip \in paths[tip].ids
                             /\ rooted = UNION {paths[tip].ids : tip \in DOMAIN paths}
        BY DEF BranchesRecoverable
    <2>1. mem[sid] \in Session /\ Ordered(mem[sid])
        BY DEF LedgerInv, Chained
    <2>2. rooted = Whole(mem[sid])
        BY RootedIsWhole DEF BelowCap
    <2>3. \A tip \in Tips(mem[sid]) : ReconstructPath(mem[sid], tip).result # "raised"
        BY DEF BranchPaths
    <2>. QED
        BY <2>1, <2>2, <2>3, BranchesCover
<1>. QED
    BY <1>1, <1>2, NextParentsThere, NextAstrayLost, ChatInvariant, InitLedger,
       NextKeepsLedger, PTL DEF Spec

=============================================================================
