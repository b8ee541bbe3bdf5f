---------------------------- MODULE TurnProtocol ----------------------------
(***************************************************************************)
(* What /ws/chat promises one client about one turn at a time: after a     *)
(* chat.send come at most a notice, then content frames, then exactly one  *)
(* last frame, chat.done or chat.error, and nothing after it until the     *)
(* next chat.send.  Only a lost connection may leave a turn without a last *)
(* frame.  Every turn ends.                                                *)
(***************************************************************************)
EXTENDS Sequences

VARIABLES
    frames,  \* the frames of the current turn
    busy,    \* the server is serving a turn
    lost     \* the connection is lost, at one end or the other

vars == <<frames, busy, lost>>

LastFrames == {"done", "error"}
Ended == frames # <<>> /\ frames[Len(frames)] \in LastFrames

Init == frames = <<>> /\ ~busy /\ ~lost

\* A chat.send is received.
Begin ==
    /\ ~busy
    /\ busy' \in BOOLEAN
    /\ busy' \/ lost'
    /\ frames' \in {<<>>, <<"notice">>}

\* Content for one chunk: a delta, tool calls, or both.
Content ==
    /\ busy /\ ~Ended
    /\ frames' \in {frames \o s : s \in {<<"delta">>, <<"tool_call", "tool_call">>,
                                         <<"delta", "tool_call", "tool_call">>}}
    /\ busy'

End ==
    /\ busy /\ ~Ended
    /\ frames' \in {Append(frames, f) : f \in LastFrames}

Release ==
    /\ busy /\ ~busy'
    /\ frames' = frames
    /\ Ended \/ lost'

\* The connection is lost, or made anew.
Lose ==
    /\ UNCHANGED busy
    /\ \/ lost' /\ UNCHANGED frames
       \/ ~busy /\ lost /\ frames' = <<>>

Next == Begin \/ Content \/ End \/ Release \/ Lose

Spec == Init /\ [][Next]_vars

\* The promise of an end.
TurnEnds == busy ~> ~busy

=============================================================================
