---------------------------- MODULE MCChatStream ----------------------------
(***************************************************************************)
(* Small instances of ChatStream for TLC: the scripts that the mock and    *)
(* the live providers stream, cut down to their shape.                     *)
(***************************************************************************)
EXTENDS ChatStream, TLC

Piece == [delta |-> TRUE, tools |-> FALSE, usage |-> 0, finish |-> FALSE]
Tools == [delta |-> FALSE, tools |-> TRUE, usage |-> 0, finish |-> FALSE]
Finish == [delta |-> FALSE, tools |-> FALSE, usage |-> 0, finish |-> TRUE]
Usage == [Finish EXCEPT !.usage = 3]
LastPiece == [Piece EXCEPT !.finish = TRUE]

\* A reply of one piece.
ShortReply == {<<Piece, Finish>>}
BareReply == {<<LastPiece>>}

\* Anthropic reports its usage on the finishing chunk; the others report none
\* by then, finish with their last piece, or end without a finishing chunk.
AllReplies == {<<Piece, Usage>>, <<LastPiece>>, <<Piece, Piece>>}

\* Tool calls, alone and after a piece of text.
ToolAndShortReplies == {<<Tools, Finish>>, <<Piece, Tools, Finish>>}

\* All of it in one chunk.
MixedReply == {<<[LastPiece EXCEPT !.tools = TRUE]>>}

=============================================================================
