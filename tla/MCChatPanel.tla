----------------------------- MODULE MCChatPanel -----------------------------
(* Instances of ChatPanel for TLC. *)
EXTENDS ChatPanel, TLC

Alike == Permutations(Text) \cup Permutations(Flight) \cup Permutations(Slot)

=============================================================================
