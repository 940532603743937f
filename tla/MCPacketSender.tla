--------------------------- MODULE MCPacketSender ---------------------------
(* The instance of PacketSender for TLC: a graphic display of one row.      *)
EXTENDS PacketSender, TLC

OneRow == {1}

(* The drawing threads but the main one are alike. *)
Threads == Permutations(Drawers \ {MainThread})
=============================================================================
