---------------------------- MODULE MCChatTurns ----------------------------
(* Instances of ChatTurns for TLC. *)
EXTENDS ChatTurns, TLC

CONSTANTS c1, c2

OneConversation == [t \in Turns |-> c1]
EachItsOwn == CHOOSE f \in [Turns -> {c1, c2}] : Cardinality({f[t] : t \in Turns}) = Cardinality(Turns)

ChatIds == 1..12

Sym == Permutations(Proc) \cup Permutations(Turns)
SymProc == Permutations(Proc)
=============================================================================
