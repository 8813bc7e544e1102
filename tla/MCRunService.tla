---------------------------- MODULE MCRunService ----------------------------
(***************************************************************************)
(* Instances of RunService for TLC: conversations, tool calls and who may  *)
(* control, close or delete.                                               *)
(***************************************************************************)
EXTENDS RunService, TLC

CONSTANTS c1, c2, q1, q2, d1, d2, k1, k2

OneConversation == {c1}
TwoConversations == {c1, c2}
SameConversation == [q \in Calls |-> c1]
OwnConversation == q1 :> c1 @@ q2 :> c2

Symmetry == Permutations(Delegations) \cup Permutations(Controls)
=============================================================================
