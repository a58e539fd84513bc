---------------------------- MODULE MCConnServer ----------------------------
(***************************************************************************)
(* Two users and two blocks: enough for a block to pass from one user to  *)
(* the other, and for a user to have two connections.                      *)
(***************************************************************************)
EXTENDS ConnServer, TLC

CONSTANTS u1, u2, a1, a2
MCUsers == {u1, u2}
MCAddr2 == {a1, a2}
MCRequest == {"CMD_MESSAGE"}
MCMaxQueue == [s \in Socket |-> IF s \in {"user", "message"} THEN 1 ELSE 2]
Symmetry == Permutations(MCUsers) \cup Permutations(MCAddr2)
=============================================================================
