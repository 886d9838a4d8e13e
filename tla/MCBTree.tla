------------------------------- MODULE MCBTree -------------------------------
(* The instance of BTree that TLC checks: six nodes, two of one value. *)
EXTENDS BTreeWalks

MCNode == 1..6
MCdata == <<1, 2, 3, 4, 5, 3>>
=============================================================================
