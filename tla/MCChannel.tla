----------------------------- MODULE MCChannel -----------------------------
(***************************************************************************)
(* Channel for TLC: sets of two and of three senders, all alike.           *)
(***************************************************************************)
EXTENDS Channel

CONSTANTS s1, s2, s3

TwoSenders == {s1, s2}
ThreeSenders == {s1, s2, s3}

SenderSymmetry == Permutations(Senders)
=============================================================================
