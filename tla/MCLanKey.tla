------------------------------ MODULE MCLanKey ------------------------------
(* An instance of LanKey for TLC: a tick stands for six minutes.           *)
EXTENDS LanKey, TLC
=============================================================================
