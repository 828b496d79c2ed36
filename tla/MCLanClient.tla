---------------------------- MODULE MCLanClient ----------------------------
(***************************************************************************)
(* An instance of LanClient for TLC.  Two clients: one that the relay      *)
(* holds or whose reader still runs after its end, and the next to start.  *)
(***************************************************************************)
EXTENDS LanClient, TLC
=============================================================================
