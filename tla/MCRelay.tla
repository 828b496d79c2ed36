------------------------------ MODULE MCRelay ------------------------------
(***************************************************************************)
(* Instances of Relay for TLC.  A connection and a pre-warm call are used  *)
(* once each, so two connections and one pre-warm already give an attach   *)
(* that races a close timer, a renewal that races a closer, and up to      *)
(* three LAN sessions.                                                     *)
(***************************************************************************)
EXTENDS Relay, TLC

\* Safety runs only: connections are interchangeable, pre-warm calls as well.
Symmetry == Permutations(Clients) \cup Permutations(Prewarms)
=============================================================================
