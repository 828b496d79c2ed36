-------------------------- MODULE UpstreamSession --------------------------
(***************************************************************************)
(* What the relay of tcp_relay.py promises about its upstream LAN session, *)
(* whatever its viewers, pre-warm calls and close timers do:               *)
(*   - sessions are opened and closed one operation at a time, and one is  *)
(*     opened only while none delivers;                                    *)
(*   - the session that delivers is the current one and is open;           *)
(*   - a session that delivers is not closed while it is watched;          *)
(*   - the only sessions that are lost, open and no longer current, are    *)
(*     some that had ended by themselves.                                  *)
(***************************************************************************)
EXTENDS Naturals, TLAPS

VARIABLES
    phase,     \* what is under way: "free", "opening" or "closing"
    current,   \* the current session, 0 if there is none
    leaving,   \* the session being closed, 0 if there is none
    count,     \* sessions opened so far, numbered from 1
    open,      \* the sessions that are open
    ended,     \* the sessions that ended by themselves
    alive,     \* the current session delivers
    watched    \* somebody watches

vars == <<phase, current, leaving, count, open, ended, alive, watched>>

Init ==
    /\ phase = "free"
    /\ current = 0 /\ leaving = 0 /\ count = 0
    /\ open = {} /\ ended = {}
    /\ alive = FALSE /\ watched = FALSE

Open ==
    /\ phase = "free" /\ ~alive
    /\ phase' = "opening"
    /\ UNCHANGED <<current, leaving, count, open, ended, alive, watched>>

Opened ==
    /\ phase = "opening"
    /\ phase' = "free"
    /\ count' = count + 1
    /\ current' = count + 1
    /\ open' = open \cup {count + 1}
    /\ alive' = TRUE
    /\ UNCHANGED <<leaving, ended, watched>>

\* Also what follows an attempt to open that failed.
Close ==
    /\ phase \in {"free", "opening"}
    /\ alive => ~watched
    /\ phase' = "closing"
    /\ leaving' = current
    /\ current' = 0
    /\ alive' = FALSE
    /\ UNCHANGED <<count, open, ended, watched>>

Closed ==
    /\ phase = "closing"
    /\ phase' = "free"
    /\ open' = open \ {leaving}
    /\ leaving' = 0
    /\ UNCHANGED <<current, count, ended, alive, watched>>

\* The session ends by itself; nobody closes it for that.
End ==
    /\ alive
    /\ alive' = FALSE
    /\ ended' = ended \cup {current}
    /\ UNCHANGED <<phase, current, leaving, count, open, watched>>

Watch ==
    /\ phase = "free"
    /\ watched' = TRUE
    /\ UNCHANGED <<phase, current, leaving, count, open, ended, alive>>

Unwatch ==
    /\ watched' = FALSE
    /\ UNCHANGED <<phase, current, leaving, count, open, ended, alive>>

Next == Open \/ Opened \/ Close \/ Closed \/ End \/ Watch \/ Unwatch

Spec == Init /\ [][Next]_vars
-----------------------------------------------------------------------------
\* The operations exclude each other, and what each one relies on holds.
Phases ==
    /\ phase \in {"free", "opening", "closing"}
    /\ phase = "opening" => ~alive
    /\ phase = "closing" => ~alive /\ current = 0
    /\ phase # "closing" => leaving = 0

\* The session that delivers is the current one, and is open.
AliveIsOpen == alive => current # 0 /\ current \in open

\* A current session that does not deliver has ended by itself.
SilentHasEnded == current # 0 /\ ~alive => current \in ended

\* An open session is current, being closed, or has ended by itself.
LostHasEnded == open \subseteq {current, leaving} \cup ended

\* Sessions are numbered from 1, so 0 is none of them.
Numbered == count \in Nat /\ current \in Nat /\ 0 \notin open

Inv == Phases /\ AliveIsOpen /\ SilentHasEnded /\ LostHasEnded /\ Numbered

LEMMA InvInit == Init => Inv
BY DEF Init, Inv, Phases, AliveIsOpen, SilentHasEnded, LostHasEnded, Numbered

\* Every operation preserves the invariant.
LEMMA InvNext == Inv /\ [Next]_vars => Inv'
<1> SUFFICES ASSUME Inv, [Next]_vars PROVE Inv'
  OBVIOUS
<1> USE DEF Inv, Phases, AliveIsOpen, SilentHasEnded, LostHasEnded, Numbered
<1>1. CASE Open
  BY <1>1 DEF Open
<1>2. CASE Opened
  BY <1>2 DEF Opened
<1>3. CASE Close
  BY <1>3 DEF Close
<1>4. CASE Closed
  BY <1>4 DEF Closed
<1>5. CASE End
  BY <1>5 DEF End
<1>6. CASE Watch
  BY <1>6 DEF Watch
<1>7. CASE Unwatch
  BY <1>7 DEF Unwatch
<1>8. CASE UNCHANGED vars
  BY <1>8 DEF vars
<1> QED
  BY <1>1, <1>2, <1>3, <1>4, <1>5, <1>6, <1>7, <1>8 DEF Next

\* The invariant holds of every behaviour of the specification.
THEOREM Invariance == Spec => []Inv
BY InvInit, InvNext, PTL DEF Spec
=============================================================================
