------------------------------ MODULE MCEntry ------------------------------
(***************************************************************************)
(* Four instances of Entry for TLC, checked together: calls of the API     *)
(* that run in two threads around a crash and another entry; calls that    *)
(* outlive their life; views of the camera; and crashes around a change of *)
(* the option.                                                             *)
(***************************************************************************)
EXTENDS Entry, TLC

CONSTANTS a, b, c, d, v

Threads == [lives |-> {a}, views |-> {}, codes |-> {c, d}, calls |-> 2,
            around |-> {"crash", "other"}]
Overlap == [lives |-> {a, b}, views |-> {}, codes |-> {c}, calls |-> 1,
            around |-> {"option"}]
Viewers == [lives |-> {a}, views |-> {v}, codes |-> {c}, calls |-> 0,
            around |-> {"option"}]
Restart == [lives |-> {a}, views |-> {}, codes |-> {c, d}, calls |-> 1,
            around |-> {"crash", "option"}]

OnlyViewers == {Viewers}
AllScopes == {Threads, Overlap, Viewers, Restart}
=============================================================================
