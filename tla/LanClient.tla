----------------------------- MODULE LanClient -----------------------------
(***************************************************************************)
(* Cpd7LanClient (cpd7/lan_client.py) and the relay that uses it: the      *)
(* spin-up runs `start` in a thread of the executor, the pump runs one     *)
(* `read_chunk` after the other in another, and the teardown runs `close`  *)
(* in a third, none of them under a lock of the client.  A cancelled task  *)
(* leaves its thread running.                                              *)
(*                                                                         *)
(* The client's methods go by the steps at which another thread may come   *)
(* between: a blocking call, or a use of `_play_sock`.  The relay's lock   *)
(* admits one spin-up or teardown at a time.  Who asks for them is Relay's *)
(* subject, where the key comes from LanKey's, and what becomes of the     *)
(* bytes StreamPath's.                                                     *)
(***************************************************************************)
CONSTANTS
    Clients,     \* the Cpd7LanClient objects that exist at the same time
    NoClient     \* None

ASSUME ClientsAssumption == NoClient \notin Clients

VARIABLES
    client,      \* the state of each Cpd7LanClient
    lan,         \* the relay's _lan
    fresh,       \* the client that the spin-up starts
    pump,        \* the pump task
    turn         \* what the owner of the relay's lock does

relay == <<lan, fresh, pump, turn>>
vars  == <<client, relay>>

Handshake == {"connect_init", "init", "connect_invite", "invite",
              "connect_play", "play"}

\* key: whether _aes_key is the doorbell's, was when `start` began ("replaced"),
\* or was not even then ("stale"); start: where `start` is; conns: the open TCP
\* connections to the doorbell (the UDP socket of _discover_local_ip reaches
\* nobody and is left out); held: _play_sock is set; closed: _closed; shut: the
\* play socket was shut down; read, close: where these methods are.
Unused == [key |-> "none", start |-> "unused", conns |-> {}, held |-> FALSE,
           closed |-> FALSE, shut |-> FALSE, read |-> "idle", close |-> "idle"]

ClientStates ==
    [key : {"none", "current", "replaced", "stale"},
     start : {"unused", "started", "raised"} \cup Handshake,
     conns : SUBSET {"control", "play"},
     held : BOOLEAN, closed : BOOLEAN, shut : BOOLEAN,
     read : {"idle", "called", "checked", "receive", "blocked",
             "data", "empty", "error"},
     close : {"idle", "called", "shutdown", "close", "drop", "done"}]

TypeOK ==
    /\ client \in [Clients -> ClientStates]
    /\ lan \in Clients \cup {NoClient}
    /\ fresh \in Clients \cup {NoClient}
    /\ pump \in {"none", "ready", "reading", "cancelled", "ended", "failed"}
    /\ turn \in {"free", "key", "start", "failed", "cancel", "close"}
    /\ turn = "start" <=> fresh # NoClient
    /\ pump # "none" => lan # NoClient

Init ==
    /\ client = [c \in Clients |-> Unused]
    /\ lan = NoClient /\ fresh = NoClient
    /\ pump = "none"
    /\ turn = "free"

PumpAlive == pump \in {"ready", "reading", "cancelled"}
-----------------------------------------------------------------------------
(* start: INIT, INVITE and PLAY, each over a connection of its own *)

Begun(c, phase) == client[c].start = phase

\* socket.create_connection in c's start, for the next command.
Connects(c, phase, next, conn) ==
    /\ Begun(c, phase)
    /\ \/ client' = [client EXCEPT ![c].start = next, ![c].conns = @ \cup {conn}]
       \/ client' = [client EXCEPT ![c].start = "raised"]
    /\ UNCHANGED relay

\* The doorbell accepts a command under its own key only; it may also refuse
\* in plain XML, which needs no key, answer what does not decrypt, or fall
\* silent until _cmd_timeout.
Answers(c) ==
    {"refused", "garbled", "lost"} \cup
        (IF client[c].key = "current" THEN {"accepted"} ELSE {})

\* _send_cmd returns any answer that parses.
Parses(answer) == answer \in {"accepted", "refused"}

InitCmd(c) ==
    /\ Begun(c, "init")
    /\ \E answer \in Answers(c) :
          client' = [client EXCEPT
              ![c].start = IF Parses(answer) THEN "connect_invite" ELSE "raised",
              ![c].conns = @ \ {"control"}]
    /\ UNCHANGED relay

HasSessionUnchecked(answer) == Parses(answer)       \* seeded fault

\* Only the answer to an INVITE that was accepted names a <Session>.
HasSession(answer) == answer = "accepted"

Invite(c) ==
    /\ Begun(c, "invite")
    /\ \E answer \in Answers(c) :
          client' = [client EXCEPT
              ![c].start = IF HasSession(answer) THEN "connect_play" ELSE "raised",
              ![c].conns = @ \ {"control"}]
    /\ UNCHANGED relay

PlayRaisesOpen(c) ==                                \* seeded fault
    client' = [client EXCEPT ![c].start = "raised"]

PlayRaises(c) ==
    client' = [client EXCEPT ![c].start = "raised", ![c].conns = @ \ {"play"}]

\* The play socket stays open for the stream.  Any answer that parses will do: a
\* key that is replaced after the INVITE may still start a session.
Play(c) ==
    /\ Begun(c, "play")
    /\ \/ \E answer \in Answers(c) :
             /\ Parses(answer)
             /\ client' = [client EXCEPT ![c].start = "started", ![c].held = TRUE]
       \/ PlayRaises(c)
    /\ UNCHANGED relay

StartSteps(c) ==
    \/ Connects(c, "connect_init", "init", "control") \/ InitCmd(c)
    \/ Connects(c, "connect_invite", "invite", "control") \/ Invite(c)
    \/ Connects(c, "connect_play", "play", "play") \/ Play(c)
-----------------------------------------------------------------------------
(* read_chunk *)

Reads(c, from, to) ==
    /\ client[c].read = from
    /\ client' = [client EXCEPT ![c].read = to]
    /\ UNCHANGED relay

\* The test at the beginning.
ReadTests(c) ==
    Reads(c, "called",
          IF client[c].held /\ ~client[c].closed THEN "checked" ELSE "empty")

\* settimeout, outside of the try block: it raises if close has come between.
ReadSetsTimeout(c) ==
    Reads(c, "checked",
          IF client[c].held /\ "play" \in client[c].conns THEN "receive" ELSE "error")

\* recv: a closed socket is an OSError, but None has no recv.
ReadReceives(c) ==
    Reads(c, "receive", IF ~client[c].held THEN "error"
                        ELSE IF "play" \notin client[c].conns THEN "empty"
                        ELSE "blocked")

\* The doorbell sends, ends the stream, or _recv_timeout passes.
ReadData(c) == "play" \in client[c].conns /\ Reads(c, "blocked", "data")
ReadEnds(c) == Reads(c, "blocked", "empty")

\* recv returns at once when the socket is shut down; closing alone does not
\* wake it.
ReadWakes(c) == client[c].shut /\ Reads(c, "blocked", "empty")

ReadSteps(c) ==
    \/ ReadTests(c) \/ ReadSetsTimeout(c) \/ ReadReceives(c)
    \/ ReadData(c) \/ ReadEnds(c) \/ ReadWakes(c)
-----------------------------------------------------------------------------
(* close *)

Closes(c, from, state) ==
    /\ client[c].close = from
    /\ client' = [client EXCEPT ![c] = state]
    /\ UNCHANGED relay

CloseBegins(c) ==
    Closes(c, "called",
           [client[c] EXCEPT !.closed = TRUE,
                             !.close = IF client[c].held THEN "shutdown" ELSE "done"])

ShutdownSkipped(c) ==                               \* seeded fault
    Closes(c, "shutdown", [client[c] EXCEPT !.close = "close"])

Shutdown(c) ==
    Closes(c, "shutdown", [client[c] EXCEPT !.shut = TRUE, !.close = "close"])

CloseSocket(c) ==
    Closes(c, "close", [client[c] EXCEPT !.conns = @ \ {"play"}, !.close = "drop"])

DropSocket(c) ==
    Closes(c, "drop", [client[c] EXCEPT !.held = FALSE, !.close = "done"])

CloseSteps(c) == CloseBegins(c) \/ Shutdown(c) \/ CloseSocket(c) \/ DropSocket(c)
-----------------------------------------------------------------------------
(* The relay's spin-up *)

\* _spin_up_upstream asks for the key if no pump task is alive.
SpinUpBegins ==
    /\ turn = "free" /\ ~PumpAlive
    /\ turn' = "key"
    /\ UNCHANGED <<client, lan, fresh, pump>>

\* The key that it is given may be one from before a re-pairing (LanKey).
StartBegins ==
    /\ turn = "key"
    /\ \E c \in Clients, key \in {"current", "stale"} :
          /\ client[c] = Unused
          /\ client' = [client EXCEPT ![c].key = key, ![c].start = "connect_init"]
          /\ fresh' = c
    /\ turn' = "start"
    /\ UNCHANGED <<lan, pump>>

\* fetch_lan_aes_key has raised, or the doorbell's address is not known.
KeyFails ==
    /\ turn = "key"
    /\ turn' = "failed"
    /\ UNCHANGED <<client, lan, fresh, pump>>

\* The session that ended by itself, if any, is overwritten.
StartReturns ==
    /\ turn = "start" /\ Begun(fresh, "started")
    /\ lan' = fresh /\ fresh' = NoClient
    /\ pump' = "ready"
    /\ turn' = "free"
    /\ UNCHANGED client

StartFails ==
    /\ turn = "start" /\ Begun(fresh, "raised")
    /\ fresh' = NoClient
    /\ turn' = "failed"
    /\ UNCHANGED <<client, lan, pump>>
-----------------------------------------------------------------------------
(* The pump and the teardown *)

PumpReads ==
    /\ pump = "ready"
    /\ client' = [client EXCEPT ![lan].read = "called"]
    /\ pump' = "reading"
    /\ UNCHANGED <<lan, fresh, turn>>

\* The chunk is fed, b"" ends the pump, an exception is counted and ends it.
PumpGets ==
    /\ pump = "reading"
    /\ \/ client[lan].read = "data"  /\ pump' = "ready"
       \/ client[lan].read = "empty" /\ pump' = "ended"
       \/ client[lan].read = "error" /\ pump' = "failed"
    /\ client' = [client EXCEPT ![lan].read = "idle"]
    /\ UNCHANGED <<lan, fresh, turn>>

\* Nobody waits any more for what the thread returns.
ReadAbandoned(c) ==
    /\ c # lan \/ pump # "reading"
    /\ \/ Reads(c, "data", "idle")
       \/ Reads(c, "empty", "idle")
       \/ Reads(c, "error", "idle")

CloseCalled ==
    IF lan = NoClient
    THEN turn' = "free" /\ UNCHANGED client
    ELSE turn' = "close" /\ client' = [client EXCEPT ![lan].close = "called"]

TeardownForgetsFirst ==                             \* seeded fault
    /\ turn = "failed" \/ (turn = "free" /\ lan # NoClient)
    /\ lan' = NoClient
    /\ pump' = IF PumpAlive THEN "cancelled" ELSE "none"
    /\ turn' = "cancel"
    /\ UNCHANGED <<client, fresh>>

TeardownClosesFirst ==                              \* seeded fault
    /\ turn = "failed" \/ (turn = "free" /\ lan # NoClient)
    /\ CloseCalled
    /\ UNCHANGED <<lan, fresh, pump>>

\* After a failed spin-up, on the closer's or the stop's behalf.
TeardownBegins ==
    /\ turn = "failed" \/ (turn = "free" /\ lan # NoClient)
    /\ pump' = IF PumpAlive THEN "cancelled" ELSE "none"
    /\ turn' = "cancel"
    /\ UNCHANGED <<client, lan, fresh>>

PumpIsCancelled ==
    /\ pump = "cancelled"
    /\ pump' = "none"
    /\ UNCHANGED <<client, lan, fresh, turn>>

TeardownAwaitsThread ==                             \* seeded fault
    /\ turn = "cancel" /\ pump = "none"
    /\ lan # NoClient => client[lan].read # "blocked"
    /\ CloseCalled
    /\ lan' = NoClient
    /\ UNCHANGED <<fresh, pump>>

\* The cancelled pump is awaited first, but not its thread.
TeardownCloses ==
    /\ turn = "cancel" /\ pump = "none"
    /\ CloseCalled
    /\ lan' = NoClient
    /\ UNCHANGED <<fresh, pump>>

TeardownEnds ==
    /\ turn = "close"
    /\ \E c \in Clients :
          /\ client[c].close = "done"
          /\ client' = [client EXCEPT ![c].close = "idle"]
    /\ turn' = "free"
    /\ UNCHANGED <<lan, fresh, pump>>

\* The interpreter frees a client, with its socket, that nothing refers to.
Collect(c) ==
    /\ c \notin {lan, fresh}
    /\ client[c] # Unused
    /\ client[c].read = "idle" /\ client[c].close = "idle"
    /\ client' = [client EXCEPT ![c] = Unused]
    /\ UNCHANGED relay
-----------------------------------------------------------------------------
(* The whole *)

\* The doorbell is paired anew: the key that a client was given is replaced.
Pair ==
    /\ \E c \in Clients : client[c].key = "current"
    /\ client' = [c \in Clients |-> IF client[c].key = "current"
                                    THEN [client[c] EXCEPT !.key = "replaced"]
                                    ELSE client[c]]
    /\ UNCHANGED relay

SpinUpSteps == StartBegins \/ KeyFails \/ StartReturns \/ StartFails

Next ==
    \/ Pair
    \/ SpinUpBegins \/ SpinUpSteps
    \/ PumpReads \/ PumpGets
    \/ TeardownBegins \/ PumpIsCancelled \/ TeardownCloses \/ TeardownEnds
    \/ \E c \in Clients :
          \/ StartSteps(c) \/ ReadSteps(c) \/ CloseSteps(c)
          \/ ReadAbandoned(c) \/ Collect(c)

Spec == Init /\ [][Next]_vars

\* Threads and tasks run, and every blocking call of `start` has a timeout.  A
\* read need not end as long as the doorbell is silent, and nobody need ask for
\* a session or for its end.
Fairness ==
    /\ WF_vars(SpinUpSteps)
    /\ WF_vars(turn = "failed" /\ TeardownBegins)
    /\ WF_vars(PumpIsCancelled) /\ WF_vars(TeardownCloses) /\ WF_vars(TeardownEnds)
    /\ \A c \in Clients :
          /\ WF_vars(StartSteps(c)) /\ WF_vars(CloseSteps(c))
          /\ WF_vars(ReadTests(c)) /\ WF_vars(ReadSetsTimeout(c))
          /\ WF_vars(ReadReceives(c)) /\ WF_vars(ReadWakes(c))
          /\ WF_vars(ReadAbandoned(c)) /\ WF_vars(Collect(c))

FairSpec == Spec /\ Fairness
-----------------------------------------------------------------------------
(* Safety *)

\* A client has one TCP connection to the doorbell at a time; a start that fails
\* leaves none open wherever it fails, and so does close, whatever the reader
\* does meanwhile; a started client that was not closed keeps its own.
SocketsAccounted ==
    \A c \in Clients :
        LET cl == client[c] IN
        /\ cl.conns \in {{}, {"control"}, {"play"}}
        /\ cl.start = "raised" => cl.conns = {}
        /\ cl.start = "started" =>
              cl.conns = IF cl.closed /\ cl.close \in {"drop", "done", "idle"}
                         THEN {} ELSE {"play"}

\* A key from before a re-pairing starts no session, although _send_cmd returns
\* a refusal in plain XML, which parses under any key, and the answers to INIT
\* and PLAY are not looked at: the one answer that is, to the INVITE, ends each
\* start that began with such a key.  (A key replaced later may get past it.)
StaleStartsNothing ==
    \A c \in Clients : client[c].key = "stale" =>
        client[c].start \notin {"connect_play", "play", "started"}

\* close runs in a thread beside a read_chunk that it makes raise; the pump
\* never gets that exception, as the teardown has cancelled it before.
PumpSeesNoError == pump # "failed"
-----------------------------------------------------------------------------
(* Liveness, under FairSpec *)

\* close wakes the thread that blocks in recv: it does not keep a worker of
\* the executor until the doorbell speaks or the timeout passes.
CloseFreesReader ==
    \A c \in Clients :
        client[c].closed /\ client[c].read # "idle" ~> client[c].read = "idle"

\* Whoever holds the relay's lock lets go of it, also if the doorbell is silent:
\* what Relay's fairness takes for granted.
LockIsReleased == []<>(turn = "free")
=============================================================================
