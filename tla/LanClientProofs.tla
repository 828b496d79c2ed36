-------------------------- MODULE LanClientProofs --------------------------
(***************************************************************************)
(* Proofs about LanClient, for any number of clients: its types, its       *)
(* sockets, and that the pump is spared the exceptions of a read that      *)
(* close overtakes.                                                        *)
(***************************************************************************)
EXTENDS LanClient, TLAPS

\* The socket that a client has open follows from where its methods are.
Sockets(cl) ==
    IF cl.start \in {"init", "invite"} THEN {"control"}
    ELSE IF cl.start = "play" THEN {"play"}
    ELSE IF cl.start = "started" /\ ~(cl.closed /\ cl.close \in {"drop", "done", "idle"})
    THEN {"play"}
    ELSE {}

\* Reading and closing begin with a started client; close has set _closed
\* from its first step on, and _play_sock is None from its last step on.
Consistent(cl) ==
    /\ cl.conns = Sockets(cl)
    /\ cl.start = "unused" => cl = Unused
    /\ cl.start # "started" =>
          /\ ~cl.held /\ ~cl.closed
          /\ cl.read = "idle" /\ cl.close = "idle"
    /\ cl.start = "started" =>
          (cl.held <=> ~(cl.closed /\ cl.close \in {"done", "idle"}))
    /\ cl.close = "called" => ~cl.closed
    /\ cl.close \notin {"idle", "called"} => cl.closed
    /\ cl.key = "stale" => cl.start \notin {"connect_play", "play", "started"}

\* No close touches the client that the relay holds, so that its reads raise
\* nothing; nobody reads from the one that is starting.
Held ==
    /\ lan # NoClient =>
          /\ client[lan].start = "started"
          /\ ~client[lan].closed /\ client[lan].close = "idle"
          /\ client[lan].read # "error"
    /\ fresh # NoClient =>
          /\ fresh # lan
          /\ client[fresh].start # "unused"
          /\ ~client[fresh].closed /\ client[fresh].close = "idle"
          /\ client[fresh].read = "idle"
    /\ turn = "close" => lan = NoClient

IInv ==
    /\ TypeOK
    /\ \A c \in Clients : Consistent(client[c])
    /\ Held
    /\ PumpSeesNoError

LEMMA InitInv == Init => IInv
BY ClientsAssumption
DEF Init, IInv, TypeOK, ClientStates, Handshake, Consistent, Sockets, Unused, Held,
    PumpSeesNoError

\* A step of one client, in which the relay takes no part, keeps the invariant
\* if it keeps what the invariant says of that client.
LEMMA ClientStep ==
    ASSUME IInv, NEW c \in Clients,
           UNCHANGED relay, client' = [client EXCEPT ![c] = client'[c]],
           client'[c] \in ClientStates,
           Consistent(client'[c]),
           client'[c].start = client[c].start \/ client[c].start # "started",
           c = lan => /\ ~client'[c].closed /\ client'[c].close = "idle"
                      /\ client'[c].read # "error",
           c = fresh => /\ client'[c].start # "unused"
                        /\ ~client'[c].closed /\ client'[c].close = "idle"
                        /\ client'[c].read = "idle"
    PROVE  IInv'
<1>1. TypeOK'
  BY DEF IInv, TypeOK, relay
<1>2. \A d \in Clients : Consistent(client'[d])
  BY DEF IInv, TypeOK
<1>3. Held'
  BY DEF IInv, TypeOK, Held, relay
<1> QED
  BY <1>1, <1>2, <1>3 DEF IInv, PumpSeesNoError, relay

\* Each step of read_chunk in one: only close makes it raise, and no close
\* touches the relay's client.
LEMMA ReadStep ==
    ASSUME IInv, NEW c \in Clients, NEW from, NEW to,
           from # "idle", Reads(c, from, to),
           to \in {"idle", "called", "checked", "receive", "blocked",
                   "data", "empty", "error"},
           c = lan => to # "error"
    PROVE  IInv'
<1>1. /\ client[c] \in ClientStates /\ Consistent(client[c])
      /\ client[c].read = from
      /\ client' = [client EXCEPT ![c] = [client[c] EXCEPT !.read = to]]
      /\ UNCHANGED relay
  BY DEF IInv, TypeOK, Reads
<1>2. client'[c] = [client[c] EXCEPT !.read = to]
  BY <1>1 DEF IInv, TypeOK
<1>3. client[c].start = "started" /\ c # fresh
  BY <1>1, ClientsAssumption DEF Consistent, IInv, Held
<1>4. client'[c] \in ClientStates
  BY <1>1, <1>2 DEF ClientStates
<1>5. Consistent(client'[c])
  BY <1>1, <1>2, <1>3 DEF Consistent, Sockets, ClientStates
<1>6. c = lan => ~client'[c].closed /\ client'[c].close = "idle"
                 /\ client'[c].read # "error"
  BY <1>1, <1>2, ClientsAssumption DEF IInv, Held, ClientStates
<1>7. client' = [client EXCEPT ![c] = client'[c]]
  BY <1>1, <1>2
<1>8. client'[c].start = client[c].start
  BY <1>1, <1>2 DEF ClientStates
<1> QED
  BY <1>1, <1>3, <1>4, <1>5, <1>6, <1>7, <1>8, ClientStep

LEMMA ReadInv ==
    ASSUME IInv, NEW c \in Clients, ReadSteps(c) PROVE IInv'
<1>1. CASE ReadTests(c)
  BY <1>1, ReadStep DEF ReadTests
<1>2. CASE ReadSetsTimeout(c)
  <2>1. c = lan => client[c].held /\ "play" \in client[c].conns
    BY ClientsAssumption DEF IInv, Held, Consistent, Sockets
  <2> QED
    BY <1>2, <2>1, ReadStep DEF ReadSetsTimeout
<1>3. CASE ReadReceives(c)
  <2>1. c = lan => client[c].held
    BY ClientsAssumption DEF IInv, Held, Consistent
  <2> QED
    BY <1>3, <2>1, ReadStep DEF ReadReceives
<1>4. CASE ReadData(c) \/ ReadEnds(c) \/ ReadWakes(c)
  BY <1>4, ReadStep DEF ReadData, ReadEnds, ReadWakes
<1> QED
  BY <1>1, <1>2, <1>3, <1>4 DEF ReadSteps

\* A step of start or of close, given the client after it: neither method
\* runs for the relay's client, and close does not for one that starts.
LEMMA MethodStep ==
    ASSUME IInv, NEW c \in Clients, c # lan, NEW after \in ClientStates,
           client' = [client EXCEPT ![c] = after], UNCHANGED relay,
           Consistent(after),
           client[c].start = "started" => after.start = "started" /\ c # fresh,
           c = fresh => /\ after.start # "unused" /\ ~after.closed
                        /\ after.close = "idle" /\ after.read = "idle"
    PROVE  IInv'
<1>1. client'[c] = after
  BY DEF IInv, TypeOK
<1> QED
  BY <1>1, ClientStep

LEMMA CloseInv ==
    ASSUME IInv, NEW c \in Clients, CloseSteps(c) PROVE IInv'
<1>1. /\ client[c] \in ClientStates /\ Consistent(client[c])
      /\ client[c].close # "idle" /\ client[c].close # "done"
  BY DEF IInv, TypeOK, CloseSteps, CloseBegins, Shutdown, CloseSocket,
     DropSocket, Closes
<1>2. client[c].start = "started" /\ c # lan /\ c # fresh
  BY <1>1, ClientsAssumption DEF Consistent, IInv, Held
<1> DEFINE Done(after) ==
        /\ after \in ClientStates /\ Consistent(after)
        /\ after.start = "started"
<1>3. CASE CloseBegins(c)
  <2> DEFINE after == [client[c] EXCEPT !.closed = TRUE, !.close = "shutdown"]
  <2>1. client[c].close = "called" /\ client[c].held
    BY <1>1, <1>2, <1>3 DEF CloseBegins, Closes, Consistent
  <2>2. Done(after)
    BY <1>1, <1>2, <2>1 DEF ClientStates, Consistent, Sockets
  <2> QED
    BY <1>2, <1>3, <2>1, <2>2, MethodStep DEF CloseBegins, Closes
<1>4. CASE Shutdown(c)
  <2> DEFINE after == [client[c] EXCEPT !.shut = TRUE, !.close = "close"]
  <2>1. Done(after)
    BY <1>1, <1>2, <1>4 DEF Shutdown, Closes, ClientStates, Consistent, Sockets
  <2> QED
    BY <1>2, <1>4, <2>1, MethodStep DEF Shutdown, Closes
<1>5. CASE CloseSocket(c)
  <2> DEFINE after == [client[c] EXCEPT !.conns = @ \ {"play"}, !.close = "drop"]
  <2>1. Done(after)
    BY <1>1, <1>2, <1>5 DEF CloseSocket, Closes, ClientStates, Consistent, Sockets
  <2> QED
    BY <1>2, <1>5, <2>1, MethodStep DEF CloseSocket, Closes
<1>6. CASE DropSocket(c)
  <2> DEFINE after == [client[c] EXCEPT !.held = FALSE, !.close = "done"]
  <2>1. Done(after)
    BY <1>1, <1>2, <1>6 DEF DropSocket, Closes, ClientStates, Consistent, Sockets
  <2> QED
    BY <1>2, <1>6, <2>1, MethodStep DEF DropSocket, Closes
<1> QED
  BY <1>3, <1>4, <1>5, <1>6 DEF CloseSteps

LEMMA StartInv ==
    ASSUME IInv, NEW c \in Clients, StartSteps(c) PROVE IInv'
<1>1. /\ client[c] \in ClientStates /\ Consistent(client[c])
      /\ client[c].start \in Handshake
      /\ UNCHANGED relay
  BY DEF IInv, TypeOK, StartSteps, Connects, InitCmd, Invite, Play, Begun, Handshake
<1>2. /\ c # lan
      /\ ~client[c].held /\ ~client[c].closed
      /\ client[c].read = "idle" /\ client[c].close = "idle"
  BY <1>1, ClientsAssumption DEF IInv, Held, Consistent, Handshake
<1> DEFINE Starts(after) ==
        /\ after \in ClientStates /\ Consistent(after)
        /\ after.start # "unused" /\ ~after.closed
        /\ after.close = "idle" /\ after.read = "idle"
        /\ client' = [client EXCEPT ![c] = after]
<1>3. ASSUME NEW after, Starts(after) PROVE IInv'
  BY <1>1, <1>2, <1>3, MethodStep DEF Handshake
<1>4. ASSUME NEW phase, NEW next, NEW conn, Connects(c, phase, next, conn),
             <<phase, next, conn>> \in
                 {<<"connect_init", "init", "control">>,
                  <<"connect_invite", "invite", "control">>,
                  <<"connect_play", "play", "play">>}
      PROVE  IInv'
  <2>1. CASE client' = [client EXCEPT ![c] = [client[c] EXCEPT
                            !.start = next, !.conns = @ \cup {conn}]]
    <3> DEFINE after == [client[c] EXCEPT !.start = next, !.conns = @ \cup {conn}]
    <3>1. Starts(after)
      BY <1>1, <1>2, <1>4, <2>1
      DEF Connects, Begun, ClientStates, Handshake, Consistent, Sockets
    <3> QED
      BY <3>1, <1>3
  <2>2. CASE client' = [client EXCEPT ![c] = [client[c] EXCEPT !.start = "raised"]]
    <3> DEFINE after == [client[c] EXCEPT !.start = "raised"]
    <3>1. Starts(after)
      BY <1>1, <1>2, <1>4, <2>2
      DEF Connects, Begun, ClientStates, Handshake, Consistent, Sockets
    <3> QED
      BY <3>1, <1>3
  <2> QED
    BY <1>4, <2>1, <2>2 DEF Connects
<1>5. CASE InitCmd(c)
  <2>1. PICK start \in {"connect_invite", "raised"} :
            client' = [client EXCEPT ![c] = [client[c] EXCEPT
                           !.start = start, !.conns = @ \ {"control"}]]
    BY <1>5 DEF InitCmd
  <2> DEFINE after == [client[c] EXCEPT !.start = start, !.conns = @ \ {"control"}]
  <2>2. Starts(after)
    BY <1>1, <1>2, <1>5, <2>1
    DEF InitCmd, Begun, ClientStates, Handshake, Consistent, Sockets
  <2> QED
    BY <2>2, <1>3
<1>6. CASE Invite(c)
  <2>1. PICK answer \in Answers(c) :
            client' = [client EXCEPT ![c] = [client[c] EXCEPT
                !.start = IF HasSession(answer) THEN "connect_play" ELSE "raised",
                !.conns = @ \ {"control"}]]
    BY <1>6 DEF Invite
  <2> DEFINE after == [client[c] EXCEPT
                !.start = IF HasSession(answer) THEN "connect_play" ELSE "raised",
                !.conns = @ \ {"control"}]
  <2>2. Starts(after)
    BY <1>1, <1>2, <1>6, <2>1
    DEF Invite, Begun, Answers, HasSession, ClientStates, Handshake, Consistent, Sockets
  <2> QED
    BY <2>2, <1>3
<1>7. CASE Play(c)
  <2>1. CASE client' = [client EXCEPT ![c] = [client[c] EXCEPT
                            !.start = "started", !.held = TRUE]]
    <3> DEFINE after == [client[c] EXCEPT !.start = "started", !.held = TRUE]
    <3>1. Starts(after)
      BY <1>1, <1>2, <1>7, <2>1
      DEF Play, Begun, ClientStates, Handshake, Consistent, Sockets
    <3> QED
      BY <3>1, <1>3
  <2>2. CASE client' = [client EXCEPT ![c] = [client[c] EXCEPT
                            !.start = "raised", !.conns = @ \ {"play"}]]
    <3> DEFINE after == [client[c] EXCEPT !.start = "raised", !.conns = @ \ {"play"}]
    <3>1. Starts(after)
      BY <1>1, <1>2, <1>7, <2>2
      DEF Play, Begun, ClientStates, Handshake, Consistent, Sockets
    <3> QED
      BY <3>1, <1>3
  <2> QED
    BY <1>7, <2>1, <2>2 DEF Play, PlayRaises
<1> QED
  BY <1>4, <1>5, <1>6, <1>7 DEF StartSteps
-----------------------------------------------------------------------------
(* The relay's steps *)

LEMMA SpinUpInv == IInv /\ (SpinUpBegins \/ SpinUpSteps) => IInv'
<1> SUFFICES ASSUME IInv, SpinUpBegins \/ SpinUpSteps PROVE IInv'
  OBVIOUS
<1> USE ClientsAssumption DEF IInv, TypeOK, Held, PumpSeesNoError, PumpAlive
<1>1. CASE SpinUpBegins
  BY <1>1 DEF SpinUpBegins
<1>2. CASE StartBegins
  <2>1. PICK c \in Clients, key \in {"current", "stale"} :
            /\ client[c] = Unused
            /\ client' = [client EXCEPT ![c] =
                   [client[c] EXCEPT !.key = key, !.start = "connect_init"]]
            /\ fresh' = c
    BY <1>2 DEF StartBegins
  <2> DEFINE after == [client[c] EXCEPT !.key = key, !.start = "connect_init"]
  <2>2. after \in ClientStates
    <3>1. client[c] \in ClientStates
      OBVIOUS
    <3> QED
      BY <3>1 DEF ClientStates, Handshake
  <2>4. Consistent(after) /\ c # lan
    BY <2>1 DEF Unused, Consistent, Sockets
  <2>3. /\ after.start # "unused" /\ ~after.closed
        /\ after.close = "idle" /\ after.read = "idle"
    BY <2>1 DEF Unused
  <2> HIDE DEF after
  <2> QED
    BY <1>2, <2>1, <2>2, <2>3, <2>4 DEF StartBegins, after
<1>3. CASE KeyFails
  BY <1>3 DEF KeyFails
<1>4. CASE StartReturns
  BY <1>4 DEF StartReturns, Begun
<1>5. CASE StartFails
  BY <1>5 DEF StartFails, Begun
<1> QED
  BY <1>1, <1>2, <1>3, <1>4, <1>5 DEF SpinUpSteps

\* The pump gets no exception: its client's read has raised none.
LEMMA PumpInv == IInv /\ (PumpReads \/ PumpGets) => IInv'
<1> SUFFICES ASSUME IInv, PumpReads \/ PumpGets PROVE IInv'
  OBVIOUS
<1> USE ClientsAssumption
<1>1. /\ lan \in Clients /\ lan # fresh
      /\ client[lan] \in ClientStates /\ Consistent(client[lan])
      /\ client[lan].start = "started" /\ client[lan].read # "error"
  BY DEF IInv, TypeOK, Held, PumpReads, PumpGets
<1>2. PICK to \in {"called", "idle"} :
          client' = [client EXCEPT ![lan] = [client[lan] EXCEPT !.read = to]]
  BY DEF PumpReads, PumpGets
<1> DEFINE after == [client[lan] EXCEPT !.read = to]
<1>3. after \in ClientStates
  BY <1>1 DEF ClientStates
<1>4. Consistent(after) /\ after.read # "error"
  BY <1>1 DEF Consistent, Sockets, ClientStates
<1>5. /\ after.start = client[lan].start /\ after.closed = client[lan].closed
      /\ after.close = client[lan].close
  BY <1>1 DEF ClientStates
<1>6. /\ pump' \in {"reading", "ready", "ended"}
      /\ UNCHANGED <<lan, fresh, turn>>
  BY <1>1 DEF PumpReads, PumpGets
<1> HIDE DEF after
<1>7. client' = [client EXCEPT ![lan] = after]
  BY <1>2 DEF after
<1>8. TypeOK'
  BY <1>1, <1>3, <1>6, <1>7 DEF IInv, TypeOK
<1>9. \A c \in Clients : Consistent(client'[c])
  BY <1>4, <1>7 DEF IInv, TypeOK
<1>10. Held'
  BY <1>1, <1>4, <1>5, <1>6, <1>7 DEF IInv, TypeOK, Held
<1> QED
  BY <1>6, <1>8, <1>9, <1>10 DEF IInv, PumpSeesNoError

LEMMA TeardownInv ==
    IInv /\ (TeardownBegins \/ PumpIsCancelled \/ TeardownCloses \/ TeardownEnds)
        => IInv'
<1> SUFFICES ASSUME IInv,
                    \/ TeardownBegins \/ PumpIsCancelled
                    \/ TeardownCloses \/ TeardownEnds
             PROVE  IInv'
  OBVIOUS
<1> USE ClientsAssumption
<1>1. CASE TeardownBegins \/ PumpIsCancelled
  BY <1>1 DEF TeardownBegins, PumpIsCancelled, PumpAlive, IInv, TypeOK, Held,
     PumpSeesNoError
<1>2. CASE TeardownCloses /\ lan = NoClient
  BY <1>2 DEF TeardownCloses, CloseCalled, IInv, TypeOK, Held, PumpSeesNoError
<1> DEFINE Closing(c, to) == [client[c] EXCEPT !.close = to]
<1>3. ASSUME NEW c \in Clients, NEW to \in {"called", "idle"},
             client' = [client EXCEPT ![c] = Closing(c, to)],
             Consistent(Closing(c, to)), c # fresh, lan' = NoClient,
             UNCHANGED fresh, pump' = "none", fresh = NoClient,
             turn' \in {"free", "close"}
      PROVE  IInv'
  <2>1. client[c] \in ClientStates
    BY DEF IInv, TypeOK
  <2>2. Closing(c, to) \in ClientStates
    BY <2>1 DEF ClientStates
  <2>3. TypeOK'
    BY <1>3, <2>2 DEF IInv, TypeOK
  <2>4. \A d \in Clients : Consistent(client'[d])
    BY <1>3 DEF IInv, TypeOK
  <2>5. Held'
    BY <1>3 DEF Held
  <2> QED
    BY <1>3, <2>3, <2>4, <2>5 DEF IInv, PumpSeesNoError
<1>4. CASE TeardownCloses /\ lan # NoClient
  <2>1. /\ lan \in Clients /\ client[lan] \in ClientStates
        /\ Consistent(client[lan]) /\ client[lan].start = "started"
        /\ ~client[lan].closed /\ client[lan].close = "idle"
    BY <1>4 DEF IInv, TypeOK, Held
  <2>2. Consistent(Closing(lan, "called"))
    BY <2>1 DEF Consistent, Sockets, ClientStates
  <2>3. fresh = NoClient
    BY <1>4 DEF TeardownCloses, IInv, TypeOK
  <2> QED
    BY <1>3, <1>4, <2>1, <2>2, <2>3 DEF TeardownCloses, CloseCalled
<1>5. CASE TeardownEnds
  <2>1. PICK c \in Clients :
            /\ client[c].close = "done"
            /\ client' = [client EXCEPT ![c] = Closing(c, "idle")]
    BY <1>5 DEF TeardownEnds
  <2>2. client[c] \in ClientStates /\ Consistent(client[c])
    BY DEF IInv, TypeOK
  <2>3. Consistent(Closing(c, "idle"))
    BY <2>1, <2>2 DEF Consistent, Sockets, ClientStates
  <2>4. /\ lan = NoClient /\ fresh = NoClient /\ pump = "none"
        /\ turn' = "free" /\ UNCHANGED <<lan, fresh, pump>>
    BY <1>5 DEF TeardownEnds, IInv, TypeOK, Held
  <2> QED
    BY <1>3, <2>1, <2>3, <2>4
<1> QED
  BY <1>1, <1>2, <1>4, <1>5

\* A result that nobody awaits, the collection of a client, a re-pairing.
LEMMA RestInv ==
    IInv /\ (Pair \/ \E c \in Clients : ReadAbandoned(c) \/ Collect(c)) => IInv'
<1> SUFFICES ASSUME IInv, Pair \/ \E c \in Clients : ReadAbandoned(c) \/ Collect(c)
             PROVE  IInv'
  OBVIOUS
<1>1. ASSUME NEW c \in Clients, ReadAbandoned(c) PROVE IInv'
  BY <1>1, ReadStep DEF ReadAbandoned
<1>2. ASSUME NEW c \in Clients, Collect(c) PROVE IInv'
  <2>1. Unused \in ClientStates /\ Consistent(Unused)
    BY DEF Unused, ClientStates, Consistent, Sockets
  <2>2. client' = [client EXCEPT ![c] = Unused] /\ c \notin {lan, fresh}
        /\ UNCHANGED relay
    BY <1>2 DEF Collect
  <2>3. TypeOK'
    BY <2>1, <2>2 DEF IInv, TypeOK, relay
  <2>4. \A d \in Clients : Consistent(client'[d])
    BY <2>1, <2>2 DEF IInv, TypeOK
  <2>5. Held'
    BY <2>2, ClientsAssumption DEF IInv, TypeOK, Held, relay
  <2> QED
    BY <2>2, <2>3, <2>4, <2>5 DEF IInv, PumpSeesNoError, relay
<1>3. CASE Pair
  <2> DEFINE Old(c) == [client[c] EXCEPT !.key = "replaced"]
             After(c) == IF client[c].key = "current" THEN Old(c) ELSE client[c]
  <2>1. client' = [c \in Clients |-> After(c)] /\ UNCHANGED relay
    BY <1>3 DEF Pair
  <2>2. ASSUME NEW c \in Clients
        PROVE  /\ After(c) \in ClientStates /\ Consistent(After(c))
               /\ After(c).start = client[c].start
               /\ After(c).closed = client[c].closed
               /\ After(c).close = client[c].close
               /\ After(c).read = client[c].read
    <3>1. client[c] \in ClientStates /\ Consistent(client[c])
      BY DEF IInv, TypeOK
    <3>2. CASE client[c].key = "current"
      <4>1. client[c].start # "unused"
        BY <3>1, <3>2 DEF Consistent, Unused
      <4>2. Old(c) \in ClientStates
        BY <3>1 DEF ClientStates
      <4>3. Consistent(Old(c))
        BY <3>1, <4>1 DEF Consistent, Sockets, ClientStates
      <4> QED
        BY <3>1, <3>2, <4>2, <4>3 DEF ClientStates
    <3>3. CASE client[c].key # "current"
      BY <3>1, <3>3
    <3> QED
      BY <3>2, <3>3
  <2> HIDE DEF After
  <2>3. TypeOK'
    BY <2>1, <2>2 DEF IInv, TypeOK, relay
  <2>4. \A d \in Clients : Consistent(client'[d])
    BY <2>1, <2>2
  <2>5. Held'
    BY <2>1, <2>2 DEF IInv, TypeOK, Held, relay
  <2> QED
    BY <2>1, <2>3, <2>4, <2>5 DEF IInv, PumpSeesNoError, relay
<1> QED
  BY <1>1, <1>2, <1>3

LEMMA NextInv == IInv /\ [Next]_vars => IInv'
<1> SUFFICES ASSUME IInv, [Next]_vars PROVE IInv'
  OBVIOUS
<1>1. CASE SpinUpBegins \/ SpinUpSteps
  BY <1>1, SpinUpInv
<1>2. CASE PumpReads \/ PumpGets
  BY <1>2, PumpInv
<1>3. CASE TeardownBegins \/ PumpIsCancelled \/ TeardownCloses \/ TeardownEnds
  BY <1>3, TeardownInv
<1>4. ASSUME NEW c \in Clients, StartSteps(c) \/ ReadSteps(c) \/ CloseSteps(c)
      PROVE  IInv'
  BY <1>4, StartInv, ReadInv, CloseInv
<1>5. CASE Pair \/ \E c \in Clients : ReadAbandoned(c) \/ Collect(c)
  BY <1>5, RestInv
<1>6. CASE UNCHANGED vars
  BY <1>6 DEF vars, relay, IInv, TypeOK, Held, PumpSeesNoError
<1> QED
  BY <1>1, <1>2, <1>3, <1>4, <1>5, <1>6 DEF Next

LEMMA Inductive == Spec => []IInv
  BY InitInv, NextInv, PTL DEF Spec
-----------------------------------------------------------------------------
(* The theorems *)

\* The clients, the pump and the lock's owner keep their types; the relay never
\* runs a pump without a session.
THEOREM TypeCorrect == Spec => []TypeOK
<1>1. IInv => TypeOK
  BY DEF IInv
<1> QED
  BY <1>1, Inductive, PTL

\* A failed start and a close leave no connection open, at whatever step of a
\* concurrent read_chunk they happen.
THEOREM SocketsKept == Spec => []SocketsAccounted
<1>1. IInv => SocketsAccounted
  BY DEF IInv, Consistent, Sockets, SocketsAccounted
<1> QED
  BY <1>1, Inductive, PTL

\* A start with a key from before a re-pairing ends at the INVITE, for any number
\* of clients and whatever else is refused, garbled or replaced meanwhile.
THEOREM StaleEndsAtInvite == Spec => []StaleStartsNothing
<1>1. IInv => StaleStartsNothing
  BY DEF IInv, Consistent, StaleStartsNothing
<1> QED
  BY <1>1, Inductive, PTL

\* The exception of a read that close overtakes never reaches the pump: at
\* that time the relay holds another client, or none.
THEOREM PumpSpared == Spec => []PumpSeesNoError
<1>1. IInv => PumpSeesNoError
  BY DEF IInv
<1> QED
  BY <1>1, Inductive, PTL
=============================================================================
