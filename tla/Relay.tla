------------------------------- MODULE Relay -------------------------------
(***************************************************************************)
(* CpdMpegPsRelay of custom_components/ezviz_hp7/tcp_relay.py: a server on *)
(* localhost that hands the doorbell's decrypted stream to its viewers,    *)
(* over at most one upstream LAN session that is opened on demand or ahead *)
(* of demand (pre-warm) and closed by a timer once nobody watches.         *)
(*                                                                         *)
(* The program is one asyncio event loop.  A step of this specification is *)
(* what one task does between two awaits that can really suspend it:       *)
(*   - a connection handler (_handle_client) per connection,               *)
(*   - a call of async_prewarm,                                            *)
(*   - a closer (_maybe_close_upstream), the task a close timer spawns,    *)
(*   - the call of async_stop,                                             *)
(*   - the pump (_pump_upstream).                                          *)
(* All but the pump serialise on _state_lock, an asyncio.Lock, which wakes *)
(* its waiters in the order they asked: queue holds the owner (its head)   *)
(* and the waiters, await what the owner is suspended on.                  *)
(*                                                                         *)
(* A session is open until the relay closes it.  One that it overwrites    *)
(* unclosed is left to the garbage collector of Python, which is no        *)
(* operation of the relay and not modelled.                                *)
(*                                                                         *)
(* A connection and a pre-warm call are named after the one use they get,  *)
(* so each arms at most one close timer, which has its name.               *)
(***************************************************************************)
EXTENDS Naturals, Sequences, FiniteSets

CONSTANTS
    Clients,      \* the connections ever accepted
    Prewarms,     \* the calls of async_prewarm ever made
    None,         \* Python's None
    MaxUnits,     \* bound: plaintext chunks a session yields
    MinTail,      \* chunks after a keyframe's first that complete it
                  \* (_KEYFRAME_MIN_TAIL_BYTES)
    Faults        \* what may go wrong outside of the relay

Timers == Clients \cup Prewarms

ASSUME NamesAssumption ==
    /\ Clients \cap Prewarms = {}
    /\ None \notin Timers

ASSUME BoundsAssumption ==
    /\ MaxUnits \in Nat
    /\ MinTail \in Nat \ {0}

\* "lan_failure": _spin_up_upstream raises.  "eof": read_chunk returns no
\* bytes (the doorbell closed, or its 8 s receive timeout passed) or the pump
\* raises.  "broken_pipe": a viewer that leaves resets its connection; writing
\* to it raises BrokenPipeError or ConnectionResetError, and its transport is
\* closed before its handler has ended.
ASSUME FaultsAssumption == Faults \subseteq {"lan_failure", "eof", "broken_pipe"}

VARIABLES
    server,    \* _server and the progress of async_stop
    queue,     \* _state_lock: its owner and its waiters, oldest first
    await,     \* what the owner of the lock is suspended on
    lan,       \* _lan: the number of its session, 0 for None
    closing,   \* the session whose lan.close() runs in the executor, or 0
    started,   \* number of LAN sessions ever started
    open,      \* sessions started and not closed by the relay
    ended,     \* sessions whose pump returned by itself
    pump,      \* _pump_task
    sink,      \* the pump's local writer while it awaits its drain()
    keyframe,  \* index in the session of the last keyframe in _buffer, or 0
    tail,      \* index in the session of the last chunk in _buffer, 0: empty
    seen,      \* _keyframe_seen
    writer,    \* _writer
    handle,    \* _close_handle: the timer it refers to
    closer,    \* state of each timer and of the closer it spawns
    pc,        \* where each connection's handler is
    call,      \* where each async_prewarm call is
    left,      \* connections whose peer has gone
    burst,     \* the snapshot each handler is about to write
    sent,      \* the last chunk handed to each viewer's transport
    shown      \* what the state listener last saw

upstream == <<lan, closing, started, open, ended, pump, sink>>
buffer   == <<keyframe, tail, seen>>
timers   == <<handle, closer>>
viewers  == <<pc, left, burst, sent>>
relay    == <<server, await, upstream, buffer, writer, timers, call, shown>>
vars     == <<relay, queue, viewers>>
-----------------------------------------------------------------------------
Handler(c) == <<"handler", c>>
Prewarm(p) == <<"prewarm", p>>
Closer(t)  == <<"closer", t>>
Stopper    == <<"stop", None>>

Tasks == ({"handler"} \X Clients) \cup ({"prewarm"} \X Prewarms)
            \cup ({"closer"} \X Timers) \cup {Stopper}

Sessions == 1 .. started
Position == Nat \X Nat                 \* <<session, chunk of the session>>
Precedes(a, b) == a[1] < b[1] \/ (a[1] = b[1] /\ a[2] < b[2])
Bursts   == [session : Nat, from : Nat, to : Nat]
Nothing  == [session |-> 0, from |-> 0, to |-> 0]

\* A handler between its first hold of the lock and the publication of its
\* writer: connected, but not known to the pump nor to a closer.
Attaching == {"keyframe", "woken", "resnap", "burst", "publish"}
Connected == Attaching \cup {"attach", "stream", "detach"}

LockOK ==
    /\ queue \in Seq(Tasks)
    /\ await \in {"none", "spin", "teardown"}

UpstreamOK ==
    /\ started \in Nat
    /\ lan \in 0 .. started
    /\ closing \in 0 .. started
    /\ open \subseteq Sessions
    /\ ended \subseteq 0 .. started
    /\ pump \in {"none", "reading", "draining", "done"}
    /\ sink \in Clients \cup {None}

BufferOK ==
    /\ keyframe \in Nat
    /\ tail \in Nat
    /\ seen \in BOOLEAN

TimersOK ==
    /\ handle \in Timers \cup {None}
    /\ closer \in [Timers -> {"off", "armed", "spawned", "queued", "closing"}]

TasksOK ==
    /\ server \in {"up", "closing", "stopping", "down"}
    /\ pc \in [Clients -> Connected \cup {"new", "done"}]
    /\ call \in [Prewarms -> {"new", "queued", "done"}]

ViewersOK ==
    /\ writer \in Clients \cup {None}
    /\ left \subseteq Clients
    /\ burst \in [Clients -> Bursts]
    /\ sent \in [Clients -> Position]
    /\ shown \in [viewer : BOOLEAN, warm : BOOLEAN]

TypeOK ==
    LockOK /\ UpstreamOK /\ BufferOK /\ TimersOK /\ TasksOK /\ ViewersOK

Init ==
    /\ server = "up"
    /\ queue = <<>>
    /\ await = "none"
    /\ lan = 0 /\ closing = 0 /\ started = 0
    /\ open = {} /\ ended = {}
    /\ pump = "none" /\ sink = None
    /\ keyframe = 0 /\ tail = 0 /\ seen = FALSE
    /\ writer = None
    /\ handle = None
    /\ closer = [t \in Timers |-> "off"]
    /\ pc = [c \in Clients |-> "new"]
    /\ call = [p \in Prewarms |-> "new"]
    /\ left = {}
    /\ burst = [c \in Clients |-> Nothing]
    /\ sent = [c \in Clients |-> <<0, 0>>]
    /\ shown = [viewer |-> FALSE, warm |-> FALSE]
-----------------------------------------------------------------------------
(* The lock *)

Owns(t) == queue # <<>> /\ Head(queue) = t
Enters(t) == Owns(t) /\ await = "none"
Release == queue' = Tail(queue)
Ask(t) == queue' = Append(queue, t)

(* The parts that several tasks share *)

\* _is_pump_alive
PumpAliveUnlessDraining == pump = "reading"     \* seeded fault

PumpAlive == pump \in {"reading", "draining"}

\* _notify_state_change: the camera entity reads has_active_viewer, is_warm.
NotifyNobody(w, alive) == UNCHANGED shown       \* seeded fault
NotifyViewer(w, alive) ==                       \* seeded fault
    shown' = [shown EXCEPT !.viewer = w # None]

Notify(w, alive) == shown' = [viewer |-> w # None, warm |-> alive]

\* _cancel_close: a timer that has fired already cannot be cancelled.
CancelledTimers ==
    [t \in Timers |-> IF t = handle /\ closer[t] = "armed" THEN "off"
                                                            ELSE closer[t]]

CancelClose == handle' = None /\ closer' = CancelledTimers

\* _reschedule_close, by the task of that name.
RescheduleNothing(t) == CancelClose             \* seeded fault

RescheduleClose(t) ==
    /\ handle' = t
    /\ closer' = [CancelledTimers EXCEPT ![t] = "armed"]

\* _snapshot_buffer_for_new_client: from the last keyframe to the end.
Snapshot == IF tail = 0
            THEN Nothing
            ELSE [session |-> lan, from |-> keyframe, to |-> tail]

\* What a handler does next with the snapshot it took: write it, or wait for
\* the keyframe (an event that is set already does not make it wait).
Continue(c, snapshot) ==
    /\ burst' = [burst EXCEPT ![c] = snapshot]
    /\ pc' = [pc EXCEPT ![c] = CASE snapshot # Nothing -> "burst"
                                 [] snapshot = Nothing /\ seen -> "woken"
                                 [] OTHER -> "keyframe"]
-----------------------------------------------------------------------------
(* The upstream session, opened and closed by the owner of the lock *)

\* A handler or a pre-warm call that finds no live pump opens a session.
SpinUpStartsAlways ==                           \* seeded fault
    /\ \/ \E c \in Clients : Enters(Handler(c)) /\ pc[c] = "attach"
       \/ \E p \in Prewarms : Enters(Prewarm(p)) /\ call[p] = "queued"
    /\ await' = "spin"
    /\ UNCHANGED <<server, queue, upstream, buffer, writer, timers, call,
                   viewers, shown>>

SpinUpStarts ==
    /\ \/ \E c \in Clients : Enters(Handler(c)) /\ pc[c] = "attach"
       \/ \E p \in Prewarms : Enters(Prewarm(p)) /\ call[p] = "queued"
    /\ ~PumpAlive
    /\ await' = "spin"
    /\ UNCHANGED <<server, queue, upstream, buffer, writer, timers, call,
                   viewers, shown>>

\* _spin_up_upstream, once lan.start() has succeeded.
SpinUpUncounted ==                              \* seeded fault
    /\ started' = started
    /\ lan' = started + 1
    /\ open' = open \cup {started + 1}
    /\ pump' = "reading"
    /\ keyframe' = 0 /\ tail' = 0
    /\ UNCHANGED <<closing, ended, sink, seen>>

SpinUp ==
    /\ started' = started + 1
    /\ lan' = started + 1
    /\ open' = open \cup {started + 1}
    /\ pump' = "reading"
    /\ keyframe' = 0 /\ tail' = 0
    /\ UNCHANGED <<closing, ended, sink, seen>>

\* The handler then attaches to the new session, the pre-warm call sets it to
\* close in a while.
SpinUpSucceeds ==
    /\ await = "spin"
    /\ SpinUp
    /\ Notify(writer, TRUE)
    /\ \/ \E c \in Clients :
             /\ Owns(Handler(c)) /\ pc[c] = "attach"
             /\ Continue(c, Nothing)
             /\ CancelClose
             /\ UNCHANGED call
       \/ \E p \in Prewarms :
             /\ Owns(Prewarm(p)) /\ call[p] = "queued"
             /\ call' = [call EXCEPT ![p] = "done"]
             /\ RescheduleClose(p)
             /\ UNCHANGED <<pc, burst>>
    /\ await' = "none"
    /\ Release
    /\ UNCHANGED <<server, writer, left, sent>>

\* _teardown_upstream after its _cancel_close, up to its await of lan.close().
TeardownKeepsPump ==                            \* seeded fault
    /\ await' = "teardown"
    /\ closing' = lan
    /\ lan' = 0
    /\ keyframe' = 0 /\ tail' = 0 /\ seen' = FALSE
    /\ UNCHANGED <<started, open, ended, pump, sink>>

TeardownKeepsEvent ==                           \* seeded fault
    /\ await' = "teardown"
    /\ pump' = "none" /\ sink' = None
    /\ closing' = lan
    /\ lan' = 0
    /\ keyframe' = 0 /\ tail' = 0
    /\ UNCHANGED <<started, open, ended, seen>>

Teardown ==
    /\ await' = "teardown"
    /\ pump' = "none" /\ sink' = None
    /\ closing' = lan
    /\ lan' = 0
    /\ keyframe' = 0 /\ tail' = 0 /\ seen' = FALSE
    /\ UNCHANGED <<started, open, ended>>

\* _spin_up_upstream raised: its caller tears down what there is.
SpinUpFails ==
    /\ "lan_failure" \in Faults
    /\ await = "spin"
    /\ CancelClose
    /\ Teardown
    /\ UNCHANGED <<server, queue, writer, call, viewers, shown>>

\* lan.close() returned: a handler hangs up, the other tasks end.
TeardownEnds ==
    /\ await = "teardown"
    /\ open' = open \ {closing}
    /\ closing' = 0
    /\ Notify(writer, PumpAlive)
    /\ \/ \E c \in Clients :
             /\ Owns(Handler(c)) /\ pc[c] = "attach"
             /\ pc' = [pc EXCEPT ![c] = "done"]
             /\ UNCHANGED <<server, call, closer>>
       \/ \E p \in Prewarms :
             /\ Owns(Prewarm(p)) /\ call[p] = "queued"
             /\ call' = [call EXCEPT ![p] = "done"]
             /\ UNCHANGED <<server, pc, closer>>
       \/ \E t \in Timers :
             /\ Owns(Closer(t)) /\ closer[t] = "closing"
             /\ closer' = [closer EXCEPT ![t] = "off"]
             /\ UNCHANGED <<server, pc, call>>
       \/ /\ Owns(Stopper) /\ server = "stopping"
          /\ server' = "down"
          /\ UNCHANGED <<pc, call, closer>>
    /\ await' = "none"
    /\ Release
    /\ UNCHANGED <<lan, started, ended, pump, sink, buffer, writer, handle,
                   left, burst, sent>>

Session == SpinUpStarts \/ SpinUpSucceeds \/ SpinUpFails \/ TeardownEnds
-----------------------------------------------------------------------------
(* The connection handler *)

\* The server accepts a connection and its handler asks for the lock.
Connect(c) ==
    /\ server = "up"
    /\ pc[c] = "new"
    /\ pc' = [pc EXCEPT ![c] = "attach"]
    /\ Ask(Handler(c))
    /\ UNCHANGED <<relay, left, burst, sent>>

\* The viewer closes its end.
Leave(c) ==
    /\ pc[c] \in Connected
    /\ c \notin left
    /\ left' = left \cup {c}
    /\ UNCHANGED <<relay, queue, pc, burst, sent>>

AttachWarmPublished(c) ==                       \* seeded fault
    /\ Enters(Handler(c)) /\ pc[c] = "attach"
    /\ PumpAlive
    /\ Continue(c, Snapshot)
    /\ CancelClose
    /\ Release
    /\ writer' = c
    /\ UNCHANGED <<server, await, upstream, buffer, call, left, sent, shown>>

AttachWarm(c) ==
    /\ Enters(Handler(c)) /\ pc[c] = "attach"
    /\ PumpAlive
    /\ Continue(c, Snapshot)
    /\ CancelClose
    /\ Release
    /\ UNCHANGED <<server, await, upstream, buffer, writer, call, left, sent,
                   shown>>

\* Six seconds without a keyframe, or the pump set the event.
KeyframeWaitUnbounded(c) ==                     \* seeded fault
    /\ pc[c] = "woken"
    /\ pc' = [pc EXCEPT ![c] = "resnap"]
    /\ Ask(Handler(c))
    /\ UNCHANGED <<relay, left, burst, sent>>

KeyframeWaitEnds(c) ==
    /\ pc[c] \in {"keyframe", "woken"}
    /\ pc' = [pc EXCEPT ![c] = "resnap"]
    /\ Ask(Handler(c))
    /\ UNCHANGED <<relay, left, burst, sent>>

\* With no burst to write the handler asks for the lock again at once.
Resnapshot(c) ==
    /\ Enters(Handler(c)) /\ pc[c] = "resnap"
    /\ burst' = [burst EXCEPT ![c] = Snapshot]
    /\ IF Snapshot # Nothing
       THEN /\ pc' = [pc EXCEPT ![c] = "burst"]
            /\ Release
       ELSE /\ pc' = [pc EXCEPT ![c] = "publish"]
            /\ queue' = Append(Tail(queue), Handler(c))
    /\ UNCHANGED <<relay, left, sent>>

WriteBurst(c) ==
    /\ pc[c] = "burst"
    /\ sent' = [sent EXCEPT ![c] = <<burst[c].session, burst[c].to>>]
    /\ burst' = [burst EXCEPT ![c] = Nothing]
    /\ pc' = [pc EXCEPT ![c] = "publish"]
    /\ Ask(Handler(c))
    /\ UNCHANGED <<relay, left>>

\* The early return from the try block; its finally clause still runs.
BurstBreaks(c) ==
    /\ "broken_pipe" \in Faults
    /\ pc[c] = "burst" /\ c \in left
    /\ burst' = [burst EXCEPT ![c] = Nothing]
    /\ pc' = [pc EXCEPT ![c] = "detach"]
    /\ Ask(Handler(c))
    /\ UNCHANGED <<relay, left, sent>>

Publish(c) ==
    /\ Enters(Handler(c)) /\ pc[c] = "publish"
    /\ writer' = c
    /\ Notify(c, PumpAlive)
    /\ pc' = [pc EXCEPT ![c] = "stream"]
    /\ Release
    /\ UNCHANGED <<server, await, upstream, buffer, timers, call, left, burst,
                   sent>>

\* The handler reads the viewer's EOF and enters its finally clause.
ReadEofReturns(c) ==                            \* seeded fault
    /\ pc[c] = "stream" /\ c \in left
    /\ pc' = [pc EXCEPT ![c] = "done"]
    /\ UNCHANGED <<relay, queue, left, burst, sent>>

ReadEof(c) ==
    /\ pc[c] = "stream" /\ c \in left
    /\ pc' = [pc EXCEPT ![c] = "detach"]
    /\ Ask(Handler(c))
    /\ UNCHANGED <<relay, left, burst, sent>>

\* The finally clause: only the registered writer arms the close timer.
Detach(c) ==
    /\ Enters(Handler(c)) /\ pc[c] = "detach"
    /\ pc' = [pc EXCEPT ![c] = "done"]
    /\ IF writer = c
       THEN /\ writer' = None
            /\ RescheduleClose(c)
            /\ Notify(None, PumpAlive)
       ELSE UNCHANGED <<writer, timers, shown>>
    /\ Release
    /\ UNCHANGED <<server, await, upstream, buffer, call, left, burst, sent>>

Handling(c) ==
    \/ AttachWarm(c) \/ KeyframeWaitEnds(c) \/ Resnapshot(c) \/ WriteBurst(c)
    \/ BurstBreaks(c) \/ Publish(c) \/ ReadEof(c) \/ Detach(c)
-----------------------------------------------------------------------------
(* async_prewarm *)

CallPrewarm(p) ==
    /\ call[p] = "new"
    /\ call' = [call EXCEPT ![p] = "queued"]
    /\ Ask(Prewarm(p))
    /\ UNCHANGED <<server, await, upstream, buffer, writer, timers, viewers,
                   shown>>

PrewarmRenews(p) ==
    /\ Enters(Prewarm(p)) /\ call[p] = "queued"
    /\ PumpAlive
    /\ RescheduleClose(p)
    /\ call' = [call EXCEPT ![p] = "done"]
    /\ Release
    /\ UNCHANGED <<server, await, upstream, buffer, writer, viewers, shown>>
-----------------------------------------------------------------------------
(* The close timer and _maybe_close_upstream *)

\* The timer's callback creates the closer's task: from here on
\* _cancel_close has no effect on it.
TimerFires(t) ==
    /\ closer[t] = "armed"
    /\ closer' = [closer EXCEPT ![t] = "spawned"]
    /\ UNCHANGED <<server, queue, await, upstream, buffer, writer, handle,
                   call, viewers, shown>>

CloserStarts(t) ==
    /\ closer[t] = "spawned"
    /\ closer' = [closer EXCEPT ![t] = "queued"]
    /\ Ask(Closer(t))
    /\ UNCHANGED <<server, await, upstream, buffer, writer, handle, call,
                   viewers, shown>>

CloserDeclines(t) ==
    /\ Enters(Closer(t)) /\ closer[t] = "queued"
    /\ writer # None \/ ~PumpAlive
    /\ handle' = None
    /\ closer' = [closer EXCEPT ![t] = "off"]
    /\ Release
    /\ UNCHANGED <<server, await, upstream, buffer, writer, call, viewers,
                   shown>>

\* The closer has forgotten the handle before the teardown cancels it, so a
\* timer armed since this one fired stays armed.
CloserIgnoresWriter(t) ==                       \* seeded fault
    /\ Enters(Closer(t)) /\ closer[t] = "queued"
    /\ PumpAlive
    /\ handle' = None
    /\ closer' = [closer EXCEPT ![t] = "closing"]
    /\ Teardown
    /\ UNCHANGED <<server, queue, writer, call, viewers, shown>>

CloserCloses(t) ==
    /\ Enters(Closer(t)) /\ closer[t] = "queued"
    /\ writer = None /\ PumpAlive
    /\ handle' = None
    /\ closer' = [closer EXCEPT ![t] = "closing"]
    /\ Teardown
    /\ UNCHANGED <<server, queue, writer, call, viewers, shown>>

Closing(t) ==
    TimerFires(t) \/ CloserStarts(t) \/ CloserDeclines(t) \/ CloserCloses(t)
-----------------------------------------------------------------------------
(* The pump *)

\* A chunk comes with a new keyframe (k) or without one; the decoder lets a
\* session's output begin only at a keyframe.  The chunk is written to the
\* registered writer, unless its transport is closing already; the drain that
\* follows may suspend the pump.
PumpReads ==
    /\ pump = "reading"
    /\ tail < MaxUnits
    /\ tail' = tail + 1
    /\ \E k \in BOOLEAN :
          /\ tail = 0 => k
          /\ keyframe' = IF k THEN tail + 1 ELSE keyframe
    /\ seen' = (seen \/ tail' - keyframe' >= MinTail)
    /\ pc' = [c \in Clients |->
                 IF seen' /\ pc[c] = "keyframe" THEN "woken" ELSE pc[c]]
    /\ \/ /\ writer # None
          /\ sent' = [sent EXCEPT ![writer] = <<lan, tail + 1>>]
          /\ pump' = "draining" /\ sink' = writer
       \/ /\ writer = None \/ writer \in left
          /\ UNCHANGED <<sent, pump, sink>>
    /\ UNCHANGED <<server, queue, await, lan, closing, started, open, ended,
                   writer, timers, call, left, burst, shown>>

PumpDrained ==
    /\ pump = "draining"
    /\ pump' = "reading" /\ sink' = None
    /\ UNCHANGED <<server, queue, await, lan, closing, started, open, ended,
                   buffer, writer, timers, call, viewers, shown>>

\* The viewer has gone: the pump forgets it, if it is still the writer.
PumpBreaks ==
    /\ "broken_pipe" \in Faults
    /\ pump = "draining" /\ sink \in left
    /\ pump' = "reading" /\ sink' = None
    /\ IF writer = sink
       THEN /\ writer' = None
            /\ Notify(None, TRUE)
       ELSE UNCHANGED <<writer, shown>>
    /\ UNCHANGED <<server, queue, await, lan, closing, started, open, ended,
                   buffer, timers, call, viewers>>

\* No more bytes, or an error: the task ends and leaves all else as it is.
PumpEnds ==
    /\ "eof" \in Faults
    /\ PumpAlive
    /\ pump' = "done" /\ sink' = None
    /\ ended' = ended \cup {lan}
    /\ UNCHANGED <<server, queue, await, lan, closing, started, open, buffer,
                   writer, timers, call, viewers, shown>>

Pumping == PumpReads \/ PumpDrained \/ PumpBreaks \/ PumpEnds
-----------------------------------------------------------------------------
(* async_stop *)

CallStop ==
    /\ server = "up"
    /\ server' = "closing"
    /\ UNCHANGED <<queue, await, upstream, buffer, writer, timers, call,
                   viewers, shown>>

\* wait_closed() returns once every transport is detached from the server: by the
\* handler that ends, or by a reset.  A reset wakes a handler that waits for EOF,
\* which is in line for the lock before the stop is; one that attaches goes on.
StopWaited ==
    /\ server = "closing"
    /\ \A c \in Clients : pc[c] \in Connected =>
          "broken_pipe" \in Faults /\ c \in left /\ pc[c] # "stream"
    /\ server' = "stopping"
    /\ Ask(Stopper)
    /\ UNCHANGED <<await, upstream, buffer, writer, timers, call, viewers,
                   shown>>

StopCloses ==
    /\ Enters(Stopper) /\ server = "stopping"
    /\ CancelClose
    /\ Teardown
    /\ UNCHANGED <<server, queue, writer, call, viewers, shown>>

Stopping == StopWaited \/ StopCloses
-----------------------------------------------------------------------------
\* Nothing is under way and no call is left to make: the event loop idles, but
\* for a pump that waits for the doorbell.
Idle ==
    /\ server = "down"
    /\ queue = <<>>
    /\ \A c \in Clients : pc[c] \in {"new", "done"}
    /\ \A p \in Prewarms : call[p] = "done"
    /\ \A t \in Timers : closer[t] = "off"
    /\ UNCHANGED vars

Next ==
    \/ Session
    \/ \E c \in Clients : Connect(c) \/ Leave(c) \/ Handling(c)
    \/ \E p \in Prewarms : CallPrewarm(p) \/ PrewarmRenews(p)
    \/ \E t \in Timers : Closing(t)
    \/ Pumping
    \/ CallStop
    \/ Stopping
    \/ Idle

\* The event loop runs every task that can run, timers expire, and what the
\* lock's owner awaits ends (the sockets have timeouts).  Nobody has to
\* connect, leave, reset its connection, call, send or fail, and writing to a
\* viewer that has not left may take for ever.
Fairness ==
    /\ WF_vars(Session)
    /\ \A c \in Clients :
          WF_vars((pc[c] = "burst" => c \in left) /\ Handling(c))
    /\ \A p \in Prewarms : WF_vars(PrewarmRenews(p))
    /\ \A t \in Timers : WF_vars(Closing(t))
    /\ WF_vars((server = "closing" => \A c \in Clients : pc[c] \notin Connected)
                  /\ Stopping)

Spec == Init /\ [][Next]_vars
FairSpec == Spec /\ Fairness
-----------------------------------------------------------------------------
(* Safety *)

\* The live pump reads the session that _lan refers to, and it is open: no
\* task closes or replaces a session that is being pumped.
PumpOwnsSession == PumpAlive => lan # 0 /\ lan \in open

\* _writer is the writer of a connection whose handler is still between the
\* publication and its finally clause: the pump never writes to, and
\* has_active_viewer never reports, a connection that was closed.
WriterIsConnected ==
    writer # None => pc[writer] \in {"stream", "detach"}

\* A session that is open is the current one, or is being closed, or its pump
\* ended by itself: only the end of the upstream makes the relay lose one.
LeakOnlyAfterEof == open \subseteq {lan, closing} \cup ended

\* The camera entity was told of the last change of has_active_viewer.
ViewerShown == shown.viewer <=> writer # None

\* Pump, session, writer and listener agree under every fault, although the
\* pump ends and forgets its writer without the lock (tcp_relay.py:592, 648):
\* the live pump reads the current, open session, the registered writer is a
\* live connection, and the entity knows whether there is one.
RelayConsistent == PumpOwnsSession /\ WriterIsConnected /\ ViewerShown

\* "Only one upstream LAN session exists at a time" (tcp_relay.py:22).
OneSession == \A s1, s2 \in open : s1 = s2

\* A warm session that nobody watches has a closer on its way, or a viewer
\* that is still attaching to it: it cannot stay open for ever.
WarmHasCloser ==
    PumpAlive /\ writer = None =>
        \/ \E t \in Timers : closer[t] \in {"armed", "spawned", "queued"}
        \/ \E c \in Clients : pc[c] \in Attaching

\* _keyframe_seen is set only after the current session has had a complete
\* keyframe (tcp_relay.py:201-206), unless the session before it has ended by
\* itself: a teardown clears the event, a spin-up after EOF alone does not.
SeenIsFresh == seen => tail > MinTail \/ \E s \in ended : lan = s + 1

\* The camera entity was told of the last change of has_active_viewer and of
\* is_warm (tcp_relay.py:188-191), except while a teardown is under way: it shows
\* no warm session that is not, but the current one if that has ended by itself.
EntityShowsRelay ==
    /\ ViewerShown
    /\ await # "teardown" =>
          /\ PumpAlive => shown.warm
          /\ shown.warm => PumpAlive \/ lan \in ended
-----------------------------------------------------------------------------
(* The relay implements the specification of its upstream session: the task *)
(* that owns the lock is the operation under way, the live pump is what     *)
(* makes a session deliver, and who watches is the registered writer as     *)
(* long as it has not left.                                                 *)

Phase == IF await = "spin" THEN "opening"
         ELSE IF await = "teardown" THEN "closing" ELSE "free"

Watched == writer # None /\ writer \notin left

Upstream == INSTANCE UpstreamSession
              WITH phase <- Phase, current <- lan, leaving <- closing,
                   count <- started, alive <- PumpAlive,
                   watched <- Watched

\* Whatever viewers, pre-warm calls and closers do, sessions are opened and
\* closed one at a time, none is closed while it delivers to a viewer, and
\* none is lost but one that had ended by itself (UpstreamSession).
ImplementsUpstream == Upstream!Spec
-----------------------------------------------------------------------------
(* Action properties *)

\* A viewer is sent a session's chunks in their order and none twice, the
\* burst before the live bytes, and never an older session's after a newer's.
SentInOrder ==
    \A c \in Clients : sent'[c] # sent[c] => Precedes(sent[c], sent'[c])

InOrder == [][SentInOrder]_vars

\* "A client connected after the timer was scheduled" keeps the session
\* (tcp_relay.py:711-712), also while its handler is still attaching.
AttachingKeepsSession ==
    [][PumpAlive /\ pump' = "none" => \A c \in Clients : pc[c] \notin Attaching]_vars
-----------------------------------------------------------------------------
(* Liveness, under FairSpec *)

\* A handler whose viewer has left ends, and its connection is closed.
AbandonedEnds == \A c \in Clients : (c \in left) ~> (pc[c] = "done")

\* async_stop returns once every viewer has left.
StopReturns ==
    (server = "closing" /\ \A c \in Clients : pc[c] \in Connected => c \in left)
        ~> (server = "down")

\* A warm session does not stay for ever without a viewer, or one that is
\* being served its burst.
IdleSessionEnds ==
    []<>(\/ ~PumpAlive
         \/ writer # None
         \/ \E c \in Clients : pc[c] = "burst")
=============================================================================
