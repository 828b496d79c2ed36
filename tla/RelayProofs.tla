---------------------------- MODULE RelayProofs ----------------------------
(***************************************************************************)
(* Theorems about Relay, for every set of connections and pre-warm calls,  *)
(* every bound and every set of faults.                                    *)
(***************************************************************************)
EXTENDS Relay, SequenceTheorems, TLAPS

USE NamesAssumption, BoundsAssumption DEF Timers

-----------------------------------------------------------------------------
(* Type correctness *)

\* Every task's name is a member of Tasks.
LEMMA TasksTyped ==
    /\ \A c \in Clients : Handler(c) \in Tasks
    /\ \A p \in Prewarms : Prewarm(p) \in Tasks
    /\ \A t \in Timers : Closer(t) \in Tasks
    /\ Stopper \in Tasks
BY DEF Tasks, Handler, Prewarm, Closer, Stopper

\* Asking for the lock and releasing it keep the queue one of tasks.
LEMMA QueueTyped ==
    ASSUME NEW t \in Tasks, queue \in Seq(Tasks)
    PROVE  /\ Append(queue, t) \in Seq(Tasks)
           /\ queue # <<>> => Tail(queue) \in Seq(Tasks)
           /\ queue # <<>> => Append(Tail(queue), t) \in Seq(Tasks)
BY AppendProperties, HeadTailProperties

\* The shared parts of the actions keep the types of what they change.
LEMMA TeardownTyped ==
    ASSUME UpstreamOK, Teardown PROVE UpstreamOK' /\ BufferOK'
<1>1. UpstreamOK'
  <2>1. lan' \in 0 .. started' /\ closing' \in 0 .. started'
    BY DEF UpstreamOK, Teardown
  <2>2. open' \subseteq Sessions' /\ ended' \subseteq 0 .. started'
    BY DEF UpstreamOK, Teardown, Sessions
  <2>3. pump' = "none" /\ sink' = None /\ started' \in Nat
    BY DEF UpstreamOK, Teardown
  <2> QED
    BY <2>1, <2>2, <2>3 DEF UpstreamOK
<1>2. BufferOK'
  BY DEF BufferOK, Teardown
<1> QED
  BY <1>1, <1>2

LEMMA SpinUpTyped ==
    ASSUME UpstreamOK, SpinUp, seen \in BOOLEAN PROVE UpstreamOK' /\ BufferOK'
BY DEF UpstreamOK, BufferOK, SpinUp, Sessions

LEMMA CancelTyped ==
    ASSUME TimersOK, CancelClose PROVE TimersOK'
BY DEF TimersOK, CancelClose, CancelledTimers

LEMMA RescheduleTyped ==
    ASSUME TimersOK, NEW t \in Timers, RescheduleClose(t) PROVE TimersOK'
BY DEF TimersOK, RescheduleClose, CancelledTimers

\* A task that reschedules the close leaves its own timer armed.
LEMMA RescheduleArms ==
    ASSUME TimersOK, NEW t \in Timers, RescheduleClose(t)
    PROVE  closer'[t] = "armed"
BY DEF TimersOK, RescheduleClose, CancelledTimers

\* A snapshot is a burst.
LEMMA SnapshotTyped ==
    ASSUME UpstreamOK, BufferOK PROVE Snapshot \in Bursts
BY DEF UpstreamOK, BufferOK, Snapshot, Bursts, Nothing

\* is_warm is a truth value.
LEMMA PumpAliveTyped == PumpAlive \in BOOLEAN
BY DEF PumpAlive

\* What the listener is shown has its type.
LEMMA NotifyTyped ==
    ASSUME NEW w, NEW alive \in BOOLEAN, Notify(w, alive)
    PROVE  shown' \in [viewer : BOOLEAN, warm : BOOLEAN]
BY DEF Notify

\* The listener is shown whether there is a writer.
LEMMA NotifyShows ==
    ASSUME NEW w, NEW alive, Notify(w, alive)
    PROVE  shown'.viewer <=> w # None
BY DEF Notify

\* What a step leaves alone keeps its type.
LEMMA FrameTyped ==
    /\ LockOK /\ UNCHANGED <<queue, await>> => LockOK'
    /\ UpstreamOK /\ UNCHANGED upstream => UpstreamOK'
    /\ BufferOK /\ UNCHANGED buffer => BufferOK'
    /\ TimersOK /\ UNCHANGED timers => TimersOK'
    /\ TasksOK /\ UNCHANGED <<server, pc, call>> => TasksOK'
    /\ ViewersOK /\ UNCHANGED <<writer, left, burst, sent, shown>> => ViewersOK'
BY DEF LockOK, UpstreamOK, BufferOK, TimersOK, TasksOK, ViewersOK, upstream,
       buffer, timers, Sessions

\* The initial state is typed.
LEMMA TypeInit == Init => TypeOK
<1> SUFFICES ASSUME Init PROVE TypeOK
  OBVIOUS
<1>1. LockOK
  BY EmptySeq DEF Init, LockOK
<1>2. UpstreamOK
  BY DEF Init, UpstreamOK, Sessions
<1>3. BufferOK
  BY DEF Init, BufferOK
<1>4. TimersOK
  BY DEF Init, TimersOK
<1>5. TasksOK
  BY DEF Init, TasksOK
<1>6. ViewersOK
  BY DEF Init, ViewersOK, Bursts, Position, Nothing
<1> QED
  BY <1>1, <1>2, <1>3, <1>4, <1>5, <1>6 DEF TypeOK

\* Every step keeps the types; one step per action, and one under it for each
\* part of the state the action changes.
LEMMA TypeNext == TypeOK /\ [Next]_vars => TypeOK'
<1> SUFFICES ASSUME TypeOK, [Next]_vars PROVE TypeOK'
  OBVIOUS
<1> USE DEF TypeOK
<1>1. ASSUME SpinUpStarts PROVE TypeOK'
  <2>1. LockOK'
    BY <1>1 DEF SpinUpStarts, LockOK, relay, upstream, buffer, timers,
       viewers
  <2> QED
    BY <1>1, <2>1, FrameTyped DEF SpinUpStarts, relay, upstream, buffer,
       timers, viewers
<1>2. ASSUME SpinUpSucceeds PROVE TypeOK'
  <2>1. LockOK'
    BY <1>2, TasksTyped, QueueTyped DEF SpinUpSucceeds, LockOK, Release,
       Owns, relay, upstream, buffer, timers, viewers
  <2>2. UpstreamOK'
    BY <1>2, SpinUpTyped DEF SpinUpSucceeds, BufferOK, relay, upstream,
       buffer, timers, viewers
  <2>3. BufferOK'
    BY <1>2, SpinUpTyped DEF SpinUpSucceeds, BufferOK, relay, upstream,
       buffer, timers, viewers
  <2>4. TimersOK'
    BY <1>2, CancelTyped, RescheduleTyped DEF SpinUpSucceeds, relay,
       upstream, buffer, timers, viewers
  <2>5. TasksOK'
    BY <1>2 DEF SpinUpSucceeds, TasksOK, Connected, Attaching, Continue,
       relay, upstream, buffer, timers, viewers
  <2>6. ViewersOK'
    <3>1. burst' \in [Clients -> Bursts]
      BY <1>2 DEF SpinUpSucceeds, Continue, ViewersOK, Nothing, Bursts
    <3>2. shown' \in [viewer : BOOLEAN, warm : BOOLEAN]
      BY <1>2, NotifyTyped DEF SpinUpSucceeds
    <3> QED
      BY <1>2, <3>1, <3>2 DEF SpinUpSucceeds, ViewersOK
  <2> QED
    BY <1>2, <2>1, <2>2, <2>3, <2>4, <2>5, <2>6, FrameTyped DEF
       SpinUpSucceeds, relay, upstream, buffer, timers, viewers
<1>3. ASSUME SpinUpFails PROVE TypeOK'
  <2>1. LockOK'
    BY <1>3 DEF SpinUpFails, LockOK, Teardown, relay, upstream, buffer,
       timers, viewers
  <2>2. UpstreamOK'
    BY <1>3, TeardownTyped DEF SpinUpFails, relay, upstream, buffer, timers,
       viewers
  <2>3. BufferOK'
    BY <1>3, TeardownTyped DEF SpinUpFails, relay, upstream, buffer, timers,
       viewers
  <2>4. TimersOK'
    BY <1>3, CancelTyped DEF SpinUpFails, relay, upstream, buffer, timers,
       viewers
  <2> QED
    BY <1>3, <2>1, <2>2, <2>3, <2>4, FrameTyped DEF SpinUpFails, relay,
       upstream, buffer, timers, viewers
<1>4. ASSUME TeardownEnds PROVE TypeOK'
  <2>1. LockOK'
    BY <1>4, TasksTyped, QueueTyped DEF TeardownEnds, LockOK, Release, Owns,
       relay, upstream, buffer, timers, viewers
  <2>2. UpstreamOK'
    BY <1>4 DEF TeardownEnds, UpstreamOK, Sessions, relay, upstream, buffer,
       timers, viewers
  <2>3. TimersOK'
    BY <1>4 DEF TeardownEnds, TimersOK, relay, upstream, buffer, timers,
       viewers
  <2>4. TasksOK'
    BY <1>4 DEF TeardownEnds, TasksOK, Connected, Attaching, relay, upstream,
       buffer, timers, viewers
  <2>5. ViewersOK'
    BY <1>4, NotifyTyped, PumpAliveTyped DEF TeardownEnds, ViewersOK, relay,
       upstream, buffer, timers, viewers
  <2> QED
    BY <1>4, <2>1, <2>2, <2>3, <2>4, <2>5, FrameTyped DEF TeardownEnds,
       relay, upstream, buffer, timers, viewers
<1>5. ASSUME NEW c \in Clients, Connect(c) PROVE TypeOK'
  <2>1. LockOK'
    BY <1>5, TasksTyped, QueueTyped DEF Connect, LockOK, Ask, relay,
       upstream, buffer, timers, viewers
  <2>2. TasksOK'
    BY <1>5 DEF Connect, TasksOK, Connected, Attaching, relay, upstream,
       buffer, timers, viewers
  <2> QED
    BY <1>5, <2>1, <2>2, FrameTyped DEF Connect, relay, upstream, buffer,
       timers, viewers
<1>6. ASSUME NEW c \in Clients, Leave(c) PROVE TypeOK'
  <2>1. ViewersOK'
    BY <1>6 DEF Leave, ViewersOK, relay, upstream, buffer, timers, viewers
  <2> QED
    BY <1>6, <2>1, FrameTyped DEF Leave, relay, upstream, buffer, timers,
       viewers
<1>7. ASSUME NEW c \in Clients, AttachWarm(c) PROVE TypeOK'
  <2>1. LockOK'
    BY <1>7, TasksTyped, QueueTyped DEF AttachWarm, LockOK, Release, Enters,
       Owns, relay, upstream, buffer, timers, viewers
  <2>2. TimersOK'
    BY <1>7, CancelTyped DEF AttachWarm, relay, upstream, buffer, timers,
       viewers
  <2>3. TasksOK'
    BY <1>7 DEF AttachWarm, TasksOK, Connected, Attaching, Continue, relay,
       upstream, buffer, timers, viewers
  <2>4. ViewersOK'
    BY <1>7, SnapshotTyped DEF AttachWarm, ViewersOK, Continue, relay,
       upstream, buffer, timers, viewers
  <2> QED
    BY <1>7, <2>1, <2>2, <2>3, <2>4, FrameTyped DEF AttachWarm, relay,
       upstream, buffer, timers, viewers
<1>8. ASSUME NEW c \in Clients, KeyframeWaitEnds(c) PROVE TypeOK'
  <2>1. LockOK'
    BY <1>8, TasksTyped, QueueTyped DEF KeyframeWaitEnds, LockOK, Ask, relay,
       upstream, buffer, timers, viewers
  <2>2. TasksOK'
    BY <1>8 DEF KeyframeWaitEnds, TasksOK, Connected, Attaching, relay,
       upstream, buffer, timers, viewers
  <2> QED
    BY <1>8, <2>1, <2>2, FrameTyped DEF KeyframeWaitEnds, relay, upstream,
       buffer, timers, viewers
<1>9. ASSUME NEW c \in Clients, Resnapshot(c) PROVE TypeOK'
  <2>1. LockOK'
    BY <1>9, TasksTyped, QueueTyped DEF Resnapshot, LockOK, Release, Enters,
       Owns, relay, upstream, buffer, timers, viewers
  <2>2. TasksOK'
    BY <1>9 DEF Resnapshot, TasksOK, Connected, Attaching, relay, upstream,
       buffer, timers, viewers
  <2>3. ViewersOK'
    BY <1>9, SnapshotTyped DEF Resnapshot, ViewersOK, relay, upstream,
       buffer, timers, viewers
  <2> QED
    BY <1>9, <2>1, <2>2, <2>3, FrameTyped DEF Resnapshot, relay, upstream,
       buffer, timers, viewers
<1>10. ASSUME NEW c \in Clients, WriteBurst(c) PROVE TypeOK'
  <2>1. LockOK'
    BY <1>10, TasksTyped, QueueTyped DEF WriteBurst, LockOK, Ask, relay,
       upstream, buffer, timers, viewers
  <2>2. TasksOK'
    BY <1>10 DEF WriteBurst, TasksOK, Connected, Attaching, relay, upstream,
       buffer, timers, viewers
  <2>3. ViewersOK'
    BY <1>10 DEF WriteBurst, ViewersOK, Nothing, Bursts, Position, relay,
       upstream, buffer, timers, viewers
  <2> QED
    BY <1>10, <2>1, <2>2, <2>3, FrameTyped DEF WriteBurst, relay, upstream,
       buffer, timers, viewers
<1>11. ASSUME NEW c \in Clients, BurstBreaks(c) PROVE TypeOK'
  <2>1. LockOK'
    BY <1>11, TasksTyped, QueueTyped DEF BurstBreaks, LockOK, Ask, relay,
       upstream, buffer, timers, viewers
  <2>2. TasksOK'
    BY <1>11 DEF BurstBreaks, TasksOK, Connected, Attaching, relay, upstream,
       buffer, timers, viewers
  <2>3. ViewersOK'
    BY <1>11 DEF BurstBreaks, ViewersOK, Nothing, Bursts, relay, upstream,
       buffer, timers, viewers
  <2> QED
    BY <1>11, <2>1, <2>2, <2>3, FrameTyped DEF BurstBreaks, relay, upstream,
       buffer, timers, viewers
<1>12. ASSUME NEW c \in Clients, Publish(c) PROVE TypeOK'
  <2>1. LockOK'
    BY <1>12, TasksTyped, QueueTyped DEF Publish, LockOK, Release, Enters,
       Owns, relay, upstream, buffer, timers, viewers
  <2>2. TasksOK'
    BY <1>12 DEF Publish, TasksOK, Connected, Attaching, relay, upstream,
       buffer, timers, viewers
  <2>3. ViewersOK'
    BY <1>12, NotifyTyped, PumpAliveTyped DEF Publish, ViewersOK, relay,
       upstream, buffer, timers, viewers
  <2> QED
    BY <1>12, <2>1, <2>2, <2>3, FrameTyped DEF Publish, relay, upstream,
       buffer, timers, viewers
<1>13. ASSUME NEW c \in Clients, ReadEof(c) PROVE TypeOK'
  <2>1. LockOK'
    BY <1>13, TasksTyped, QueueTyped DEF ReadEof, LockOK, Ask, relay,
       upstream, buffer, timers, viewers
  <2>2. TasksOK'
    BY <1>13 DEF ReadEof, TasksOK, Connected, Attaching, relay, upstream,
       buffer, timers, viewers
  <2> QED
    BY <1>13, <2>1, <2>2, FrameTyped DEF ReadEof, relay, upstream, buffer,
       timers, viewers
<1>14. ASSUME NEW c \in Clients, Detach(c) PROVE TypeOK'
  <2>1. LockOK'
    BY <1>14, TasksTyped, QueueTyped DEF Detach, LockOK, Release, Enters,
       Owns, relay, upstream, buffer, timers, viewers
  <2>2. TimersOK'
    BY <1>14, RescheduleTyped, FrameTyped DEF Detach, relay, upstream,
       buffer, timers, viewers
  <2>3. TasksOK'
    BY <1>14 DEF Detach, TasksOK, Connected, Attaching, relay, upstream,
       buffer, timers, viewers
  <2>4. ViewersOK'
    <3>1. CASE writer = c
      BY <1>14, <3>1, NotifyTyped, PumpAliveTyped
      DEF Detach, ViewersOK, viewers
    <3>2. CASE writer # c
      BY <1>14, <3>2 DEF Detach, ViewersOK, viewers
    <3> QED
      BY <3>1, <3>2
  <2> QED
    BY <1>14, <2>1, <2>2, <2>3, <2>4, FrameTyped DEF Detach, relay, upstream,
       buffer, timers, viewers
<1>15. ASSUME NEW p \in Prewarms, CallPrewarm(p) PROVE TypeOK'
  <2>1. LockOK'
    BY <1>15, TasksTyped, QueueTyped DEF CallPrewarm, LockOK, Ask, relay,
       upstream, buffer, timers, viewers
  <2>2. TasksOK'
    BY <1>15 DEF CallPrewarm, TasksOK, relay, upstream, buffer, timers,
       viewers
  <2> QED
    BY <1>15, <2>1, <2>2, FrameTyped DEF CallPrewarm, relay, upstream,
       buffer, timers, viewers
<1>16. ASSUME NEW p \in Prewarms, PrewarmRenews(p) PROVE TypeOK'
  <2>1. LockOK'
    BY <1>16, TasksTyped, QueueTyped DEF PrewarmRenews, LockOK, Release,
       Enters, Owns, relay, upstream, buffer, timers, viewers
  <2>2. TimersOK'
    BY <1>16, RescheduleTyped DEF PrewarmRenews, relay, upstream, buffer,
       timers, viewers
  <2>3. TasksOK'
    BY <1>16 DEF PrewarmRenews, TasksOK, relay, upstream, buffer, timers,
       viewers
  <2> QED
    BY <1>16, <2>1, <2>2, <2>3, FrameTyped DEF PrewarmRenews, relay,
       upstream, buffer, timers, viewers
<1>17. ASSUME NEW t \in Timers, TimerFires(t) PROVE TypeOK'
  <2>1. TimersOK'
    BY <1>17 DEF TimerFires, TimersOK, relay, upstream, buffer, timers,
       viewers
  <2> QED
    BY <1>17, <2>1, FrameTyped DEF TimerFires, relay, upstream, buffer,
       timers, viewers
<1>18. ASSUME NEW t \in Timers, CloserStarts(t) PROVE TypeOK'
  <2>1. LockOK'
    BY <1>18, TasksTyped, QueueTyped DEF CloserStarts, LockOK, Ask, relay,
       upstream, buffer, timers, viewers
  <2>2. TimersOK'
    BY <1>18 DEF CloserStarts, TimersOK, relay, upstream, buffer, timers,
       viewers
  <2> QED
    BY <1>18, <2>1, <2>2, FrameTyped DEF CloserStarts, relay, upstream,
       buffer, timers, viewers
<1>19. ASSUME NEW t \in Timers, CloserDeclines(t) PROVE TypeOK'
  <2>1. LockOK'
    BY <1>19, TasksTyped, QueueTyped DEF CloserDeclines, LockOK, Release,
       Enters, Owns, relay, upstream, buffer, timers, viewers
  <2>2. TimersOK'
    BY <1>19 DEF CloserDeclines, TimersOK, relay, upstream, buffer, timers,
       viewers
  <2> QED
    BY <1>19, <2>1, <2>2, FrameTyped DEF CloserDeclines, relay, upstream,
       buffer, timers, viewers
<1>20. ASSUME NEW t \in Timers, CloserCloses(t) PROVE TypeOK'
  <2>1. LockOK'
    BY <1>20 DEF CloserCloses, LockOK, Teardown, relay, upstream, buffer,
       timers, viewers
  <2>2. UpstreamOK'
    BY <1>20, TeardownTyped DEF CloserCloses, relay, upstream, buffer,
       timers, viewers
  <2>3. BufferOK'
    BY <1>20, TeardownTyped DEF CloserCloses, relay, upstream, buffer,
       timers, viewers
  <2>4. TimersOK'
    BY <1>20 DEF CloserCloses, TimersOK, relay, upstream, buffer, timers,
       viewers
  <2> QED
    BY <1>20, <2>1, <2>2, <2>3, <2>4, FrameTyped DEF CloserCloses, relay,
       upstream, buffer, timers, viewers
<1>21. ASSUME PumpReads PROVE TypeOK'
  <2>1. UpstreamOK'
    BY <1>21 DEF PumpReads, UpstreamOK, Sessions, ViewersOK, relay, upstream,
       buffer, timers, viewers
  <2>2. BufferOK'
    BY <1>21 DEF PumpReads, BufferOK, ViewersOK, relay, upstream, buffer,
       timers, viewers
  <2>3. TasksOK'
    BY <1>21 DEF PumpReads, TasksOK, Connected, Attaching, relay, upstream,
       buffer, timers, viewers
  <2>4. ViewersOK'
    BY <1>21 DEF PumpReads, ViewersOK, UpstreamOK, BufferOK, Position, relay,
       upstream, buffer, timers, viewers
  <2> QED
    BY <1>21, <2>1, <2>2, <2>3, <2>4, FrameTyped DEF PumpReads, relay,
       upstream, buffer, timers, viewers
<1>22. ASSUME PumpDrained PROVE TypeOK'
  <2>1. UpstreamOK'
    BY <1>22 DEF PumpDrained, UpstreamOK, Sessions, relay, upstream, buffer,
       timers, viewers
  <2> QED
    BY <1>22, <2>1, FrameTyped DEF PumpDrained, relay, upstream, buffer,
       timers, viewers
<1>23. ASSUME PumpBreaks PROVE TypeOK'
  <2>1. UpstreamOK'
    BY <1>23 DEF PumpBreaks, UpstreamOK, Sessions, relay, upstream, buffer,
       timers, viewers
  <2>2. ViewersOK'
    BY <1>23, NotifyTyped DEF PumpBreaks, ViewersOK, relay, upstream, buffer,
       timers, viewers
  <2> QED
    BY <1>23, <2>1, <2>2, FrameTyped DEF PumpBreaks, relay, upstream, buffer,
       timers, viewers
<1>24. ASSUME PumpEnds PROVE TypeOK'
  <2>1. UpstreamOK'
    BY <1>24 DEF PumpEnds, UpstreamOK, Sessions, PumpAlive, relay, upstream,
       buffer, timers, viewers
  <2> QED
    BY <1>24, <2>1, FrameTyped DEF PumpEnds, relay, upstream, buffer, timers,
       viewers
<1>25. ASSUME CallStop PROVE TypeOK'
  <2>1. TasksOK'
    BY <1>25 DEF CallStop, TasksOK, relay, upstream, buffer, timers, viewers
  <2> QED
    BY <1>25, <2>1, FrameTyped DEF CallStop, relay, upstream, buffer, timers,
       viewers
<1>26. ASSUME StopWaited PROVE TypeOK'
  <2>1. LockOK'
    BY <1>26, TasksTyped, QueueTyped DEF StopWaited, LockOK, Ask, relay,
       upstream, buffer, timers, viewers
  <2>2. TasksOK'
    BY <1>26 DEF StopWaited, TasksOK, relay, upstream, buffer, timers,
       viewers
  <2> QED
    BY <1>26, <2>1, <2>2, FrameTyped DEF StopWaited, relay, upstream, buffer,
       timers, viewers
<1>27. ASSUME StopCloses PROVE TypeOK'
  <2>1. LockOK'
    BY <1>27 DEF StopCloses, LockOK, Teardown, relay, upstream, buffer,
       timers, viewers
  <2>2. UpstreamOK'
    BY <1>27, TeardownTyped DEF StopCloses, relay, upstream, buffer, timers,
       viewers
  <2>3. BufferOK'
    BY <1>27, TeardownTyped DEF StopCloses, relay, upstream, buffer, timers,
       viewers
  <2>4. TimersOK'
    BY <1>27, CancelTyped DEF StopCloses, relay, upstream, buffer, timers,
       viewers
  <2> QED
    BY <1>27, <2>1, <2>2, <2>3, <2>4, FrameTyped DEF StopCloses, relay,
       upstream, buffer, timers, viewers
<1>28. CASE UNCHANGED vars
  BY <1>28, FrameTyped DEF vars, relay, upstream, buffer, timers, viewers
<1> QED
  BY <1>1, <1>2, <1>3, <1>4, <1>5, <1>6, <1>7, <1>8, <1>9, <1>10, <1>11,
     <1>12, <1>13, <1>14, <1>15, <1>16, <1>17, <1>18, <1>19, <1>20, <1>21,
     <1>22, <1>23, <1>24, <1>25, <1>26, <1>27, <1>28 DEF Next, Session,
     Handling, Closing, Pumping, Stopping, Idle

\* The values of the relay's state stay in their sets.
THEOREM TypeCorrect == Spec => []TypeOK
<1>1. Init => TypeOK
  BY TypeInit
<1>2. TypeOK /\ [Next]_vars => TypeOK'
  BY TypeNext
<1> QED
  BY <1>1, <1>2, PTL DEF Spec

-----------------------------------------------------------------------------
(* The relay implements the specification of its upstream session *)

\* async_stop gets past wait_closed() only when every viewer has left, and the
\* server has accepted none since.
StoppedQuiet ==
    server \in {"stopping", "down"} =>
        \A c \in Clients : pc[c] \in Connected => c \in left

Bookkeeping == WriterIsConnected /\ ViewerShown /\ StoppedQuiet

\* The upstream's invariant is there for the closings: a task that failed to
\* open a session closes one that does not deliver.  The registered writer's
\* handler has not ended, so the stop finds no writer but one that has left.
IInv == TypeOK /\ Bookkeeping /\ Upstream!Inv

\* The relay starts without a session.
LEMMA UpstreamInit == Init => Upstream!Init
BY DEF Init, Upstream!Init, Phase, PumpAlive, Watched

\* Each step is an operation on the upstream session, or none.
LEMMA UpstreamNext == IInv /\ [Next]_vars => [Upstream!Next]_(Upstream!vars)
<1> DEFINE Step == [Upstream!Next]_(Upstream!vars)
<1> SUFFICES ASSUME IInv, [Next]_vars PROVE Step
  OBVIOUS
<1> USE DEF IInv
<1>1. ASSUME SpinUpStarts PROVE Step
  BY <1>1 DEF SpinUpStarts, Step, Phase, PumpAlive, Watched, Upstream!Next,
     Upstream!Open, Enters, relay, upstream, buffer, timers, viewers
<1>2. ASSUME SpinUpSucceeds PROVE Step
  BY <1>2 DEF SpinUpSucceeds, Step, Phase, PumpAlive, Watched, Upstream!Next,
     Upstream!Opened, SpinUp, relay, upstream, buffer, timers, viewers
<1>3. ASSUME SpinUpFails PROVE Step
  BY <1>3 DEF SpinUpFails, Step, Phase, PumpAlive, Watched, Upstream!Next,
     Upstream!Close, Upstream!Inv, Upstream!Phases, Teardown, relay,
     upstream, buffer, timers, viewers
<1>4. ASSUME TeardownEnds PROVE Step
  BY <1>4 DEF TeardownEnds, Step, Phase, PumpAlive, Watched, Upstream!Next,
     Upstream!Closed, Upstream!Inv, Upstream!Phases, relay, upstream, buffer,
     timers, viewers
<1>5. ASSUME NEW c \in Clients, Connect(c) PROVE Step
  BY <1>5 DEF Connect, Step, Phase, PumpAlive, Watched, Upstream!vars, relay,
     upstream, buffer, timers, viewers
<1>6. ASSUME NEW c \in Clients, Leave(c) PROVE Step
  BY <1>6 DEF Leave, Step, Phase, PumpAlive, Watched, Upstream!Next,
     Upstream!Unwatch, Upstream!vars, relay, upstream, buffer, timers, viewers
<1>7. ASSUME NEW c \in Clients, AttachWarm(c) PROVE Step
  BY <1>7 DEF AttachWarm, Step, Phase, PumpAlive, Watched, Upstream!vars, relay,
     upstream, buffer, timers, viewers
<1>8. ASSUME NEW c \in Clients, KeyframeWaitEnds(c) PROVE Step
  BY <1>8 DEF KeyframeWaitEnds, Step, Phase, PumpAlive, Watched, Upstream!vars, relay,
     upstream, buffer, timers, viewers
<1>9. ASSUME NEW c \in Clients, Resnapshot(c) PROVE Step
  BY <1>9 DEF Resnapshot, Step, Phase, PumpAlive, Watched, Upstream!vars, relay,
     upstream, buffer, timers, viewers
<1>10. ASSUME NEW c \in Clients, WriteBurst(c) PROVE Step
  BY <1>10 DEF WriteBurst, Step, Phase, PumpAlive, Watched, Upstream!vars, relay,
     upstream, buffer, timers, viewers
<1>11. ASSUME NEW c \in Clients, BurstBreaks(c) PROVE Step
  BY <1>11 DEF BurstBreaks, Step, Phase, PumpAlive, Watched, Upstream!vars, relay,
     upstream, buffer, timers, viewers
<1>12. ASSUME NEW c \in Clients, Publish(c) PROVE Step
  BY <1>12 DEF Publish, Step, Phase, PumpAlive, Watched, Upstream!Next,
     Upstream!Watch, Upstream!Unwatch, Upstream!vars, Enters, TypeOK,
     ViewersOK, relay, upstream, buffer, timers, viewers
<1>13. ASSUME NEW c \in Clients, ReadEof(c) PROVE Step
  BY <1>13 DEF ReadEof, Step, Phase, PumpAlive, Watched, Upstream!vars, relay,
     upstream, buffer, timers, viewers
<1>14. ASSUME NEW c \in Clients, Detach(c) PROVE Step
  BY <1>14 DEF Detach, Step, Phase, PumpAlive, Watched, Upstream!Next,
     Upstream!Unwatch, Upstream!vars, relay, upstream, buffer, timers,
     viewers
<1>15. ASSUME NEW p \in Prewarms, CallPrewarm(p) PROVE Step
  BY <1>15 DEF CallPrewarm, Step, Phase, PumpAlive, Watched, Upstream!vars, relay,
     upstream, buffer, timers, viewers
<1>16. ASSUME NEW p \in Prewarms, PrewarmRenews(p) PROVE Step
  BY <1>16 DEF PrewarmRenews, Step, Phase, PumpAlive, Watched, Upstream!vars, relay,
     upstream, buffer, timers, viewers
<1>17. ASSUME NEW t \in Timers, TimerFires(t) PROVE Step
  BY <1>17 DEF TimerFires, Step, Phase, PumpAlive, Watched, Upstream!vars, relay,
     upstream, buffer, timers, viewers
<1>18. ASSUME NEW t \in Timers, CloserStarts(t) PROVE Step
  BY <1>18 DEF CloserStarts, Step, Phase, PumpAlive, Watched, Upstream!vars, relay,
     upstream, buffer, timers, viewers
<1>19. ASSUME NEW t \in Timers, CloserDeclines(t) PROVE Step
  BY <1>19 DEF CloserDeclines, Step, Phase, PumpAlive, Watched, Upstream!vars, relay,
     upstream, buffer, timers, viewers
<1>20. ASSUME NEW t \in Timers, CloserCloses(t) PROVE Step
  BY <1>20 DEF CloserCloses, Step, Phase, PumpAlive, Watched, Upstream!Next,
     Upstream!Close, Upstream!Inv, Upstream!Phases, Teardown, Enters, relay,
     upstream, buffer, timers, viewers
<1>21. ASSUME PumpReads PROVE Step
  BY <1>21 DEF PumpReads, Step, Phase, PumpAlive, Watched, Upstream!vars, relay,
     upstream, buffer, timers, viewers
<1>22. ASSUME PumpDrained PROVE Step
  BY <1>22 DEF PumpDrained, Step, Phase, PumpAlive, Watched, Upstream!vars, relay,
     upstream, buffer, timers, viewers
<1>23. ASSUME PumpBreaks PROVE Step
  <2>1. CASE writer = sink
    BY <1>23, <2>1 DEF PumpBreaks, Step, Phase, PumpAlive, Watched,
       Upstream!vars, viewers
  <2>2. CASE writer # sink
    BY <1>23, <2>2 DEF PumpBreaks, Step, Phase, PumpAlive, Watched,
       Upstream!vars, viewers
  <2> QED
    BY <2>1, <2>2
<1>24. ASSUME PumpEnds PROVE Step
  BY <1>24 DEF PumpEnds, Step, Phase, PumpAlive, Watched, Upstream!Next, Upstream!End,
     relay, upstream, buffer, timers, viewers
<1>25. ASSUME CallStop PROVE Step
  BY <1>25 DEF CallStop, Step, Phase, PumpAlive, Watched, Upstream!vars, relay,
     upstream, buffer, timers, viewers
<1>26. ASSUME StopWaited PROVE Step
  BY <1>26 DEF StopWaited, Step, Phase, PumpAlive, Watched, Upstream!vars, relay,
     upstream, buffer, timers, viewers
<1>27. ASSUME StopCloses PROVE Step
  <2>1. ~Watched
    BY <1>27 DEF StopCloses, Bookkeeping, StoppedQuiet, WriterIsConnected,
       Connected, Watched, TypeOK, ViewersOK
  <2> QED
    BY <1>27, <2>1 DEF StopCloses, Enters, Teardown, Step, Phase, PumpAlive,
       Watched, Upstream!Next, Upstream!Close, viewers
<1>28. CASE UNCHANGED vars
  BY <1>28 DEF vars, relay, Step, Phase, PumpAlive, Watched, Upstream!vars,
     upstream, viewers
<1> QED
  BY <1>1, <1>2, <1>3, <1>4, <1>5, <1>6, <1>7, <1>8, <1>9, <1>10, <1>11,
     <1>12, <1>13, <1>14, <1>15, <1>16, <1>17, <1>18, <1>19, <1>20, <1>21,
     <1>22, <1>23, <1>24, <1>25, <1>26, <1>27, <1>28 DEF Next, Session,
     Handling, Closing, Pumping, Stopping, Idle

\* Each step keeps the writer, what is shown and the stop consistent.
LEMMA BookkeepingNext ==
    TypeOK /\ Bookkeeping /\ [Next]_vars => Bookkeeping'
<1> SUFFICES ASSUME TypeOK, Bookkeeping, [Next]_vars PROVE Bookkeeping'
  OBVIOUS
<1> USE DEF Bookkeeping, WriterIsConnected, ViewerShown, StoppedQuiet, TypeOK,
            TasksOK, ViewersOK, Connected, Attaching
<1>1. ASSUME SpinUpStarts PROVE Bookkeeping'
  BY <1>1 DEF SpinUpStarts, relay, viewers
<1>2. ASSUME SpinUpSucceeds PROVE Bookkeeping'
  BY <1>2 DEF SpinUpSucceeds, Notify, Continue, relay, viewers
<1>3. ASSUME SpinUpFails PROVE Bookkeeping'
  BY <1>3 DEF SpinUpFails, relay, viewers
<1>4. ASSUME TeardownEnds PROVE Bookkeeping'
  BY <1>4 DEF TeardownEnds, Notify, relay, viewers
<1>5. ASSUME NEW c \in Clients, Connect(c) PROVE Bookkeeping'
  BY <1>5 DEF Connect, relay, viewers
<1>6. ASSUME NEW c \in Clients, Leave(c) PROVE Bookkeeping'
  BY <1>6 DEF Leave, relay, viewers
<1>7. ASSUME NEW c \in Clients, AttachWarm(c) PROVE Bookkeeping'
  BY <1>7 DEF AttachWarm, Continue, relay, viewers
<1>8. ASSUME NEW c \in Clients, KeyframeWaitEnds(c) PROVE Bookkeeping'
  BY <1>8 DEF KeyframeWaitEnds, relay, viewers
<1>9. ASSUME NEW c \in Clients, Resnapshot(c) PROVE Bookkeeping'
  BY <1>9 DEF Resnapshot, relay, viewers
<1>10. ASSUME NEW c \in Clients, WriteBurst(c) PROVE Bookkeeping'
  BY <1>10 DEF WriteBurst, relay, viewers
<1>11. ASSUME NEW c \in Clients, BurstBreaks(c) PROVE Bookkeeping'
  BY <1>11 DEF BurstBreaks, relay, viewers
<1>12. ASSUME NEW c \in Clients, Publish(c) PROVE Bookkeeping'
  BY <1>12 DEF Publish, Notify, relay, viewers
<1>13. ASSUME NEW c \in Clients, ReadEof(c) PROVE Bookkeeping'
  BY <1>13 DEF ReadEof, relay, viewers
<1>14. ASSUME NEW c \in Clients, Detach(c) PROVE Bookkeeping'
  <2>1. CASE writer = c
    BY <1>14, <2>1, NotifyShows DEF Detach
  <2>2. CASE writer # c
    BY <1>14, <2>2 DEF Detach
  <2> QED
    BY <2>1, <2>2
<1>15. ASSUME NEW p \in Prewarms, CallPrewarm(p) PROVE Bookkeeping'
  BY <1>15 DEF CallPrewarm, relay, viewers
<1>16. ASSUME NEW p \in Prewarms, PrewarmRenews(p) PROVE Bookkeeping'
  BY <1>16 DEF PrewarmRenews, relay, viewers
<1>17. ASSUME NEW t \in Timers, TimerFires(t) PROVE Bookkeeping'
  BY <1>17 DEF TimerFires, relay, viewers
<1>18. ASSUME NEW t \in Timers, CloserStarts(t) PROVE Bookkeeping'
  BY <1>18 DEF CloserStarts, relay, viewers
<1>19. ASSUME NEW t \in Timers, CloserDeclines(t) PROVE Bookkeeping'
  BY <1>19 DEF CloserDeclines, relay, viewers
<1>20. ASSUME NEW t \in Timers, CloserCloses(t) PROVE Bookkeeping'
  BY <1>20 DEF CloserCloses, relay, viewers
<1>21. ASSUME PumpReads PROVE Bookkeeping'
  BY <1>21 DEF PumpReads, relay, viewers
<1>22. ASSUME PumpDrained PROVE Bookkeeping'
  BY <1>22 DEF PumpDrained, relay, viewers
<1>23. ASSUME PumpBreaks PROVE Bookkeeping'
  <2>1. CASE writer = sink
    BY <1>23, <2>1, NotifyShows DEF PumpBreaks, viewers
  <2>2. CASE writer # sink
    BY <1>23, <2>2 DEF PumpBreaks, viewers
  <2> QED
    BY <2>1, <2>2
<1>24. ASSUME PumpEnds PROVE Bookkeeping'
  BY <1>24 DEF PumpEnds, relay, viewers
<1>25. ASSUME CallStop PROVE Bookkeeping'
  BY <1>25 DEF CallStop, relay, viewers
<1>26. ASSUME StopWaited PROVE Bookkeeping'
  BY <1>26 DEF StopWaited, relay, viewers
<1>27. ASSUME StopCloses PROVE Bookkeeping'
  BY <1>27 DEF StopCloses, relay, viewers
<1>28. CASE UNCHANGED vars
  BY <1>28 DEF vars, relay, viewers
<1> QED
  BY <1>1, <1>2, <1>3, <1>4, <1>5, <1>6, <1>7, <1>8, <1>9, <1>10, <1>11,
     <1>12, <1>13, <1>14, <1>15, <1>16, <1>17, <1>18, <1>19, <1>20, <1>21,
     <1>22, <1>23, <1>24, <1>25, <1>26, <1>27, <1>28 DEF Next, Session,
     Handling, Closing, Pumping, Stopping, Idle

\* The inductive invariant holds initially, and every step keeps it.
LEMMA InductiveInit == Init => IInv
BY TypeInit, UpstreamInit, Upstream!InvInit
DEF Init, IInv, Bookkeeping, WriterIsConnected, ViewerShown, StoppedQuiet

LEMMA InductiveNext == IInv /\ [Next]_vars => IInv'
BY TypeNext, BookkeepingNext, UpstreamNext, Upstream!InvNext DEF IInv

LEMMA Inductive == Spec => []IInv
BY InductiveInit, InductiveNext, PTL DEF Spec

\* The relay implements the specification of its upstream session.
THEOREM Refinement == Spec => ImplementsUpstream
<1>1. Init => Upstream!Init
  BY UpstreamInit
<1>2. IInv /\ [Next]_vars => [Upstream!Next]_(Upstream!vars)
  BY UpstreamNext
<1> QED
  BY <1>1, <1>2, Inductive, PTL DEF Spec, ImplementsUpstream, Upstream!Spec

-----------------------------------------------------------------------------
(* What follows at every state *)

\* Only a session whose pump ended by itself is open and not current.
THEOREM LeaksAreEnded == Spec => []LeakOnlyAfterEof
<1>1. IInv => LeakOnlyAfterEof
  BY DEF IInv, Upstream!Inv, Upstream!LostHasEnded, LeakOnlyAfterEof
<1> QED
  BY <1>1, Inductive, PTL

\* Pump, session, writer and listener agree.
THEOREM Consistency == Spec => []RelayConsistent
<1>1. IInv => RelayConsistent
  BY DEF IInv, Upstream!Inv, Upstream!AliveIsOpen, PumpOwnsSession, Bookkeeping,
         RelayConsistent
<1> QED
  BY <1>1, Inductive, PTL

-----------------------------------------------------------------------------
(* What follows while the upstream does not end by itself *)

NoneEnded == ended = {}

\* No step ends a session by itself.
LEMMA NoneEndedNext ==
    ASSUME "eof" \notin Faults PROVE NoneEnded /\ [Next]_vars => NoneEnded'
<1> SUFFICES ASSUME NoneEnded, [Next]_vars PROVE ended' = {}
  BY DEF NoneEnded
<1> USE DEF NoneEnded, upstream
<1>1. ASSUME SpinUpSucceeds PROVE ended' = {}
  BY <1>1 DEF SpinUpSucceeds, SpinUp, relay
<1>2. ASSUME SpinUpFails PROVE ended' = {}
  BY <1>2 DEF SpinUpFails, Teardown, relay
<1>3. ASSUME NEW t \in Timers, CloserCloses(t) PROVE ended' = {}
  BY <1>3 DEF CloserCloses, Teardown, relay
<1>4. ASSUME StopCloses PROVE ended' = {}
  BY <1>4 DEF StopCloses, Teardown, relay
<1>5. ASSUME 
              SpinUpStarts \/ TeardownEnds
      PROVE  ended' = {}
  BY <1>5 DEF SpinUpStarts, TeardownEnds, relay
<1>6. ASSUME NEW c \in Clients,
              Connect(c) \/ Leave(c) \/ AttachWarm(c) \/ KeyframeWaitEnds(c)
                 \/ Resnapshot(c) \/ WriteBurst(c) \/ BurstBreaks(c) \/
                 Publish(c) \/ ReadEof(c) \/ Detach(c)
      PROVE  ended' = {}
  BY <1>6 DEF Connect, Leave, AttachWarm, KeyframeWaitEnds, Resnapshot,
     WriteBurst, BurstBreaks, Publish, ReadEof, Detach, relay
<1>7. ASSUME NEW p \in Prewarms,
              CallPrewarm(p) \/ PrewarmRenews(p)
      PROVE  ended' = {}
  BY <1>7 DEF CallPrewarm, PrewarmRenews, relay
<1>8. ASSUME NEW t \in Timers,
              TimerFires(t) \/ CloserStarts(t) \/ CloserDeclines(t)
      PROVE  ended' = {}
  BY <1>8 DEF TimerFires, CloserStarts, CloserDeclines, relay
<1>9. ASSUME 
              PumpReads \/ PumpDrained \/ PumpBreaks \/ PumpEnds \/ CallStop
                 \/ StopWaited
      PROVE  ended' = {}
  BY <1>9 DEF PumpReads, PumpDrained, PumpBreaks, PumpEnds, CallStop,
     StopWaited, relay
<1>10. CASE UNCHANGED vars
  BY <1>10 DEF vars, relay
<1> QED
  BY <1>1, <1>2, <1>3, <1>4, <1>5, <1>6, <1>7, <1>8, <1>9, <1>10 DEF Next,
     Session, Handling, Closing, Pumping, Stopping, Idle

\* A relay whose upstream does not end by itself has one session open at most.
THEOREM OneSessionAtATime ==
    ASSUME "eof" \notin Faults PROVE Spec => []OneSession
<1>1. Init => NoneEnded
  BY DEF Init, NoneEnded
<1>2. IInv /\ NoneEnded => OneSession
  <2> SUFFICES ASSUME IInv, NoneEnded PROVE OneSession
    OBVIOUS
  <2>1. open \subseteq {lan, closing} /\ 0 \notin open
    BY DEF IInv, NoneEnded, Upstream!Inv, Upstream!LostHasEnded,
       Upstream!Numbered
  <2>2. lan = 0 \/ closing = 0
    BY DEF IInv, Upstream!Inv, Upstream!Phases
  <2> QED
    BY <2>1, <2>2 DEF OneSession
<1> QED
  BY <1>1, <1>2, NoneEndedNext, Inductive, PTL DEF Spec

-----------------------------------------------------------------------------
(* What follows while no write to a viewer breaks *)

\* Whoever leaves a warm session without a viewer has armed a timer, and a
\* closer that gives up leaves it to the viewer that is there.
LEMMA CloserNext ==
    ASSUME "broken_pipe" \notin Faults
    PROVE  IInv /\ WarmHasCloser /\ [Next]_vars => WarmHasCloser'
<1> SUFFICES ASSUME IInv, WarmHasCloser, [Next]_vars PROVE WarmHasCloser'
  OBVIOUS
<1>1. ASSUME SpinUpSucceeds PROVE WarmHasCloser'
  <2>1. ASSUME NEW c \in Clients, Continue(c, Nothing) PROVE WarmHasCloser'
    BY <2>1 DEF Continue, IInv, TypeOK, TasksOK, WarmHasCloser, Attaching
  <2>2. ASSUME NEW p \in Prewarms, RescheduleClose(p) PROVE WarmHasCloser'
    BY <2>2, RescheduleArms DEF IInv, TypeOK, WarmHasCloser
  <2> QED
    BY <1>1, <2>1, <2>2 DEF SpinUpSucceeds
<1>2. ASSUME SpinUpFails PROVE WarmHasCloser'
  BY <1>2 DEF SpinUpFails, Teardown, PumpAlive, relay, IInv, TypeOK, TasksOK,
     TimersOK, WarmHasCloser, Attaching, upstream, timers, viewers
<1>3. ASSUME TeardownEnds PROVE WarmHasCloser'
  BY <1>3 DEF TeardownEnds, IInv, Upstream!Inv, Upstream!Phases, Phase,
     PumpAlive, timers, viewers, relay, TypeOK, TasksOK, TimersOK,
     WarmHasCloser, Attaching, upstream
<1>4. ASSUME NEW c \in Clients, AttachWarm(c) PROVE WarmHasCloser'
  BY <1>4 DEF AttachWarm, Continue, relay, IInv, TypeOK, TasksOK, TimersOK,
     WarmHasCloser, Attaching, PumpAlive, upstream, timers, viewers
<1>5. ASSUME NEW c \in Clients, Publish(c) PROVE WarmHasCloser'
  BY <1>5 DEF Publish, TypeOK, TasksOK, ViewersOK, viewers, relay, IInv,
     TimersOK, WarmHasCloser, Attaching, PumpAlive, upstream, timers
<1>6. ASSUME NEW c \in Clients, Detach(c) PROVE WarmHasCloser'
  <2>1. CASE writer = c
    BY <1>6, <2>1, RescheduleArms DEF Detach, IInv, TypeOK, WarmHasCloser
  <2>2. CASE writer # c
    BY <1>6, <2>2 DEF Detach, IInv, TypeOK, TasksOK, WarmHasCloser, Attaching,
       PumpAlive, upstream, timers, viewers
  <2> QED
    BY <2>1, <2>2
<1>7. ASSUME NEW p \in Prewarms, PrewarmRenews(p) PROVE WarmHasCloser'
  BY <1>7, RescheduleArms DEF PrewarmRenews, IInv, TypeOK, WarmHasCloser
<1>8. ASSUME NEW t \in Timers, CloserDeclines(t) PROVE WarmHasCloser'
  BY <1>8 DEF CloserDeclines, PumpAlive, upstream, relay, IInv, TypeOK,
     TasksOK, TimersOK, WarmHasCloser, Attaching, timers, viewers
<1>9. ASSUME NEW t \in Timers, CloserCloses(t) PROVE WarmHasCloser'
  BY <1>9 DEF CloserCloses, Teardown, PumpAlive, relay, IInv, TypeOK,
     TasksOK, TimersOK, WarmHasCloser, Attaching, upstream, timers, viewers
<1>10. ASSUME PumpReads PROVE WarmHasCloser'
  BY <1>10 DEF PumpReads, TypeOK, TasksOK, PumpAlive, timers, relay, IInv,
     TimersOK, WarmHasCloser, Attaching, upstream, viewers
<1>11. ASSUME PumpEnds PROVE WarmHasCloser'
  BY <1>11 DEF PumpEnds, PumpAlive, relay, IInv, TypeOK, TasksOK, TimersOK,
     WarmHasCloser, Attaching, upstream, timers, viewers
<1>12. ASSUME StopCloses PROVE WarmHasCloser'
  BY <1>12 DEF StopCloses, Teardown, PumpAlive, relay, IInv, TypeOK, TasksOK,
     TimersOK, WarmHasCloser, Attaching, upstream, timers, viewers
<1>13. ASSUME 
              SpinUpStarts
      PROVE  WarmHasCloser'
  BY <1>13 DEF SpinUpStarts, relay, IInv, TypeOK, TasksOK, TimersOK,
     WarmHasCloser, Attaching, PumpAlive, upstream, timers, viewers
<1>14. ASSUME NEW c \in Clients,
              Connect(c) \/ Leave(c) \/ KeyframeWaitEnds(c) \/ Resnapshot(c)
                 \/ WriteBurst(c) \/ BurstBreaks(c) \/ ReadEof(c)
      PROVE  WarmHasCloser'
  BY <1>14 DEF Connect, Leave, KeyframeWaitEnds, Resnapshot, WriteBurst,
     BurstBreaks, ReadEof, relay, IInv, TypeOK, TasksOK, TimersOK,
     WarmHasCloser, Attaching, PumpAlive, upstream, timers, viewers
<1>15. ASSUME NEW p \in Prewarms,
              CallPrewarm(p)
      PROVE  WarmHasCloser'
  BY <1>15 DEF CallPrewarm, relay, IInv, TypeOK, TasksOK, TimersOK,
     WarmHasCloser, Attaching, PumpAlive, upstream, timers, viewers
<1>16. ASSUME NEW t \in Timers,
              TimerFires(t) \/ CloserStarts(t)
      PROVE  WarmHasCloser'
  BY <1>16 DEF TimerFires, CloserStarts, relay, IInv, TypeOK, TasksOK,
     TimersOK, WarmHasCloser, Attaching, PumpAlive, upstream, timers, viewers
<1>17. ASSUME 
              PumpDrained \/ PumpBreaks \/ CallStop \/ StopWaited
      PROVE  WarmHasCloser'
  BY <1>17 DEF PumpDrained, PumpBreaks, CallStop, StopWaited, relay, IInv,
     TypeOK, TasksOK, TimersOK, WarmHasCloser, Attaching, PumpAlive,
     upstream, timers, viewers
<1>18. CASE UNCHANGED vars
  BY <1>18 DEF vars, relay, IInv, TypeOK, TasksOK, TimersOK, WarmHasCloser,
     Attaching, PumpAlive, upstream, timers, viewers
<1> QED
  BY <1>1, <1>2, <1>3, <1>4, <1>5, <1>6, <1>7, <1>8, <1>9, <1>10, <1>11,
     <1>12, <1>13, <1>14, <1>15, <1>16, <1>17, <1>18 DEF Next, Session,
     Handling, Closing, Pumping, Stopping, Idle

\* A relay whose viewers leave by closing has a closer for every warm session
\* that nobody watches, whatever the upstream does.
THEOREM WarmSessionHasCloser ==
    ASSUME "broken_pipe" \notin Faults PROVE Spec => []WarmHasCloser
<1>1. Init => WarmHasCloser
  BY DEF Init, WarmHasCloser, PumpAlive
<1> QED
  BY <1>1, CloserNext, Inductive, PTL DEF Spec

-----------------------------------------------------------------------------
(* The keyframe event and the entity *)

\* Only a teardown leaves no pump task, and it clears the event; a pump that is
\* done has ended the current session, and the session a spin-up opens is the next
\* one; a session's output begins at a keyframe.
Fresh ==
    /\ SeenIsFresh
    /\ pump = "none" => ~seen
    /\ pump = "done" => lan # 0 /\ lan \in ended
    /\ lan # 0 => lan = started
    /\ tail > 0 => keyframe > 0

\* Each step keeps the keyframe event that of the current session, or of one
\* that ended by itself just before it.
LEMMA FreshNext == IInv /\ Fresh /\ [Next]_vars => Fresh'
<1> SUFFICES ASSUME IInv, Fresh, [Next]_vars PROVE Fresh'
  OBVIOUS
<1>1. ASSUME SpinUpSucceeds PROVE Fresh'
  BY <1>1 DEF SpinUpSucceeds, SpinUp, IInv, Upstream!Inv, Upstream!Phases,
     Phase, PumpAlive, TypeOK, BufferOK, UpstreamOK, relay, Fresh,
     SeenIsFresh, upstream, buffer
<1>2. ASSUME SpinUpFails PROVE Fresh'
  BY <1>2 DEF SpinUpFails, Teardown, relay, Fresh, SeenIsFresh, upstream,
     buffer
<1>3. ASSUME NEW t \in Timers, CloserCloses(t) PROVE Fresh'
  BY <1>3 DEF CloserCloses, Teardown, relay, Fresh, SeenIsFresh, upstream,
     buffer
<1>4. ASSUME PumpReads PROVE Fresh'
  BY <1>4 DEF PumpReads, IInv, TypeOK, BufferOK, UpstreamOK, relay, Fresh,
     SeenIsFresh, upstream, buffer
<1>5. ASSUME PumpDrained PROVE Fresh'
  BY <1>5 DEF PumpDrained, relay, Fresh, SeenIsFresh, upstream, buffer
<1>6. ASSUME PumpBreaks PROVE Fresh'
  BY <1>6 DEF PumpBreaks, relay, Fresh, SeenIsFresh, upstream, buffer
<1>7. ASSUME StopCloses PROVE Fresh'
  BY <1>7 DEF StopCloses, Teardown, relay, Fresh, SeenIsFresh, upstream,
     buffer
<1>8. ASSUME 
              SpinUpStarts \/ TeardownEnds
      PROVE  Fresh'
  BY <1>8 DEF SpinUpStarts, TeardownEnds, relay, Fresh, SeenIsFresh,
     upstream, buffer
<1>9. ASSUME NEW c \in Clients,
              Connect(c) \/ Leave(c) \/ AttachWarm(c) \/ KeyframeWaitEnds(c)
                 \/ Resnapshot(c) \/ WriteBurst(c) \/ BurstBreaks(c) \/
                 Publish(c) \/ ReadEof(c) \/ Detach(c)
      PROVE  Fresh'
  BY <1>9 DEF Connect, Leave, AttachWarm, KeyframeWaitEnds, Resnapshot,
     WriteBurst, BurstBreaks, Publish, ReadEof, Detach, relay, Fresh,
     SeenIsFresh, upstream, buffer
<1>10. ASSUME NEW p \in Prewarms,
              CallPrewarm(p) \/ PrewarmRenews(p)
      PROVE  Fresh'
  BY <1>10 DEF CallPrewarm, PrewarmRenews, relay, Fresh, SeenIsFresh,
     upstream, buffer
<1>11. ASSUME NEW t \in Timers,
              TimerFires(t) \/ CloserStarts(t) \/ CloserDeclines(t)
      PROVE  Fresh'
  BY <1>11 DEF TimerFires, CloserStarts, CloserDeclines, relay, Fresh,
     SeenIsFresh, upstream, buffer
<1>12. ASSUME PumpEnds PROVE Fresh'
  BY <1>12 DEF PumpEnds, PumpAlive, IInv, Upstream!Inv, Upstream!AliveIsOpen,
     Fresh, SeenIsFresh, buffer
<1>13. ASSUME CallStop \/ StopWaited PROVE Fresh'
  BY <1>13 DEF CallStop, StopWaited, relay, Fresh, SeenIsFresh, upstream,
     buffer
<1>14. CASE UNCHANGED vars
  BY <1>14 DEF vars, relay, Fresh, SeenIsFresh, upstream, buffer
<1> QED
  BY <1>1, <1>2, <1>3, <1>4, <1>5, <1>6, <1>7, <1>8, <1>9, <1>10, <1>11,
     <1>12, <1>13, <1>14 DEF Next, Session, Handling, Closing, Pumping, Stopping,
     Idle

\* The keyframe event is set only after the current session has had a complete
\* keyframe, unless the session before it ended by itself.
THEOREM KeyframeIsFresh == Spec => []SeenIsFresh
<1>1. Init => Fresh
  BY DEF Init, Fresh, SeenIsFresh
<1>2. Fresh => SeenIsFresh
  BY DEF Fresh
<1> QED
  BY <1>1, <1>2, FreshNext, Inductive, PTL DEF Spec

\* The listener was told of every session opened and every session torn down.
Told ==
    await # "teardown" =>
        /\ PumpAlive => shown.warm
        /\ shown.warm => PumpAlive \/ lan \in ended

\* The listener is shown whether the relay is warm.
LEMMA NotifyWarm ==
    ASSUME NEW w, NEW alive, Notify(w, alive) PROVE shown'.warm = alive
BY DEF Notify

\* Each step that changes is_warm tells the listener, but the end of the pump.
LEMMA ToldNext == Told /\ [Next]_vars => Told'
<1> SUFFICES ASSUME Told, [Next]_vars PROVE Told'
  OBVIOUS
<1>1. ASSUME SpinUpStarts PROVE Told'
  BY <1>1 DEF SpinUpStarts, Enters, relay, Told, PumpAlive, upstream, viewers
<1>2. ASSUME SpinUpSucceeds PROVE Told'
  BY <1>2, NotifyWarm DEF SpinUpSucceeds, SpinUp, relay, Told, PumpAlive,
     upstream, viewers
<1>3. ASSUME SpinUpFails PROVE Told'
  BY <1>3 DEF SpinUpFails, Teardown, relay, Told, PumpAlive, upstream,
     viewers
<1>4. ASSUME TeardownEnds PROVE Told'
  BY <1>4, NotifyWarm, PumpAliveTyped DEF TeardownEnds, relay, Told,
     PumpAlive, upstream, viewers
<1>5. ASSUME NEW c \in Clients, Publish(c) PROVE Told'
  BY <1>5, NotifyWarm, PumpAliveTyped DEF Publish, relay, Told, PumpAlive,
     upstream, viewers
<1>6. ASSUME NEW c \in Clients, Detach(c) PROVE Told'
  <2>1. CASE writer = c
    BY <1>6, <2>1, NotifyWarm, PumpAliveTyped
    DEF Detach, Told, PumpAlive, upstream
  <2>2. CASE writer # c
    BY <1>6, <2>2 DEF Detach, Told, PumpAlive, upstream
  <2> QED
    BY <2>1, <2>2
<1>7. ASSUME NEW t \in Timers, CloserCloses(t) PROVE Told'
  BY <1>7 DEF CloserCloses, Teardown, relay, Told, PumpAlive, upstream,
     viewers
<1>8. ASSUME PumpReads PROVE Told'
  BY <1>8 DEF PumpReads, relay, Told, PumpAlive, upstream, viewers
<1>9. ASSUME PumpBreaks PROVE Told'
  <2>1. CASE writer = sink
    BY <1>9, <2>1, NotifyWarm DEF PumpBreaks, Told, PumpAlive
  <2>2. CASE writer # sink
    BY <1>9, <2>2 DEF PumpBreaks, Told, PumpAlive
  <2> QED
    BY <2>1, <2>2
<1>10. ASSUME StopCloses PROVE Told'
  BY <1>10 DEF StopCloses, Teardown, relay, Told, PumpAlive, upstream,
     viewers
<1>11. ASSUME NEW c \in Clients,
              Connect(c) \/ Leave(c) \/ AttachWarm(c) \/ KeyframeWaitEnds(c)
                 \/ Resnapshot(c) \/ WriteBurst(c) \/ BurstBreaks(c) \/
                 ReadEof(c)
      PROVE  Told'
  BY <1>11 DEF Connect, Leave, AttachWarm, KeyframeWaitEnds, Resnapshot,
     WriteBurst, BurstBreaks, ReadEof, relay, Told, PumpAlive, upstream,
     viewers
<1>12. ASSUME NEW p \in Prewarms,
              CallPrewarm(p) \/ PrewarmRenews(p)
      PROVE  Told'
  BY <1>12 DEF CallPrewarm, PrewarmRenews, relay, Told, PumpAlive, upstream,
     viewers
<1>13. ASSUME NEW t \in Timers,
              TimerFires(t) \/ CloserStarts(t) \/ CloserDeclines(t)
      PROVE  Told'
  BY <1>13 DEF TimerFires, CloserStarts, CloserDeclines, relay, Told,
     PumpAlive, upstream, viewers
<1>14. ASSUME 
              PumpDrained \/ PumpEnds \/ CallStop \/ StopWaited
      PROVE  Told'
  BY <1>14 DEF PumpDrained, PumpEnds, CallStop, StopWaited, relay, Told,
     PumpAlive, upstream, viewers
<1>15. CASE UNCHANGED vars
  BY <1>15 DEF vars, relay, Told, PumpAlive, upstream, viewers
<1> QED
  BY <1>1, <1>2, <1>3, <1>4, <1>5, <1>6, <1>7, <1>8, <1>9, <1>10, <1>11,
     <1>12, <1>13, <1>14, <1>15 DEF Next, Session, Handling, Closing,
     Pumping, Stopping, Idle

\* The camera entity has been told whether somebody watches and whether the
\* relay is warm, but for the end of a session by itself.
THEOREM EntityIsTold == Spec => []EntityShowsRelay
<1>1. Init => Told
  BY DEF Init, Told, PumpAlive
<1>2. IInv /\ Told => EntityShowsRelay
  BY DEF IInv, Bookkeeping, Told, EntityShowsRelay
<1> QED
  BY <1>1, <1>2, ToldNext, Inductive, PTL DEF Spec

-----------------------------------------------------------------------------
(* Order of delivery *)

\* A handler in one of these has written nothing to its viewer.
BeforeBurst == {"new", "attach", "keyframe", "woken", "resnap", "burst"}

\* What a viewer was sent, and the burst it is about to be sent, come from
\* behind the end of the buffer of the newest session.
Placed ==
    /\ lan # 0 => lan = started
    /\ tail # 0 => lan # 0
    /\ \A c \in Clients :
          /\ sent[c][1] <= started
          /\ lan # 0 /\ sent[c][1] = lan => sent[c][2] <= tail
          /\ pc[c] \in BeforeBurst => sent[c] = <<0, 0>>
          /\ pc[c] = "burst" =>
                /\ burst[c].session \in 1 .. started
                /\ lan # 0 /\ burst[c].session = lan => burst[c].to <= tail

\* Each step keeps what is sent behind the end of the buffer.
LEMMA PlacedNext == IInv /\ Placed /\ [Next]_vars => Placed'
<1> SUFFICES ASSUME IInv, Placed, [Next]_vars PROVE Placed'
  OBVIOUS
<1>1. ASSUME SpinUpSucceeds PROVE Placed'
  BY <1>1 DEF SpinUpSucceeds, Continue, SpinUp, Nothing, IInv, TypeOK,
     TasksOK, ViewersOK, UpstreamOK, BufferOK, Position, Bursts, relay,
     Placed, BeforeBurst, upstream, buffer, viewers
<1>2. ASSUME SpinUpFails PROVE Placed'
  BY <1>2 DEF SpinUpFails, Teardown, IInv, TypeOK, TasksOK, ViewersOK,
     UpstreamOK, BufferOK, Position, Bursts, relay, Placed, BeforeBurst,
     upstream, buffer, viewers
<1>3. ASSUME TeardownEnds PROVE Placed'
  BY <1>3 DEF TeardownEnds, IInv, TypeOK, TasksOK, relay, Placed,
     BeforeBurst, upstream, buffer, viewers
<1>4. ASSUME NEW c \in Clients, Connect(c) PROVE Placed'
  BY <1>4 DEF Connect, IInv, TypeOK, TasksOK, relay, Placed, BeforeBurst,
     upstream, buffer, viewers
<1>5. ASSUME NEW c \in Clients, AttachWarm(c) PROVE Placed'
  BY <1>5 DEF AttachWarm, Continue, Snapshot, Nothing, IInv, TypeOK, TasksOK,
     ViewersOK, UpstreamOK, BufferOK, Position, Bursts, relay, Placed,
     BeforeBurst, upstream, buffer, viewers
<1>6. ASSUME NEW c \in Clients, KeyframeWaitEnds(c) PROVE Placed'
  BY <1>6 DEF KeyframeWaitEnds, IInv, TypeOK, TasksOK, relay, Placed,
     BeforeBurst, upstream, buffer, viewers
<1>7. ASSUME NEW c \in Clients, Resnapshot(c) PROVE Placed'
  BY <1>7 DEF Resnapshot, Snapshot, Nothing, IInv, TypeOK, TasksOK,
     ViewersOK, UpstreamOK, BufferOK, Position, Bursts, relay, Placed,
     BeforeBurst, upstream, buffer, viewers
<1>8. ASSUME NEW c \in Clients, WriteBurst(c) PROVE Placed'
  BY <1>8 DEF WriteBurst, Nothing, IInv, TypeOK, TasksOK, ViewersOK,
     UpstreamOK, BufferOK, Position, Bursts, relay, Placed, BeforeBurst,
     upstream, buffer, viewers
<1>9. ASSUME NEW c \in Clients, BurstBreaks(c) PROVE Placed'
  BY <1>9 DEF BurstBreaks, IInv, TypeOK, TasksOK, relay, Placed, BeforeBurst,
     upstream, buffer, viewers
<1>10. ASSUME NEW c \in Clients, Publish(c) PROVE Placed'
  BY <1>10 DEF Publish, IInv, TypeOK, TasksOK, relay, Placed, BeforeBurst,
     upstream, buffer, viewers
<1>11. ASSUME NEW c \in Clients, ReadEof(c) PROVE Placed'
  BY <1>11 DEF ReadEof, IInv, TypeOK, TasksOK, relay, Placed, BeforeBurst,
     upstream, buffer, viewers
<1>12. ASSUME NEW c \in Clients, Detach(c) PROVE Placed'
  BY <1>12 DEF Detach, IInv, TypeOK, TasksOK, relay, Placed, BeforeBurst,
     upstream, buffer, viewers
<1>13. ASSUME NEW t \in Timers, CloserCloses(t) PROVE Placed'
  BY <1>13 DEF CloserCloses, Teardown, IInv, TypeOK, TasksOK, ViewersOK,
     UpstreamOK, BufferOK, Position, Bursts, relay, Placed, BeforeBurst,
     upstream, buffer, viewers
<1>14. ASSUME PumpReads PROVE Placed'
  BY <1>14 DEF PumpReads, IInv, TypeOK, TasksOK, ViewersOK, UpstreamOK,
     BufferOK, Position, Bursts, PumpAlive, Bookkeeping, WriterIsConnected,
     Upstream!Inv, Upstream!AliveIsOpen, relay, Placed, BeforeBurst,
     upstream, buffer, viewers
<1>15. ASSUME StopCloses PROVE Placed'
  BY <1>15 DEF StopCloses, Teardown, IInv, TypeOK, TasksOK, ViewersOK,
     UpstreamOK, BufferOK, Position, Bursts, relay, Placed, BeforeBurst,
     upstream, buffer, viewers
<1>16. ASSUME 
              SpinUpStarts
      PROVE  Placed'
  BY <1>16 DEF SpinUpStarts, relay, Placed, BeforeBurst, TypeOK, IInv,
     TasksOK, upstream, buffer, viewers
<1>17. ASSUME NEW c \in Clients,
              Leave(c)
      PROVE  Placed'
  BY <1>17 DEF Leave, relay, Placed, BeforeBurst, TypeOK, IInv, TasksOK,
     upstream, buffer, viewers
<1>18. ASSUME NEW p \in Prewarms,
              CallPrewarm(p) \/ PrewarmRenews(p)
      PROVE  Placed'
  BY <1>18 DEF CallPrewarm, PrewarmRenews, relay, Placed, BeforeBurst,
     TypeOK, IInv, TasksOK, upstream, buffer, viewers
<1>19. ASSUME NEW t \in Timers,
              TimerFires(t) \/ CloserStarts(t) \/ CloserDeclines(t)
      PROVE  Placed'
  BY <1>19 DEF TimerFires, CloserStarts, CloserDeclines, relay, Placed,
     BeforeBurst, TypeOK, IInv, TasksOK, upstream, buffer, viewers
<1>20. ASSUME 
              PumpDrained \/ PumpBreaks \/ PumpEnds \/ CallStop \/ StopWaited
      PROVE  Placed'
  BY <1>20 DEF PumpDrained, PumpBreaks, PumpEnds, CallStop, StopWaited,
     relay, Placed, BeforeBurst, TypeOK, IInv, TasksOK, upstream, buffer,
     viewers
<1>21. CASE UNCHANGED vars
  BY <1>21 DEF vars, relay, Placed, BeforeBurst, TypeOK, IInv, TasksOK,
     upstream, buffer, viewers
<1> QED
  BY <1>1, <1>2, <1>3, <1>4, <1>5, <1>6, <1>7, <1>8, <1>9, <1>10, <1>11,
     <1>12, <1>13, <1>14, <1>15, <1>16, <1>17, <1>18, <1>19, <1>20, <1>21 DEF
     Next, Session, Handling, Closing, Pumping, Stopping, Idle

\* Every step sends to each viewer what comes after all it was sent.
LEMMA OrderNext == IInv /\ Placed /\ [Next]_vars => [SentInOrder]_vars
<1> SUFFICES ASSUME IInv, Placed, [Next]_vars PROVE SentInOrder \/ UNCHANGED vars
  OBVIOUS
<1>1. ASSUME NEW c \in Clients, WriteBurst(c) PROVE SentInOrder
  BY <1>1 DEF WriteBurst, Placed, BeforeBurst, IInv, TypeOK, ViewersOK,
     UpstreamOK, BufferOK, Position, Bursts, Precedes, relay, SentInOrder,
     viewers
<1>2. ASSUME PumpReads PROVE SentInOrder
  <2>1. lan # 0 /\ lan = started /\ lan \in Nat /\ tail \in Nat
    BY <1>2 DEF PumpReads, Placed, PumpAlive, IInv, Upstream!Inv,
       Upstream!AliveIsOpen, TypeOK, UpstreamOK, BufferOK
  <2>2. ASSUME NEW c \in Clients, sent'[c] # sent[c]
        PROVE  sent'[c] = <<lan, tail + 1>>
    BY <1>2, <2>2 DEF PumpReads, IInv, TypeOK, ViewersOK
  <2>3. ASSUME NEW c \in Clients
        PROVE  /\ sent[c] \in Nat \X Nat
               /\ sent[c][1] <= started
               /\ sent[c][1] = lan => sent[c][2] <= tail
    BY <2>1 DEF Placed, IInv, TypeOK, ViewersOK, Position
  <2> QED
    BY <2>1, <2>2, <2>3 DEF SentInOrder, Precedes
<1>3. ASSUME 
              SpinUpStarts \/ SpinUpSucceeds \/ SpinUpFails \/ TeardownEnds
      PROVE  SentInOrder
  BY <1>3 DEF SpinUpStarts, SpinUpSucceeds, SpinUpFails, TeardownEnds, relay,
     SentInOrder, viewers
<1>4. ASSUME NEW c \in Clients,
              Connect(c) \/ Leave(c) \/ AttachWarm(c) \/ KeyframeWaitEnds(c)
                 \/ Resnapshot(c) \/ BurstBreaks(c) \/ Publish(c) \/
                 ReadEof(c) \/ Detach(c)
      PROVE  SentInOrder
  BY <1>4 DEF Connect, Leave, AttachWarm, KeyframeWaitEnds, Resnapshot,
     BurstBreaks, Publish, ReadEof, Detach, relay, SentInOrder, viewers
<1>5. ASSUME NEW p \in Prewarms,
              CallPrewarm(p) \/ PrewarmRenews(p)
      PROVE  SentInOrder
  BY <1>5 DEF CallPrewarm, PrewarmRenews, relay, SentInOrder, viewers
<1>6. ASSUME NEW t \in Timers,
              TimerFires(t) \/ CloserStarts(t) \/ CloserDeclines(t) \/
                 CloserCloses(t)
      PROVE  SentInOrder
  BY <1>6 DEF TimerFires, CloserStarts, CloserDeclines, CloserCloses, relay,
     SentInOrder, viewers
<1>7. ASSUME 
              PumpDrained \/ PumpBreaks \/ PumpEnds \/ CallStop \/ StopWaited
                 \/ StopCloses
      PROVE  SentInOrder
  BY <1>7 DEF PumpDrained, PumpBreaks, PumpEnds, CallStop, StopWaited,
     StopCloses, relay, SentInOrder, viewers
<1>8. CASE UNCHANGED vars
  BY <1>8 DEF vars, relay, SentInOrder, viewers
<1> QED
  BY <1>1, <1>2, <1>3, <1>4, <1>5, <1>6, <1>7, <1>8 DEF Next, Session,
     Handling, Closing, Pumping, Stopping, Idle

\* No viewer is sent a chunk twice, out of order, or after a newer session's.
THEOREM DeliveryInOrder == Spec => InOrder
<1>1. Init => Placed
  BY DEF Init, Placed, Nothing
<1> QED
  BY <1>1, PlacedNext, OrderNext, Inductive, PTL DEF Spec, InOrder

-----------------------------------------------------------------------------
(* The lock serves everyone who asks for it *)

\* The tasks of these handlers, calls, closers and stoppers.
TasksOf(hs, ps, ts, ss) ==
    {Handler(c) : c \in hs} \cup {Prewarm(p) : p \in ps}
        \cup {Closer(t) : t \in ts} \cup ss

\* Who has asked for the lock and not released it.
HandlersWaiting ==
    {c \in Clients : pc[c] \in {"attach", "resnap", "publish", "detach"}}
CallsWaiting == {p \in Prewarms : call[p] = "queued"}
ClosersWaiting == {t \in Timers : closer[t] \in {"queued", "closing"}}
StoppersWaiting == {t \in {Stopper} : server = "stopping"}

Waiting ==
    TasksOf(HandlersWaiting, CallsWaiting, ClosersWaiting, StoppersWaiting)

\* The sequence q holds each member of S once, and nothing else.
HoldsOnce(q, S) ==
    /\ \A i \in 1 .. Len(q) : q[i] \in S
    /\ \A t \in S : \E i \in 1 .. Len(q) : q[i] = t
    /\ \A i, j \in 1 .. Len(q) : q[i] = q[j] => i = j

\* The lock's queue holds each task that asked for it once: nobody who waits
\* is forgotten, nobody holds a place that it does not use.
EachQueuedOnce == HoldsOnce(queue, Waiting)

\* A connection or a pre-warm call that has not ended has armed no timer.
TimersUnused ==
    /\ \A c \in Clients : pc[c] # "done" => closer[c] = "off"
    /\ \A p \in Prewarms : call[p] # "done" => closer[p] = "off"

\* A closer is in its teardown only while it owns the lock.
ClosingOwns ==
    \A t \in Timers :
        closer[t] = "closing" => await = "teardown" /\ Owns(Closer(t))

\* What is awaited under the lock is awaited by a task that goes on after it.
OpensSession ==
    \/ \E c \in Clients : Owns(Handler(c)) /\ pc[c] = "attach"
    \/ \E p \in Prewarms : Owns(Prewarm(p)) /\ call[p] = "queued"
ClosesSession ==
    \/ OpensSession
    \/ \E t \in Timers : Owns(Closer(t)) /\ closer[t] = "closing"
    \/ Owns(Stopper) /\ server = "stopping"
AwaitOwned ==
    /\ await = "spin" => OpensSession
    /\ await = "teardown" => ClosesSession

Queued == EachQueuedOnce /\ TimersUnused /\ ClosingOwns /\ AwaitOwned

\* The names of two tasks differ.
LEMMA TasksApart ==
    /\ \A c, d : Handler(c) = Handler(d) => c = d
    /\ \A p, q : Prewarm(p) = Prewarm(q) => p = q
    /\ \A t, u : Closer(t) = Closer(u) => t = u
    /\ \A c, p : Handler(c) # Prewarm(p)
    /\ \A c, t : Handler(c) # Closer(t)
    /\ \A p, t : Prewarm(p) # Closer(t)
    /\ \A c : Handler(c) # Stopper /\ Prewarm(c) # Stopper /\ Closer(c) # Stopper
BY DEF Handler, Prewarm, Closer, Stopper

\* One more task, at the end, and one less, at the head.
LEMMA AskedOnce ==
    ASSUME NEW q \in Seq(Tasks), NEW S, NEW t \in Tasks, t \notin S,
           HoldsOnce(q, S)
    PROVE  HoldsOnce(Append(q, t), S \cup {t})
<1> DEFINE r == Append(q, t)
<1>1. /\ Len(q) \in Nat
      /\ Len(r) = Len(q) + 1
      /\ \A i \in 1 .. Len(q) : r[i] = q[i]
      /\ r[Len(q) + 1] = t
  BY AppendProperties, LenProperties
<1> HIDE DEF r
<1>2. HoldsOnce(r, S \cup {t})
  BY <1>1 DEF HoldsOnce
<1> QED
  BY <1>2 DEF r

LEMMA ReleasedOnce ==
    ASSUME NEW q \in Seq(Tasks), NEW S, q # <<>>, HoldsOnce(q, S)
    PROVE  HoldsOnce(Tail(q), S \ {Head(q)})
<1> DEFINE r == Tail(q)
<1>1. /\ Len(q) \in Nat \ {0}
      /\ Len(r) = Len(q) - 1
      /\ \A i \in 1 .. Len(r) : r[i] = q[i + 1]
      /\ Head(q) = q[1]
  BY HeadTailProperties, LenProperties, EmptySeq
<1> HIDE DEF r
<1>2. ASSUME NEW i \in 1 .. Len(r) PROVE r[i] \in S \ {Head(q)}
  BY <1>1 DEF HoldsOnce
<1>3. ASSUME NEW t \in S \ {Head(q)} PROVE \E i \in 1 .. Len(r) : r[i] = t
  <2>1. PICK i \in 1 .. Len(q) : q[i] = t
    BY DEF HoldsOnce
  <2>2. i - 1 \in 1 .. Len(r) /\ r[i - 1] = t
    BY <1>1, <2>1
  <2> QED
    BY <2>2
<1>4. ASSUME NEW i \in 1 .. Len(r), NEW j \in 1 .. Len(r), r[i] = r[j]
      PROVE  i = j
  <2>1. \A k, l \in 1 .. Len(q) : q[k] = q[l] => k = l
    BY DEF HoldsOnce
  <2>2. i + 1 \in 1 .. Len(q) /\ j + 1 \in 1 .. Len(q)
    BY <1>1
  <2>3. q[i + 1] = q[j + 1]
    BY <1>1, <1>4
  <2>4. i + 1 = j + 1
    BY <2>1, <2>2, <2>3
  <2> QED
    BY <2>4
<1>5. HoldsOnce(r, S \ {Head(q)})
  BY <1>2, <1>3, <1>4 DEF HoldsOnce
<1> QED
  BY <1>5 DEF r

\* Asking keeps the owner.
LEMMA OwnerStays ==
    ASSUME queue \in Seq(Tasks), NEW t \in Tasks, Ask(t)
    PROVE  \A u : Owns(u) => Owns(u)'
BY AppendProperties, HeadTailProperties, LenProperties, EmptySeq DEF Ask, Owns

\* Cancelling a close leaves the closers that have fired alone.
LEMMA CancelSpares ==
    ASSUME TimersOK, CancelClose
    PROVE  /\ ClosersWaiting' = ClosersWaiting
           /\ \A t \in Timers : /\ closer'[t] = "closing" <=> closer[t] = "closing"
                                /\ closer[t] = "off" => closer'[t] = "off"
BY DEF TimersOK, CancelClose, CancelledTimers, ClosersWaiting

\* So does rescheduling it, by a task that has no timer yet.
LEMMA RescheduleSpares ==
    ASSUME TimersOK, NEW u \in Timers, RescheduleClose(u), closer[u] = "off"
    PROVE  /\ ClosersWaiting' = ClosersWaiting
           /\ \A t \in Timers : /\ closer'[t] = "closing" <=> closer[t] = "closing"
                                /\ t # u /\ closer[t] = "off" => closer'[t] = "off"
BY DEF TimersOK, RescheduleClose, CancelledTimers, ClosersWaiting

\* A task that asks joins those who wait, one that releases leaves them.
Joins(t) ==
    Ask(t) /\ t \in Tasks /\ t \notin Waiting /\ Waiting' = Waiting \cup {t}
Leaves(t) == Owns(t) /\ Release /\ Waiting' = Waiting \ {t}

LEMMA JoinsOnce ==
    ASSUME queue \in Seq(Tasks), EachQueuedOnce, NEW t, Joins(t)
    PROVE  EachQueuedOnce'
BY AskedOnce DEF Joins, Ask, EachQueuedOnce

LEMMA LeavesOnce ==
    ASSUME queue \in Seq(Tasks), EachQueuedOnce, NEW t, Leaves(t)
    PROVE  EachQueuedOnce'
BY ReleasedOnce DEF Leaves, Owns, Release, EachQueuedOnce

\* Handlers, calls, closers and the stopper join and leave one at a time.
LEMMA HandlerJoins ==
    ASSUME NEW c \in Clients, c \notin HandlersWaiting, Ask(Handler(c)),
           HandlersWaiting' = HandlersWaiting \cup {c},
           UNCHANGED <<CallsWaiting, ClosersWaiting, StoppersWaiting>>
    PROVE  Joins(Handler(c))
BY TasksApart, TasksTyped DEF TasksOf, StoppersWaiting, Waiting, Joins

LEMMA CallJoins ==
    ASSUME NEW p \in Prewarms, p \notin CallsWaiting, Ask(Prewarm(p)),
           CallsWaiting' = CallsWaiting \cup {p},
           UNCHANGED <<HandlersWaiting, ClosersWaiting, StoppersWaiting>>
    PROVE  Joins(Prewarm(p))
BY TasksApart, TasksTyped DEF TasksOf, StoppersWaiting, Waiting, Joins

LEMMA CloserJoins ==
    ASSUME NEW t \in Timers, t \notin ClosersWaiting, Ask(Closer(t)),
           ClosersWaiting' = ClosersWaiting \cup {t},
           UNCHANGED <<HandlersWaiting, CallsWaiting, StoppersWaiting>>
    PROVE  Joins(Closer(t))
BY TasksApart, TasksTyped DEF TasksOf, StoppersWaiting, Waiting, Joins

LEMMA HandlerLeaves ==
    ASSUME NEW c \in Clients, Owns(Handler(c)), Release,
           HandlersWaiting' = HandlersWaiting \ {c},
           UNCHANGED <<CallsWaiting, ClosersWaiting, StoppersWaiting>>
    PROVE  Leaves(Handler(c))
BY TasksApart DEF TasksOf, StoppersWaiting, Waiting, Leaves

LEMMA CallLeaves ==
    ASSUME NEW p \in Prewarms, Owns(Prewarm(p)), Release,
           CallsWaiting' = CallsWaiting \ {p},
           UNCHANGED <<HandlersWaiting, ClosersWaiting, StoppersWaiting>>
    PROVE  Leaves(Prewarm(p))
BY TasksApart DEF TasksOf, StoppersWaiting, Waiting, Leaves

LEMMA CloserLeaves ==
    ASSUME NEW t \in Timers, Owns(Closer(t)), Release,
           ClosersWaiting' = ClosersWaiting \ {t},
           UNCHANGED <<HandlersWaiting, CallsWaiting, StoppersWaiting>>
    PROVE  Leaves(Closer(t))
BY TasksApart DEF TasksOf, StoppersWaiting, Waiting, Leaves

\* A step after which the same tasks wait leaves each in the queue once.
LEMMA SameWait ==
    ASSUME EachQueuedOnce,
           UNCHANGED <<queue, HandlersWaiting, CallsWaiting, ClosersWaiting,
                       StoppersWaiting>>
    PROVE  EachQueuedOnce'
BY DEF EachQueuedOnce, Waiting

\* Each step: a task asks that did not wait, one that owns the lock releases
\* it, or the same tasks wait.
LEMMA OnceNext ==
    TypeOK /\ Queued /\ [Next]_vars => EachQueuedOnce'
<1> SUFFICES ASSUME TypeOK, Queued, [Next]_vars PROVE EachQueuedOnce'
  OBVIOUS
<1>0. queue \in Seq(Tasks) /\ EachQueuedOnce /\ TimersOK
  BY DEF TypeOK, LockOK, Queued
<1> USE DEF HandlersWaiting, CallsWaiting, StoppersWaiting
<1>1. ASSUME SpinUpStarts PROVE EachQueuedOnce'
  BY <1>0, <1>1, SameWait DEF SpinUpStarts, ClosersWaiting, timers, viewers
<1>2. ASSUME SpinUpSucceeds PROVE EachQueuedOnce'
  <2>1. ASSUME NEW c \in Clients, Owns(Handler(c)), pc[c] = "attach",
               Continue(c, Nothing), CancelClose, UNCHANGED call
        PROVE  Leaves(Handler(c))
    <3>1. HandlersWaiting' = HandlersWaiting \ {c}
      BY <2>1 DEF Continue, TypeOK, TasksOK
    <3>2. UNCHANGED <<CallsWaiting, ClosersWaiting, StoppersWaiting>>
      BY <1>0, <1>2, <2>1, CancelSpares DEF SpinUpSucceeds
    <3> QED
      BY <1>2, <2>1, <3>1, <3>2, HandlerLeaves DEF SpinUpSucceeds
  <2>2. ASSUME NEW p \in Prewarms, Owns(Prewarm(p)), call[p] = "queued",
               call' = [call EXCEPT ![p] = "done"], RescheduleClose(p),
               UNCHANGED <<pc, burst>>
        PROVE  Leaves(Prewarm(p))
    <3>1. CallsWaiting' = CallsWaiting \ {p}
      BY <2>2 DEF TypeOK, TasksOK
    <3>2. closer[p] = "off"
      BY <2>2 DEF Queued, TimersUnused
    <3>3. UNCHANGED <<HandlersWaiting, ClosersWaiting, StoppersWaiting>>
      BY <1>0, <1>2, <2>2, <3>2, RescheduleSpares DEF SpinUpSucceeds
    <3> QED
      BY <1>2, <2>2, <3>1, <3>3, CallLeaves DEF SpinUpSucceeds
  <2> QED
    BY <1>0, <1>2, <2>1, <2>2, LeavesOnce DEF SpinUpSucceeds
<1>3. ASSUME SpinUpFails PROVE EachQueuedOnce'
  <2>1. UNCHANGED <<queue, HandlersWaiting, CallsWaiting, ClosersWaiting,
                    StoppersWaiting>>
    BY <1>0, <1>3, CancelSpares DEF SpinUpFails, viewers
  <2> QED
    BY <1>0, <2>1, SameWait
<1>4. ASSUME TeardownEnds PROVE EachQueuedOnce'
  <2>1. ASSUME NEW c \in Clients, Owns(Handler(c)), pc[c] = "attach",
               pc' = [pc EXCEPT ![c] = "done"],
               UNCHANGED <<server, call, closer>>
        PROVE  Leaves(Handler(c))
    <3>1. HandlersWaiting' = HandlersWaiting \ {c}
      BY <2>1 DEF TypeOK, TasksOK
    <3> QED
      BY <1>4, <2>1, <3>1, HandlerLeaves DEF TeardownEnds, ClosersWaiting
  <2>2. ASSUME NEW p \in Prewarms, Owns(Prewarm(p)), call[p] = "queued",
               call' = [call EXCEPT ![p] = "done"],
               UNCHANGED <<server, pc, closer>>
        PROVE  Leaves(Prewarm(p))
    <3>1. CallsWaiting' = CallsWaiting \ {p}
      BY <2>2 DEF TypeOK, TasksOK
    <3> QED
      BY <1>4, <2>2, <3>1, CallLeaves DEF TeardownEnds, ClosersWaiting
  <2>3. ASSUME NEW t \in Timers, Owns(Closer(t)), closer[t] = "closing",
               closer' = [closer EXCEPT ![t] = "off"],
               UNCHANGED <<server, pc, call>>
        PROVE  Leaves(Closer(t))
    <3>1. ClosersWaiting' = ClosersWaiting \ {t}
      BY <1>0, <2>3 DEF TimersOK, ClosersWaiting
    <3> QED
      BY <1>4, <2>3, <3>1, CloserLeaves DEF TeardownEnds
  <2>4. ASSUME Owns(Stopper), server' = "down", UNCHANGED <<pc, call, closer>>
        PROVE  Leaves(Stopper)
    <3>1. Waiting' = Waiting \ {Stopper}
      BY <2>4, TasksApart DEF Waiting, TasksOf, ClosersWaiting
    <3> QED
      BY <1>4, <2>4, <3>1 DEF Leaves, TeardownEnds
  <2> QED
    BY <1>0, <1>4, <2>1, <2>2, <2>3, <2>4, LeavesOnce DEF TeardownEnds
<1>5. ASSUME NEW c \in Clients, Connect(c) PROVE EachQueuedOnce'
  <2>1. c \notin HandlersWaiting /\ HandlersWaiting' = HandlersWaiting \cup {c}
    BY <1>5 DEF Connect, TypeOK, TasksOK
  <2> QED
    BY <1>0, <1>5, <2>1, HandlerJoins, JoinsOnce DEF Connect, ClosersWaiting,
       relay, timers
<1>6. ASSUME NEW c \in Clients, KeyframeWaitEnds(c) PROVE EachQueuedOnce'
  <2>1. c \notin HandlersWaiting /\ HandlersWaiting' = HandlersWaiting \cup {c}
    BY <1>6 DEF KeyframeWaitEnds, TypeOK, TasksOK
  <2> QED
    BY <1>0, <1>6, <2>1, HandlerJoins, JoinsOnce
    DEF KeyframeWaitEnds, ClosersWaiting,
       relay, timers
<1>7. ASSUME NEW c \in Clients, WriteBurst(c) PROVE EachQueuedOnce'
  <2>1. c \notin HandlersWaiting /\ HandlersWaiting' = HandlersWaiting \cup {c}
    BY <1>7 DEF WriteBurst, TypeOK, TasksOK
  <2> QED
    BY <1>0, <1>7, <2>1, HandlerJoins, JoinsOnce DEF WriteBurst, ClosersWaiting,
       relay, timers
<1>8. ASSUME NEW c \in Clients, BurstBreaks(c) PROVE EachQueuedOnce'
  <2>1. c \notin HandlersWaiting /\ HandlersWaiting' = HandlersWaiting \cup {c}
    BY <1>8 DEF BurstBreaks, TypeOK, TasksOK
  <2> QED
    BY <1>0, <1>8, <2>1, HandlerJoins, JoinsOnce
    DEF BurstBreaks, ClosersWaiting,
       relay, timers
<1>9. ASSUME NEW c \in Clients, ReadEof(c) PROVE EachQueuedOnce'
  <2>1. c \notin HandlersWaiting /\ HandlersWaiting' = HandlersWaiting \cup {c}
    BY <1>9 DEF ReadEof, TypeOK, TasksOK
  <2> QED
    BY <1>0, <1>9, <2>1, HandlerJoins, JoinsOnce DEF ReadEof, ClosersWaiting,
       relay, timers
<1>10. ASSUME NEW c \in Clients, Leave(c) PROVE EachQueuedOnce'
  BY <1>0, <1>10, SameWait DEF Leave, ClosersWaiting, relay, timers
<1>11. ASSUME NEW c \in Clients, AttachWarm(c) PROVE EachQueuedOnce'
  <2>1. HandlersWaiting' = HandlersWaiting \ {c}
    BY <1>11 DEF AttachWarm, Continue, TypeOK, TasksOK
  <2>2. UNCHANGED <<CallsWaiting, ClosersWaiting, StoppersWaiting>>
    BY <1>0, <1>11, CancelSpares DEF AttachWarm
  <2> QED
    BY <1>0, <1>11, <2>1, <2>2, HandlerLeaves, LeavesOnce DEF AttachWarm, Enters
<1>12. ASSUME NEW c \in Clients, Resnapshot(c) PROVE EachQueuedOnce'
  <2>1. UNCHANGED <<CallsWaiting, ClosersWaiting, StoppersWaiting>>
    BY <1>12 DEF Resnapshot, ClosersWaiting, relay, timers
  <2>2. CASE Snapshot # Nothing
    <3>1. HandlersWaiting' = HandlersWaiting \ {c}
      BY <1>12, <2>2 DEF Resnapshot, TypeOK, TasksOK
    <3> QED
      BY <1>0, <1>12, <2>1, <2>2, <3>1, HandlerLeaves, LeavesOnce
      DEF Resnapshot, Enters
  <2>3. CASE Snapshot = Nothing
    <3>1. HandlersWaiting' = HandlersWaiting
      BY <1>12, <2>3 DEF Resnapshot, TypeOK, TasksOK
    <3>2. Waiting' = Waiting
      BY <2>1, <3>1 DEF Waiting
    <3>3. /\ queue # <<>> /\ Head(queue) = Handler(c)
          /\ queue' = Append(Tail(queue), Handler(c))
      BY <1>12, <2>3 DEF Resnapshot, Enters, Owns
    <3>4. Tail(queue) \in Seq(Tasks) /\ Handler(c) \in Tasks
      BY <1>0, <3>3, QueueTyped, TasksTyped
    <3>5. HoldsOnce(Tail(queue), Waiting \ {Handler(c)})
      BY <1>0, <3>3, ReleasedOnce DEF EachQueuedOnce
    <3>6. HoldsOnce(queue', (Waiting \ {Handler(c)}) \cup {Handler(c)})
      BY <3>3, <3>4, <3>5, AskedOnce
    <3>7. Handler(c) \in Waiting
      BY <1>12 DEF Resnapshot, Waiting, TasksOf
    <3>8. (Waiting \ {Handler(c)}) \cup {Handler(c)} = Waiting
      BY <3>7
    <3> QED
      BY <3>2, <3>6, <3>8 DEF EachQueuedOnce
  <2> QED
    BY <2>2, <2>3
<1>13. ASSUME NEW c \in Clients, Publish(c) PROVE EachQueuedOnce'
  <2>1. HandlersWaiting' = HandlersWaiting \ {c}
    BY <1>13 DEF Publish, TypeOK, TasksOK
  <2>2. UNCHANGED <<CallsWaiting, ClosersWaiting, StoppersWaiting>>
    BY <1>13 DEF Publish, ClosersWaiting, timers
  <2> QED
    BY <1>0, <1>13, <2>1, <2>2, HandlerLeaves, LeavesOnce DEF Publish, Enters
<1>14. ASSUME NEW c \in Clients, Detach(c) PROVE EachQueuedOnce'
  <2>1. HandlersWaiting' = HandlersWaiting \ {c}
    BY <1>14 DEF Detach, TypeOK, TasksOK
  <2>2. ClosersWaiting' = ClosersWaiting
    <3>1. closer[c] = "off"
      BY <1>14 DEF Detach, Queued, TimersUnused
    <3>2. CASE writer = c
      BY <1>0, <1>14, <3>1, <3>2, RescheduleSpares DEF Detach
    <3>3. CASE writer # c
      BY <1>14, <3>3 DEF Detach, ClosersWaiting, timers
    <3> QED
      BY <3>2, <3>3
  <2>3. UNCHANGED <<CallsWaiting, StoppersWaiting>>
    BY <1>14 DEF Detach
  <2> QED
    BY <1>0, <1>14, <2>1, <2>2, <2>3, HandlerLeaves, LeavesOnce
    DEF Detach, Enters
<1>15. ASSUME NEW p \in Prewarms, CallPrewarm(p) PROVE EachQueuedOnce'
  <2>1. p \notin CallsWaiting /\ CallsWaiting' = CallsWaiting \cup {p}
    BY <1>15 DEF CallPrewarm, TypeOK, TasksOK
  <2>2. UNCHANGED <<HandlersWaiting, ClosersWaiting, StoppersWaiting>>
    BY <1>15 DEF CallPrewarm, ClosersWaiting, timers, viewers
  <2> QED
    BY <1>0, <1>15, <2>1, <2>2, CallJoins, JoinsOnce DEF CallPrewarm
<1>16. ASSUME NEW p \in Prewarms, PrewarmRenews(p) PROVE EachQueuedOnce'
  <2>1. CallsWaiting' = CallsWaiting \ {p}
    BY <1>16 DEF PrewarmRenews, TypeOK, TasksOK
  <2>2. closer[p] = "off"
    BY <1>16 DEF PrewarmRenews, Queued, TimersUnused
  <2>3. UNCHANGED <<HandlersWaiting, ClosersWaiting, StoppersWaiting>>
    BY <1>0, <1>16, <2>2, RescheduleSpares DEF PrewarmRenews, viewers
  <2> QED
    BY <1>0, <1>16, <2>1, <2>3, CallLeaves, LeavesOnce DEF PrewarmRenews, Enters
<1>17. ASSUME NEW t \in Timers, TimerFires(t) PROVE EachQueuedOnce'
  <2>1. ClosersWaiting' = ClosersWaiting
    BY <1>0, <1>17 DEF TimerFires, TimersOK, ClosersWaiting
  <2> QED
    BY <1>0, <1>17, <2>1, SameWait DEF TimerFires, viewers
<1>18. ASSUME NEW t \in Timers, CloserStarts(t) PROVE EachQueuedOnce'
  <2>1. t \notin ClosersWaiting /\ ClosersWaiting' = ClosersWaiting \cup {t}
    BY <1>0, <1>18 DEF CloserStarts, TimersOK, ClosersWaiting
  <2>2. UNCHANGED <<HandlersWaiting, CallsWaiting, StoppersWaiting>>
    BY <1>18 DEF CloserStarts, viewers
  <2> QED
    BY <1>0, <1>18, <2>1, <2>2, CloserJoins, JoinsOnce DEF CloserStarts
<1>19. ASSUME NEW t \in Timers, CloserDeclines(t) PROVE EachQueuedOnce'
  <2>1. ClosersWaiting' = ClosersWaiting \ {t}
    BY <1>0, <1>19 DEF CloserDeclines, TimersOK, ClosersWaiting
  <2>2. UNCHANGED <<HandlersWaiting, CallsWaiting, StoppersWaiting>>
    BY <1>19 DEF CloserDeclines, viewers
  <2> QED
    BY <1>0, <1>19, <2>1, <2>2, CloserLeaves, LeavesOnce
    DEF CloserDeclines, Enters
<1>20. ASSUME NEW t \in Timers, CloserCloses(t) PROVE EachQueuedOnce'
  <2>1. ClosersWaiting' = ClosersWaiting
    BY <1>0, <1>20 DEF CloserCloses, TimersOK, ClosersWaiting
  <2> QED
    BY <1>0, <1>20, <2>1, SameWait DEF CloserCloses, viewers
<1>21. ASSUME PumpReads PROVE EachQueuedOnce'
  <2>1. HandlersWaiting' = HandlersWaiting
    BY <1>21 DEF PumpReads, TypeOK, TasksOK
  <2> QED
    BY <1>0, <1>21, <2>1, SameWait DEF PumpReads, ClosersWaiting, timers
<1>22. ASSUME PumpDrained \/ PumpBreaks \/ PumpEnds \/ CallStop
      PROVE  EachQueuedOnce'
  BY <1>0, <1>22, SameWait DEF PumpDrained, PumpBreaks, PumpEnds, CallStop,
     ClosersWaiting, timers, viewers
<1>23. ASSUME StopWaited PROVE EachQueuedOnce'
  <2>1. Joins(Stopper)
    BY <1>23, TasksApart, TasksTyped DEF StopWaited, Joins, Waiting, TasksOf,
       ClosersWaiting, timers, viewers
  <2> QED
    BY <1>0, <2>1, JoinsOnce
<1>24. ASSUME StopCloses PROVE EachQueuedOnce'
  <2>1. ClosersWaiting' = ClosersWaiting
    BY <1>0, <1>24, CancelSpares DEF StopCloses
  <2> QED
    BY <1>0, <1>24, <2>1, SameWait DEF StopCloses, viewers
<1>25. CASE UNCHANGED vars
  BY <1>0, <1>25, SameWait DEF vars, relay, ClosersWaiting, timers, viewers
<1> QED
  BY <1>1, <1>2, <1>3, <1>4, <1>5, <1>6, <1>7, <1>8, <1>9, <1>10, <1>11, <1>12, <1>13,
     <1>14, <1>15, <1>16, <1>17, <1>18, <1>19, <1>20, <1>21, <1>22, <1>23, <1>24, <1>25
  DEF Next, Session, Handling, Closing, Pumping, Stopping, Idle

\* Each step keeps a task's timer unused until the task ends.
LEMMA UnusedNext ==
    TypeOK /\ TimersUnused /\ [Next]_vars => TimersUnused'
<1> SUFFICES ASSUME TypeOK, TimersUnused, [Next]_vars PROVE TimersUnused'
  OBVIOUS
<1>0. TimersOK /\ TasksOK
  BY DEF TypeOK
<1> USE DEF TimersUnused
<1>1. ASSUME SpinUpSucceeds PROVE TimersUnused'
  <2>1. ASSUME NEW c \in Clients, pc[c] = "attach", Continue(c, Nothing),
               CancelClose, UNCHANGED call
        PROVE  TimersUnused'
    BY <1>0, <2>1, CancelSpares DEF Continue, TasksOK
  <2>2. ASSUME NEW p \in Prewarms, call[p] = "queued",
               call' = [call EXCEPT ![p] = "done"], RescheduleClose(p),
               UNCHANGED pc
        PROVE  TimersUnused'
    BY <1>0, <2>2, RescheduleSpares DEF TasksOK
  <2> QED
    BY <1>1, <2>1, <2>2 DEF SpinUpSucceeds
<1>2. ASSUME SpinUpFails PROVE TimersUnused'
  BY <1>0, <1>2, CancelSpares DEF SpinUpFails, viewers
<1>3. ASSUME TeardownEnds PROVE TimersUnused'
  BY <1>0, <1>3 DEF TeardownEnds, TasksOK, TimersOK
<1>4. ASSUME NEW c \in Clients, AttachWarm(c) PROVE TimersUnused'
  BY <1>0, <1>4, CancelSpares DEF AttachWarm, Continue, TasksOK
<1>5. ASSUME NEW c \in Clients, Detach(c) PROVE TimersUnused'
  <2>1. CASE writer = c
    BY <1>0, <1>5, <2>1, RescheduleSpares DEF Detach, TasksOK
  <2>2. CASE writer # c
    BY <1>0, <1>5, <2>2 DEF Detach, TasksOK, timers
  <2> QED
    BY <2>1, <2>2
<1>6. ASSUME NEW c \in Clients,
             Connect(c) \/ Leave(c) \/ KeyframeWaitEnds(c) \/ Resnapshot(c)
                \/ WriteBurst(c) \/ BurstBreaks(c) \/ Publish(c) \/ ReadEof(c)
      PROVE  TimersUnused'
  BY <1>0, <1>6 DEF Connect, Leave, KeyframeWaitEnds, Resnapshot, WriteBurst,
     BurstBreaks, Publish, ReadEof, TasksOK, relay, timers
<1>7. ASSUME NEW p \in Prewarms, CallPrewarm(p) PROVE TimersUnused'
  BY <1>0, <1>7 DEF CallPrewarm, TasksOK, timers, viewers
<1>8. ASSUME NEW p \in Prewarms, PrewarmRenews(p) PROVE TimersUnused'
  BY <1>0, <1>8, RescheduleSpares DEF PrewarmRenews, TasksOK, viewers
<1>9. ASSUME NEW t \in Timers,
             TimerFires(t) \/ CloserStarts(t) \/ CloserDeclines(t)
                \/ CloserCloses(t)
      PROVE  TimersUnused'
  BY <1>0, <1>9 DEF TimerFires, CloserStarts, CloserDeclines, CloserCloses,
     TimersOK, viewers
<1>10. ASSUME PumpReads PROVE TimersUnused'
  BY <1>0, <1>10 DEF PumpReads, TasksOK, timers
<1>11. ASSUME SpinUpStarts \/ PumpDrained \/ PumpBreaks \/ PumpEnds \/ CallStop
                \/ StopWaited
      PROVE  TimersUnused'
  BY <1>11 DEF SpinUpStarts, PumpDrained, PumpBreaks, PumpEnds, CallStop,
     StopWaited, timers, viewers
<1>12. ASSUME StopCloses PROVE TimersUnused'
  BY <1>0, <1>12, CancelSpares DEF StopCloses, viewers
<1>13. CASE UNCHANGED vars
  BY <1>13 DEF vars, relay, timers, viewers
<1> QED
  BY <1>1, <1>2, <1>3, <1>4, <1>5, <1>6, <1>7, <1>8, <1>9, <1>10, <1>11, <1>12,
     <1>13 DEF Next, Session, Handling, Closing, Pumping, Stopping, Idle

\* Each step keeps what is awaited under the lock the owner's.
LEMMA OwnerNext ==
    TypeOK /\ Queued /\ [Next]_vars => ClosingOwns' /\ AwaitOwned'
<1> SUFFICES ASSUME TypeOK, Queued, [Next]_vars
             PROVE  ClosingOwns' /\ AwaitOwned'
  OBVIOUS
<1>0. /\ queue \in Seq(Tasks) /\ TimersOK /\ TasksOK
      /\ ClosingOwns /\ AwaitOwned /\ TimersUnused
      /\ await \in {"none", "spin", "teardown"}
  BY DEF TypeOK, LockOK, Queued
<1> USE DEF ClosingOwns, AwaitOwned, OpensSession, ClosesSession
<1> DEFINE Goal == ClosingOwns' /\ AwaitOwned'
\* A closer in its teardown is the only owner.
<1>a. ASSUME NEW t \in Timers, closer[t] = "closing"
      PROVE  /\ await = "teardown" /\ Owns(Closer(t))
             /\ \A u \in Timers : closer[u] = "closing" => u = t
  BY <1>0, <1>a, TasksApart DEF Owns
\* A step that does not touch what the owner awaits, nor the owner.
<1>b. ASSUME UNCHANGED await,
             \A u : Owns(u) => Owns(u)',
             \A c \in Clients : pc[c] = "attach" => pc'[c] = "attach",
             \A p \in Prewarms : call[p] = "queued" => call'[p] = "queued",
             \A t \in Timers : closer'[t] = "closing" <=> closer[t] = "closing",
             server = "stopping" => server' = "stopping"
      PROVE  Goal
  BY <1>0, <1>b
\* A step of an owner that awaits nothing, and its end.
<1>c. ASSUME await' = "none",
             \A t \in Timers : closer'[t] # "closing"
      PROVE  Goal
  BY <1>c
<1>d. ASSUME await # "teardown"
      PROVE  \A t \in Timers : closer[t] # "closing"
  BY <1>0, <1>d
<1> HIDE DEF ClosingOwns, AwaitOwned
<1>1. ASSUME SpinUpStarts PROVE Goal
  <2>1. \A t \in Timers : closer'[t] # "closing"
    BY <1>1, <1>d DEF SpinUpStarts, Enters, timers
  <2>2. OpensSession'
    BY <1>1 DEF SpinUpStarts, Enters, Owns, viewers
  <2> QED
    BY <1>1, <2>1, <2>2 DEF SpinUpStarts, ClosingOwns, AwaitOwned
<1>2. ASSUME SpinUpSucceeds PROVE Goal
  <2>1. \A t \in Timers : closer[t] # "closing"
    BY <1>2, <1>d DEF SpinUpSucceeds
  <2>2. \A t \in Timers : closer'[t] # "closing"
    <3>1. ASSUME CancelClose PROVE \A t \in Timers : closer'[t] # "closing"
      BY <1>0, <2>1, <3>1, CancelSpares
    <3>2. ASSUME NEW p \in Prewarms, call[p] = "queued", RescheduleClose(p)
          PROVE  \A t \in Timers : closer'[t] # "closing"
      BY <1>0, <2>1, <3>2, RescheduleSpares DEF TimersUnused
    <3> QED
      BY <1>2, <3>1, <3>2 DEF SpinUpSucceeds
  <2> QED
    BY <1>2, <1>c, <2>2 DEF SpinUpSucceeds
<1>3. ASSUME SpinUpFails PROVE Goal
  <2>1. \A t \in Timers : closer'[t] # "closing"
    BY <1>0, <1>3, <1>d, CancelSpares DEF SpinUpFails
  <2>2. OpensSession
    BY <1>0, <1>3 DEF SpinUpFails, AwaitOwned
  <2>3. ClosesSession'
    BY <1>3, <2>2 DEF SpinUpFails, Owns, viewers
  <2> QED
    BY <1>3, <2>1, <2>3 DEF SpinUpFails, Teardown, ClosingOwns, AwaitOwned
<1>4. ASSUME TeardownEnds PROVE Goal
  <2>1. \A t \in Timers : closer'[t] # "closing"
    BY <1>0, <1>4, <1>a, TasksApart DEF TeardownEnds, TimersOK, Owns
  <2> QED
    BY <1>4, <1>c, <2>1 DEF TeardownEnds
<1>5. ASSUME NEW c \in Clients,
             Connect(c) \/ KeyframeWaitEnds(c) \/ WriteBurst(c)
                \/ BurstBreaks(c) \/ ReadEof(c)
      PROVE  Goal
  <2>1. Ask(Handler(c)) /\ \A d \in Clients : pc[d] = "attach" => pc'[d] = "attach"
    BY <1>0, <1>5
    DEF Connect, KeyframeWaitEnds, WriteBurst, BurstBreaks, ReadEof,
       TasksOK
  <2>2. \A u : Owns(u) => Owns(u)'
    BY <1>0, <2>1, OwnerStays, TasksTyped
  <2> QED
    BY <1>5, <1>b, <2>1, <2>2 DEF Connect, KeyframeWaitEnds, WriteBurst,
       BurstBreaks, ReadEof, relay, timers
<1>6. ASSUME NEW c \in Clients, Leave(c) PROVE Goal
  BY <1>6, <1>b DEF Leave, Owns, relay, timers
<1>7. ASSUME NEW c \in Clients, AttachWarm(c) PROVE Goal
  <2>1. \A t \in Timers : closer'[t] # "closing"
    BY <1>0, <1>7, <1>d, CancelSpares DEF AttachWarm, Enters
  <2> QED
    BY <1>7, <1>c, <2>1 DEF AttachWarm, Enters
<1>8. ASSUME NEW c \in Clients, Resnapshot(c) \/ Publish(c) PROVE Goal
  <2>1. await' = "none" /\ \A t \in Timers : closer'[t] # "closing"
    BY <1>8, <1>d DEF Resnapshot, Publish, Enters, relay, timers
  <2> QED
    BY <1>c, <2>1
<1>9. ASSUME NEW c \in Clients, Detach(c) PROVE Goal
  <2>1. closer[c] = "off" /\ \A t \in Timers : closer[t] # "closing"
    BY <1>0, <1>9, <1>d DEF Detach, Enters, TimersUnused
  <2>2. CASE writer = c
    <3>1. \A t \in Timers : closer'[t] # "closing"
      BY <1>0, <1>9, <2>1, <2>2, RescheduleSpares DEF Detach
    <3> QED
      BY <1>9, <1>c, <3>1 DEF Detach, Enters
  <2>3. CASE writer # c
    BY <1>9, <1>c, <2>1, <2>3 DEF Detach, Enters, timers
  <2> QED
    BY <2>2, <2>3
<1>10. ASSUME NEW p \in Prewarms, CallPrewarm(p) PROVE Goal
  <2>1. \A u : Owns(u) => Owns(u)'
    BY <1>0, <1>10, OwnerStays, TasksTyped DEF CallPrewarm
  <2>2. \A q \in Prewarms : call[q] = "queued" => call'[q] = "queued"
    BY <1>0, <1>10 DEF CallPrewarm, TasksOK
  <2> QED
    BY <1>10, <1>b, <2>1, <2>2 DEF CallPrewarm, timers, viewers
<1>11. ASSUME NEW p \in Prewarms, PrewarmRenews(p) PROVE Goal
  <2>1. \A t \in Timers : closer'[t] # "closing"
    BY <1>0, <1>11, <1>d, RescheduleSpares
    DEF PrewarmRenews, Enters, TimersUnused
  <2> QED
    BY <1>11, <1>c, <2>1 DEF PrewarmRenews, Enters
<1>12. ASSUME NEW t \in Timers, TimerFires(t) PROVE Goal
  <2>1. \A u \in Timers : closer'[u] = "closing" <=> closer[u] = "closing"
    BY <1>0, <1>12 DEF TimerFires, TimersOK
  <2> QED
    BY <1>12, <1>b, <2>1 DEF TimerFires, Owns, viewers
<1>13. ASSUME NEW t \in Timers, CloserStarts(t) PROVE Goal
  <2>1. \A u \in Timers : closer'[u] = "closing" <=> closer[u] = "closing"
    BY <1>0, <1>13 DEF CloserStarts, TimersOK
  <2>2. \A u : Owns(u) => Owns(u)'
    BY <1>0, <1>13, OwnerStays, TasksTyped DEF CloserStarts
  <2> QED
    BY <1>13, <1>b, <2>1, <2>2 DEF CloserStarts, viewers
<1>14. ASSUME NEW t \in Timers, CloserDeclines(t) PROVE Goal
  <2>1. \A u \in Timers : closer'[u] # "closing"
    BY <1>0, <1>14, <1>d DEF CloserDeclines, Enters, TimersOK
  <2> QED
    BY <1>14, <1>c, <2>1 DEF CloserDeclines, Enters
<1>15. ASSUME NEW t \in Timers, CloserCloses(t) PROVE Goal
  <2>1. Owns(Closer(t))' /\ await' = "teardown"
    BY <1>15 DEF CloserCloses, Enters, Owns, Teardown
  <2>2. closer'[t] = "closing" /\ \A u \in Timers : closer'[u] = "closing" => u = t
    BY <1>0, <1>15, <1>d DEF CloserCloses, Enters, TimersOK
  <2> QED
    BY <2>1, <2>2 DEF ClosingOwns, AwaitOwned
<1>16. ASSUME PumpReads PROVE Goal
  <2>1. \A c \in Clients : pc[c] = "attach" => pc'[c] = "attach"
    BY <1>16 DEF PumpReads
  <2> QED
    BY <1>16, <1>b, <2>1 DEF PumpReads, Owns, timers
<1>17. ASSUME PumpDrained \/ PumpBreaks \/ PumpEnds \/ CallStop PROVE Goal
  BY <1>17, <1>b DEF PumpDrained, PumpBreaks, PumpEnds, CallStop, Owns, timers,
     viewers
<1>18. ASSUME StopWaited PROVE Goal
  <2>1. \A u : Owns(u) => Owns(u)'
    BY <1>0, <1>18, OwnerStays, TasksTyped DEF StopWaited
  <2> QED
    BY <1>18, <1>b, <2>1 DEF StopWaited, timers, viewers
<1>19. ASSUME StopCloses PROVE Goal
  <2>1. \A t \in Timers : closer'[t] # "closing"
    BY <1>0, <1>19, <1>d, CancelSpares DEF StopCloses, Enters
  <2>2. ClosesSession' /\ await' = "teardown"
    BY <1>19 DEF StopCloses, Enters, Owns, Teardown
  <2> QED
    BY <2>1, <2>2 DEF ClosingOwns, AwaitOwned
<1>20. CASE UNCHANGED vars
  BY <1>20, <1>b DEF vars, relay, Owns, timers, viewers
<1> QED
  BY <1>1, <1>2, <1>3, <1>4, <1>5, <1>6, <1>7, <1>8, <1>9, <1>10, <1>11, <1>12,
     <1>13, <1>14, <1>15, <1>16, <1>17, <1>18, <1>19, <1>20
  DEF Next, Session, Handling, Closing, Pumping, Stopping, Idle

\* The owner of the lock can go on: it runs and its state is one that its code
\* expects under the lock, or what it awaits is a start or a close that it
\* began itself.
OwnerGoesOn ==
    queue # <<>> =>
        \/ /\ await = "none"
           /\ \/ \E c \in HandlersWaiting : Owns(Handler(c))
              \/ \E p \in CallsWaiting : Owns(Prewarm(p))
              \/ \E t \in Timers : Owns(Closer(t)) /\ closer[t] = "queued"
              \/ Owns(Stopper) /\ server = "stopping"
        \/ await = "spin" /\ OpensSession
        \/ await = "teardown" /\ ClosesSession

\* The owner is one of those who asked.
LEMMA OwnerAsked ==
    ASSUME TypeOK, Queued PROVE OwnerGoesOn
<1> SUFFICES ASSUME queue # <<>>, await = "none" PROVE OwnerGoesOn
  BY DEF TypeOK, LockOK, Queued, AwaitOwned, OwnerGoesOn
<1>1. Head(queue) = queue[1] /\ 1 \in 1 .. Len(queue)
  BY HeadTailProperties, LenProperties, EmptySeq DEF TypeOK, LockOK
<1>2. Head(queue) \in Waiting
  BY <1>1 DEF Queued, EachQueuedOnce, HoldsOnce
<1>3. \A t \in ClosersWaiting : closer[t] = "queued"
  BY DEF ClosersWaiting, Queued, ClosingOwns
<1>4. \/ \E c \in HandlersWaiting : Owns(Handler(c))
      \/ \E p \in CallsWaiting : Owns(Prewarm(p))
      \/ \E t \in ClosersWaiting : Owns(Closer(t))
      \/ Owns(Stopper) /\ server = "stopping"
  BY <1>2 DEF Waiting, TasksOf, StoppersWaiting, Owns
<1> QED
  BY <1>3, <1>4 DEF OwnerGoesOn, ClosersWaiting

LEMMA QueuedInit == Init => Queued
<1> SUFFICES ASSUME Init PROVE Queued
  OBVIOUS
<1>1. Waiting = {}
  BY DEF Init, Waiting, TasksOf, HandlersWaiting, CallsWaiting, ClosersWaiting,
         StoppersWaiting
<1>2. 1 .. Len(queue) = {}
  BY EmptySeq DEF Init
<1> QED
  BY <1>1, <1>2 DEF Init, Queued, EachQueuedOnce, HoldsOnce, TimersUnused,
     ClosingOwns, AwaitOwned

LEMMA QueuedNext == TypeOK /\ Queued /\ [Next]_vars => Queued'
BY OnceNext, UnusedNext, OwnerNext DEF Queued

\* The state lock (tcp_relay.py:194) serves everyone who asks: each task that
\* waits for it is queued once, and its owner can always go on.
\* No task that waits is forgotten, and none waits for one that waits.
THEOREM LockServesAll == Spec => [](EachQueuedOnce /\ OwnerGoesOn)
<1>1. TypeOK /\ Queued => EachQueuedOnce /\ OwnerGoesOn
  BY OwnerAsked DEF Queued
<1> QED
  BY <1>1, QueuedInit, QueuedNext, TypeCorrect, PTL DEF Spec
=============================================================================
