------------------------------- MODULE Mjpeg -------------------------------
(***************************************************************************)
(* The MJPEG live view (mjpeg.py): serve_mjpeg runs one ffmpeg process per *)
(* request, which is a viewer of the relay, and copies what it writes to   *)
(* the browser.  A step is what the handler does up to its next await.     *)
(* aiohttp cancels the handler once when the browser's connection is lost  *)
(* or the server shuts down; a write can find the connection closing       *)
(* before that.                                                            *)
(***************************************************************************)
CONSTANT Views      \* the requests that are open at the same time

VARIABLES
    at,         \* where each handler is: the await it is suspended on
    ffmpeg,     \* its process: running, signalled, or dead
    left,       \* the requests whose browser has gone
    cancelled   \* the requests whose handler has been cancelled

views == <<at, ffmpeg, left, cancelled>>

\* How a handler ends: with its clean-up done, out of response.prepare, or in
\* the middle of _terminate.
Ends     == {"returned", "unprepared", "cut"}
Awaits   == {"spawn", "prepare", "read", "write", "grace", "kill", "drain", "eof"}
Attached == {v \in Views : ffmpeg[v] \in {"running", "termed"}}

ViewsTypeOK ==
    /\ at \in [Views -> Awaits \cup Ends]
    /\ ffmpeg \in [Views -> {"running", "termed", "killed", "dead"}]
    /\ left \subseteq Views
    /\ cancelled \subseteq left

NoViews ==
    /\ at = [v \in Views |-> "returned"]
    /\ ffmpeg = [v \in Views |-> "dead"]
    /\ left = {} /\ cancelled = {}
-----------------------------------------------------------------------------
(* The browser and the process *)

Leave(v) ==
    /\ at[v] \in Awaits /\ v \notin left
    /\ left' = left \cup {v}
    /\ UNCHANGED <<at, ffmpeg, cancelled>>

\* By a signal, the end of its input, or a failure of its own.
Exits(v) ==
    /\ ffmpeg[v] # "dead"
    /\ ffmpeg' = [ffmpeg EXCEPT ![v] = "dead"]
    /\ UNCHANGED <<at, left, cancelled>>
-----------------------------------------------------------------------------
(* serve_mjpeg *)

Goes(v, from, to) ==
    /\ at[v] = from
    /\ at' = [at EXCEPT ![v] = to]
    /\ UNCHANGED <<ffmpeg, left, cancelled>>

\* A handler and its process are collected once both have ended.
Serve(v) ==
    /\ at[v] \in Ends /\ ffmpeg[v] = "dead"
    /\ at' = [at EXCEPT ![v] = "spawn"]
    /\ left' = left \ {v} /\ cancelled' = cancelled \ {v}
    /\ UNCHANGED ffmpeg

Spawned(v) ==
    /\ at[v] = "spawn"
    /\ at' = [at EXCEPT ![v] = "prepare"]
    /\ ffmpeg' = [ffmpeg EXCEPT ![v] = "running"]
    /\ UNCHANGED <<left, cancelled>>

SpawnFails(v) == Goes(v, "spawn", "returned")

Prepared(v) == Goes(v, "prepare", "read")

\* The response cannot be prepared on a connection that is closing; the try
\* block has not been entered yet.
PrepareFails(v) == v \in left /\ Goes(v, "prepare", "unprepared")

ReadChunk(v) == ffmpeg[v] # "dead" /\ Goes(v, "read", "write")

Written(v) == Goes(v, "write", "read")

\* Into the finally clause: _terminate sends SIGTERM to a process that runs,
\* and waits; stderr_task is cancelled at once otherwise.
Finally(v) ==
    /\ at[v] \in {"read", "write"}
    /\ IF ffmpeg[v] = "dead"
       THEN at' = [at EXCEPT ![v] = "drain"] /\ UNCHANGED ffmpeg
       ELSE /\ at' = [at EXCEPT ![v] = "grace"]
            /\ ffmpeg' = [ffmpeg EXCEPT ![v] = "termed"]

\* The end of ffmpeg's output, or a write to a connection that is closing.
CopyEnds(v) ==
    /\ \/ at[v] = "read" /\ ffmpeg[v] = "dead"
       \/ at[v] = "write" /\ v \in left
    /\ Finally(v)
    /\ UNCHANGED <<left, cancelled>>

ExitsInTime(v) ==
    ffmpeg[v] = "dead" /\ (Goes(v, "grace", "drain") \/ Goes(v, "kill", "drain"))

GraceEndsUnkilled(v) == Goes(v, "grace", "drain")       \* seeded fault

\* _FFMPEG_GRACE is over: SIGKILL, and as long again.
GraceEnds(v) ==
    /\ at[v] = "grace"
    /\ at' = [at EXCEPT ![v] = IF ffmpeg[v] = "dead" THEN "drain" ELSE "kill"]
    /\ ffmpeg' = [ffmpeg EXCEPT ![v] = IF @ = "dead" THEN @ ELSE "killed"]
    /\ UNCHANGED <<left, cancelled>>

KillWaitEnds(v) == Goes(v, "kill", "drain")

\* stderr_task has ended; then write_eof has, or it found the browser gone.
CleanUpEnds(v) == Goes(v, "drain", "eof") \/ Goes(v, "eof", "returned")

CancelIgnored(v) ==                                     \* seeded fault
    /\ v \in left \ cancelled /\ at[v] \in Awaits
    /\ cancelled' = cancelled \cup {v}
    /\ UNCHANGED <<at, ffmpeg, left>>

\* Where a handler goes on that is cancelled outside of its try block: asyncio
\* kills a process that it is still starting; the wait for stderr_task swallows
\* the error; write_eof is the last of the clean-up.
CancelledAt == [spawn |-> "returned", prepare |-> "unprepared",
                grace |-> "cut", kill |-> "cut",
                drain |-> "eof", eof |-> "returned"]

\* CancelledError at the handler's await.
Cancel(v) ==
    /\ v \in left \ cancelled
    /\ \/ Finally(v)
       \/ /\ at[v] \in DOMAIN CancelledAt
          /\ at' = [at EXCEPT ![v] = CancelledAt[@]]
          /\ UNCHANGED ffmpeg
    /\ cancelled' = cancelled \cup {v}
    /\ UNCHANGED left

\* What the event loop sees to, whatever browser and ffmpeg do.
Handles(v) ==
    \/ Spawned(v) \/ SpawnFails(v) \/ Prepared(v) \/ PrepareFails(v)
    \/ CopyEnds(v)
    \/ ExitsInTime(v) \/ GraceEnds(v) \/ KillWaitEnds(v) \/ CleanUpEnds(v)

ViewStep(v) ==
    \/ Leave(v) \/ Exits(v)
    \/ Handles(v) \/ Cancel(v)
    \/ ReadChunk(v) \/ Written(v)

\* The loop runs the handlers and delivers a cancellation; a process that was
\* killed ends.  A browser need not leave, nor ffmpeg write or heed SIGTERM.
ViewFairness ==
    \A v \in Views :
        /\ WF_views(Handles(v)) /\ WF_views(Cancel(v))
        /\ WF_views(ffmpeg[v] = "killed" /\ Exits(v))
-----------------------------------------------------------------------------
\* A handler leaves no ffmpeg behind that it has not killed, but for one that
\* is cancelled while it waits for SIGTERM to work (mjpeg.py:228), and one that
\* fails before its try block (mjpeg.py:148); the module promises "one ffmpeg
\* subprocess per active viewer" (mjpeg.py:12).
FfmpegStopped ==
    \A v \in Views :
        /\ at[v] = "returned" => ffmpeg[v] \in {"killed", "dead"}
        /\ at[v] = "cut" => ffmpeg[v] # "running"
=============================================================================
