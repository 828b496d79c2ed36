---------------------------- MODULE EntryProofs ----------------------------
(***************************************************************************)
(* Proofs about Entry and Mjpeg, for any lives, views, feature codes and   *)
(* bounds: types, whose code a token carries, that no call is without a    *)
(* token, that a listening relay has an owner, and what a view leaves of   *)
(* its ffmpeg.                                                             *)
(***************************************************************************)
EXTENDS Entry, TLAPS

-----------------------------------------------------------------------------
(* A view *)

\* Where a handler is decides what may be left of its process.
Stopping(v) ==
    /\ at[v] = "spawn" => ffmpeg[v] = "dead"
    /\ at[v] \in {"grace", "cut"} => ffmpeg[v] # "running"
    /\ at[v] \in {"kill", "drain", "eof", "returned"} => ffmpeg[v] \in {"killed", "dead"}

ViewsInv == ViewsTypeOK /\ \A v \in Views : Stopping(v)

LEMMA NoViewsInv == NoViews => ViewsInv
BY DEF NoViews, ViewsInv, ViewsTypeOK, Stopping, Awaits, Ends

LEMMA FinallyInv ==
    ASSUME ViewsInv, NEW v \in Views, Finally(v),
           left' = left, cancelled' \subseteq left
    PROVE  ViewsInv'
BY DEF Finally, ViewsInv, ViewsTypeOK, Stopping, Awaits, Ends

LEMMA CancelInv ==
    ASSUME ViewsInv, NEW v \in Views, Cancel(v) PROVE ViewsInv'
<1>1. left' = left /\ cancelled' \subseteq left
  BY DEF Cancel, ViewsInv, ViewsTypeOK
<1>2. CASE Finally(v)
  BY <1>1, <1>2, FinallyInv
<1>3. CASE /\ at[v] \in DOMAIN CancelledAt
           /\ at' = [at EXCEPT ![v] = CancelledAt[@]]
           /\ UNCHANGED ffmpeg
  <2>1. DOMAIN CancelledAt = {"spawn", "prepare", "grace", "kill", "drain", "eof"}
    BY DEF CancelledAt
  <2>2. at' = [at EXCEPT ![v] = CancelledAt[at[v]]]
    BY <1>3
  <2>3. \/ at[v] = "spawn" /\ CancelledAt[at[v]] = "returned"
        \/ at[v] = "prepare" /\ CancelledAt[at[v]] = "unprepared"
        \/ at[v] \in {"grace", "kill"} /\ CancelledAt[at[v]] = "cut"
        \/ at[v] = "drain" /\ CancelledAt[at[v]] = "eof"
        \/ at[v] = "eof" /\ CancelledAt[at[v]] = "returned"
    BY <1>3, <2>1 DEF CancelledAt
  <2> QED
    BY <1>1, <1>3, <2>2, <2>3 DEF ViewsInv, ViewsTypeOK, Stopping, Awaits, Ends
<1> QED
  BY <1>2, <1>3 DEF Cancel

\* Every step of a view, and the opening of one, keeps the invariant.
LEMMA ViewInv ==
    ASSUME ViewsInv, NEW v \in Views, ViewStep(v) \/ Serve(v) PROVE ViewsInv'
<1>1. CASE Cancel(v)
  BY <1>1, CancelInv
<1>2. CASE CopyEnds(v)
  BY <1>2, FinallyInv DEF CopyEnds, ViewsInv, ViewsTypeOK
<1>3. CASE Leave(v) \/ Exits(v) \/ Serve(v)
  BY <1>3 DEF Leave, Exits, Serve, ViewsInv, ViewsTypeOK, Stopping, Awaits, Ends
<1>4. CASE Spawned(v) \/ GraceEnds(v)
  BY <1>4 DEF Spawned, GraceEnds, ViewsInv, ViewsTypeOK, Stopping, Awaits, Ends
<1>5. CASE \/ SpawnFails(v) \/ Prepared(v) \/ PrepareFails(v)
           \/ ReadChunk(v) \/ Written(v)
  BY <1>5 DEF SpawnFails, Prepared, PrepareFails, ReadChunk, Written, Goes,
              ViewsInv, ViewsTypeOK, Stopping, Awaits, Ends
<1>6. CASE ExitsInTime(v) \/ KillWaitEnds(v) \/ CleanUpEnds(v)
  BY <1>6 DEF ExitsInTime, KillWaitEnds, CleanUpEnds, Goes, ViewsInv, ViewsTypeOK,
              Stopping, Awaits, Ends
<1> QED
  BY <1>1, <1>2, <1>3, <1>4, <1>5, <1>6 DEF ViewStep, Handles

LEMMA EveryViewInv == ViewsInv /\ [Next]_vars => ViewsInv'
<1> SUFFICES ASSUME ViewsInv, [Next]_vars PROVE ViewsInv'
  OBVIOUS
<1>1. CASE UNCHANGED views
  BY <1>1 DEF views, ViewsInv, ViewsTypeOK, Stopping
<1>2. CASE Crash
  BY <1>2 DEF Crash, ViewsInv, ViewsTypeOK, Stopping, Awaits, Ends
<1>3. CASE \E v \in Views : ViewOpens(v) \/ ViewGoesOn(v)
  BY <1>3, ViewInv DEF ViewOpens, ViewGoesOn
<1>4. ASSUME SetUpSteps \/ QueryFails \/ PlatformsFail \/ UserReloads
      PROVE  UNCHANGED views
  BY <1>4 DEF SetUpSteps, SetUpBegins, LoggedIn, QueryEnds, RelayStarts, SetUpEnds,
              QueryFails, PlatformsFail, UserReloads, Moves, streams
<1>5. ASSUME UnloadSteps \/ UnloadFails \/ ChangeOption PROVE UNCHANGED views
  BY <1>5 DEF UnloadSteps, ReloadBegins, PlatformsUnload, RelayStops, CloseBegins,
              Unloaded, UnloadFails, ChangeOption, Moves, streams
<1>6. ASSUME \/ Save \/ OtherEntry \/ \E c \in Codes : FlowSubmits(c)
             \/ FlowLogsIn \/ FlowFails \/ FlowCreates
      PROVE  UNCHANGED views
  BY <1>6 DEF Save, OtherEntry, FlowSubmits, FlowLogsIn, FlowFails, FlowCreates,
              Moves, streams
<1>7. ASSUME NEW l \in Lives, NEW c \in Callers,
             \/ RefreshLogsIn(l) \/ CallBegins(l, c) \/ CallSteps(l, c)
             \/ EnsureFails(l, c)
      PROVE  UNCHANGED views
  BY <1>7 DEF RefreshLogsIn, CallBegins, CallSteps, Construct, LogsIn, CallEnds,
              EnsureFails, streams
<1>8. CASE UNCHANGED vars
  BY <1>1, <1>8 DEF vars, streams
<1> QED
  BY <1>1, <1>2, <1>3, <1>4, <1>5, <1>6, <1>7, <1>8 DEF Next, Callers

-----------------------------------------------------------------------------
(* Types *)

\* While set-up or unload is under way, or the entry is loaded, there is a life;
\* set-up waits for its own call of the API.
Entered == {"detect", "first", "related", "relay", "platforms", "loaded",
            "unloading", "stop", "close", "logout"}
HasLife ==
    /\ phase \in Entered \cup {"login"} => life \in Lives
    /\ \A l \in Lives : call[l]["setup"] # "idle" => phase = "login" /\ l = life

Typed == TypeOK /\ HasLife

LEMMA Given ==
    ASSUME TypeOK
    PROVE  /\ scope.codes \subseteq Codes /\ scope.lives \subseteq Lives
           /\ scope.views \subseteq Views
           /\ entry \in Entries /\ disk \in Entries
           /\ entry.code \in Codes \cup {None} /\ entry.token \in Issued
           /\ entry.option \in Modes
           /\ featureCode \in Issued /\ featureCode # None
BY BoundsAssumption DEF TypeOK, Entries

LEMMA NamesTyped ==
    /\ Codes \subseteq Issued \ {None} /\ Library \in Issued \ {None}
    /\ Foreign \in Issued \ {None} /\ None \in Issued /\ None \notin Lives
BY NamesAssumption DEF Issued

LEMMA EntriesTyped ==
    ASSUME NEW e \in Entries
    PROVE  /\ \A t \in Issued : [e EXCEPT !.token = t] \in Entries
           /\ \A c \in Codes : [e EXCEPT !.code = c] \in Entries
           /\ \A c \in Codes : [e EXCEPT !.code = c, !.token = None] \in Entries
           /\ \A m \in Modes : [e EXCEPT !.option = m] \in Entries
           /\ NoEntry \in Entries
BY NamesTyped DEF Entries, NoEntry, Modes

LEMMA NothingTyped ==
    /\ NoClients \in [Lives -> Issued] /\ NoRelays \in [Lives -> {"none", "listening", "closing"}]
    /\ NoCalls \in [Lives -> [Callers -> {"idle", "construct", "login", "use"}]]
    /\ NoWatch \in [Views -> Lives \cup {None}]
BY NamesTyped DEF NoClients, NoRelays, NoCalls, NoWatch

LEMMA InitTyped == Init => Typed
<1> SUFFICES ASSUME Init PROVE Typed
  OBVIOUS
<1>1. NoEntry \in Entries /\ [NoEntry EXCEPT !.token = Library] \in Entries
  BY NamesTyped DEF Entries, NoEntry, Modes
<1>2. ViewsTypeOK
  BY NoViewsInv DEF Init, ViewsInv
<1>3. phase \in {"form", "out"} /\ crashes \in 0 .. MaxCrashes
  BY BoundsAssumption DEF Init
<1>4. entry \in Entries /\ disk \in Entries
  BY <1>1 DEF Init
<1> QED
  BY <1>2, <1>3, <1>4, NamesTyped, NothingTyped
     DEF Init, Typed, HasLife, Entered, TypeOK, Phases, FlowPhases, Modes, NoCalls,
         Callers

LEMMA HostTyped ==
    ASSUME Typed, ViewsInv', Save \/ Crash \/ OtherEntry PROVE Typed'
<1>1. CASE Save \/ OtherEntry
  BY <1>1, NamesTyped
     DEF Save, OtherEntry, config, built, reload, cloud, streams, Typed, TypeOK, HasLife,
         ViewsInv
<1>2. CASE Crash
  <2>1. crashes' \in 0 .. MaxCrashes
    BY <1>2, BoundsAssumption DEF Crash, Typed, TypeOK
  <2>2. phase' \in {"form", "out"}
    BY <1>2 DEF Crash
  <2> QED
    BY <1>2, <2>1, <2>2, NamesTyped, NothingTyped
       DEF Crash, Typed, TypeOK, HasLife, Entered, Phases, FlowPhases, Modes, ViewsInv,
           NoCalls, Callers
<1> QED
  BY <1>1, <1>2

LEMMA FlowTyped ==
    ASSUME Typed, ViewsInv',
           \/ \E c \in Codes : FlowSubmits(c)
           \/ FlowLogsIn \/ FlowFails \/ FlowCreates
    PROVE  Typed'
<1>1. entry' \in Entries /\ featureCode' \in Issued \ {None}
  <2>1. entry \in Entries /\ featureCode \in Issued \ {None}
    BY Given DEF Typed
  <2>2. CASE \E c \in Codes : FlowSubmits(c)
    <3>1. PICK c \in Codes : FlowSubmits(c)
      BY <2>2
    <3> QED
      BY <2>1, <3>1, EntriesTyped, NamesTyped DEF FlowSubmits
  <2>3. CASE FlowLogsIn \/ FlowFails
    BY <2>1, <2>3, EntriesTyped DEF FlowLogsIn, FlowFails, cloud
  <2>4. CASE FlowCreates
    BY <2>1, <2>4 DEF FlowCreates, Moves, config, cloud
  <2> QED
    BY <2>2, <2>3, <2>4
<1>2. phase' \in {"form", "signin", "pick", "out"} /\ phase # "login"
  BY DEF FlowSubmits, FlowLogsIn, FlowFails, FlowCreates, Moves
<1>3. UNCHANGED <<scope, disk, crashes, built, reload, client, token, call, streams>>
  BY DEF FlowSubmits, FlowLogsIn, FlowFails, FlowCreates, Moves, config, cloud
<1> QED
  BY <1>1, <1>2, <1>3
     DEF Typed, TypeOK, HasLife, Entered, Phases, FlowPhases, ViewsInv, built, reload,
         streams

LEMMA CallTyped ==
    ASSUME Typed, ViewsInv', NEW l \in Lives, NEW c \in Callers,
           entry.code # None,
           \/ RefreshLogsIn(l) \/ CallBegins(l, c) \/ CallSteps(l, c)
           \/ EnsureFails(l, c)
    PROVE  Typed'
<1>1. client' \in [Lives -> Issued] /\ token' \in [Lives -> Issued]
  BY Given
     DEF Typed, TypeOK, RefreshLogsIn, CallBegins, CallSteps, Construct, LogsIn,
         CallEnds, EnsureFails
<1>2. call' \in [Lives -> [Callers -> {"idle", "construct", "login", "use"}]]
  BY DEF Typed, TypeOK, RefreshLogsIn, CallBegins, Calls, CallSteps, Construct,
         LogsIn, CallEnds, EnsureFails
<1>3. featureCode' \in Issued \ {None}
  BY Given, NamesTyped
     DEF Typed, RefreshLogsIn, CallBegins, Calls, CallSteps, Construct, LogsIn,
         CallEnds, EnsureFails
<1>4. /\ \/ phase' = phase
         \/ /\ phase' = "out" /\ call[l]["setup"] # "idle"
            /\ call'[l]["setup"] = "idle"
      /\ \A k \in Lives : call'[k]["setup"] # "idle" => call[k]["setup"] # "idle"
  <2>1. CASE EnsureFails(l, c)
    BY <2>1 DEF EnsureFails, Typed, TypeOK, Callers
  <2>2. CASE RefreshLogsIn(l) \/ CallBegins(l, c)
    BY <2>2 DEF RefreshLogsIn, CallBegins, Calls, Typed, TypeOK, Callers
  <2>3. CASE CallSteps(l, c)
    BY <2>3 DEF CallSteps, Construct, LogsIn, CallEnds, Typed, TypeOK, Callers
  <2> QED
    BY <2>1, <2>2, <2>3
<1>5. UNCHANGED <<config, built, reload, streams>>
  BY DEF RefreshLogsIn, CallBegins, CallSteps, Construct, LogsIn, CallEnds, EnsureFails
<1> QED
  BY <1>1, <1>2, <1>3, <1>4, <1>5
     DEF Typed, TypeOK, HasLife, Entered, Phases, config, built, reload, streams,
         ViewsInv

LEMMA SetUpTyped ==
    ASSUME Typed, ViewsInv',
           SetUpSteps \/ QueryFails \/ PlatformsFail \/ UserReloads
    PROVE  Typed'
<1> USE DEF Typed, TypeOK, HasLife, Entered
<1>1. ASSUME NEW l \in Lives, SetUpBegins(l) PROVE Typed'
  <2>1. /\ entry' \in Entries /\ entry'.code \in Codes /\ entry'.token \in Issued
    <3>1. CASE entry.code = None
      <4>1. PICK c \in Codes : entry' = [entry EXCEPT !.code = c, !.token = None]
        BY <1>1, <3>1, Given DEF SetUpBegins, Migrate
      <4> QED
        BY <4>1, Given, EntriesTyped, NamesTyped DEF Entries
    <3>2. CASE entry.code # None
      BY <1>1, <3>2, Given DEF SetUpBegins
    <3> QED
      BY <3>1, <3>2
  <2>2. call' \in [Lives -> [Callers -> {"idle", "construct", "login", "use"}]]
    BY <1>1 DEF SetUpBegins
  <2> QED
    BY <1>1, <2>1, <2>2, NamesTyped
       DEF SetUpBegins, reload, streams, ViewsInv, Phases
<1>2. CASE LoggedIn
  <2>1. call' \in [Lives -> [Callers -> {"idle", "construct", "login", "use"}]]
    BY <1>2 DEF LoggedIn
  <2> QED
    BY <1>2, <2>1 DEF LoggedIn, config, built, reload, streams, ViewsInv, Phases
<1>3. CASE QueryEnds \/ QueryFails \/ UserReloads
  BY <1>3 DEF QueryEnds, QueryFails, UserReloads, Moves, config, built, reload, cloud,
              streams, ViewsInv, Phases
<1>4. CASE \E up \in BOOLEAN : RelayStarts(up)
  <2>1. entry.option \in Modes
    BY Given
  <2> QED
    BY <1>4, <2>1 DEF RelayStarts, config, cloud, ViewsInv, Phases
<1>5. CASE SetUpEnds \/ PlatformsFail
  BY <1>5 DEF SetUpEnds, PlatformsFail, config, built, reload, cloud, streams, ViewsInv,
              Phases
<1> QED
  BY <1>1, <1>2, <1>3, <1>4, <1>5 DEF SetUpSteps

LEMMA UnloadTyped ==
    ASSUME Typed, ViewsInv', UnloadSteps \/ UnloadFails \/ ChangeOption
    PROVE  Typed'
<1> USE DEF Typed, TypeOK, HasLife, Entered
<1>1. CASE ReloadBegins \/ CloseBegins
  BY <1>1 DEF ReloadBegins, CloseBegins, Moves, config, built, reload, cloud, streams,
              ViewsInv, Phases
<1>2. CASE PlatformsUnload \/ RelayStops
  BY <1>2 DEF PlatformsUnload, RelayStops, config, built, reload, cloud, ViewsInv, Phases
<1>3. CASE Unloaded \/ UnloadFails
  BY <1>3, NamesTyped DEF Unloaded, UnloadFails, config, built, reload, streams,
              ViewsInv, Phases
<1>4. CASE ChangeOption
  <2>1. entry' \in Entries
    <3>1. PICK m \in Modes : entry' = [entry EXCEPT !.option = m]
      BY <1>4 DEF ChangeOption
    <3> QED
      BY <3>1, Given, EntriesTyped
  <2> QED
    BY <1>4, <2>1 DEF ChangeOption, built, cloud, streams, ViewsInv
<1> QED
  BY <1>1, <1>2, <1>3, <1>4 DEF UnloadSteps

LEMMA WatchTyped ==
    ASSUME Typed, ViewsInv', NEW v \in Views, ViewOpens(v) \/ ViewGoesOn(v)
    PROVE  Typed'
BY DEF ViewOpens, ViewGoesOn, Typed, TypeOK, HasLife, Entered, ViewsInv, config, built,
       reload, cloud

-----------------------------------------------------------------------------
(* Whose code a token carries *)

\* The API has done nothing yet since the start.
Blank ==
    /\ client = NoClients /\ token = NoClients /\ call = NoCalls
    /\ armed = {}

OwnCode == entry.code # None /\ featureCode \in {entry.code, Foreign}

\* There is no API before the entry has a code; from the first one on the
\* library is patched with that code, or by another entry.
CodeIsOwn ==
    /\ phase = "form" => entry = NoEntry
    /\ phase \in FlowPhases \/ entry.code = None => Blank
    /\ OwnCode \/ (Blank /\ phase \in {"form", "out"})

Own == CodeIsOwn /\ TokenIsOwn

LEMMA InitOwn == Init => Own
BY NamesAssumption
DEF Init, Own, CodeIsOwn, TokenIsOwn, Blank, NoEntry, NoClients, NoCalls, FlowPhases

LEMMA HostOwn ==
    ASSUME Typed, Own, Save \/ Crash \/ OtherEntry PROVE Own'
<1> USE NamesAssumption DEF Own, CodeIsOwn, TokenIsOwn, Blank, OwnCode, FlowPhases
<1>1. CASE Save
  BY <1>1 DEF Save, built, reload, cloud
<1>2. CASE Crash
  BY <1>2 DEF Crash, NoClients, NoEntry
<1>3. CASE OtherEntry
  BY <1>3 DEF OtherEntry, config, built, reload
<1> QED
  BY <1>1, <1>2, <1>3

LEMMA FlowOwn ==
    ASSUME Typed, Own,
           \/ \E c \in Codes : FlowSubmits(c)
           \/ FlowLogsIn \/ FlowFails \/ FlowCreates
    PROVE  Own'
<1> USE NamesAssumption DEF Own, CodeIsOwn, TokenIsOwn, Blank, OwnCode, FlowPhases
<1>1. entry \in Entries
  BY Given DEF Typed
<1>2. ASSUME NEW c \in Codes, FlowSubmits(c) PROVE Own'
  <2>1. entry = NoEntry /\ entry' = [code |-> c, token |-> None, option |-> "mjpeg"]
    BY <1>2 DEF FlowSubmits, NoEntry
  <2> QED
    BY <1>2, <2>1 DEF FlowSubmits, NoClients, built, reload
<1>3. CASE FlowLogsIn
  <2>1. entry'.code = entry.code /\ entry'.token = featureCode
    BY <1>1, <1>3 DEF FlowLogsIn, Entries
  <2> QED
    BY <1>3, <2>1 DEF FlowLogsIn, NoClients, built, reload, cloud
<1>4. CASE FlowFails
  BY <1>4 DEF FlowFails, NoEntry, NoClients, built, reload, cloud
<1>5. CASE FlowCreates
  BY <1>5 DEF FlowCreates, Moves, config, built, reload, cloud
<1> QED
  BY <1>2, <1>3, <1>4, <1>5

\* While the API does something the library is patched.
LEMMA Patched ==
    ASSUME Typed, Own,
           \/ \E l \in Lives : client[l] # None
           \/ \E l \in Lives, c \in Callers : call[l][c] # "idle"
           \/ phase \notin {"form", "out"} \/ armed # {}
    PROVE  OwnCode
BY DEF Own, CodeIsOwn, Blank, NoClients, NoCalls

LEMMA CallOwn ==
    ASSUME Typed, Own, NEW l \in Lives, NEW c \in Callers,
           \/ RefreshLogsIn(l) \/ CallBegins(l, c) \/ CallSteps(l, c)
           \/ EnsureFails(l, c)
    PROVE  entry.code # None /\ Own'
<1>1. OwnCode
  BY Patched DEF Callers, RefreshLogsIn, CallBegins, Platforms, CallSteps, Construct,
                 LogsIn, CallEnds, EnsureFails
<1>2. phase \notin FlowPhases
  BY DEF Own, CodeIsOwn, Blank, NoClients, NoCalls, FlowPhases, Callers, RefreshLogsIn,
         CallBegins, Platforms, CallSteps, Construct, LogsIn, CallEnds, EnsureFails
<1>3. featureCode' \in {featureCode, entry.code}
  BY DEF RefreshLogsIn, CallBegins, Calls, CallSteps, Construct, LogsIn, CallEnds,
         EnsureFails
<1>4. \A k \in Lives : /\ client'[k] \in {client[k], featureCode}
                       /\ token'[k] \in {token[k], featureCode}
  BY DEF Typed, TypeOK, RefreshLogsIn, CallBegins, CallSteps, Construct, LogsIn,
         CallEnds, EnsureFails
<1>5. phase' \in {phase, "out"} /\ UNCHANGED config
  BY DEF RefreshLogsIn, CallBegins, CallSteps, Construct, LogsIn, CallEnds, EnsureFails
<1> QED
  BY <1>1, <1>2, <1>3, <1>4, <1>5
     DEF Own, CodeIsOwn, TokenIsOwn, OwnCode, FlowPhases, config

LEMMA SetUpOwn ==
    ASSUME Typed, Own, SetUpSteps \/ QueryFails \/ PlatformsFail \/ UserReloads
    PROVE  Own'
<1> USE NamesAssumption DEF Own, CodeIsOwn, TokenIsOwn, OwnCode, FlowPhases
<1>1. ASSUME NEW l \in Lives, SetUpBegins(l) PROVE Own'
  <2>1. /\ entry'.code # None /\ entry'.token \in {entry'.code, Foreign, None}
        /\ entry.code # None => entry' = entry
    <3>1. CASE entry.code = None
      <4>1. PICK c \in Codes : entry' = [entry EXCEPT !.code = c, !.token = None]
        BY <1>1, <3>1, Given DEF SetUpBegins, Migrate, Typed
      <4> QED
        BY <3>1, <4>1, Given DEF Entries, Typed
    <3>2. CASE entry.code # None
      BY <1>1, <3>2 DEF SetUpBegins
    <3> QED
      BY <3>1, <3>2
  <2>2. \A k \in Lives : client[k] \in {entry'.code, Foreign, None}
                        /\ token[k] \in {entry'.code, Foreign, None}
    BY <2>1 DEF Blank, NoClients
  <2> QED
    BY <1>1, <2>1, <2>2 DEF SetUpBegins, Typed, TypeOK
<1>2. ASSUME \/ LoggedIn \/ QueryEnds \/ \E up \in BOOLEAN : RelayStarts(up)
             \/ SetUpEnds \/ QueryFails \/ PlatformsFail \/ UserReloads
      PROVE  /\ phase \notin FlowPhases \cup {"out"} /\ phase' \notin FlowPhases
             /\ UNCHANGED <<config, featureCode, client, token>>
  BY <1>2 DEF LoggedIn, QueryEnds, RelayStarts, SetUpEnds, QueryFails, PlatformsFail,
              UserReloads, Moves, cloud
<1>3. ASSUME phase \notin FlowPhases \cup {"out"}, phase' \notin FlowPhases,
             UNCHANGED <<config, featureCode, client, token>>
      PROVE  Own'
  BY <1>3 DEF config
<1> QED
  BY <1>1, <1>2, <1>3 DEF SetUpSteps

LEMMA UnloadOwn ==
    ASSUME Typed, Own, UnloadSteps \/ UnloadFails \/ ChangeOption PROVE Own'
<1> USE NamesAssumption DEF Own, CodeIsOwn, TokenIsOwn, OwnCode, FlowPhases
<1>1. ASSUME UnloadSteps \/ UnloadFails
      PROVE  /\ phase \notin FlowPhases \cup {"out"} /\ phase' \notin FlowPhases
             /\ UNCHANGED <<config, featureCode, token>>
             /\ \A k \in Lives : client'[k] \in {client[k], None}
  BY <1>1 DEF UnloadSteps, UnloadFails, ReloadBegins, PlatformsUnload, RelayStops,
              CloseBegins, Unloaded, Moves, cloud, Typed, TypeOK
<1>2. ASSUME phase \notin FlowPhases \cup {"out"}, phase' \notin FlowPhases,
             UNCHANGED <<config, featureCode, token>>,
             \A k \in Lives : client'[k] \in {client[k], None}
      PROVE  Own'
  BY <1>2 DEF config
<1>3. CASE ChangeOption
  <2>1. entry'.code = entry.code /\ entry'.token = entry.token
    BY <1>3, Given DEF ChangeOption, Entries, Typed
  <2> QED
    BY <1>3, <2>1 DEF ChangeOption, Blank, built, cloud
<1> QED
  BY <1>1, <1>2, <1>3

-----------------------------------------------------------------------------
(* Calls and tokens *)

\* From the login of its set-up on a life has a token.  A life whose login
\* failed is in none of these states, and keeps its client unused.
HasToken ==
    /\ phase \in Entered => token[life] # None
    /\ \A l \in armed : token[l] # None
    /\ CallsHaveToken

LEMMA InitHasToken == Init => HasToken
BY DEF Init, HasToken, CallsHaveToken, NoCalls, Entered

LEMMA CallHasToken ==
    ASSUME Typed, HasToken, NEW l \in Lives, NEW c \in Callers,
           \/ RefreshLogsIn(l) \/ CallBegins(l, c) \/ CallSteps(l, c)
           \/ EnsureFails(l, c)
    PROVE  HasToken'
<1>1. /\ armed' = armed /\ life' = life
      /\ phase' \in {phase, "out"}
  BY DEF RefreshLogsIn, CallBegins, CallSteps, Construct, LogsIn, CallEnds, EnsureFails,
         built, reload
<1>2. \A k \in Lives : token[k] # None => token'[k] # None
  BY Given
     DEF Typed, TypeOK, RefreshLogsIn, CallBegins, CallSteps, Construct, LogsIn,
         CallEnds, EnsureFails
<1>3. \A k \in Lives, e \in Callers :
          call'[k][e] = "use" => call[k][e] = "use" \/ token'[k] # None
  <2>1. CASE RefreshLogsIn(l) \/ EnsureFails(l, c) \/ CallEnds(l, c)
    BY <2>1 DEF RefreshLogsIn, EnsureFails, CallEnds, Typed, TypeOK
  <2>2. CASE CallBegins(l, c)
    <3>1. token[l] # None
      BY <2>2 DEF CallBegins, Platforms, HasToken, Entered
    <3> QED
      BY <2>2, <3>1 DEF CallBegins, Calls, Typed, TypeOK
  <2>3. CASE Construct(l, c)
    BY <2>3 DEF Construct, Typed, TypeOK
  <2>4. CASE LogsIn(l, c)
    BY <2>4, Given DEF LogsIn, Typed, TypeOK
  <2> QED
    BY <2>1, <2>2, <2>3, <2>4 DEF CallSteps
<1> QED
  BY <1>1, <1>2, <1>3 DEF HasToken, CallsHaveToken, Entered, Typed, TypeOK, HasLife

LEMMA SetUpHasToken ==
    ASSUME Typed, HasToken, SetUpSteps \/ QueryFails \/ PlatformsFail \/ UserReloads
    PROVE  HasToken'
<1> USE DEF HasToken, CallsHaveToken, Entered, Typed, TypeOK, HasLife
<1>1. ASSUME NEW l \in Lives, SetUpBegins(l) PROVE HasToken'
  BY <1>1 DEF SetUpBegins, Unused, Callers, reload
<1>2. CASE LoggedIn
  BY <1>2 DEF LoggedIn, built, reload, Callers
<1>3. CASE \/ QueryEnds \/ \E up \in BOOLEAN : RelayStarts(up)
           \/ QueryFails \/ PlatformsFail \/ UserReloads
  BY <1>3 DEF QueryEnds, RelayStarts, QueryFails, PlatformsFail, UserReloads, Moves,
              built, reload, cloud
<1>4. CASE SetUpEnds
  BY <1>4 DEF SetUpEnds, built, cloud
<1> QED
  BY <1>1, <1>2, <1>3, <1>4 DEF SetUpSteps

LEMMA UnloadHasToken ==
    ASSUME Typed, HasToken, UnloadSteps \/ UnloadFails \/ ChangeOption
    PROVE  HasToken'
<1>1. /\ token' = token /\ call' = call /\ life' = life /\ armed' \subseteq armed
      /\ phase' \in Entered => phase \in Entered
  BY DEF UnloadSteps, UnloadFails, ChangeOption, ReloadBegins, PlatformsUnload,
         RelayStops, CloseBegins, Unloaded, Moves, built, reload, cloud, Entered
<1> QED
  BY <1>1 DEF HasToken, CallsHaveToken

\* A restart leaves nothing, and the flow comes before any life.
LEMMA HostHasToken ==
    ASSUME Typed, HasToken,
           \/ Save \/ Crash \/ OtherEntry \/ \E c \in Codes : FlowSubmits(c)
           \/ FlowLogsIn \/ FlowFails \/ FlowCreates
    PROVE  HasToken'
<1>1. CASE Crash
  BY <1>1 DEF Crash, HasToken, CallsHaveToken, NoCalls, Entered
<1>2. CASE Save \/ OtherEntry
  BY <1>2 DEF Save, OtherEntry, HasToken, CallsHaveToken, Entered, built, reload, cloud
<1>3. CASE \/ \E c \in Codes : FlowSubmits(c)
           \/ FlowLogsIn \/ FlowFails \/ FlowCreates
  <2>1. /\ token' = token /\ call' = call /\ armed' = armed
        /\ phase' \notin Entered
    BY <1>3 DEF FlowSubmits, FlowLogsIn, FlowFails, FlowCreates, Moves, Entered,
                reload, cloud
  <2> QED
    BY <2>1 DEF HasToken, CallsHaveToken
<1> QED
  BY <1>1, <1>2, <1>3

-----------------------------------------------------------------------------
(* Whose relay it is *)

LEMMA RelayStep == Typed /\ RelayIsOwned /\ [Next]_vars => RelayIsOwned'
<1> SUFFICES ASSUME Typed, RelayIsOwned, [Next]_vars PROVE RelayIsOwned'
  OBVIOUS
<1> USE DEF RelayIsOwned, Typed, TypeOK, HasLife, Entered
<1>1. CASE \E l \in Lives : SetUpBegins(l)
  BY <1>1 DEF SetUpBegins, Unused, streams
<1>2. CASE \E up \in BOOLEAN : RelayStarts(up)
  BY <1>2 DEF RelayStarts
<1>3. CASE PlatformsUnload \/ RelayStops
  BY <1>3 DEF PlatformsUnload, RelayStops, built
<1>4. CASE Crash
  BY <1>4 DEF Crash, NoRelays
<1>5. CASE PlatformsFail
  BY <1>5 DEF PlatformsFail, streams
<1>6. CASE LoggedIn \/ QueryEnds \/ SetUpEnds \/ QueryFails \/ UserReloads
  BY <1>6 DEF LoggedIn, QueryEnds, SetUpEnds, QueryFails, UserReloads, Moves, built,
              streams
<1>7. CASE ReloadBegins \/ CloseBegins \/ Unloaded \/ UnloadFails \/ ChangeOption
  BY <1>7 DEF ReloadBegins, CloseBegins, Unloaded, UnloadFails, ChangeOption, Moves,
              built, streams
<1>8. CASE \/ Save \/ OtherEntry \/ \E c \in Codes : FlowSubmits(c)
           \/ FlowLogsIn \/ FlowFails \/ FlowCreates
  BY <1>8 DEF Save, OtherEntry, FlowSubmits, FlowLogsIn, FlowFails, FlowCreates, Moves,
              built, streams
<1>9. ASSUME NEW l \in Lives, NEW c \in Callers,
             \/ RefreshLogsIn(l) \/ CallBegins(l, c) \/ CallSteps(l, c)
             \/ EnsureFails(l, c)
      PROVE  RelayIsOwned'
  BY <1>9 DEF RefreshLogsIn, CallBegins, CallSteps, Construct, LogsIn, CallEnds,
              EnsureFails, built, streams
<1>10. CASE \E v \in Views : ViewOpens(v) \/ ViewGoesOn(v)
  BY <1>10 DEF ViewOpens, ViewGoesOn, built
<1>11. CASE UNCHANGED vars
  BY <1>11 DEF vars, built, streams
<1> QED
  BY <1>1, <1>2, <1>3, <1>4, <1>5, <1>6, <1>7, <1>8, <1>9, <1>10, <1>11
     DEF Next, SetUpSteps, UnloadSteps, Callers

-----------------------------------------------------------------------------
IInv == Typed /\ ViewsInv /\ Own /\ HasToken /\ RelayIsOwned

LEMMA InitInv == Init => IInv
<1>1. Init => RelayIsOwned
  BY DEF Init, RelayIsOwned, NoRelays
<1>2. Init => ViewsInv
  BY NoViewsInv DEF Init
<1> QED
  BY <1>1, <1>2, InitTyped, InitOwn, InitHasToken DEF IInv

LEMMA NextInv == IInv /\ [Next]_vars => IInv'
<1> SUFFICES ASSUME IInv, [Next]_vars PROVE IInv'
  OBVIOUS
<1>1. ViewsInv' /\ RelayIsOwned'
  BY EveryViewInv, RelayStep DEF IInv
<1>2. CASE Save \/ Crash \/ OtherEntry
  BY <1>1, <1>2, HostTyped, HostOwn, HostHasToken DEF IInv
<1>3. CASE \/ \E c \in Codes : FlowSubmits(c)
           \/ FlowLogsIn \/ FlowFails \/ FlowCreates
  BY <1>1, <1>3, FlowTyped, FlowOwn, HostHasToken DEF IInv
<1>4. ASSUME NEW l \in Lives, NEW c \in Callers,
             \/ RefreshLogsIn(l) \/ CallBegins(l, c) \/ CallSteps(l, c)
             \/ EnsureFails(l, c)
      PROVE  IInv'
  BY <1>1, <1>4, CallTyped, CallOwn, CallHasToken DEF IInv
<1>5. CASE SetUpSteps \/ QueryFails \/ PlatformsFail \/ UserReloads
  BY <1>1, <1>5, SetUpTyped, SetUpOwn, SetUpHasToken DEF IInv
<1>6. CASE UnloadSteps \/ UnloadFails \/ ChangeOption
  BY <1>1, <1>6, UnloadTyped, UnloadOwn, UnloadHasToken DEF IInv
<1>7. ASSUME NEW v \in Views, ViewOpens(v) \/ ViewGoesOn(v) PROVE IInv'
  <2>1. UNCHANGED <<config, phase, built, reload, cloud>>
    BY <1>7 DEF ViewOpens, ViewGoesOn
  <2>2. Own' /\ HasToken'
    BY <2>1 DEF IInv, Own, CodeIsOwn, TokenIsOwn, OwnCode, Blank, HasToken,
                CallsHaveToken, config, built, reload, cloud
  <2> QED
    BY <1>1, <1>7, <2>2, WatchTyped DEF IInv
<1>8. CASE UNCHANGED vars
  <2>1. Typed'
    BY <1>1, <1>8 DEF IInv, Typed, TypeOK, HasLife, ViewsInv, vars, config, built,
                      reload, cloud, streams
  <2>2. Own' /\ HasToken'
    BY <1>8 DEF IInv, Own, CodeIsOwn, TokenIsOwn, OwnCode, Blank, HasToken,
                CallsHaveToken, vars, config, built, reload, cloud
  <2> QED
    BY <1>1, <2>1, <2>2 DEF IInv
<1> QED
  BY <1>2, <1>3, <1>4, <1>5, <1>6, <1>7, <1>8 DEF Next, Callers

\* Whatever set-ups, reloads, crashes, calls and views overlap, the invariant
\* holds.
THEOREM Invariance == Spec => []IInv
<1> QED
  BY InitInv, NextInv, PTL DEF Spec

\* Every reachable state of the entry and its views has its type.
THEOREM TypeCorrect == Spec => []TypeOK
<1>1. IInv => TypeOK
  BY DEF IInv, Typed
<1> QED
  BY <1>1, Invariance, PTL

\* No token, stored or in use, and no client's header carries the library's
\* code or an earlier one of the entry.
THEOREM TokensAreOwn == Spec => []TokenIsOwn
<1>1. IInv => TokenIsOwn
  BY DEF IInv, Own
<1> QED
  BY <1>1, Invariance, PTL

\* A call of the API that uses the client has a token, also after a failed
\* login of its set-up and after close.
THEOREM NoCallWithoutToken == Spec => []CallsHaveToken
<1>1. IInv => CallsHaveToken
  BY DEF IInv, HasToken
<1> QED
  BY <1>1, Invariance, PTL

\* A relay that listens can still be stopped, unless the platforms of its life
\* failed to set up.
THEOREM RelaysAreOwned == Spec => []RelayIsOwned
<1>1. IInv => RelayIsOwned
  BY DEF IInv
<1> QED
  BY <1>1, Invariance, PTL

\* A handler of a view that returns has killed its ffmpeg, or seen it end.
THEOREM FfmpegIsStopped == Spec => []FfmpegStopped
<1>1. IInv => FfmpegStopped
  BY DEF IInv, ViewsInv, Stopping, FfmpegStopped
<1> QED
  BY <1>1, Invariance, PTL
=============================================================================
