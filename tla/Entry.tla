------------------------------- MODULE Entry -------------------------------
(***************************************************************************)
(* The life of the config entry: the config flow that creates it           *)
(* (config_flow.py), async_setup_entry and async_unload_entry              *)
(* (__init__.py), which build and give up an Hp7Api with its cloud client  *)
(* (api.py) and a relay, the option that a select or the options flow      *)
(* changes and whose listener reloads the entry, and the camera's MJPEG    *)
(* views (Mjpeg), which are viewers of the relay.                          *)
(*                                                                         *)
(* A life is one run of async_setup_entry and what it built.  Calls of the *)
(* API run in threads of the executor and may outlive it.  Home Assistant  *)
(* sets up, reloads and unloads one at a time, runs what was registered    *)
(* with async_on_unload once async_unload_entry has returned, and saves an *)
(* entry some time after it was changed.                                   *)
(***************************************************************************)
EXTENDS Naturals, FiniteSets, Mjpeg

CONSTANTS
    Lives,       \* the lives of which something exists at the same time
    Codes,       \* feature codes that secrets.token_hex may return
    Foreign,     \* the feature code of another entry
    Library,     \* pyezvizapi's own feature code
    None,
    MaxCrashes,  \* bound: restarts of Home Assistant without a last save
    Scopes       \* bound: the instances that are checked together

ASSUME NamesAssumption ==
    /\ Codes # {} /\ {Foreign, Library, None} \cap Codes = {}
    /\ Foreign # Library /\ None \notin {Foreign, Library} \cup Lives
\* Of an instance: its lives, views and codes, the calls of the API that may be
\* under way at the same time, and what may happen around the entry.
ASSUME BoundsAssumption ==
    /\ MaxCrashes \in Nat
    /\ Scopes \subseteq [lives : SUBSET Lives, views : SUBSET Views, codes : SUBSET Codes,
                         calls : Nat, around : SUBSET {"crash", "other", "option"}]

VARIABLES
    scope,        \* the instance
    entry,        \* data and options of the config entry
    disk,         \* what is saved of it
    crashes,
    featureCode,  \* FEATURE_CODE and REQUEST_HEADER of pyezvizapi.client
    phase,        \* the await that flow, set-up or unload is suspended on
    life,         \* the life that is set up
    mode,         \* the live view mode that its camera was built with
    registered,   \* the life in hass.data
    armed,        \* the lives whose timers, hook and update listener are on
    due,          \* a task waits to reload the entry
    missed,       \* history: the option was changed without a listener
    strays,       \* history: the lives whose platforms failed to set up
    client,       \* per life: _client, as the feature code of its headers
    token,        \* per life: _token, as the feature code it was issued under
    call,         \* per life: where each call of the API is
    relay,        \* per life: the relay's server
    watched       \* the life whose relay a view reads

config  == <<scope, entry, disk, crashes>>
built   == <<life, mode, registered, strays>>
reload  == <<armed, due, missed>>
cloud   == <<featureCode, client, token, call>>
streams == <<relay, watched, views>>
vars    == <<config, phase, built, reload, cloud, streams>>

Modes   == {"mjpeg", "hls"}
Callers == {"setup", "poll", "press", "refresh"}
Issued  == Codes \cup {Foreign, Library, None}
Entries == [code : Codes \cup {None}, token : Issued, option : Modes]
NoEntry == [code |-> None, token |-> None, option |-> "mjpeg"]

FlowPhases == {"form", "signin", "pick"}
Phases == FlowPhases \cup
    {"out", "login", "detect", "first", "related", "relay", "platforms", "loaded",
     "unloading", "stop", "close", "logout", "error", "failed"}

TypeOK ==
    /\ scope \in Scopes
    /\ entry \in Entries /\ disk \in Entries /\ crashes \in 0 .. MaxCrashes
    /\ featureCode \in Issued \ {None}
    /\ phase \in Phases
    /\ life \in Lives \cup {None} /\ registered \in Lives \cup {None}
    /\ mode \in Modes /\ due \in BOOLEAN /\ missed \in BOOLEAN
    /\ armed \subseteq Lives /\ strays \subseteq Lives
    /\ client \in [Lives -> Issued] /\ token \in [Lives -> Issued]
    /\ call \in [Lives -> [Callers -> {"idle", "construct", "login", "use"}]]
    /\ relay \in [Lives -> {"none", "listening", "closing"}]
    /\ watched \in [Views -> Lives \cup {None}]
    /\ ViewsTypeOK

\* What of the Hp7Api objects and their calls a start finds.
NoClients == [l \in Lives |-> None]
NoCalls   == [l \in Lives |-> [c \in Callers |-> "idle"]]
NoRelays  == [l \in Lives |-> "none"]
NoWatch   == [v \in Views |-> None]

\* No entry yet, or one of a version before the per-install feature code.
Init ==
    /\ scope \in Scopes
    /\ entry \in {NoEntry, [NoEntry EXCEPT !.token = Library]}
    /\ disk = entry /\ crashes = 0
    /\ phase = IF entry = NoEntry THEN "form" ELSE "out"
    /\ life = None /\ mode = "mjpeg" /\ registered = None /\ strays = {}
    /\ armed = {} /\ due = FALSE /\ missed = FALSE
    /\ featureCode = Library
    /\ client = NoClients /\ token = NoClients /\ call = NoCalls
    /\ relay = NoRelays /\ watched = NoWatch
    /\ NoViews
-----------------------------------------------------------------------------
(* Home Assistant *)

\* What is saved is read after a crash only.
Save ==
    /\ "crash" \in scope.around /\ crashes < MaxCrashes /\ phase \notin {"signin", "pick"}
    /\ disk' = entry
    /\ UNCHANGED <<scope, entry, crashes, phase, built, reload, cloud, streams>>

\* Killed and started again, with the entry that was saved last.
Crash ==
    /\ "crash" \in scope.around /\ crashes < MaxCrashes
    /\ crashes' = crashes + 1
    /\ entry' = disk /\ UNCHANGED <<scope, disk>>
    /\ phase' = IF disk = NoEntry THEN "form" ELSE "out"
    /\ life' = None /\ mode' = "mjpeg" /\ registered' = None /\ strays' = {}
    /\ armed' = {} /\ due' = FALSE /\ missed' = FALSE
    /\ featureCode' = Library
    /\ client' = NoClients /\ token' = NoClients /\ call' = NoCalls
    /\ relay' = NoRelays /\ watched' = NoWatch
    /\ at' = [v \in Views |-> "returned"] /\ ffmpeg' = [v \in Views |-> "dead"]
    /\ left' = {} /\ cancelled' = {}

\* Another entry, or a config flow for one, builds its own Hp7Api.
OtherEntry ==
    /\ "other" \in scope.around
    /\ featureCode' = Foreign
    /\ UNCHANGED <<config, phase, built, reload, client, token, call, streams>>
-----------------------------------------------------------------------------
(* ConfigFlow *)

\* A step of flow, set-up or unload that only goes on.
Moves(from, to) ==
    /\ phase \in from /\ phase' = to
    /\ UNCHANGED <<config, built, reload, cloud, streams>>

\* async_step_user: a new code for every submission of the form.
FlowSubmits(c) ==
    /\ c \in scope.codes
    /\ phase = "form" /\ phase' = "signin"
    /\ entry' = [entry EXCEPT !.code = c]
    /\ featureCode' = c
    /\ UNCHANGED <<scope, disk, crashes, built, reload, client, token, call, streams>>

FlowLogsIn ==
    /\ phase = "signin" /\ phase' = "pick"
    /\ entry' = [entry EXCEPT !.token = featureCode]
    /\ UNCHANGED <<scope, disk, crashes, built, reload, cloud, streams>>

\* Back to the form, with an error; or the serial is configured already.
FlowFails ==
    /\ phase \in {"signin", "pick"} /\ phase' = "form"
    /\ entry' = NoEntry
    /\ UNCHANGED <<scope, disk, crashes, built, reload, cloud, streams>>

\* _finalize_entry.
FlowCreates == Moves({"pick"}, "out")
-----------------------------------------------------------------------------
(* Hp7Api *)

\* Call c of life l, up to the patch of ensure_client if there is no client.
Calls(l, c) ==
    /\ call[l][c] = "idle"
    /\ IF client[l] = None
       THEN /\ call' = [call EXCEPT ![l][c] = "construct"]
            /\ featureCode' = entry.code
       ELSE call' = [call EXCEPT ![l][c] = "use"] /\ UNCHANGED featureCode

\* EzvizClient(...) takes the headers of the moment; it logs in only without
\* a token.
Construct(l, c) ==
    /\ call[l][c] = "construct"
    /\ client' = [client EXCEPT ![l] = featureCode]
    /\ call' = [call EXCEPT ![l][c] = IF token[l] = None THEN "login" ELSE "use"]
    /\ UNCHANGED <<config, phase, built, reload, featureCode, token, streams>>

LogsIn(l, c) ==
    /\ call[l][c] = "login"
    /\ token' = [token EXCEPT ![l] = featureCode]
    /\ call' = [call EXCEPT ![l][c] = "use"]
    /\ UNCHANGED <<config, phase, built, reload, featureCode, client, streams>>

\* ensure_client raises; the client that it assigned stays.
EnsureFails(l, c) ==
    /\ call[l][c] \in {"construct", "login"}
    /\ call' = [call EXCEPT ![l][c] = "idle"]
    /\ phase' = IF c = "setup" THEN "out" ELSE phase
    /\ UNCHANGED <<config, built, reload, featureCode, client, token, streams>>

\* The request has ended, one way or the other; close may have come before it.
CallEnds(l, c) ==
    /\ c # "setup" /\ call[l][c] = "use"
    /\ call' = [call EXCEPT ![l][c] = "idle"]
    /\ UNCHANGED <<config, phase, built, reload, featureCode, client, token, streams>>

\* fetch_lan_aes_key logs in before it asks for the key, and again if that fails.
RefreshLogsIn(l) ==
    /\ call[l]["refresh"] = "use" /\ client[l] # None
    /\ token' = [token EXCEPT ![l] = featureCode]
    /\ UNCHANGED <<config, phase, built, reload, featureCode, client, call, streams>>

Platforms == IF phase \in {"platforms", "loaded", "unloading"} THEN {life} ELSE {}

Running == {x \in Lives \X Callers : call[x[1]][x[2]] # "idle"}

\* The coordinator polls for the entities, and for the hook; buttons are
\* pressed; the relay asks for the key, and the timer refreshes it.
CallBegins(l, c) ==
    /\ \/ l \in Platforms
       \/ c \in {"poll", "refresh"} /\ l \in armed
    /\ c # "setup"
    /\ Cardinality(Running) < scope.calls
    /\ Calls(l, c)
    /\ UNCHANGED <<config, phase, built, reload, client, token, streams>>
-----------------------------------------------------------------------------
(* async_setup_entry *)

\* Nothing of an earlier life with this name is left.
Unused(l) ==
    /\ l \notin armed /\ relay[l] = "none"
    /\ \A c \in Callers : call[l][c] = "idle"
    /\ \A v \in Views : watched[v] = l => ffmpeg[v] = "dead" /\ at[v] # "spawn"

MigrateKeepingToken(c) == [entry EXCEPT !.code = c]     \* seeded fault

MigrateUnstored(c) == [entry EXCEPT !.token = None]     \* seeded fault

\* The token was issued under another code than the new one.
Migrate(c) == [entry EXCEPT !.code = c, !.token = None]

\* Up to ensure_client in api.login: there is no client yet.
SetUpBegins(l) ==
    /\ phase = "out" /\ l \in scope.lives /\ Unused(l)
    /\ IF entry.code = None
       THEN \E c \in scope.codes : entry' = Migrate(c)
       ELSE UNCHANGED entry
    /\ phase' = "login" /\ life' = l
    /\ strays' = strays \ {l}
    /\ client' = [client EXCEPT ![l] = None]
    /\ token' = [token EXCEPT ![l] = entry'.token]
    /\ call' = [call EXCEPT ![l]["setup"] = "construct"]
    /\ featureCode' = entry'.code
    /\ UNCHANGED <<scope, disk, crashes, mode, registered, reload, streams>>

LoggedIn ==
    /\ phase = "login" /\ call[life]["setup"] = "use" /\ phase' = "detect"
    /\ call' = [call EXCEPT ![life]["setup"] = "idle"]
    /\ UNCHANGED <<config, built, reload, featureCode, client, token, streams>>

\* detect_capabilities, the coordinator's first refresh, get_related_device:
\* the client exists, and nobody else calls yet.
QueryEnds ==
    \/ Moves({"detect"}, "first")
    \/ Moves({"first"}, "related")
    \/ Moves({"related"}, "relay")

\* ConfigEntryNotReady: Home Assistant will try again.
QueryFails == Moves({"detect", "first"}, "out")

\* async_start has ended: the mode is read, hass.data set, and the platforms
\* are set up.
RelayStarts(up) ==
    /\ phase = "relay" /\ phase' = "platforms"
    /\ relay' = [relay EXCEPT ![life] = IF up THEN "listening" ELSE "none"]
    /\ mode' = entry.option /\ missed' = FALSE
    /\ registered' = life
    /\ UNCHANGED <<config, life, strays, armed, due, cloud, watched, views>>

SetUpEndsDeaf == Moves({"platforms"}, "loaded")          \* seeded fault

SetUpEnds ==
    /\ phase = "platforms" /\ phase' = "loaded"
    /\ armed' = armed \cup {life}
    /\ UNCHANGED <<config, built, due, missed, cloud, streams>>

\* The relay stays behind.  Bound: another life is left.
PlatformsFail ==
    /\ phase = "platforms" /\ phase' = "error"
    /\ scope.lives \ (strays \cup {life}) # {}
    /\ strays' = strays \cup {life}
    /\ UNCHANGED <<config, life, mode, registered, reload, cloud, streams>>

\* The user reloads an entry that failed to set up.
UserReloads == Moves({"error"}, "out")
-----------------------------------------------------------------------------
(* Options, reload and unload *)

\* async_select_option, or the options flow: the listener reloads the entry.
\* Tasks that wait to do so count as one.
ChangeOption ==
    /\ "option" \in scope.around /\ phase \notin FlowPhases
    /\ \E m \in Modes \ {entry.option} : entry' = [entry EXCEPT !.option = m]
    /\ due' = (due \/ armed # {})
    /\ missed' = (missed \/ phase = "platforms")
    /\ UNCHANGED <<scope, disk, crashes, phase, built, armed, cloud, streams>>

\* async_reload_entry has its turn.
ReloadBegins ==
    /\ due /\ phase = "loaded"
    /\ due' = FALSE /\ phase' = "unloading"
    /\ UNCHANGED <<config, built, armed, missed, cloud, streams>>

UnloadKeepsRelay ==                                     \* seeded fault
    /\ phase = "unloading" /\ phase' = "close"
    /\ registered' = None
    /\ UNCHANGED <<config, life, mode, strays, reload, cloud, streams>>

\* async_unload_platforms has ended; async_stop closes the server.
PlatformsUnload ==
    /\ phase = "unloading"
    /\ registered' = None
    /\ phase' = IF relay[life] = "listening" THEN "stop" ELSE "close"
    /\ relay' = [relay EXCEPT ![life] = IF @ = "listening" THEN "closing" ELSE @]
    /\ UNCHANGED <<config, life, mode, strays, reload, cloud, watched, views>>

\* wait_closed waits for every viewer; then async_stop returns.
RelayStops ==
    /\ phase = "stop" /\ phase' = "close"
    /\ \A v \in Attached : watched[v] # life
    /\ relay' = [relay EXCEPT ![life] = "none"]
    /\ UNCHANGED <<config, built, reload, cloud, watched, views>>

CloseBegins == phase = "close" /\ client[life] # None /\ Moves({"close"}, "logout")

UnloadedForgettingToken ==                              \* seeded fault
    /\ phase = "logout" /\ phase' = "out"
    /\ client' = [client EXCEPT ![life] = None]
    /\ token' = [token EXCEPT ![life] = None]
    /\ armed' = armed \ {life}
    /\ UNCHANGED <<config, built, due, missed, featureCode, call, streams>>

\* close returns, with or without a client, and then async_unload_entry; only
\* now the timers, the hook and the listener are removed.
Unloaded ==
    /\ \/ phase = "logout"
       \/ phase = "close" /\ client[life] = None
    /\ phase' = "out"
    /\ client' = [client EXCEPT ![life] = None]
    /\ armed' = armed \ {life}
    /\ UNCHANGED <<config, built, due, missed, featureCode, token, call, streams>>

\* The platforms do not unload, or the logout raises what close does not
\* expect: Home Assistant gives up the entry until it is restarted.
UnloadFails ==
    /\ phase \in {"unloading", "logout"} /\ phase' = "failed"
    /\ client' = IF phase = "logout" THEN [client EXCEPT ![life] = None] ELSE client
    /\ UNCHANGED <<config, built, reload, featureCode, token, call, streams>>
-----------------------------------------------------------------------------
(* The camera's views *)

\* handle_async_mjpeg_stream serves a view, if the doorbell's address is known.
ViewOpens(v) ==
    /\ v \in scope.views
    /\ phase \in {"platforms", "loaded", "unloading"} /\ mode = "mjpeg"
    /\ relay[life] = "listening"
    /\ Serve(v)
    /\ watched' = [watched EXCEPT ![v] = life]
    /\ UNCHANGED <<config, phase, built, reload, cloud, relay>>

Refused(v) == at[v] = "spawn" /\ at'[v] = "prepare" /\ relay[watched[v]] # "listening"

\* ffmpeg connects as it starts, unless the server has been closed since.
ViewGoesOn(v) ==
    /\ ViewStep(v)
    /\ watched' = IF Refused(v) THEN [watched EXCEPT ![v] = None] ELSE watched
    /\ UNCHANGED <<config, phase, built, reload, cloud, relay>>
-----------------------------------------------------------------------------
SetUpSteps ==
    \/ \E l \in Lives : SetUpBegins(l)
    \/ LoggedIn \/ QueryEnds
    \/ \E up \in BOOLEAN : RelayStarts(up)
    \/ SetUpEnds

UnloadSteps ==
    ReloadBegins \/ PlatformsUnload \/ RelayStops \/ CloseBegins \/ Unloaded

CallSteps(l, c) == Construct(l, c) \/ LogsIn(l, c) \/ CallEnds(l, c)

Next ==
    \/ Save \/ Crash \/ OtherEntry
    \/ \E c \in Codes : FlowSubmits(c)
    \/ FlowLogsIn \/ FlowFails \/ FlowCreates
    \/ SetUpSteps \/ QueryFails \/ PlatformsFail \/ UserReloads
    \/ ChangeOption \/ UnloadSteps \/ UnloadFails
    \/ \E l \in Lives :
           \/ RefreshLogsIn(l)
           \/ \E c \in Callers :
                  CallBegins(l, c) \/ CallSteps(l, c) \/ EnsureFails(l, c)
    \/ \E v \in Views : ViewOpens(v) \/ ViewGoesOn(v)

Spec == Init /\ [][Next]_vars

\* Calls end, as requests have timeouts; a set-up is tried again, and each of
\* its steps succeeds again and again; the steps of an unload are taken.
Fairness ==
    /\ SF_vars(\E l \in Lives : Construct(l, "setup"))
    /\ SF_vars(\E l \in Lives : LogsIn(l, "setup"))
    /\ SF_vars(phase = "detect" /\ QueryEnds)
    /\ SF_vars(phase = "first" /\ QueryEnds)
    /\ \A l \in Lives, c \in Callers : WF_vars(CallSteps(l, c) \/ EnsureFails(l, c))
    /\ WF_vars(SetUpSteps) /\ WF_vars(UnloadSteps)
    /\ ViewFairness

FairSpec == Spec /\ Fairness
-----------------------------------------------------------------------------
(* Safety *)

\* The cloud login must carry the entry's feature code (__init__.py:66-71), and
\* a stored token must not be from before it: across the flow, the migration, a
\* crash, late logins and refreshes, a token or a client's header never carries
\* the library's code or an earlier one of the entry.  Only an Hp7Api of another
\* entry can come between the patch and its use (api.py:223).
TokenIsOwn ==
    LET Own(t) == t \in {entry.code, Foreign, None}
    IN  /\ entry.code # None => Own(entry.token)
        /\ disk.code # None => disk.token \in {disk.code, Foreign, None}
        /\ \A l \in Lives : Own(client[l]) /\ Own(token[l])

\* Whenever a poll, a press or a refresh uses the client there is a token,
\* although ensure_client assigns the client before it logs in (api.py:240) and
\* close takes it away under calls that overlap the unload (api.py:606).
CallsHaveToken ==
    \A l \in Lives, c \in Callers : call[l][c] = "use" => token[l] # None

\* A relay that listens can still be stopped: hass.data names it, and set-up or
\* unload is not past the step that would.  Only a failure of the platforms
\* loses one (__init__.py:167).
RelayIsOwned ==
    \A l \in Lives \ strays :
        /\ relay[l] = "listening" =>
               /\ l \in {life} \cap {registered}
               /\ phase \in {"platforms", "loaded", "unloading", "failed"}
        /\ relay[l] = "closing" => l = life /\ phase = "stop"
-----------------------------------------------------------------------------
(* Liveness, under FairSpec *)

\* "The update listener in __init__.py will reload the entry so the change
\* propagates to the camera entity" (select.py:88): an option that is no longer
\* changed is the camera's in the end, unless set-up or unload has failed, the
\* unload waits for viewers, or the change came between the reading of the
\* option and the listener's registration (__init__.py:150-169).
OptionTakesEffect ==
    \A m \in Modes :
        <>[](phase \notin FlowPhases /\ entry.option = m)
            => \/ <>[](phase = "loaded" /\ mode = m)
               \/ []<>(phase = "error")
               \/ <>[](phase \in {"failed", "stop"} \/ missed)

LeftToWatch(v) == v \in Attached /\ watched[v] = life

\* Once the browsers of its views have gone an unload gets past the relay: the
\* handlers end, whenever they are cancelled and whether or not ffmpeg heeds
\* SIGTERM, and their processes let go of the relay.  Only an ffmpeg that its
\* handler left behind (see FfmpegStopped) holds it up.
UnloadReturns ==
    (phase = "stop" /\ \A v \in Views : LeftToWatch(v) => v \in left)
        ~> (phase # "stop" \/ \E v \in Views :
                                  LeftToWatch(v) /\ at[v] \in {"unprepared", "cut"})

\* "Normal: HA cancelled the request handler (entry reload, server shutdown,
\* client closed)" (mjpeg.py:168): an unload that waits for a view ends it, if
\* the browser does not leave by itself.
ReloadEndsViews ==
    \A v \in Views :
        (phase = "stop" /\ LeftToWatch(v)) ~> (phase # "stop" \/ v \in left)
=============================================================================
