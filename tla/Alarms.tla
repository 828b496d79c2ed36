------------------------------- MODULE Alarms -------------------------------
(***************************************************************************)
(* How an alarm of the doorbell reaches Home Assistant: Hp7Coordinator     *)
(* (coordinator.py) polls the cloud for the latest alarm at every tick and *)
(* for the device's slow status now and then; the alarm binary sensors     *)
(* (binary_sensor.py) and the pre-warm hook (__init__.py) listen to it and *)
(* decide which alarms are new.  An unlock button (button.py) pulses its   *)
(* sensor without the cloud.                                               *)
(*                                                                         *)
(* Alarms are numbered as they happen; a number stands for the time stamp  *)
(* the cloud gives it (distinct alarms have distinct time stamps), 0 for   *)
(* none.  The slow status (status, IP address...) is a version number.     *)
(***************************************************************************)
EXTENDS Naturals, Sequences, FiniteSetsExt

CONSTANTS
    Kinds,         \* kinds of alarms
    Sensors,       \* the kinds that have a binary sensor (ALARM_MAP)
    Buttons,       \* the sensors that an unlock button pulses (local_actions)
    MaxAlarms,     \* bound: alarms that ever happen
    MaxVersions,   \* bound: versions of the slow status
    StaticEvery    \* ticks per slow poll (STATUS_POLL_INTERVAL_SEC)

ASSUME SensorsAssumption == Sensors \subseteq Kinds /\ Buttons \subseteq Sensors
ASSUME BoundsAssumption ==
    /\ MaxAlarms \in Nat /\ MaxVersions \in Nat \ {0}
    /\ StaticEvery \in Nat \ {0}

VARIABLES
    kindOf,     \* the kind of each alarm
    happened,   \* number of alarms that have happened
    timeline,   \* the alarms that the cloud lists
    version,    \* version of the doorbell's slow status
    entry,      \* how far the set-up of the config entry has come
    phase,      \* what _async_update_data waits for
    polled,     \* the alarm it has been given in this tick
    cached,     \* _cached_static, 0 while it is empty
    age,        \* ticks since _last_static_fetch
    data,       \* the coordinator's data
    ok,         \* its last_update_success
    seen,       \* _seen_first_update of each sensor
    prev,       \* _prev_alarm_time of each sensor
    on,         \* is_on: the last trigger is within PULSE_SECONDS
    timer,      \* _off_unsub: the call that is to write the state again
    shown,      \* the state that each sensor last wrote
    known,      \* alarm_time in the closure of the pre-warm hook
    pulses,     \* the alarms that pulsed each sensor, in their order
    prewarms,   \* the alarms that the hook pre-warmed for, in their order
    snapshot    \* the alarm in the data when the entities were added

cloud   == <<kindOf, happened, timeline, version>>
poller  == <<phase, polled, cached, age>>
sensors == <<seen, prev, on, timer, shown, pulses>>
hook    == <<known, prewarms>>
vars == <<cloud, entry, poller, data, ok, sensors, hook, snapshot>>

Alarm   == 0 .. MaxAlarms
Version == 0 .. MaxVersions
Blank   == [alarm |-> 0, static |-> 0]     \* the coordinator has no data

TypeOK ==
    /\ kindOf \in [1 .. MaxAlarms -> Kinds]
    /\ happened \in Alarm /\ timeline \subseteq 1 .. happened
    /\ version \in 1 .. MaxVersions
    /\ entry \in {"setup", "fetched", "added", "ready"}
    /\ phase \in {"idle", "alarms", "static", "merge"}
    /\ polled \in Alarm
    /\ cached \in Version
    /\ age \in 0 .. StaticEvery
    /\ data \in [alarm : Alarm, static : Version]
    /\ ok \in BOOLEAN
    /\ seen \in [Sensors -> BOOLEAN] /\ prev \in [Sensors -> Alarm]
    /\ on \in [Sensors -> BOOLEAN] /\ timer \in [Sensors -> BOOLEAN]
    /\ shown \in [Sensors -> BOOLEAN]
    /\ known \in Alarm
    /\ pulses \in [Sensors -> Seq(Alarm)] /\ prewarms \in Seq(Alarm)
    /\ snapshot \in Alarm

InitSensors ==
    /\ seen = [s \in Sensors |-> FALSE] /\ prev = [s \in Sensors |-> 0]
    /\ on = [s \in Sensors |-> FALSE] /\ timer = [s \in Sensors |-> FALSE]
    /\ shown = [s \in Sensors |-> FALSE]
    /\ pulses = [s \in Sensors |-> <<>>]

Init ==
    /\ kindOf \in [1 .. MaxAlarms -> Kinds]
    /\ happened \in Alarm /\ timeline = 1 .. happened
    /\ version = 1
    /\ entry = "setup"
    /\ phase = "idle" /\ polled = 0 /\ cached = 0 /\ age = 0
    /\ data = Blank /\ ok = TRUE
    /\ InitSensors
    /\ known = 0 /\ prewarms = <<>>
    /\ snapshot = 0
-----------------------------------------------------------------------------
(* The doorbell and the cloud *)

Happen ==
    /\ happened < MaxAlarms
    /\ happened' = happened + 1
    /\ timeline' = timeline \cup {happened + 1}
    /\ UNCHANGED <<kindOf, version, entry, poller, data, ok, sensors, hook,
                   snapshot>>

\* The user deletes an alarm in the vendor's app.
Delete ==
    /\ \E a \in timeline : timeline' = timeline \ {a}
    /\ UNCHANGED <<kindOf, happened, version, entry, poller, data, ok, sensors,
                   hook, snapshot>>

\* The doorbell gets another IP address, goes offline...
ChangeStatus ==
    /\ version < MaxVersions
    /\ version' = version + 1
    /\ UNCHANGED <<kindOf, happened, timeline, entry, poller, data, ok, sensors,
                   hook, snapshot>>

\* get_alarms asks for the latest entry only.
OldestListed == Min({MaxAlarms} \cup timeline)  \* seeded fault

Latest == Max({0} \cup timeline)
-----------------------------------------------------------------------------
(* The listeners of the coordinator, called with its data d *)

\* _handle_coordinator_update of the sensor s: only its first call takes the
\* alarm for old without asking for its kind.
FiresUnseeded(s, d) ==                          \* seeded fault
    /\ d.alarm # 0 /\ kindOf[d.alarm] = s /\ d.alarm # prev[s]

Fires(s, d) ==
    /\ seen[s]
    /\ d.alarm # 0 /\ kindOf[d.alarm] = s /\ d.alarm # prev[s]

UpdateSensors(d) ==
    LET fires == {s \in Sensors : Fires(s, d)} IN
    /\ seen' = [s \in Sensors |-> TRUE]
    /\ prev' = [s \in Sensors |->
                    IF ~seen[s] \/ s \in fires THEN d.alarm ELSE prev[s]]
    /\ on' = [s \in Sensors |-> on[s] \/ s \in fires]
    /\ timer' = [s \in Sensors |-> timer[s] \/ s \in fires]
    /\ shown' = on'
    /\ pulses' = [s \in Sensors |->
                    IF s \in fires THEN Append(pulses[s], d.alarm) ELSE pulses[s]]

\* _on_update of _install_event_prewarm
UpdateHookOnce(d) ==                            \* seeded fault
    IF d.alarm # 0 /\ known = 0
    THEN known' = d.alarm /\ prewarms' = Append(prewarms, d.alarm)
    ELSE UNCHANGED hook

UpdateHook(d) ==
    IF d.alarm # 0 /\ d.alarm # known
    THEN known' = d.alarm /\ prewarms' = Append(prewarms, d.alarm)
    ELSE UNCHANGED hook

UpdateListeners(d) ==
    /\ IF entry \in {"added", "ready"} THEN UpdateSensors(d)
                                       ELSE UNCHANGED sensors
    /\ IF entry = "ready" THEN UpdateHook(d) ELSE UNCHANGED hook
-----------------------------------------------------------------------------
(* _async_update_data, as the coordinator's base class calls it *)

\* The first refresh, and every UPDATE_INTERVAL_SEC once somebody listens.
PollStarts ==
    /\ phase = "idle" /\ entry # "fetched"
    /\ phase' = "alarms"
    /\ age' = IF age < StaticEvery THEN age + 1 ELSE age
    /\ UNCHANGED <<cloud, entry, polled, cached, data, ok, sensors, hook,
                   snapshot>>

StaticIsDueOnce == cached = 0                   \* seeded fault

StaticIsDue == cached = 0 \/ age >= StaticEvery

AlarmsAnswered ==
    /\ phase = "alarms"
    /\ polled' = Latest
    /\ phase' = IF StaticIsDue THEN "static" ELSE "merge"
    /\ UNCHANGED <<cloud, entry, cached, age, data, ok, sensors, hook, snapshot>>

StaticAnsweredUntimed ==                        \* seeded fault
    /\ phase = "static"
    /\ cached' = version
    /\ age' = age + 1
    /\ phase' = "merge"
    /\ UNCHANGED <<cloud, entry, polled, data, ok, sensors, hook, snapshot>>

StaticAnswered ==
    /\ phase = "static"
    /\ cached' = version
    /\ age' = 0
    /\ phase' = "merge"
    /\ UNCHANGED <<cloud, entry, polled, data, ok, sensors, hook, snapshot>>

\* A failure of the slow poll is tolerated once something is cached.
StaticFailsUnnoticed ==                         \* seeded fault
    /\ phase = "static"
    /\ phase' = "merge"
    /\ UNCHANGED <<cloud, entry, polled, cached, age, data, ok, sensors, hook,
                   snapshot>>

StaticFails ==
    /\ phase = "static" /\ cached # 0
    /\ phase' = "merge"
    /\ UNCHANGED <<cloud, entry, polled, cached, age, data, ok, sensors, hook,
                   snapshot>>

Merge ==
    /\ phase = "merge"
    /\ data' = [alarm |-> polled, static |-> cached]
    /\ ok' = TRUE
    /\ phase' = "idle" /\ polled' = 0
    /\ entry' = IF entry = "setup" THEN "fetched" ELSE entry
    /\ UpdateListeners(data')
    /\ UNCHANGED <<cloud, cached, age, snapshot>>

\* UpdateFailed: the set-up is tried again later with a coordinator of its
\* own; later the listeners are called when a poll fails after one that did
\* not, with the data of the last success.
PollFails ==
    /\ phase = "alarms" \/ (phase = "static" /\ cached = 0)
    /\ phase' = "idle" /\ polled' = 0
    /\ IF entry = "setup"
       THEN /\ age' = 0
            /\ UNCHANGED <<ok, sensors, hook>>
       ELSE /\ ok' = FALSE
            /\ IF ok THEN UpdateListeners(data) ELSE UNCHANGED <<sensors, hook>>
            /\ UNCHANGED age
    /\ UNCHANGED <<cloud, entry, cached, data, snapshot>>
-----------------------------------------------------------------------------
(* The set-up of the entry, after the first refresh *)

\* async_forward_entry_setups adds the sensors.
AddEntities ==
    /\ entry = "fetched"
    /\ entry' = "added"
    /\ snapshot' = data.alarm
    /\ UNCHANGED <<cloud, poller, data, ok, sensors, hook>>

InstallHook ==
    /\ entry = "added"
    /\ entry' = "ready"
    /\ known' = data.alarm
    /\ UNCHANGED <<cloud, poller, data, ok, sensors, prewarms, snapshot>>
-----------------------------------------------------------------------------
(* Pulses *)

\* _handle_local_unlock
LocalUnlockUntimed(s) ==                        \* seeded fault
    /\ on' = [on EXCEPT ![s] = TRUE]
    /\ shown' = [shown EXCEPT ![s] = TRUE]
    /\ UNCHANGED <<seen, prev, timer, pulses>>

LocalUnlock(s) ==
    /\ on' = [on EXCEPT ![s] = TRUE]
    /\ timer' = [timer EXCEPT ![s] = TRUE]
    /\ shown' = [shown EXCEPT ![s] = TRUE]
    /\ UNCHANGED <<seen, prev, pulses>>

\* async_press after a successful unlock.
Press(s) ==
    /\ entry \in {"added", "ready"}
    /\ LocalUnlock(s)
    /\ UNCHANGED <<cloud, entry, poller, data, ok, hook, snapshot>>

\* PULSE_SECONDS have passed, then the timer of _schedule_state_update fires.
PulseEnds(s) ==
    /\ on[s]
    /\ on' = [on EXCEPT ![s] = FALSE]
    /\ UNCHANGED <<cloud, entry, poller, data, ok, seen, prev, timer, shown,
                   pulses, hook, snapshot>>

TimerFires(s) ==
    /\ timer[s] /\ ~on[s]
    /\ timer' = [timer EXCEPT ![s] = FALSE]
    /\ shown' = [shown EXCEPT ![s] = on[s]]
    /\ UNCHANGED <<cloud, entry, poller, data, ok, seen, prev, on, pulses, hook,
                   snapshot>>

Next ==
    \/ Happen \/ Delete \/ ChangeStatus
    \/ PollStarts \/ AlarmsAnswered \/ StaticAnswered \/ StaticFails \/ Merge
    \/ PollFails
    \/ AddEntities \/ InstallHook
    \/ \E s \in Buttons : Press(s)
    \/ \E s \in Sensors : PulseEnds(s) \/ TimerFires(s)

Spec == Init /\ [][Next]_vars

\* Polls are made for ever, and the cloud answers again and again; set-up goes
\* on; time passes.
Fairness ==
    /\ WF_vars(PollStarts) /\ WF_vars(Merge)
    /\ SF_vars(AlarmsAnswered) /\ SF_vars(StaticAnswered)
    /\ WF_vars(AddEntities) /\ WF_vars(InstallHook)
    /\ \A s \in Sensors : WF_vars(PulseEnds(s)) /\ WF_vars(TimerFires(s))

FairSpec == Spec /\ Fairness
-----------------------------------------------------------------------------
(* Safety *)

\* b comes after a: it is newer, or an alarm newer than b has been deleted, so
\* that the cloud lists b as the latest one again.
After(a, b) == a < b \/ \E x \in b + 1 .. happened : x \notin timeline

\* "Only later updates with a *newer* time fire the pulse"
\* (binary_sensor.py:299-300), as far as it is so: the code asks for another
\* time, not for a newer one.  A sensor pulses for alarms in their order, once
\* for each, and for none that the data held when the entities were added;
\* only a deletion makes an old alarm pulse.
PulsesAreNew ==
    \A s \in Sensors : \A j \in DOMAIN pulses[s] :
        /\ After(snapshot, pulses[s][j])
        /\ \A i \in 1 .. j - 1 : After(pulses[s][i], pulses[s][j])

Prewarmed(a) == \E j \in DOMAIN prewarms : prewarms[j] = a

\* Once the hook is installed no sensor pulses for an alarm that has not been
\* pre-warmed for, neither for the one that the hook found when it was
\* installed (which is why the hook may take that one for old) nor for one that
\* a deletion brings up again.
PulsesArePrewarmed ==
    [][\A s \in Sensors : entry = "ready" /\ pulses'[s] # pulses[s] =>
            Prewarmed(pulses[s][Len(pulses[s])])']_vars

\* Entities never see half-empty data (coordinator.py:95-98).
DataIsComplete == entry # "setup" => data.static # 0

\* A sensor that shows a pulse has a timer that is to write its state again.
PulseIsTimed == \A s \in Sensors : shown[s] => timer[s]
-----------------------------------------------------------------------------
(* Liveness, under FairSpec *)

LastListed == happened = MaxAlarms /\ MaxAlarms \in timeline

\* The last alarm of all pulses its sensor, unless it is deleted or was there
\* before the sensor's first update.
LastAlarmPulses ==
    \A s \in Sensors :
        (LastListed /\ kindOf[MaxAlarms] = s /\ seen[s] /\ prev[s] < MaxAlarms)
        ~> (\/ \E i \in DOMAIN pulses[s] : pulses[s][i] = MaxAlarms
            \/ ~LastListed)

\* The last alarm of all is pre-warmed for, unless it is deleted or the hook
\* found it there.
LastAlarmPrewarms ==
    (LastListed /\ entry = "ready" /\ known < MaxAlarms)
        ~> (\/ \E i \in DOMAIN prewarms : prewarms[i] = MaxAlarms
            \/ ~LastListed)

\* The last alarm reaches its sensor and the pre-warm, although each poll asks
\* for one alarm only, polls fail, and both remember what they have seen
\* (api.py:707, coordinator.py:107, binary_sensor.py:369).
LastAlarmArrives == LastAlarmPulses /\ LastAlarmPrewarms

\* The data catches up with the doorbell's slow status, whatever polls fail.
StatusCatchesUp == (version = MaxVersions) ~> (data.static = MaxVersions)
=============================================================================
