---------------------------- MODULE AlarmsProofs ----------------------------
(***************************************************************************)
(* Proofs about Alarms, for any kinds, sensors, buttons and bounds: types, *)
(* complete data, timed pulses, and that sensors pulse for new alarms      *)
(* only, in order (but for what a deletion brings up again) and pre-warmed *)
(* for.                                                                    *)
(***************************************************************************)
EXTENDS Alarms, TLAPS, WellFoundedInduction

-----------------------------------------------------------------------------
(* The latest alarm of the list *)

LEMMA HasMaximum ==
    ASSUME NEW n \in Nat, NEW S, S \subseteq 0 .. n, S # {}
    PROVE  \E x \in S : \A y \in S : x >= y
<1> DEFINE T == {n - x : x \in S}
           R == OpToRel(<, Nat)
<1>1. T \subseteq Nat /\ T # {}
  <2>1. \A x \in S : n - x \in Nat
    OBVIOUS
  <2> QED
    BY <2>1
<1>2. \E t \in T : \A u \in T : <<u, t>> \notin R
  BY <1>1, NatLessThanWellFounded, WFMin
<1>3. \A t, u \in Nat : <<u, t>> \in R <=> u < t
  BY DEF OpToRel
<1>4. PICK t \in T : \A u \in T : ~ (u < t)
  BY <1>1, <1>2, <1>3
<1>5. PICK x \in S : t = n - x
  BY <1>4
<1>6. \A y \in S : x >= y
  BY <1>4, <1>5
<1> QED
  BY <1>6

LEMMA LatestTyped ==
    ASSUME timeline \subseteq 1 .. happened, happened \in Alarm
    PROVE  /\ Latest \in {0} \cup timeline
           /\ \A a \in timeline : Latest >= a
<1>1. {0} \cup timeline \subseteq 0 .. MaxAlarms
  BY BoundsAssumption DEF Alarm
<1>2. \E x \in {0} \cup timeline : \A y \in {0} \cup timeline : x >= y
  BY <1>1, BoundsAssumption, HasMaximum
<1> QED
  BY <1>2 DEF Latest, Max

-----------------------------------------------------------------------------
(* Types *)

\* The types of the cloud and the poll, and of what listens to it.
PollTyped ==
    /\ kindOf \in [1 .. MaxAlarms -> Kinds]
    /\ happened \in Alarm /\ timeline \subseteq 1 .. happened
    /\ version \in 1 .. MaxVersions
    /\ entry \in {"setup", "fetched", "added", "ready"}
    /\ phase \in {"idle", "alarms", "static", "merge"}
    /\ polled \in Alarm
    /\ cached \in Version
    /\ age \in 0 .. StaticEvery
    /\ data \in [alarm : Alarm, static : Version]
    /\ ok \in BOOLEAN
    /\ snapshot \in Alarm

ListenersOK ==
    /\ seen \in [Sensors -> BOOLEAN] /\ prev \in [Sensors -> Alarm]
    /\ on \in [Sensors -> BOOLEAN] /\ timer \in [Sensors -> BOOLEAN]
    /\ shown \in [Sensors -> BOOLEAN]
    /\ known \in Alarm
    /\ pulses \in [Sensors -> Seq(Alarm)] /\ prewarms \in Seq(Alarm)

LEMMA TypeParts == TypeOK <=> PollTyped /\ ListenersOK
BY DEF TypeOK, PollTyped, ListenersOK

LEMMA InitTyped == Init => TypeOK
BY BoundsAssumption DEF Init, InitSensors, TypeOK, Alarm, Version, Blank

\* The listeners, called with complete data or with none.
LEMMA ListenersTyped ==
    ASSUME TypeOK, NEW d \in [alarm : Alarm, static : Version], UpdateListeners(d)
    PROVE  /\ seen' \in [Sensors -> BOOLEAN] /\ prev' \in [Sensors -> Alarm]
           /\ on' \in [Sensors -> BOOLEAN] /\ timer' \in [Sensors -> BOOLEAN]
           /\ shown' \in [Sensors -> BOOLEAN]
           /\ pulses' \in [Sensors -> Seq(Alarm)]
           /\ known' \in Alarm /\ prewarms' \in Seq(Alarm)
<1>1. known' \in Alarm /\ prewarms' \in Seq(Alarm)
  <2>1. d.alarm \in Alarm /\ known \in Alarm /\ prewarms \in Seq(Alarm)
    BY DEF TypeOK
  <2>2. UpdateHook(d) \/ UNCHANGED hook
    BY DEF UpdateListeners
  <2> QED
    BY <2>1, <2>2 DEF UpdateHook, hook
<1>2. CASE UpdateSensors(d)
  <2>1. d.alarm \in Alarm
    OBVIOUS
  <2>2. pulses' \in [Sensors -> Seq(Alarm)]
    BY <1>2, <2>1 DEF TypeOK, UpdateSensors
  <2>3. prev' \in [Sensors -> Alarm]
    BY <1>2, <2>1 DEF TypeOK, UpdateSensors
  <2>4. /\ seen' \in [Sensors -> BOOLEAN] /\ on' \in [Sensors -> BOOLEAN]
        /\ timer' \in [Sensors -> BOOLEAN] /\ shown' \in [Sensors -> BOOLEAN]
    BY <1>2, Zenon DEF TypeOK, UpdateSensors
  <2> QED
    BY <1>1, <2>2, <2>3, <2>4
<1>3. CASE UNCHANGED sensors
  BY <1>1, <1>3 DEF TypeOK, sensors
<1> QED
  BY <1>2, <1>3 DEF UpdateListeners

LEMMA PollStep == TypeOK /\ [Next]_vars => PollTyped'
<1> SUFFICES ASSUME PollTyped, [Next]_vars PROVE PollTyped'
  BY TypeParts
<1> USE DEF PollTyped
<1>1. CASE Happen
  <2>1. happened' \in Alarm /\ timeline' \subseteq 1 .. happened'
    BY <1>1, BoundsAssumption DEF Happen, Alarm
  <2> QED
    BY <1>1, <2>1 DEF Happen, poller
<1>2. CASE Delete \/ ChangeStatus
  <2>1. timeline' \subseteq timeline /\ happened' = happened
    BY <1>2 DEF Delete, ChangeStatus
  <2>2. version' \in 1 .. MaxVersions
    BY <1>2, BoundsAssumption DEF Delete, ChangeStatus
  <2> QED
    BY <1>2, <2>1, <2>2 DEF Delete, ChangeStatus, poller
<1>3. CASE PollStarts \/ StaticAnswered \/ StaticFails
  <2>1. age' \in 0 .. StaticEvery
    BY <1>3, BoundsAssumption DEF PollStarts, StaticAnswered, StaticFails
  <2>2. cached' \in Version
    BY <1>3, BoundsAssumption DEF PollStarts, StaticAnswered, StaticFails, Version
  <2> QED
    BY <1>3, <2>1, <2>2 DEF PollStarts, StaticAnswered, StaticFails, cloud
<1>4. CASE AlarmsAnswered
  <2>1. Latest \in {0} \cup timeline
    BY LatestTyped
  <2>2. Latest \in Alarm
    BY <2>1, BoundsAssumption DEF Alarm
  <2> QED
    BY <1>4, <2>2 DEF AlarmsAnswered, cloud
<1>5. CASE Merge \/ PollFails
  <2>1. 0 \in Alarm /\ 0 \in 0 .. StaticEvery
    BY BoundsAssumption DEF Alarm
  <2>2. CASE Merge
    BY <2>1, <2>2 DEF Merge, cloud
  <2>3. CASE PollFails
    BY <2>1, <2>3 DEF PollFails, cloud
  <2> QED
    BY <1>5, <2>2, <2>3
<1>6. CASE AddEntities \/ InstallHook
  BY <1>6 DEF AddEntities, InstallHook, cloud, poller
<1>7. ASSUME NEW s \in Sensors, Press(s) \/ PulseEnds(s) \/ TimerFires(s)
      PROVE  PollTyped'
  BY <1>7 DEF Press, PulseEnds, TimerFires, cloud, poller
<1>8. CASE UNCHANGED vars
  BY <1>8 DEF vars, cloud, poller
<1> QED
  BY <1>1, <1>2, <1>3, <1>4, <1>5, <1>6, <1>7, <1>8, SensorsAssumption DEF Next

\* Whoever is told of an update is told of the data, as it is then.
LEMMA Updates ==
    ASSUME TypeOK, Merge \/ PollFails
    PROVE  \/ UNCHANGED <<sensors, hook>>
           \/ UpdateListeners(data')
BY DEF Merge, PollFails

LEMMA NextTyped == TypeOK /\ [Next]_vars => TypeOK'
<1> SUFFICES ASSUME TypeOK, [Next]_vars PROVE ListenersOK'
  BY PollStep DEF TypeOK, PollTyped, ListenersOK
<1>1. CASE UNCHANGED <<sensors, hook>>
  BY <1>1, TypeParts DEF ListenersOK, sensors, hook
<1>2. CASE Merge \/ PollFails
  <2>1. data' \in [alarm : Alarm, static : Version]
    BY PollStep DEF PollTyped
  <2>2. CASE UpdateListeners(data')
    <3>1. UpdateListeners(data') => ListenersOK'
      BY <1>2, <2>1, ListenersTyped DEF ListenersOK
    <3> QED
      BY <2>2, <3>1
  <2> QED
    BY <1>1, <1>2, <2>2, Updates
<1>3. CASE InstallHook
  BY <1>3, TypeParts DEF InstallHook, ListenersOK, PollTyped, sensors
<1>4. ASSUME NEW s \in Sensors, Press(s) \/ PulseEnds(s) \/ TimerFires(s)
      PROVE  ListenersOK'
  BY <1>4, TypeParts DEF Press, LocalUnlock, PulseEnds, TimerFires, ListenersOK, hook
<1> QED
  BY <1>1, <1>2, <1>3, <1>4, SensorsAssumption
     DEF Next, Happen, Delete, ChangeStatus, PollStarts, AlarmsAnswered, StaticAnswered,
         StaticFails, AddEntities, vars

-----------------------------------------------------------------------------
(* Complete data, and timed pulses *)

\* _async_update_data merges only what has been cached.
Complete == DataIsComplete /\ (phase = "merge" => cached # 0)

LEMMA CompleteStep == TypeOK /\ Complete /\ [Next]_vars => Complete'
<1> SUFFICES ASSUME TypeOK, Complete, [Next]_vars PROVE Complete'
  OBVIOUS
<1> USE DEF Complete, DataIsComplete, TypeOK
<1>1. CASE Happen \/ Delete \/ ChangeStatus
  BY <1>1 DEF Happen, Delete, ChangeStatus, poller
<1>2. CASE PollStarts \/ StaticAnswered \/ StaticFails
  BY <1>2 DEF PollStarts, StaticAnswered, StaticFails
<1>3. CASE AlarmsAnswered
  BY <1>3 DEF AlarmsAnswered, StaticIsDue
<1>4. CASE Merge \/ PollFails
  BY <1>4 DEF Merge, PollFails
<1>5. CASE AddEntities \/ InstallHook
  BY <1>5 DEF AddEntities, InstallHook, poller
<1>6. ASSUME NEW s \in Sensors, Press(s) \/ PulseEnds(s) \/ TimerFires(s)
      PROVE  Complete'
  BY <1>6 DEF Press, PulseEnds, TimerFires, poller
<1>7. CASE UNCHANGED vars
  BY <1>7 DEF vars, poller
<1> QED
  BY <1>1, <1>2, <1>3, <1>4, <1>5, <1>6, <1>7, SensorsAssumption DEF Next

\* A timer is armed whenever a trigger sets is_on.
Timed == \A s \in Sensors : (on[s] => timer[s]) /\ (shown[s] => timer[s])

LEMMA TimedStep == TypeOK /\ Timed /\ [Next]_vars => Timed'
<1> SUFFICES ASSUME TypeOK, Timed, [Next]_vars PROVE Timed'
  OBVIOUS
<1> USE DEF Timed, TypeOK
<1>1. ASSUME NEW d, UpdateSensors(d) PROVE Timed'
  BY <1>1 DEF UpdateSensors
<1>2. CASE UNCHANGED sensors
  BY <1>2 DEF sensors
<1>3. CASE Merge \/ PollFails
  BY <1>1, <1>2, <1>3 DEF Merge, PollFails, UpdateListeners
<1>4. ASSUME NEW s \in Sensors, Press(s) \/ PulseEnds(s) \/ TimerFires(s)
      PROVE  Timed'
  BY <1>4 DEF Press, LocalUnlock, PulseEnds, TimerFires
<1> QED
  BY <1>2, <1>3, <1>4, SensorsAssumption
     DEF Next, Happen, Delete, ChangeStatus, PollStarts, AlarmsAnswered, StaticAnswered,
         StaticFails, AddEntities, InstallHook, vars

-----------------------------------------------------------------------------
(* Pulses and pre-warming, whatever is deleted *)

\* No alarm that the listeners know is newer than what the cloud has answered
\* to the poll under way, unless it is deleted by now.
Past(a) ==
    /\ a <= happened
    /\ phase \in {"static", "merge"} /\ a \in timeline => a <= polled

\* No poll is to report a after p: it is not newer, or deleted and not on its way.
Bygone(a, p) == a <= p \/ (a \notin timeline /\ a # polled)

PollIsPast ==
    /\ polled <= happened
    /\ Past(data.alarm) /\ Past(snapshot)
    /\ snapshot <= data.alarm \/ snapshot \notin timeline

\* A sensor remembers the data's alarm if that is one of its kind, and one after
\* which none of those that pulsed it comes again.
Remembers(s) ==
    /\ entry \in {"setup", "fetched"} => ~seen[s]
    /\ Past(prev[s])
    /\ seen[s] => Bygone(snapshot, prev[s])
    /\ seen[s] /\ data.alarm # 0 /\ kindOf[data.alarm] = s => prev[s] = data.alarm
    /\ \A i \in DOMAIN pulses[s] :
          seen[s] /\ Past(pulses[s][i]) /\ Bygone(pulses[s][i], prev[s])

\* The hook knows the alarm of the data, or else one that never comes again.
HookKnows ==
    /\ Past(known)
    /\ entry = "ready" /\ known # data.alarm =>
          data.alarm = 0 /\ known \notin timeline /\ known # polled

\* PulsesAreNew, of one sensor.
NewOnly(s) ==
    \A j \in DOMAIN pulses[s] :
        /\ After(snapshot, pulses[s][j])
        /\ \A i \in 1 .. j - 1 : After(pulses[s][i], pulses[s][j])

Ordered ==
    /\ PollIsPast
    /\ \A s \in Sensors : Remembers(s)
    /\ HookKnows
    /\ PulsesAreNew

LEMMA AlarmsAreNumbers == Alarm \subseteq Nat /\ 0 \in Alarm
BY BoundsAssumption DEF Alarm

LEMMA Appended ==
    ASSUME NEW q \in Seq(Alarm), NEW x \in Alarm
    PROVE  /\ DOMAIN q = 1 .. Len(q) /\ Len(q) \in Nat
           /\ \A i \in DOMAIN q : q[i] \in Alarm
           /\ DOMAIN Append(q, x) = 1 .. Len(q) + 1
           /\ \A i \in DOMAIN q : Append(q, x)[i] = q[i]
           /\ Append(q, x)[Len(q) + 1] = x
           /\ Append(q, x)[Len(Append(q, x))] = x
OBVIOUS

\* Alarms happen in their order, and what was deleted stays deleted.
LEMMA CloudStep ==
    ASSUME TypeOK, [Next]_vars
    PROVE  /\ happened <= happened'
           /\ \A a \in Alarm : a <= happened /\ a \notin timeline => a \notin timeline'
<1>1. happened \in Nat
  BY AlarmsAreNumbers DEF TypeOK
<1>2. CASE Happen
  BY <1>1, <1>2, AlarmsAreNumbers DEF Happen
<1>3. CASE Delete
  BY <1>1, <1>3 DEF Delete
<1>4. CASE UNCHANGED <<happened, timeline>>
  BY <1>1, <1>4
<1> QED
  BY <1>2, <1>3, <1>4
     DEF Next, ChangeStatus, PollStarts, AlarmsAnswered, StaticAnswered, StaticFails,
         Merge, PollFails, AddEntities, InstallHook, Press, PulseEnds, TimerFires, vars,
         cloud

\* An answer on its way stays the same; a new one is the latest listed.
LEMMA AnswerStep ==
    ASSUME TypeOK, [Next]_vars
    PROVE  \/ /\ polled' = polled
              /\ phase' \in {"static", "merge"} => phase \in {"static", "merge"}
           \/ /\ polled' \in {0} \cup timeline /\ UNCHANGED timeline
              /\ \A a \in timeline : a <= polled'
           \/ polled' = 0 /\ phase' = "idle"
<1>1. CASE AlarmsAnswered
  <2>1. Latest \in {0} \cup timeline /\ \A a \in timeline : Latest >= a
    BY LatestTyped DEF TypeOK
  <2>2. timeline \subseteq Nat
    BY AlarmsAreNumbers DEF TypeOK
  <2> QED
    BY <1>1, <2>1, <2>2 DEF AlarmsAnswered, cloud
<1>2. CASE \/ Happen \/ Delete \/ ChangeStatus \/ PollStarts \/ StaticAnswered
           \/ StaticFails \/ Merge \/ PollFails
  BY <1>2 DEF Happen, Delete, ChangeStatus, PollStarts, StaticAnswered, StaticFails,
              Merge, PollFails, poller
<1>3. CASE \/ AddEntities \/ InstallHook \/ UNCHANGED vars
           \/ \E s \in Sensors : Press(s) \/ PulseEnds(s) \/ TimerFires(s)
  BY <1>3 DEF AddEntities, InstallHook, Press, PulseEnds, TimerFires, vars, poller
<1> QED
  BY <1>1, <1>2, <1>3, SensorsAssumption DEF Next

LEMMA PastStep ==
    ASSUME TypeOK, [Next]_vars, NEW a \in Alarm, Past(a)
    PROVE  Past(a)'
<1>1. /\ a \in Nat /\ happened \in Nat /\ happened' \in Nat
      /\ timeline \subseteq Nat
  <2>1. TypeOK'
    BY NextTyped
  <2> QED
    BY <2>1, AlarmsAreNumbers DEF TypeOK
<1>2. a <= happened /\ a <= happened'
  BY <1>1, CloudStep DEF Past
<1>3. a \in timeline' => a \in timeline
  BY <1>2, CloudStep
<1> QED
  BY <1>1, <1>2, <1>3, AnswerStep DEF Past

LEMMA BygoneStep ==
    ASSUME TypeOK, [Next]_vars, NEW a \in Alarm, NEW p \in Alarm, Past(a), Bygone(a, p)
    PROVE  Bygone(a, p)'
<1>1. a \in Nat /\ p \in Nat /\ a <= happened
  BY AlarmsAreNumbers DEF Past
<1>2. CASE a > p
  <2>1. a \notin timeline /\ a # polled /\ a # 0
    BY <1>1, <1>2 DEF Bygone
  <2>2. a \notin timeline' /\ a # polled'
    BY <1>1, <2>1, CloudStep, AnswerStep
  <2> QED
    BY <2>2 DEF Bygone
<1> QED
  BY <1>1, <1>2 DEF Bygone

LEMMA AfterStep ==
    ASSUME TypeOK, [Next]_vars, NEW a \in Alarm, NEW b \in Alarm, After(a, b)
    PROVE  After(a, b)'
<1>1. b \in Nat /\ happened \in Nat /\ happened' \in Nat /\ happened <= MaxAlarms
  BY AlarmsAreNumbers, NextTyped, BoundsAssumption DEF TypeOK, Alarm
<1>2. ASSUME NEW x \in b + 1 .. happened, x \notin timeline PROVE After(a, b)'
  <2>1. x \in Alarm /\ x <= happened /\ x \in b + 1 .. happened'
    BY <1>1, <1>2, CloudStep, BoundsAssumption DEF Alarm
  <2> QED
    BY <1>2, <2>1, CloudStep DEF After
<1> QED
  BY <1>2 DEF After

\* The poll reports an alarm that is not the one remembered as p: whatever
\* pulsed before comes before it, or has come up again after a deletion.
LEMMA Reappears ==
    ASSUME TypeOK, phase = "merge", PollIsPast, NEW a \in Alarm, NEW p \in Alarm,
           Past(a), Past(p), Bygone(a, p), p # polled
    PROVE  After(a, polled) /\ (a <= polled \/ (a \notin timeline /\ a # 0))
<1>1. a \in Nat /\ p \in Nat /\ polled \in Nat /\ happened \in Nat
  BY AlarmsAreNumbers DEF TypeOK
<1>2. CASE a < polled
  BY <1>1, <1>2 DEF After
<1>3. CASE a > polled
  <2>1. a \notin timeline /\ a \in polled + 1 .. happened
    BY <1>1, <1>3 DEF Past
  <2> QED
    BY <1>1, <1>3, <2>1 DEF After
<1>4. CASE a = polled
  <2>1. p > polled
    BY <1>1, <1>4 DEF Bygone
  <2>2. p \notin timeline /\ p \in polled + 1 .. happened
    BY <1>1, <2>1 DEF Past
  <2> QED
    BY <1>1, <1>4, <2>2 DEF After
<1> QED
  BY <1>1, <1>2, <1>3, <1>4

-----------------------------------------------------------------------------
(* The listeners are told of the poll's alarm, or of the data again *)

Told(d) ==
    /\ d \in [alarm : Alarm, static : Version]
    /\ d = data \/ (phase = "merge" /\ d.alarm = polled)
    /\ entry \in {"added", "ready"} /\ UpdateListeners(d)
    /\ data' = d /\ polled' = 0 /\ phase' = "idle"
    /\ UNCHANGED <<cloud, entry, snapshot>>

LEMMA MergeOrFail ==
    ASSUME TypeOK, Merge \/ PollFails
    PROVE  \/ /\ UNCHANGED <<sensors, hook, cloud, snapshot>>
              /\ entry' = entry
              /\ data' = data
           \/ /\ Merge /\ entry \in {"setup", "fetched"}
              /\ UNCHANGED <<sensors, hook, cloud, snapshot>>
              /\ entry' \in {"setup", "fetched"}
           \/ Told(data')
<1>1. CASE Merge
  <2>1. data' = [alarm |-> polled, static |-> cached]
    BY <1>1 DEF Merge
  <2> DEFINE d == [alarm |-> polled, static |-> cached]
  <2>2. d \in [alarm : Alarm, static : Version] /\ d.alarm = polled
    BY DEF TypeOK
  <2>3. UpdateListeners(data')
    BY <1>1 DEF Merge
  <2>4. CASE entry \in {"setup", "fetched"}
    BY <1>1, <2>3, <2>4 DEF Merge, UpdateListeners
  <2>5. CASE entry \in {"added", "ready"}
    BY <1>1, <2>1, <2>2, <2>3, <2>5 DEF Merge, Told
  <2> QED
    BY <2>4, <2>5 DEF TypeOK
<1>2. CASE PollFails
  <2>1. CASE UNCHANGED <<sensors, hook>>
    BY <1>2, <2>1 DEF PollFails
  <2>2. CASE UpdateListeners(data) /\ entry \in {"added", "ready"}
    <3>1. data' = data
      BY <1>2 DEF PollFails
    <3>2. UpdateListeners(data')
      BY <2>2, <3>1
    <3> QED
      BY <1>2, <2>2, <3>1, <3>2 DEF PollFails, Told, TypeOK
  <2> QED
    BY <1>2, <2>1, <2>2 DEF PollFails, UpdateListeners
<1> QED
  BY <1>1, <1>2

LEMMA ToldPast ==
    ASSUME PollIsPast, NEW d, Told(d), d.alarm \in Nat PROVE Past(d.alarm)
<1>1. CASE d = data
  BY <1>1 DEF PollIsPast
<1>2. CASE phase = "merge" /\ d.alarm = polled
  BY <1>2 DEF PollIsPast, Past
<1> QED
  BY <1>1, <1>2 DEF Told

LEMMA SensorTold ==
    ASSUME TypeOK, PollIsPast, NEW s \in Sensors, Remembers(s), NewOnly(s),
           NEW d, Told(d)
    PROVE  Remembers(s)' /\ NewOnly(s)'
<1>1. /\ d.alarm \in Alarm /\ prev[s] \in Alarm /\ snapshot \in Alarm
      /\ pulses[s] \in Seq(Alarm) /\ happened \in Nat
  BY AlarmsAreNumbers DEF TypeOK, Told
<1>2. Alarm \subseteq Nat /\ d.alarm \in Nat /\ prev[s] \in Nat /\ snapshot \in Nat
  BY <1>1, AlarmsAreNumbers
<1>3. /\ UpdateSensors(d) /\ data' = d /\ polled' = 0 /\ phase' = "idle"
      /\ UNCHANGED <<happened, timeline, kindOf, snapshot, entry>>
      /\ entry \in {"added", "ready"} /\ seen'[s]
  BY DEF Told, UpdateListeners, UpdateSensors, cloud
<1>4. Past(d.alarm)
  BY <1>2, ToldPast
<1>5. \A i \in DOMAIN pulses[s] : pulses[s][i] \in Alarm
  BY <1>1, Appended
<1>6. CASE Fires(s, d)
  <2>1. prev'[s] = d.alarm /\ pulses'[s] = Append(pulses[s], d.alarm)
    BY <1>3, <1>6 DEF UpdateSensors
  <2>2. phase = "merge" /\ d.alarm = polled /\ seen[s] /\ prev[s] # polled
    BY <1>6 DEF Told, Fires, Remembers
  <2>3. /\ Past(snapshot) /\ Past(prev[s]) /\ Bygone(snapshot, prev[s])
        /\ \A i \in DOMAIN pulses[s] :
              Past(pulses[s][i]) /\ Bygone(pulses[s][i], prev[s])
    BY <2>2 DEF PollIsPast, Remembers
  <2>4. /\ After(snapshot, d.alarm)
        /\ snapshot <= d.alarm \/ (snapshot \notin timeline /\ snapshot # 0)
    BY <1>1, <2>2, <2>3, Reappears
  <2>5. \A i \in DOMAIN pulses[s] :
           /\ After(pulses[s][i], d.alarm)
           /\ \/ pulses[s][i] <= d.alarm
              \/ pulses[s][i] \notin timeline /\ pulses[s][i] # 0
    BY <1>1, <1>5, <2>2, <2>3, Reappears
  <2> DEFINE q == Append(pulses[s], d.alarm)
  <2>6. /\ DOMAIN pulses[s] = 1 .. Len(pulses[s]) /\ Len(pulses[s]) \in Nat
        /\ DOMAIN q = 1 .. Len(pulses[s]) + 1
        /\ \A i \in DOMAIN pulses[s] : q[i] = pulses[s][i]
        /\ q[Len(pulses[s]) + 1] = d.alarm
    BY <1>1, Appended
  <2>7. Remembers(s)'
    <3>1. ASSUME NEW i \in DOMAIN q
          PROVE  /\ q[i] <= happened
                 /\ q[i] <= d.alarm \/ (q[i] \notin timeline /\ q[i] # 0)
      <4>1. CASE i \in DOMAIN pulses[s]
        BY <2>3, <2>5, <2>6, <4>1 DEF Past
      <4>2. CASE i = Len(pulses[s]) + 1
        BY <1>2, <1>4, <2>6, <4>2 DEF Past
      <4> QED
        BY <2>6, <4>1, <4>2
    <3>3. /\ d.alarm <= happened
          /\ snapshot <= d.alarm \/ (snapshot \notin timeline /\ snapshot # 0)
      BY <1>4, <2>4 DEF Past
    <3> HIDE DEF q
    <3>4. pulses'[s] = q
      BY <2>1 DEF q
    <3> QED
      BY <1>3, <2>1, <3>1, <3>3, <3>4 DEF Remembers, Past, Bygone
  <2>8. NewOnly(s)'
    <3>1. ASSUME NEW j \in DOMAIN q
          PROVE  /\ After(snapshot, q[j])
                 /\ \A i \in 1 .. j - 1 : After(q[i], q[j])
      <4>1. CASE j \in DOMAIN pulses[s]
        <5>1. q[j] = pulses[s][j] /\ \A i \in 1 .. j - 1 : q[i] = pulses[s][i]
          BY <2>6, <4>1
        <5> QED
          BY <4>1, <5>1 DEF NewOnly
      <4>2. CASE j = Len(pulses[s]) + 1
        <5>1. q[j] = d.alarm
          BY <2>6, <4>2
        <5>2. \A i \in 1 .. j - 1 : i \in DOMAIN pulses[s] /\ q[i] = pulses[s][i]
          BY <2>6, <4>2
        <5> QED
          BY <2>4, <2>5, <5>1, <5>2
      <4> QED
        BY <2>6, <4>1, <4>2
    <3> HIDE DEF q
    <3>2. pulses'[s] = q
      BY <2>1 DEF q
    <3> QED
      BY <1>3, <3>1, <3>2 DEF NewOnly, After
  <2> QED
    BY <2>7, <2>8
<1>7. CASE ~Fires(s, d)
  <2>1. /\ pulses'[s] = pulses[s]
        /\ prev'[s] = IF seen[s] THEN prev[s] ELSE d.alarm
    BY <1>3, <1>7 DEF UpdateSensors
  <2>2. NewOnly(s)'
    BY <1>3, <2>1 DEF NewOnly, After
  <2>3. CASE seen[s]
    <3>1. Bygone(snapshot, prev[s]) /\ Past(prev[s]) /\ Past(snapshot)
      BY <2>3 DEF Remembers, PollIsPast
    <3>2. d.alarm # 0 /\ kindOf[d.alarm] = s => prev[s] = d.alarm
      BY <1>7, <2>3 DEF Fires
    <3>3. \A i \in DOMAIN pulses[s] :
             /\ pulses[s][i] \in Nat /\ pulses[s][i] <= happened
             /\ \/ pulses[s][i] <= prev[s]
                \/ pulses[s][i] \notin timeline /\ pulses[s][i] # 0
      <4> TAKE i \in DOMAIN pulses[s]
      <4>1. pulses[s][i] \in Nat
        BY <1>2, <1>5
      <4>2. Past(pulses[s][i]) /\ Bygone(pulses[s][i], prev[s])
        BY DEF Remembers
      <4> QED
        BY <1>2, <4>1, <4>2 DEF Past, Bygone
    <3>4. snapshot <= prev[s] \/ (snapshot \notin timeline /\ snapshot # 0)
      BY <1>2, <3>1 DEF Bygone
    <3> QED
      BY <1>3, <2>1, <2>2, <2>3, <3>1, <3>2, <3>3, <3>4 DEF Remembers, Past, Bygone
  <2>4. CASE ~seen[s]
    <3>1. DOMAIN pulses[s] = {}
      BY <2>4 DEF Remembers
    <3>2. snapshot <= d.alarm \/ (snapshot \notin timeline /\ snapshot # 0)
      BY <1>2 DEF Told, PollIsPast, Past
    <3>3. d.alarm <= happened
      BY <1>4 DEF Past
    <3> QED
      BY <1>3, <2>1, <2>2, <2>4, <3>1, <3>2, <3>3 DEF Remembers, Past, Bygone
  <2> QED
    BY <2>3, <2>4
<1> QED
  BY <1>6, <1>7

\* A sensor pulses for an alarm that the hook does not know.
LEMMA HookTold ==
    ASSUME TypeOK, PollIsPast, HookKnows, NEW d, Told(d)
    PROVE  /\ HookKnows'
           /\ entry = "ready" =>
                \A s \in Sensors : Remembers(s) /\ Fires(s, d) => d.alarm # known
<1>1. /\ d.alarm \in Alarm /\ known \in Alarm
      /\ d.alarm \in Nat /\ known \in Nat /\ Past(d.alarm)
  <2>1. d.alarm \in Alarm /\ known \in Alarm
    BY DEF TypeOK, Told
  <2> QED
    BY <2>1, AlarmsAreNumbers, ToldPast
<1>2. /\ data' = d /\ polled' = 0 /\ phase' = "idle"
      /\ UNCHANGED <<happened, timeline, entry>>
  BY DEF Told, cloud
<1>3. CASE entry # "ready"
  BY <1>1, <1>2, <1>3 DEF Told, UpdateListeners, hook, HookKnows, Past
<1>4. CASE entry = "ready"
  <2>1. UpdateHook(d)
    BY <1>4 DEF Told, UpdateListeners
  <2>2. CASE d.alarm # 0 /\ d.alarm # known
    <3>1. known' = d.alarm
      BY <2>1, <2>2 DEF UpdateHook
    <3> QED
      BY <1>1, <1>2, <2>2, <3>1 DEF HookKnows, Past
  <2>3. CASE d.alarm = known
    <3>1. known' = known
      BY <2>1, <2>3 DEF UpdateHook, hook
    <3>2. ASSUME NEW s \in Sensors, Remembers(s), Fires(s, d) PROVE FALSE
      BY <1>4, <2>3, <3>2 DEF Told, Fires, Remembers, HookKnows
    <3> QED
      BY <1>1, <1>2, <2>3, <3>1, <3>2 DEF HookKnows, Past
  <2>4. CASE d.alarm = 0 /\ known # 0
    <3>1. known' = known
      BY <2>1, <2>4 DEF UpdateHook, hook
    <3>2. known \notin timeline
      BY <1>1, <1>4, <2>4 DEF HookKnows, Told, Past
    <3> QED
      BY <1>1, <1>2, <2>4, <3>1, <3>2 DEF HookKnows, Past, Fires
  <2> QED
    BY <2>2, <2>3, <2>4
<1> QED
  BY <1>3, <1>4

-----------------------------------------------------------------------------
LEMMA OrderedStep == TypeOK /\ Ordered /\ [Next]_vars => Ordered'
<1> SUFFICES ASSUME TypeOK, Ordered, [Next]_vars PROVE Ordered'
  OBVIOUS
<1>1. /\ PollIsPast /\ HookKnows
      /\ \A s \in Sensors : Remembers(s) /\ NewOnly(s)
  BY DEF Ordered, PulsesAreNew, NewOnly
<1>2. /\ data.alarm \in Alarm /\ snapshot \in Alarm /\ known \in Alarm
      /\ polled \in Alarm /\ happened \in Nat /\ happened' \in Nat
      /\ \A s \in Sensors : prev[s] \in Alarm /\ pulses[s] \in Seq(Alarm)
  BY NextTyped, AlarmsAreNumbers DEF TypeOK
<1>3. \A a \in Alarm : Past(a) =>
         /\ a <= happened'
         /\ phase' \in {"static", "merge"} /\ a \in timeline' => a <= polled'
  BY PastStep DEF Past
<1>4. \A a, p \in Alarm : Past(a) /\ Bygone(a, p) =>
         a <= p \/ (a \notin timeline' /\ a # polled')
  BY BygoneStep DEF Bygone
<1>5. \A a, b \in Alarm : After(a, b) =>
         a < b \/ \E x \in b + 1 .. happened' : x \notin timeline'
  BY AfterStep DEF After
<1>6. \A s \in Sensors : \A i \in DOMAIN pulses[s] : pulses[s][i] \in Alarm
  BY <1>2, Appended
<1>7. Alarm \subseteq Nat
  BY AlarmsAreNumbers
<1>8. ASSUME data'.alarm = data.alarm, snapshot' = snapshot PROVE PollIsPast'
  <2>1. polled' <= happened'
    <3>1. \A a \in {0} \cup timeline : a \in Nat /\ a <= happened
      BY <1>2 DEF TypeOK
    <3>2. polled <= happened /\ happened <= happened'
      BY <1>1, CloudStep DEF PollIsPast
    <3>3. polled' \in {0, polled} \cup timeline
      BY AnswerStep
    <3> QED
      BY <1>2, <1>7, <3>1, <3>2, <3>3
  <2>2. snapshot \notin timeline => snapshot \notin timeline'
    BY <1>1, <1>2, CloudStep DEF PollIsPast, Past
  <2> QED
    BY <1>1, <1>2, <1>3, <1>8, <2>1, <2>2 DEF PollIsPast, Past
<1>9. ASSUME data'.alarm = data.alarm, entry' = "ready" => entry = "ready",
             UNCHANGED known
      PROVE  HookKnows'
  BY <1>1, <1>2, <1>3, <1>4, <1>7, <1>9, CloudStep, AnswerStep DEF HookKnows, Past
<1>10. ASSUME snapshot' = snapshot,
              entry' \in {"setup", "fetched"} => entry \in {"setup", "fetched"},
              UNCHANGED <<kindOf, seen, prev, pulses>>,
              NEW s \in Sensors, data'.alarm = data.alarm \/ ~seen[s]
       PROVE  Remembers(s)' /\ NewOnly(s)'
  <2>1. NewOnly(s)'
    BY <1>1, <1>2, <1>5, <1>6, <1>10 DEF NewOnly, After
  <2>2. Past(prev[s])' /\ (seen[s] => Bygone(snapshot, prev[s])')
    BY <1>1, <1>2, <1>3, <1>4, <1>10 DEF Remembers, PollIsPast, Past, Bygone
  <2>3. \A i \in DOMAIN pulses[s] :
           seen[s] /\ Past(pulses[s][i])' /\ Bygone(pulses[s][i], prev[s])'
    BY <1>1, <1>2, <1>3, <1>4, <1>6, <1>10 DEF Remembers, Past, Bygone
  <2> QED
    BY <1>1, <1>10, <2>1, <2>2, <2>3 DEF Remembers
<1>11. CASE UNCHANGED <<data, entry, snapshot, kindOf, seen, prev, pulses, hook>>
  <2>1. PollIsPast' /\ HookKnows'
    BY <1>8, <1>9, <1>11 DEF hook
  <2>2. \A s \in Sensors : Remembers(s)' /\ NewOnly(s)'
    BY <1>10, <1>11
  <2> QED
    BY <2>1, <2>2 DEF Ordered, PulsesAreNew, NewOnly
<1>12. CASE Merge \/ PollFails
  <2>1. CASE /\ Merge /\ entry \in {"setup", "fetched"}
             /\ UNCHANGED <<sensors, hook, cloud, snapshot>>
             /\ entry' \in {"setup", "fetched"}
    <3>1. /\ data'.alarm = polled /\ phase = "merge" /\ phase' = "idle" /\ polled' = 0
          /\ UNCHANGED <<happened, timeline, kindOf, seen, prev, pulses, known, snapshot>>
      BY <2>1 DEF Merge, sensors, hook, cloud
    <3>2. PollIsPast' /\ HookKnows'
      BY <1>1, <1>2, <1>7, <2>1, <3>1 DEF PollIsPast, HookKnows, Past
    <3>3. \A s \in Sensors : Remembers(s)' /\ NewOnly(s)'
      BY <1>1, <1>10, <2>1, <3>1 DEF Remembers
    <3> QED
      BY <3>2, <3>3 DEF Ordered, PulsesAreNew, NewOnly
  <2>2. CASE Told(data')
    <3>1. ASSUME NEW d, d = data'
          PROVE  HookKnows' /\ \A s \in Sensors : Remembers(s)' /\ NewOnly(s)'
      BY <1>1, <2>2, <3>1, SensorTold, HookTold
    <3>2. PollIsPast'
      BY <1>1, <1>2, <1>7, <2>2 DEF Told, PollIsPast, Past, cloud
    <3> QED
      BY <3>1, <3>2 DEF Ordered, PulsesAreNew, NewOnly
  <2>3. CASE UNCHANGED <<sensors, hook, cloud, snapshot, entry, data>>
    BY <1>11, <2>3 DEF sensors, hook, cloud
  <2> QED
    BY <1>12, <2>1, <2>2, <2>3, MergeOrFail
<1>13. CASE AddEntities
  <2>1. /\ snapshot' = data.alarm /\ entry = "fetched" /\ entry' = "added"
        /\ UNCHANGED <<cloud, poller, data, sensors, hook>>
    BY <1>13 DEF AddEntities
  <2>2. PollIsPast' /\ HookKnows'
    <3>1. UNCHANGED <<happened, timeline, phase, polled, known>>
      BY <2>1 DEF cloud, poller, hook
    <3>2. data'.alarm \in Nat /\ data'.alarm = data.alarm
      BY <1>2, <1>7, <2>1
    <3>3. PollIsPast'
      BY <1>1, <2>1, <3>1, <3>2 DEF PollIsPast, Past
    <3> QED
      BY <1>1, <2>1, <3>1, <3>3 DEF HookKnows, Past
  <2>3. ASSUME NEW s \in Sensors PROVE Remembers(s)' /\ NewOnly(s)'
    <3>1. ~seen[s] /\ DOMAIN pulses[s] = {}
      BY <1>1, <2>1 DEF Remembers
    <3> QED
      BY <1>1, <2>1, <3>1 DEF Remembers, NewOnly, Past, cloud, poller, sensors
  <2> QED
    BY <2>2, <2>3 DEF Ordered, PulsesAreNew, NewOnly
<1>14. CASE InstallHook
  <2>1. /\ known' = data.alarm /\ entry = "added" /\ entry' = "ready"
        /\ UNCHANGED <<cloud, poller, data, sensors, snapshot>>
    BY <1>14 DEF InstallHook
  <2>2. PollIsPast' /\ HookKnows'
    BY <1>1, <1>2, <2>1 DEF PollIsPast, HookKnows, Past, cloud, poller
  <2>3. \A s \in Sensors : Remembers(s)' /\ NewOnly(s)'
    BY <1>10, <2>1 DEF cloud, sensors
  <2> QED
    BY <2>2, <2>3 DEF Ordered, PulsesAreNew, NewOnly
<1>15. CASE \/ Happen \/ Delete \/ ChangeStatus \/ PollStarts \/ AlarmsAnswered
            \/ StaticAnswered \/ StaticFails
  BY <1>11, <1>15 DEF Happen, Delete, ChangeStatus, PollStarts, AlarmsAnswered,
                      StaticAnswered, StaticFails, sensors, cloud
<1>16. CASE \/ UNCHANGED vars
            \/ \E s \in Sensors : Press(s) \/ PulseEnds(s) \/ TimerFires(s)
  BY <1>11, <1>16 DEF vars, Press, LocalUnlock, PulseEnds, TimerFires, sensors, cloud
<1> QED
  BY <1>12, <1>13, <1>14, <1>15, <1>16, SensorsAssumption DEF Next

\* The step that pulses a sensor pre-warms for its alarm.
LEMMA PrewarmStep ==
    ASSUME TypeOK, Ordered, [Next]_vars, entry = "ready", NEW s \in Sensors,
           pulses'[s] # pulses[s]
    PROVE  Prewarmed(pulses[s][Len(pulses[s])])'
<1>1. Merge \/ PollFails
  BY SensorsAssumption
     DEF Next, Happen, Delete, ChangeStatus, PollStarts, AlarmsAnswered, StaticAnswered,
         StaticFails, AddEntities, InstallHook, Press, LocalUnlock, PulseEnds, TimerFires,
         vars, sensors
<1>2. Told(data')
  BY <1>1, MergeOrFail DEF sensors
<1>3. ASSUME NEW d, d = data'
      PROVE  /\ Fires(s, d) /\ pulses'[s] = Append(pulses[s], d.alarm)
             /\ prewarms' = Append(prewarms, d.alarm) /\ d.alarm \in Alarm
  <2>1. UpdateSensors(d) /\ UpdateHook(d) /\ d.alarm \in Alarm
    BY <1>2, <1>3 DEF Told, UpdateListeners
  <2>2. Fires(s, d) /\ pulses'[s] = Append(pulses[s], d.alarm)
    BY <2>1 DEF UpdateSensors
  <2>3. d.alarm # known /\ d.alarm # 0
    BY <1>2, <1>3, <2>2, HookTold DEF Ordered, Fires
  <2> QED
    BY <2>1, <2>2, <2>3 DEF UpdateHook
<1>4. PICK d : d = data'
  OBVIOUS
<1>5. /\ pulses'[s][Len(pulses'[s])] = d.alarm
      /\ Len(prewarms) + 1 \in DOMAIN prewarms' /\ prewarms'[Len(prewarms) + 1] = d.alarm
  <2>1. pulses[s] \in Seq(Alarm) /\ prewarms \in Seq(Alarm) /\ d.alarm \in Alarm
    BY <1>3, <1>4 DEF TypeOK
  <2>2. /\ pulses'[s] = Append(pulses[s], d.alarm)
        /\ prewarms' = Append(prewarms, d.alarm)
    BY <1>3, <1>4
  <2> QED
    BY <2>1, <2>2, Appended
<1> QED
  BY <1>5 DEF Prewarmed

-----------------------------------------------------------------------------
IInv == TypeOK /\ Complete /\ Timed /\ Ordered

LEMMA InitInv == Init => IInv
<1> SUFFICES ASSUME Init PROVE Complete /\ Timed /\ Ordered
  BY InitTyped DEF IInv
<1>1. happened \in Nat
  BY AlarmsAreNumbers DEF Init
<1>2. Complete /\ Timed
  BY DEF Init, InitSensors, Complete, DataIsComplete, Timed
<1>3. PollIsPast /\ HookKnows
  BY <1>1 DEF Init, Blank, PollIsPast, HookKnows, Past
<1>4. \A s \in Sensors : Remembers(s) /\ NewOnly(s)
  BY <1>1 DEF Init, InitSensors, Blank, Remembers, NewOnly, Past
<1> QED
  BY <1>2, <1>3, <1>4 DEF Ordered, PulsesAreNew, NewOnly

LEMMA NextInv == IInv /\ [Next]_vars => IInv'
BY NextTyped, CompleteStep, TimedStep, OrderedStep DEF IInv

\* Whatever the cloud answers, fails to answer or has deleted, the invariant
\* holds.
THEOREM Invariance == Spec => []IInv
<1> QED
  BY InitInv, NextInv, PTL DEF Spec

\* Every reachable state of the coordinator and its listeners has its type.
THEOREM TypeCorrect == Spec => []TypeOK
<1>1. IInv => TypeOK
  BY DEF IInv
<1> QED
  BY <1>1, Invariance, PTL

\* Entities never see data without the slow status.
THEOREM CompleteData == Spec => []DataIsComplete
<1>1. IInv => DataIsComplete
  BY DEF IInv, Complete
<1> QED
  BY <1>1, Invariance, PTL

\* A sensor that shows a pulse has a timer armed.
THEOREM TimedPulses == Spec => []PulseIsTimed
<1>1. IInv => PulseIsTimed
  BY DEF IInv, Timed, PulseIsTimed
<1> QED
  BY <1>1, Invariance, PTL

\* Sensors pulse for new alarms only, once each and in order, but for the alarms
\* that a deletion makes the latest ones again.
THEOREM NewPulses == Spec => []PulsesAreNew
<1>1. IInv => PulsesAreNew
  BY DEF IInv, Ordered
<1> QED
  BY <1>1, Invariance, PTL

\* Once the hook is installed every alarm that pulses a sensor is pre-warmed
\* for, whatever is deleted and whichever alarm the hook found.
THEOREM PrewarmedPulses == Spec => PulsesArePrewarmed
<1>1. IInv /\ [Next]_vars =>
        [\A s \in Sensors : entry = "ready" /\ pulses'[s] # pulses[s] =>
            Prewarmed(pulses[s][Len(pulses[s])])']_vars
  BY PrewarmStep DEF IInv
<1> QED
  BY <1>1, Invariance, PTL DEF Spec, PulsesArePrewarmed
=============================================================================
