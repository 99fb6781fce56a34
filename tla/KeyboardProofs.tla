---------------------------- MODULE KeyboardProofs ----------------------------
(***************************************************************************)
(* Theorems about Keyboard, for queues of every length and any number of   *)
(* keys, modifiers and failures: its types, that a key is reported in the  *)
(* layer the user held when it was pressed, that keys are reported in the  *)
(* order they were pressed in and none twice, and where alone a key that   *)
(* was pressed may vanish.                                                 *)
(***************************************************************************)
EXTENDS Keyboard, TLAPS

\* The modifiers the user held at the j-th event of the device; the one after the
\* last is yet to come.
LayerAt(j) == IF j \in 1..Len(fifo) THEN fifo[j].layer ELSE held

\* No event from i to j is of the modifier m.
Quiet(m, i, j) == \A k \in i..j : fifo[k].key # m

\* What active will be once the events before one have been read is what was held
\* at it: the modifiers in active up to their next event, if none of them was lost,
\* and what an event says of its modifier up to the next.
LayersFollow ==
  \A m \in Modifiers : \A j \in 1..(Len(fifo) + 1) :
    /\ m \notin unsure /\ Quiet(m, 1, j - 1) => (m \in LayerAt(j) <=> m \in active)
    /\ \A i \in 1..(j - 1) :
         fifo[i].key = m /\ Quiet(m, i + 1, j - 1) => (m \in LayerAt(j) <=> fifo[i].down)

\* Modifiers are events in Key mode only, and a keyboard taken off has none.
EventsFitMode ==
  /\ ~plugged => fifo = <<>>
  /\ mode # "Key" => \A i \in 1..Len(fifo) : fifo[i].key \notin Modifiers

\* A keyboard that is polled is ready and not yet lost, and a length is read for an
\* event that was counted.
Control ==
  /\ pc \notin ConfigureSteps => ready /\ errors < LostAfter
  /\ pc = "length" => left > 0

KeyboardInv == TypeOK /\ Control /\ EventsFitMode /\ LayersFollow /\ RightKey

-----------------------------------------------------------------------------
(* Types.                                                                  *)

LEMMA ModifiersAreNoKeys == Keys \cap Modifiers = {}
BY KeyboardAssumption DEF AllKeys, Modifiers

LEMMA NoKeyType == NoKey \in LvglKeyType
BY KeyboardAssumption DEF NoKey, LvglKeyType

LEMMA TailType ==
  ASSUME NEW S, NEW s \in Seq(S), s # <<>>
  PROVE  /\ Head(s) \in S /\ Tail(s) \in Seq(S)
         /\ Len(s) \in Nat \ {0} /\ Len(Tail(s)) = Len(s) - 1
         /\ \A i \in 1..Len(Tail(s)) : Tail(s)[i] = s[i + 1]
         /\ Head(s) = s[1]
OBVIOUS

LEMMA ConcatType ==
  ASSUME NEW S, NEW s \in Seq(S), NEW t \in Seq(S)
  PROVE  s \o t \in Seq(S)
OBVIOUS

LEMMA KeyType ==
  ASSUME TypeOK, NEW e \in EventType, e.key \notin Modifiers,
         NEW m \in Modes, NEW l \in SUBSET Modifiers
  PROVE  /\ LvglKey(e.n, None, Meaning(m, e.key, e.layer)) \in LvglKeyType
         /\ LvglKey(e.n, RawKey(e.key, l), Meaning(m, e.key, e.layer)) \in LvglKeyType
         /\ LvglKey(e.n, HidKey(e.key, l), Meaning(m, e.key, e.layer)) \in LvglKeyType
<1> DEFINE keys == {RawKey(k, x) : k \in Keys, x \in SUBSET Modifiers}
                   \cup {HidKey(k, x) : k \in Keys, x \in SUBSET Modifiers} \cup {None}
<1>1. e.key \in Keys /\ e.n \in 0..MaxTaps /\ e.layer \in SUBSET Modifiers
  BY DEF EventType
<1>2. RawKey(e.key, l) \in keys /\ HidKey(e.key, l) \in keys /\ None \in keys
  BY <1>1
<1>3. Meaning(m, e.key, e.layer) \in keys
  BY <1>1 DEF Meaning
<1>4. (unsure = {}) \in BOOLEAN
  OBVIOUS
<1> HIDE DEF keys
<1>5. \A key \in keys : LvglKey(e.n, key, Meaning(m, e.key, e.layer))
                          \in [n : 0..MaxTaps, key : keys, meant : keys, sure : BOOLEAN]
  BY <1>1, <1>3, <1>4 DEF LvglKey
<1> QED
  BY <1>2, <1>5 DEF LvglKeyType, keys

LEMMA InitType == Init => TypeOK
<1> SUFFICES ASSUME Init PROVE TypeOK
  OBVIOUS
<1>1. fifo \in Seq(EventType) /\ queue \in Seq(LvglKeyType) /\ Len(queue) = 0
  BY DEF Init
<1>2. errors \in 0..LostAfter /\ left \in 0..MaxEvents /\ taps \in 0..MaxTaps
      /\ shifts \in 0..MaxShifts /\ failures \in 0..MaxFailures /\ 0 <= QueueSize
  BY KeyboardAssumption DEF Init
<1> QED
  BY <1>1, <1>2, NoKeyType DEF Init, TypeOK, Steps, ConfigureSteps, Shown

LEMMA FaultType ==
  ASSUME TypeOK, NEW name, Fault(name)
  PROVE  failures' \in 0..MaxFailures
BY KeyboardAssumption DEF TypeOK, Fault

LEMMA BusType ==
  ASSUME TypeOK, BusWorks \/ BusFails
  PROVE  failures' \in 0..MaxFailures
BY FaultType DEF TypeOK, BusWorks, BusFails

LEMMA PressedType == TypeOK => Pressed \subseteq Modifiers
BY DEF Pressed

LEMMA UserType ==
  ASSUME TypeOK, User
  PROVE  TypeOK'
<1> USE DEF drainVars, driverVars, lvglVars, deviceVars, userVars
<1>1. ASSUME NEW m \in Modifiers, Shift(m) PROVE TypeOK'
  <2>1. shifts' \in 0..MaxShifts
    BY <1>1, KeyboardAssumption DEF Shift, TypeOK
  <2>2. Event(m, m \notin held, 0) \in EventType
    <3>1. (m \notin held) \in BOOLEAN /\ 0 \in 0..MaxTaps
      BY KeyboardAssumption
    <3> QED
      BY <3>1 DEF Event, EventType, TypeOK
  <2>3. held' \subseteq Modifiers /\ unsure' \subseteq Modifiers
    BY <1>1 DEF Shift, TypeOK
  <2>4. fifo' \in Seq(EventType)
    <3> DEFINE e == Event(m, m \notin held, 0)
    <3>1. fifo' = fifo \/ fifo' = Append(fifo, e)
      BY <1>1 DEF Shift
    <3>2. e \in EventType
      BY <2>2
    <3> HIDE DEF e
    <3> QED
      BY <3>1, <3>2 DEF TypeOK
  <2>5. status' \subseteq Modes
    BY <1>1 DEF Shift, TypeOK, Modes
  <2> QED
    BY <1>1, <2>1, <2>3, <2>4, <2>5 DEF Shift, TypeOK
<1>2. ASSUME NEW key \in Keys, Tap(key) PROVE TypeOK'
  <2>1. taps' \in 0..MaxTaps /\ taps + 1 \in 0..MaxTaps
    BY <1>2, KeyboardAssumption DEF Tap, TypeOK
  <2>2. Event(key, TRUE, taps + 1) \in EventType /\ Event(key, FALSE, 0) \in EventType
    BY <2>1, KeyboardAssumption DEF Event, EventType, TypeOK
  <2>3. fifo' \in Seq(EventType)
    <3> DEFINE down == Event(key, TRUE, taps + 1)
               up   == Event(key, FALSE, 0)
    <3>1. fifo' = fifo \o <<down>> \/ fifo' = fifo \o <<down, up>>
      BY <1>2 DEF Tap
    <3>2. down \in EventType /\ up \in EventType
      BY <2>2
    <3> HIDE DEF down, up
    <3>3. <<down>> \in Seq(EventType) /\ <<down, up>> \in Seq(EventType)
      BY <3>2
    <3> QED
      BY <3>1, <3>3, ConcatType DEF TypeOK
  <2>4. status' \subseteq Modes
    BY <1>2 DEF Tap, TypeOK
  <2> QED
    BY <1>2, <2>1, <2>3, <2>4 DEF Tap, TypeOK
<1>3. CASE Unplug
  <2>1. fifo' \in Seq(EventType)
    BY <1>3 DEF Unplug
  <2> QED
    BY <1>3, <2>1, FaultType, PressedType DEF Unplug, TypeOK
<1>4. CASE Plug
  BY <1>4 DEF Plug, TypeOK
<1> QED
  BY <1>1, <1>2, <1>3, <1>4 DEF User

\* What the writes to the device do to its registers.
LEMMA DeviceType ==
  ASSUME TypeOK,
         \/ KeepDevice
         \/ (ClearStatus /\ UNCHANGED plugged)
         \/ \E m \in Modes : (Flush(m) \/ SetMode(m)) /\ UNCHANGED <<plugged, status>>
  PROVE  /\ plugged' \in BOOLEAN /\ mode' \in Modes
         /\ fifo' \in Seq(EventType) /\ status' \subseteq Modes
         /\ unsure' \subseteq Modifiers
<1>1. CASE KeepDevice
  BY <1>1 DEF KeepDevice, deviceVars, TypeOK
<1>2. CASE ClearStatus /\ UNCHANGED plugged
  BY <1>2 DEF ClearStatus, TypeOK
<1>3. ASSUME NEW m \in Modes, Flush(m) \/ SetMode(m), UNCHANGED <<plugged, status>>
      PROVE  /\ plugged' \in BOOLEAN /\ mode' \in Modes
             /\ fifo' \in Seq(EventType) /\ status' \subseteq Modes
             /\ unsure' \subseteq Modifiers
  <2>1. <<>> \in Seq(EventType)
    OBVIOUS
  <2>2. (unsure \cup Pressed) \subseteq Modifiers
    BY PressedType DEF TypeOK
  <2> QED
    BY <1>3, <2>1, <2>2 DEF Flush, SetMode, TypeOK
<1> QED
  BY <1>1, <1>2, <1>3

LEMMA ConfigureType ==
  ASSUME TypeOK, Configure
  PROVE  TypeOK'
<1> USE DEF Goto, userVars, drainVars, lvglVars, driverVars
<1>1. CASE Probe \/ EnterHid \/ FlushHid \/ ClearHid \/ EnterKey \/ Interrupts \/ FlushKey
  <2>1. \/ KeepDevice
        \/ (ClearStatus /\ UNCHANGED plugged)
        \/ \E m \in Modes : (Flush(m) \/ SetMode(m)) /\ UNCHANGED <<plugged, status>>
    BY <1>1 DEF Probe, EnterHid, FlushHid, ClearHid, EnterKey, Interrupts, FlushKey, MustAccess,
                TryWrite, TypeOK, Modes
  <2>2. failures' \in 0..MaxFailures
    BY <1>1, BusType DEF Probe, EnterHid, FlushHid, ClearHid, EnterKey, Interrupts, FlushKey,
                         MustAccess, TryWrite
  <2>3. pc' \in Steps /\ shown' \in Shown
    BY <1>1 DEF Probe, EnterHid, FlushHid, ClearHid, EnterKey, Interrupts, FlushKey, MustAccess,
                TryWrite, Steps, ConfigureSteps, Shown, TypeOK
  <2>4. /\ UNCHANGED <<userVars, drainVars, lvglVars>>
        /\ UNCHANGED <<ready, errors, active>>
    BY <1>1 DEF Probe, EnterHid, FlushHid, ClearHid, EnterKey, Interrupts, FlushKey, MustAccess,
                TryWrite
  <2> QED
    BY <2>1, <2>2, <2>3, <2>4, DeviceType DEF TypeOK
<1>2. CASE Configured
  <2>1. failures' \in 0..MaxFailures
    BY <1>2, BusType DEF Configured
  <2>2. status' \subseteq Modes /\ unsure' \subseteq Modifiers /\ active' \subseteq Modifiers
    BY <1>2 DEF Configured, TypeOK
  <2>3. pc' \in Steps /\ errors' \in 0..LostAfter /\ shown' \in Shown /\ ready' \in BOOLEAN
    BY <1>2, KeyboardAssumption DEF Configured, Steps, ConfigureSteps, Shown
  <2> QED
    BY <1>2, <2>1, <2>2, <2>3 DEF Configured, TypeOK
<1> QED
  BY <1>1, <1>2 DEF Configure

LEMMA EnqueueType ==
  ASSUME NEW k \in LvglKeyType, Enqueue(k)
  PROVE  sending' \in LvglKeyType /\ pc' \in Steps
BY NoKeyType DEF Enqueue, Goto, Steps

\* The event that is read, by the register it is read from.
LEMMA HandleType ==
  ASSUME TypeOK, NEW e \in EventType, Branch \in Modes,
         IF e.key \in Modifiers THEN HandleModifier(e) ELSE HandleKey(e)
  PROVE  /\ sending' \in LvglKeyType /\ pc' \in Steps
         /\ active' \subseteq Modifiers /\ unsure' \subseteq Modifiers
<1>1. CASE e.key \in Modifiers
  BY <1>1, NoKeyType DEF HandleModifier, Goto, TypeOK, Steps
<1>2. CASE e.key \notin Modifiers
  <2> DEFINE meant == Meaning(Branch, e.key, e.layer)
             key   == CASE Branch = "Key"  -> RawKey(e.key, active)
                        [] Branch = "Hid"  -> HidKey(e.key, e.layer)
                        [] Branch = "Char" -> CharKey(e.key, e.layer)
             k     == LvglKey(e.n, IF e.down THEN key ELSE None, meant)
  <2>1. k \in LvglKeyType
    <3>1. e.layer \in SUBSET Modifiers /\ active \in SUBSET Modifiers
      BY DEF EventType, TypeOK
    <3>2. /\ LvglKey(e.n, None, meant) \in LvglKeyType
          /\ LvglKey(e.n, RawKey(e.key, active), meant) \in LvglKeyType
          /\ LvglKey(e.n, RawKey(e.key, e.layer), meant) \in LvglKeyType
          /\ LvglKey(e.n, HidKey(e.key, e.layer), meant) \in LvglKeyType
      BY <1>2, <3>1, KeyType
    <3>3. key \in {RawKey(e.key, active), HidKey(e.key, e.layer), RawKey(e.key, e.layer)}
      BY DEF CharKey, Modes
    <3> HIDE DEF key, meant
    <3> QED
      BY <3>2, <3>3
  <2>2. Enqueue(k) /\ UNCHANGED <<active, unsure>>
    BY <1>2 DEF HandleKey
  <2> HIDE DEF k
  <2> QED
    BY <2>1, <2>2, EnqueueType DEF TypeOK
<1> QED
  BY <1>1, <1>2

LEMMA PollType ==
  ASSUME TypeOK, Control, ReadStatus \/ ReadCount \/ LoopEnds \/ ReadLength \/ Finish
  PROVE  TypeOK'
<1> USE DEF Goto, Leave, userVars, drainVars, driverVars, lvglVars
<1>1. CASE ReadStatus
  <2>1. failures' \in 0..MaxFailures
    BY <1>1, BusType DEF ReadStatus
  <2>2. KeepDevice
    BY <1>1 DEF ReadStatus
  <2>3. flags' \subseteq Modes /\ pc' \in Steps /\ ready' \in BOOLEAN /\ shown' \in Shown
    BY <1>1 DEF ReadStatus, TypeOK, Steps, ConfigureSteps, Shown
  <2>4. errors' \in 0..LostAfter
    <3>1. errors < LostAfter
      BY <1>1 DEF ReadStatus, Control, ConfigureSteps
    <3>2. errors' \in {0, errors + 1, errors}
      BY <1>1 DEF ReadStatus
    <3>3. errors \in Nat /\ LostAfter \in Nat
      BY KeyboardAssumption DEF TypeOK
    <3> QED
      BY <3>1, <3>2, <3>3
  <2> QED
    BY <1>1, <2>1, <2>2, <2>3, <2>4 DEF ReadStatus, KeepDevice, deviceVars, TypeOK
<1>2. CASE ReadCount
  <2>1. failures' \in 0..MaxFailures
    BY <1>2, BusType DEF ReadCount, GiveUp
  <2>2. KeepDevice
    BY <1>2 DEF ReadCount, GiveUp
  <2>3. left' \in 0..MaxEvents /\ pc' \in Steps /\ shown' \in Shown
    <3>1. (IF Len(fifo) > MaxEvents THEN MaxEvents ELSE Len(fifo)) \in 0..MaxEvents
      BY KeyboardAssumption DEF TypeOK
    <3> QED
      BY <1>2, <3>1 DEF ReadCount, GiveUp, TypeOK, Steps, ConfigureSteps, Shown
  <2>4. UNCHANGED <<flags, sending, ready, errors, active, userVars, lvglVars>>
    BY <1>2 DEF ReadCount, GiveUp
  <2> QED
    BY <2>1, <2>2, <2>3, <2>4 DEF KeepDevice, deviceVars, TypeOK
<1>3. CASE LoopEnds
  BY <1>3 DEF LoopEnds, KeepDevice, deviceVars, TypeOK, Steps
<1>4. CASE ReadLength
  <2>1. failures' \in 0..MaxFailures
    BY <1>4, BusType, FaultType DEF ReadLength, GiveUp
  <2>2. KeepDevice \/ (ClearStatus /\ UNCHANGED plugged)
    BY <1>4 DEF ReadLength, GiveUp
  <2>3. pc' \in Steps
    BY <1>4 DEF ReadLength, GiveUp, Steps, ConfigureSteps
  <2>4. UNCHANGED <<drainVars, driverVars, userVars, lvglVars>>
    BY <1>4 DEF ReadLength, GiveUp
  <2> QED
    BY <2>1, <2>2, <2>3, <2>4, DeviceType DEF TypeOK
<1>5. CASE Finish
  <2>1. failures' \in 0..MaxFailures
    BY <1>5, BusType DEF Finish, TypeOK
  <2>2. KeepDevice \/ (ClearStatus /\ UNCHANGED plugged)
    BY <1>5 DEF Finish
  <2>3. pc' \in Steps
    BY <1>5 DEF Finish, Steps, ConfigureSteps
  <2> QED
    BY <1>5, <2>1, <2>2, <2>3, DeviceType DEF Finish, TypeOK
<1> QED
  BY <1>1, <1>2, <1>3, <1>4, <1>5

LEMMA ReadEventType ==
  ASSUME TypeOK, Control, ReadEvent
  PROVE  TypeOK'
<1> USE DEF Goto, Leave, userVars, drainVars, driverVars, lvglVars
<1>1. failures' \in 0..MaxFailures
  BY BusType, FaultType DEF ReadEvent, GiveUp
<1>2. CASE BusWorks /\ ~NoEvent /\ ReadEvent /\ left' = left - 1 /\ fifo' = Tail(fifo)
           /\ (LET e == Head(fifo)
               IN  IF e.key \in Modifiers THEN HandleModifier(e) ELSE HandleKey(e))
           /\ UNCHANGED <<plugged, mode, status, flags, ready, errors, shown>>
  <2>1. Head(fifo) \in EventType /\ Tail(fifo) \in Seq(EventType)
    BY <1>2, TailType DEF NoEvent, TypeOK
  <2>2. Branch \in Modes
    BY <1>2 DEF NoEvent, TypeOK
  <2>3. /\ sending' \in LvglKeyType /\ pc' \in Steps
        /\ active' \subseteq Modifiers /\ unsure' \subseteq Modifiers
    BY <1>2, <2>1, <2>2, HandleType
  <2>4. left' \in 0..MaxEvents
    BY <1>2, KeyboardAssumption DEF ReadEvent, TypeOK, Control
  <2> QED
    BY <1>1, <1>2, <2>1, <2>3, <2>4 DEF ReadEvent, TypeOK
<1>3. CASE KeepDevice /\ UNCHANGED <<drainVars, driverVars>> /\ ReadEvent
           /\ pc' \in {"done", "status", "probe"}
  BY <1>1, <1>3 DEF ReadEvent, KeepDevice, deviceVars, TypeOK, Steps, ConfigureSteps
<1>4. CASE /\ ~NoEvent /\ fifo' = Tail(fifo) /\ ReadEvent /\ Leave
           /\ unsure' = unsure \cup ({Head(fifo).key} \cap Modifiers)
           /\ UNCHANGED <<plugged, mode, status, drainVars, driverVars>>
  <2>1. Tail(fifo) \in Seq(EventType)
    BY <1>4, TailType DEF NoEvent, TypeOK
  <2>2. unsure' \subseteq Modifiers /\ pc' \in Steps
    BY <1>4 DEF TypeOK, Steps, ConfigureSteps
  <2> QED
    BY <1>1, <1>4, <2>1, <2>2 DEF ReadEvent, TypeOK
<1> QED
  BY <1>2, <1>3, <1>4 DEF ReadEvent, GiveUp

LEMMA QueueType ==
  ASSUME TypeOK, Send \/ DropOldest \/ Resend \/ ReadCb
  PROVE  TypeOK'
<1> USE DEF Goto, Full, Sent, KeepDevice, deviceVars, userVars, drainVars, driverVars, lvglVars
<1>1. sending' \in LvglKeyType /\ pc' \in Steps
  BY NoKeyType DEF Send, DropOldest, Resend, ReadCb, TypeOK, Steps
<1>2. queue' \in Seq(LvglKeyType) /\ Len(queue') <= QueueSize /\ lastKey' \in LvglKeyType
  <2>1. CASE queue' = queue
    BY <2>1, TailType DEF Send, DropOldest, Resend, ReadCb, ReportRelease, ReportPress, TypeOK
  <2>2. CASE queue' = Append(queue, sending) /\ lastKey' = lastKey /\ ~Full
    <3>1. Len(queue) + 1 <= QueueSize
      BY <2>2, KeyboardAssumption DEF TypeOK
    <3> QED
      BY <2>2, <3>1 DEF TypeOK
  <2>3. CASE queue # <<>> /\ queue' = Tail(queue) /\ lastKey' \in {lastKey, Head(queue)}
    BY <2>3, TailType, KeyboardAssumption DEF TypeOK
  <2> QED
    BY <2>1, <2>2, <2>3 DEF Send, DropOldest, Resend, ReadCb, ReportRelease, ReportPress
<1>3. releasePending' \in BOOLEAN
  BY DEF Send, DropOldest, Resend, ReadCb, ReportRelease, ReportPress, TypeOK
<1>4. UNCHANGED <<deviceVars, userVars, flags, left, driverVars, unsure, failures>>
  BY DEF Send, DropOldest, Resend, ReadCb
<1> QED
  BY <1>1, <1>2, <1>3, <1>4 DEF TypeOK

LEMMA ControlStep ==
  ASSUME TypeOK, Control, [Next]_vars
  PROVE  Control'
<1> USE DEF Control, Goto, Leave, userVars, drainVars, driverVars, lvglVars
<1>1. CASE User \/ ReadCb \/ UNCHANGED vars
  BY <1>1 DEF User, Shift, Tap, Unplug, Plug, ReadCb, vars
<1>2. CASE Configure
  BY <1>2, KeyboardAssumption
  DEF Configure, Configured, Probe, EnterHid, FlushHid, ClearHid, EnterKey, Interrupts, FlushKey,
      MustAccess, TryWrite, ConfigureSteps
<1>3. CASE ReadStatus
  <2>1. errors \in Nat /\ errors' \in Nat /\ LostAfter \in Nat \ {0}
    BY <1>3, KeyboardAssumption DEF ReadStatus, TypeOK
  <2>2. ready /\ pc' # "length"
    BY <1>3 DEF ReadStatus, ConfigureSteps
  <2>3. CASE errors' < LostAfter /\ ready' = ready
    BY <2>2, <2>3
  <2>4. CASE pc' = "probe"
    BY <2>4 DEF ConfigureSteps
  <2>5. \/ errors' = 0 /\ ready' = ready
        \/ errors' < LostAfter /\ ready' = ready
        \/ ~ready' /\ pc' = "probe"
    BY <1>3 DEF ReadStatus
  <2> QED
    BY <2>1, <2>3, <2>4, <2>5
<1>4. CASE ReadCount \/ LoopEnds \/ ReadLength \/ Finish
  BY <1>4 DEF ReadCount, LoopEnds, ReadLength, Finish, GiveUp, ConfigureSteps, TypeOK
<1>5. CASE ReadEvent
  <2>1. pc \notin ConfigureSteps
    BY <1>5 DEF ReadEvent, ConfigureSteps
  <2>2. UNCHANGED <<ready, errors>>
    BY <1>5 DEF ReadEvent, GiveUp
  <2>3. pc' \in {"events", "send", "done", "status"}
    <3>1. Leave => pc' = "status"
      BY <2>1, <2>2
    <3>2. ASSUME NEW e, IF e.key \in Modifiers THEN HandleModifier(e) ELSE HandleKey(e)
          PROVE  pc' \in {"events", "send"}
      <4>1. HandleModifier(e) => pc' = "events"
        BY DEF HandleModifier
      <4>2. HandleKey(e) => pc' \in {"events", "send"}
        BY DEF HandleKey, Enqueue
      <4> QED
        BY <3>2, <4>1, <4>2
    <3> QED
      BY <1>5, <3>1, <3>2 DEF ReadEvent, GiveUp
  <2> QED
    BY <2>1, <2>2, <2>3
<1>6. CASE Send \/ DropOldest \/ Resend
  BY <1>6 DEF Send, DropOldest, Resend, Sent, ConfigureSteps, TypeOK
<1> QED
  BY <1>1, <1>2, <1>3, <1>4, <1>5, <1>6 DEF Next, KeyboardTask, Drain

LEMMA StepType ==
  ASSUME TypeOK, Control, [Next]_vars
  PROVE  TypeOK'
<1>1. CASE UNCHANGED vars
  BY <1>1 DEF vars, deviceVars, userVars, drainVars, driverVars, lvglVars, TypeOK
<1> QED
  BY <1>1, UserType, ConfigureType, PollType, ReadEventType, QueueType
  DEF Next, KeyboardTask, Drain

\* The driver, the queue and the device keep their types; in particular the queue
\* never holds more than tab5_keyboard_queue was made for.
THEOREM KeyboardTypeCorrect == Spec => []TypeOK
<1>1. Init => TypeOK /\ Control
  BY InitType DEF Init, Control, ConfigureSteps
<1>2. TypeOK /\ Control /\ [Next]_vars => (TypeOK /\ Control)'
  BY StepType, ControlStep
<1> QED
  BY <1>1, <1>2, PTL DEF Spec

-----------------------------------------------------------------------------
(* The right key.                                                          *)

LEMMA EventsFitModeStep ==
  ASSUME TypeOK, EventsFitMode, [Next]_vars
  PROVE  EventsFitMode'
<1> USE DEF EventsFitMode
<1>1. CASE KeepDevice \/ UNCHANGED <<plugged, mode, fifo>>
  BY <1>1 DEF KeepDevice, deviceVars
<1>2. ASSUME NEW m \in Modifiers, Shift(m) PROVE EventsFitMode'
  <2>1. UNCHANGED <<plugged, mode>>
    BY <1>2 DEF Shift
  <2>2. CASE plugged /\ mode = "Key"
    BY <2>1, <2>2
  <2>3. CASE fifo' = fifo
    BY <2>1, <2>3
  <2> QED
    BY <1>2, <2>2, <2>3 DEF Shift
<1>3. ASSUME NEW key \in Keys, Tap(key) PROVE EventsFitMode'
  <2>1. UNCHANGED <<mode, plugged>> /\ plugged
    BY <1>3 DEF Tap
  <2>2. PICK down, up : /\ down.key = key /\ up.key = key
                        /\ fifo' = fifo \o <<down>> \/ fifo' = fifo \o <<down, up>>
    <3> DEFINE d == Event(key, TRUE, taps + 1)
               u == Event(key, FALSE, 0)
    <3>1. fifo' = fifo \o <<d>> \/ fifo' = fifo \o <<d, u>>
      BY <1>3 DEF Tap
    <3>2. d.key = key /\ u.key = key
      BY DEF Event
    <3> HIDE DEF d, u
    <3> QED
      BY <3>1, <3>2
  <2>3. ASSUME NEW i \in 1..Len(fifo'), mode # "Key" PROVE fifo'[i].key \notin Modifiers
    <3>1. key \notin Modifiers
      BY ModifiersAreNoKeys
    <3>2. fifo \in Seq(EventType)
      BY DEF TypeOK
    <3>3. CASE i \in 1..Len(fifo)
      BY <2>2, <2>3, <3>2, <3>3
    <3>4. CASE i \notin 1..Len(fifo)
      <4>1. fifo'[i] = down \/ fifo'[i] = up
        BY <2>2, <3>2, <3>4
      <4> QED
        BY <2>2, <3>1, <4>1
    <3> QED
      BY <3>3, <3>4
  <2> QED
    BY <2>1, <2>3
<1>4. CASE Unplug
  BY <1>4 DEF Unplug
<1>5. CASE Plug
  BY <1>5 DEF Plug
<1>6. CASE UNCHANGED plugged /\ plugged /\ fifo' = <<>>
  BY <1>6
<1>7. CASE fifo # <<>> /\ fifo' = Tail(fifo) /\ UNCHANGED <<plugged, mode>>
  <2>1. plugged
    BY <1>7
  <2>2. \A i \in 1..Len(Tail(fifo)) : i + 1 \in 1..Len(fifo) /\ Tail(fifo)[i] = fifo[i + 1]
    BY <1>7, TailType DEF TypeOK
  <2> QED
    BY <1>7, <2>1, <2>2
<1>8. CASE Configure
  <2>1. \/ KeepDevice \/ UNCHANGED <<plugged, mode, fifo>>
        \/ UNCHANGED plugged /\ plugged /\ fifo' = <<>>
    BY <1>8 DEF Configure, Configured, Probe, EnterHid, FlushHid, ClearHid, EnterKey, Interrupts,
                FlushKey, MustAccess, TryWrite, ClearStatus, Flush, SetMode, BusWorks
  <2> QED
    BY <1>1, <1>6, <2>1
<1>9. CASE Drain
  <2>1. CASE ReadEvent
    <3>1. \/ KeepDevice
          \/ ~NoEvent /\ fifo' = Tail(fifo) /\ UNCHANGED <<plugged, mode>>
      BY <2>1 DEF ReadEvent, GiveUp
    <3> QED
      BY <1>1, <1>7, <3>1 DEF NoEvent
  <2>2. CASE ~ReadEvent
    <3>1. KeepDevice \/ UNCHANGED <<plugged, mode, fifo>>
      BY <1>9, <2>2 DEF Drain, ReadStatus, ReadCount, LoopEnds, ReadLength, Finish, Send,
                        DropOldest, Resend, GiveUp, ClearStatus
    <3> QED
      BY <1>1, <3>1
  <2> QED
    BY <2>1, <2>2
<1>10. CASE ReadCb \/ UNCHANGED vars
  BY <1>1, <1>10 DEF ReadCb, deviceVars, vars
<1> QED
  BY <1>2, <1>3, <1>4, <1>5, <1>8, <1>9, <1>10 DEF Next, User, KeyboardTask

\* Nothing is read, and events are lost at most with the modifiers they leave unsure.
LEMMA LayersKept ==
  ASSUME LayersFollow, UNCHANGED <<fifo, held, active>>, unsure \subseteq unsure'
  PROVE  LayersFollow'
BY DEF LayersFollow, LayerAt, Quiet

LEMMA LayersFlushed ==
  ASSUME TypeOK, LayersFollow, fifo' = <<>>, UNCHANGED <<held, active>>,
         unsure' = unsure \cup Pressed
  PROVE  LayersFollow'
<1> SUFFICES ASSUME NEW m \in Modifiers, m \notin unsure'
             PROVE  m \in held <=> m \in active
  BY DEF LayersFollow, LayerAt
<1>1. Quiet(m, 1, Len(fifo))
  BY DEF Pressed, Quiet, TypeOK
<1>2. Len(fifo) + 1 \in 1..(Len(fifo) + 1) /\ Len(fifo) + 1 \notin 1..Len(fifo)
      /\ (Len(fifo) + 1) - 1 = Len(fifo)
  BY DEF TypeOK
<1> QED
  BY <1>1, <1>2 DEF LayersFollow, LayerAt

LEMMA LayersConfigured ==
  ASSUME LayersFollow, UNCHANGED <<fifo, held>>, active' = {}, unsure' = unsure \cup active
  PROVE  LayersFollow'
BY DEF LayersFollow, LayerAt, Quiet

\* New events carry the modifiers held when they come.
LEMMA LayersOfNewEvents ==
  ASSUME TypeOK, LayersFollow, NEW t \in Seq(EventType), fifo' = fifo \o t,
         \A k \in 1..Len(t) : t[k].key \notin Modifiers /\ t[k].layer = held,
         UNCHANGED <<held, active, unsure>>
  PROVE  LayersFollow'
<1> DEFINE n == Len(fifo)
<1>1. n \in Nat /\ Len(t) \in Nat /\ Len(fifo') = n + Len(t) /\ fifo \in Seq(EventType)
  BY DEF TypeOK
<1>2. \A k \in 1..n : fifo'[k] = fifo[k]
  BY <1>1
<1>3. \A k \in (n + 1)..(n + Len(t)) : fifo'[k] = t[k - n] /\ k - n \in 1..Len(t)
  BY <1>1
<1> SUFFICES ASSUME NEW m \in Modifiers, NEW j \in 1..(n + Len(t) + 1)
    PROVE  /\ m \notin unsure /\ Quiet(m, 1, j - 1)' => (m \in LayerAt(j)' <=> m \in active)
           /\ \A i \in 1..(j - 1) : fifo'[i].key = m /\ Quiet(m, i + 1, j - 1)'
                => (m \in LayerAt(j)' <=> fifo'[i].down)
  BY <1>1 DEF LayersFollow
<1>4. CASE j <= n
  <2>1. LayerAt(j)' = LayerAt(j)
    BY <1>1, <1>2, <1>4 DEF LayerAt
  <2>2. \A i \in 1..j : Quiet(m, i, j - 1)' <=> Quiet(m, i, j - 1)
    <3>1. \A k \in 1..(j - 1) : fifo'[k] = fifo[k]
      BY <1>1, <1>2, <1>4
    <3>2. \A i \in 1..j : \A k \in i..(j - 1) : k \in 1..(j - 1)
      BY <1>1
    <3> QED
      BY <3>1, <3>2 DEF Quiet
  <2> QED
    BY <1>1, <1>2, <1>4, <2>1, <2>2 DEF LayersFollow
<1>5. CASE j > n
  <2>1. LayerAt(j)' = held /\ LayerAt(n + 1) = held
    <3>1. CASE j <= n + Len(t)
      BY <1>1, <1>3, <1>5, <3>1 DEF LayerAt
    <3>2. CASE j = n + Len(t) + 1
      BY <1>1, <3>2 DEF LayerAt
    <3> QED
      BY <1>1, <3>1, <3>2 DEF LayerAt
  <2>2. \A i \in 1..(n + 1) : Quiet(m, i, j - 1)' => Quiet(m, i, n)
    BY <1>1, <1>2, <1>5 DEF Quiet
  <2>3. \A i \in 1..(j - 1) : fifo'[i].key = m => i \in 1..n
    BY <1>1, <1>3
  <2>4. /\ m \notin unsure /\ Quiet(m, 1, n) => (m \in held <=> m \in active)
        /\ \A i \in 1..n : fifo[i].key = m /\ Quiet(m, i + 1, n) => (m \in held <=> fifo[i].down)
    <3>1. n + 1 \in 1..(Len(fifo) + 1) /\ (n + 1) - 1 = n
      BY <1>1
    <3> QED
      BY <2>1, <3>1 DEF LayersFollow
  <2>5. ASSUME NEW i \in 1..(j - 1), fifo'[i].key = m, Quiet(m, i + 1, j - 1)'
        PROVE  m \in held <=> fifo'[i].down
    <3>1. i \in 1..n /\ i + 1 \in 1..(n + 1)
      BY <1>1, <2>3, <2>5
    <3>2. Quiet(m, i + 1, n) /\ fifo[i] = fifo'[i]
      BY <1>2, <2>2, <2>5, <3>1
    <3> QED
      BY <2>4, <2>5, <3>1, <3>2
  <2>6. Quiet(m, 1, j - 1)' => Quiet(m, 1, n)
    BY <1>1, <2>2
  <2> QED
    BY <2>1, <2>4, <2>5, <2>6
<1> QED
  BY <1>1, <1>4, <1>5

\* A modifier that is read gets in active what its event says, and one that is lost
\* becomes unsure.
LEMMA LayersOfNextEvent ==
  ASSUME TypeOK, LayersFollow, fifo # <<>>, fifo' = Tail(fifo), UNCHANGED held,
         \A m \in Modifiers \ unsure' :
           IF Head(fifo).key = m THEN m \in active' <=> Head(fifo).down
           ELSE m \notin unsure /\ (m \in active' <=> m \in active)
  PROVE  LayersFollow'
<1> DEFINE n == Len(fifo)
<1>1. /\ n \in Nat \ {0} /\ Len(fifo') = n - 1 /\ Head(fifo) = fifo[1]
      /\ \A i \in 1..(n - 1) : fifo'[i] = fifo[i + 1]
  BY TailType DEF TypeOK
<1> SUFFICES ASSUME NEW m \in Modifiers, NEW j \in 1..n
    PROVE  /\ m \notin unsure' /\ Quiet(m, 1, j - 1)' => (m \in LayerAt(j)' <=> m \in active')
           /\ \A i \in 1..(j - 1) : fifo'[i].key = m /\ Quiet(m, i + 1, j - 1)'
                => (m \in LayerAt(j)' <=> fifo'[i].down)
  BY <1>1 DEF LayersFollow
<1>2. LayerAt(j)' = LayerAt(j + 1)
  BY <1>1 DEF LayerAt
<1>3. \A i \in 1..j : Quiet(m, i, j - 1)' => Quiet(m, i + 1, j)
  <2> SUFFICES ASSUME NEW i \in 1..j, Quiet(m, i, j - 1)', NEW k \in (i + 1)..j
               PROVE  fifo[k].key # m
    BY DEF Quiet
  <2>1. k - 1 \in i..(j - 1) /\ k - 1 \in 1..(n - 1)
    BY <1>1
  <2>2. fifo'[k - 1] = fifo[k]
    BY <1>1, <2>1
  <2> QED
    BY <2>1, <2>2 DEF Quiet
<1>4. /\ m \notin unsure /\ Quiet(m, 1, j) => (m \in LayerAt(j + 1) <=> m \in active)
      /\ \A i \in 1..j : fifo[i].key = m /\ Quiet(m, i + 1, j)
           => (m \in LayerAt(j + 1) <=> fifo[i].down)
  <2>1. j + 1 \in 1..(n + 1) /\ (j + 1) - 1 = j
    BY <1>1
  <2> QED
    BY <2>1 DEF LayersFollow
<1>5. ASSUME NEW i \in 1..(j - 1), fifo'[i].key = m, Quiet(m, i + 1, j - 1)'
      PROVE  m \in LayerAt(j)' <=> fifo'[i].down
  <2>1. i + 1 \in 1..j /\ i \in 1..(n - 1)
    BY <1>1
  <2>2. fifo'[i] = fifo[i + 1] /\ Quiet(m, (i + 1) + 1, j)
    BY <1>1, <1>3, <1>5, <2>1
  <2> QED
    BY <1>2, <1>4, <1>5, <2>1, <2>2
<1>6. ASSUME m \notin unsure', Quiet(m, 1, j - 1)'
      PROVE  m \in LayerAt(j)' <=> m \in active'
  <2>1. Quiet(m, 2, j) /\ 1 \in 1..j
    BY <1>1, <1>3, <1>6
  <2>2. CASE fifo[1].key = m
    BY <1>1, <1>2, <1>4, <1>6, <2>1, <2>2
  <2>3. CASE fifo[1].key # m
    <3>1. Quiet(m, 1, j)
      BY <2>1, <2>3 DEF Quiet
    <3> QED
      BY <1>1, <1>2, <1>4, <1>6, <2>3, <3>1
  <2> QED
    BY <2>2, <2>3
<1> QED
  BY <1>5, <1>6

LEMMA LayersOfShift ==
  ASSUME TypeOK, LayersFollow, NEW m \in Modifiers, Shift(m),
         fifo' = Append(fifo, Event(m, m \notin held, 0)), UNCHANGED unsure
  PROVE  LayersFollow'
<1> DEFINE n == Len(fifo)
<1>1. /\ n \in Nat /\ Len(fifo') = n + 1 /\ \A k \in 1..n : fifo'[k] = fifo[k]
      /\ fifo'[n + 1] = Event(m, m \notin held, 0)
  BY DEF TypeOK
<1>2. /\ fifo'[n + 1].key = m /\ fifo'[n + 1].layer = held
      /\ (fifo'[n + 1].down <=> m \notin held)
  <2>1. \A b \in BOOLEAN : Event(m, b, 0).key = m /\ Event(m, b, 0).layer = held
                            /\ Event(m, b, 0).down = b
    BY DEF Event
  <2>2. PICK b \in BOOLEAN : b = (m \notin held)
    OBVIOUS
  <2>3. fifo'[n + 1] = Event(m, b, 0)
    BY <1>1, <2>2
  <2> QED
    BY <2>1, <2>2, <2>3
<1>3. UNCHANGED active /\ held \subseteq Modifiers
      /\ (m \in held' <=> m \notin held) /\ \A x \in Modifiers \ {m} : x \in held' <=> x \in held
  BY DEF Shift, driverVars, TypeOK
<1> SUFFICES ASSUME NEW x \in Modifiers, NEW j \in 1..(n + 2)
    PROVE  /\ x \notin unsure /\ Quiet(x, 1, j - 1)' => (x \in LayerAt(j)' <=> x \in active)
           /\ \A i \in 1..(j - 1) : fifo'[i].key = x /\ Quiet(x, i + 1, j - 1)'
                => (x \in LayerAt(j)' <=> fifo'[i].down)
  BY <1>1, <1>3 DEF LayersFollow
<1>4. CASE j <= n + 1
  <2>1. LayerAt(j)' = LayerAt(j)
    BY <1>1, <1>2, <1>4 DEF LayerAt
  <2>2. \A k \in 1..(j - 1) : fifo'[k] = fifo[k]
    BY <1>1, <1>4
  <2>3. \A i \in 1..j : Quiet(x, i, j - 1)' <=> Quiet(x, i, j - 1)
    <3>1. \A i \in 1..j : \A k \in i..(j - 1) : k \in 1..(j - 1)
      BY <1>1
    <3> QED
      BY <2>2, <3>1 DEF Quiet
  <2>4. j \in 1..(n + 1)
    BY <1>1, <1>4
  <2>5. /\ x \notin unsure /\ Quiet(x, 1, j - 1) => (x \in LayerAt(j) <=> x \in active)
        /\ \A i \in 1..(j - 1) : fifo[i].key = x /\ Quiet(x, i + 1, j - 1)
             => (x \in LayerAt(j) <=> fifo[i].down)
    BY <2>4 DEF LayersFollow
  <2>6. 1 \in 1..j /\ \A i \in 1..(j - 1) : i + 1 \in 1..j
    BY <1>1
  <2> QED
    BY <2>1, <2>2, <2>3, <2>5, <2>6
<1>5. CASE j = n + 2
  <2>1. LayerAt(j)' = held' /\ LayerAt(n + 1) = held /\ j - 1 = n + 1
    BY <1>1, <1>5 DEF LayerAt
  <2>2. CASE x = m
    <3>1. n + 1 \in 1..(j - 1) /\ \A i \in 1..(j - 1) : i = n + 1 \/ n + 1 \in (i + 1)..(j - 1)
      BY <1>1, <2>1
    <3>3. ~Quiet(m, 1, j - 1)'
      BY <1>2, <3>1 DEF Quiet
    <3>4. ASSUME NEW i \in 1..(j - 1), Quiet(m, i + 1, j - 1)' PROVE i = n + 1
      BY <1>2, <3>1, <3>4 DEF Quiet
    <3>5. m \in held' <=> fifo'[n + 1].down
      BY <1>2, <1>3
    <3> QED
      BY <2>1, <2>2, <3>3, <3>4, <3>5
  <2>3. CASE x # m
    <3>1. \A i \in 1..(n + 1) : Quiet(x, i, j - 1)' => Quiet(x, i, n)
      <4>1. \A i \in 1..(n + 1) : \A k \in i..n : k \in i..(j - 1) /\ k \in 1..n
        BY <1>1, <2>1
      <4> QED
        BY <1>1, <4>1 DEF Quiet
    <3>2. /\ x \notin unsure /\ Quiet(x, 1, n) => (x \in held <=> x \in active)
          /\ \A i \in 1..n : fifo[i].key = x /\ Quiet(x, i + 1, n)
               => (x \in held <=> fifo[i].down)
      <4>1. n + 1 \in 1..(Len(fifo) + 1) /\ (n + 1) - 1 = n
        BY <1>1
      <4> QED
        BY <2>1, <4>1 DEF LayersFollow
    <3>3. ASSUME NEW i \in 1..(j - 1), fifo'[i].key = x, Quiet(x, i + 1, j - 1)'
          PROVE  x \in held <=> fifo'[i].down
      <4>1. i \in 1..n /\ i + 1 \in 1..(n + 1)
        BY <1>1, <1>2, <2>1, <2>3, <3>3
      <4> QED
        BY <1>1, <3>1, <3>2, <3>3, <4>1
    <3>4. Quiet(x, 1, j - 1)' => Quiet(x, 1, n)
      BY <1>1, <3>1
    <3> QED
      BY <1>3, <2>1, <2>3, <3>2, <3>3, <3>4
  <2> QED
    BY <2>2, <2>3
<1> QED
  BY <1>1, <1>4, <1>5

LEMMA LayersUserStep ==
  ASSUME TypeOK, EventsFitMode, LayersFollow, User
  PROVE  LayersFollow'
<1> USE DEF driverVars
<1>1. ASSUME NEW m \in Modifiers, Shift(m) PROVE LayersFollow'
  <2>1. UNCHANGED active /\ m \in {m}
    BY <1>1 DEF Shift
  <2>2. CASE fifo' = Append(fifo, Event(m, m \notin held, 0)) /\ unsure' = unsure
    BY <1>1, <2>2, LayersOfShift
  <2>3. CASE UNCHANGED fifo /\ unsure' = unsure \cup {m} /\ (~plugged \/ mode # "Key")
    <3>1. \A i \in 1..Len(fifo) : fifo[i].key # m
      BY <2>3 DEF EventsFitMode
    <3>2. \A x \in Modifiers \ {m} : x \in held' <=> x \in held
      BY <1>1 DEF Shift
    <3> QED
      BY <2>1, <2>3, <3>1, <3>2 DEF LayersFollow, LayerAt, Quiet, TypeOK
  <2> QED
    BY <1>1, <2>2, <2>3 DEF Shift
<1>2. ASSUME NEW key \in Keys, Tap(key) PROVE LayersFollow'
  <2> DEFINE down == Event(key, TRUE, taps + 1)
             up   == Event(key, FALSE, 0)
  <2>1. fifo' = fifo \o <<down>> \/ fifo' = fifo \o <<down, up>>
    BY <1>2 DEF Tap
  <2>2. down \in EventType /\ up \in EventType
    BY <1>2, KeyboardAssumption DEF Tap, Event, EventType, TypeOK
  <2>3. down.key = key /\ up.key = key /\ down.layer = held /\ up.layer = held
    BY DEF Event
  <2>4. key \notin Modifiers
    BY ModifiersAreNoKeys
  <2>5. UNCHANGED <<held, active, unsure>>
    BY <1>2 DEF Tap
  <2> HIDE DEF down, up
  <2>6. CASE fifo' = fifo \o <<down>>
    <3> DEFINE t == <<down>>
    <3>1. t \in Seq(EventType) /\ Len(t) = 1 /\ t[1] = down
      BY <2>2
    <3>2. \A k \in 1..Len(t) : t[k].key \notin Modifiers /\ t[k].layer = held
      BY <2>3, <2>4, <3>1
    <3>3. fifo' = fifo \o t
      BY <2>6
    <3> HIDE DEF t
    <3> QED
      BY <2>5, <3>1, <3>2, <3>3, LayersOfNewEvents
  <2>7. CASE fifo' = fifo \o <<down, up>>
    <3> DEFINE t == <<down, up>>
    <3>1. t \in Seq(EventType) /\ Len(t) = 2
      BY <2>2
    <3>2. \A k \in 1..2 : t[k] = down \/ t[k] = up
      OBVIOUS
    <3>3. \A k \in 1..Len(t) : t[k].key \notin Modifiers /\ t[k].layer = held
      BY <2>3, <2>4, <3>1, <3>2
    <3>4. fifo' = fifo \o t
      BY <2>7
    <3> HIDE DEF t
    <3> QED
      BY <2>5, <3>1, <3>3, <3>4, LayersOfNewEvents
  <2> QED
    BY <2>1, <2>6, <2>7
<1>3. CASE Unplug
  BY <1>3, LayersFlushed DEF Unplug, userVars
<1>4. CASE Plug
  BY <1>4, LayersKept DEF Plug, userVars
<1> QED
  BY <1>1, <1>2, <1>3, <1>4 DEF User

LEMMA LayersReadStep ==
  ASSUME TypeOK, EventsFitMode, LayersFollow, ReadEvent
  PROVE  LayersFollow'
<1> USE DEF userVars, driverVars
<1>1. CASE KeepDevice /\ UNCHANGED active
  BY <1>1, LayersKept DEF KeepDevice, deviceVars, ReadEvent
<1>2. ASSUME fifo # <<>>, fifo' = Tail(fifo),
             IF Head(fifo).key \in Modifiers THEN HandleModifier(Head(fifo))
             ELSE HandleKey(Head(fifo))
      PROVE  LayersFollow'
  <2>1. \A m \in Modifiers \ unsure' :
          IF Head(fifo).key = m THEN m \in active' <=> Head(fifo).down
          ELSE m \notin unsure /\ (m \in active' <=> m \in active)
    BY <1>2 DEF HandleModifier, HandleKey
  <2>2. UNCHANGED held
    BY DEF ReadEvent
  <2> QED
    BY <1>2, <2>1, <2>2, LayersOfNextEvent
<1>3. CASE /\ fifo # <<>> /\ fifo' = Tail(fifo) /\ UNCHANGED active
           /\ unsure' = unsure \cup ({Head(fifo).key} \cap Modifiers)
  <2>1. UNCHANGED held
    BY DEF ReadEvent
  <2> QED
    BY <1>3, <2>1, LayersOfNextEvent
<1>4. \/ KeepDevice /\ UNCHANGED active
      \/ /\ ~NoEvent /\ fifo' = Tail(fifo)
         /\ IF Head(fifo).key \in Modifiers THEN HandleModifier(Head(fifo))
            ELSE HandleKey(Head(fifo))
      \/ /\ ~NoEvent /\ fifo' = Tail(fifo) /\ UNCHANGED active
         /\ unsure' = unsure \cup ({Head(fifo).key} \cap Modifiers)
  BY DEF ReadEvent, GiveUp
<1> QED
  BY <1>1, <1>2, <1>3, <1>4 DEF NoEvent

LEMMA LayersFollowStep ==
  ASSUME TypeOK, EventsFitMode, LayersFollow, [Next]_vars
  PROVE  LayersFollow'
<1> USE DEF userVars, driverVars
<1>1. CASE Configure
  <2>1. UNCHANGED held
    BY <1>1 DEF Configure, Configured, Probe, EnterHid, FlushHid, ClearHid, EnterKey, Interrupts,
                FlushKey, MustAccess, TryWrite
  <2>2. \/ UNCHANGED <<fifo, active, unsure>>
        \/ fifo' = <<>> /\ unsure' = unsure \cup Pressed /\ UNCHANGED active
        \/ UNCHANGED fifo /\ active' = {} /\ unsure' = unsure \cup active
    BY <1>1 DEF Configure, Configured, Probe, EnterHid, FlushHid, ClearHid, EnterKey, Interrupts,
                FlushKey, MustAccess, TryWrite, ClearStatus, Flush, SetMode, KeepDevice,
                deviceVars
  <2> QED
    BY <2>1, <2>2, LayersKept, LayersFlushed, LayersConfigured
<1>2. CASE Drain /\ ~ReadEvent
  <2>1. UNCHANGED <<fifo, held, active, unsure>>
    BY <1>2 DEF Drain, ReadStatus, ReadCount, LoopEnds, ReadLength, Finish, Send, DropOldest,
                Resend, GiveUp, ClearStatus, KeepDevice, deviceVars
  <2> QED
    BY <2>1, LayersKept
<1>3. CASE ReadCb \/ UNCHANGED vars
  BY <1>3, LayersKept DEF ReadCb, vars, deviceVars
<1> QED
  BY <1>1, <1>2, <1>3, LayersReadStep, LayersUserStep DEF Next, KeyboardTask, Drain

\* What is read next is translated in the layer the user held, if no modifier is unsure.
LEMMA NextEventLayer ==
  ASSUME TypeOK, LayersFollow, fifo # <<>>, unsure = {}
  PROVE  Head(fifo).layer = active
<1>1. 1 \in 1..Len(fifo) /\ Head(fifo) = fifo[1] /\ Head(fifo) \in EventType
  BY TailType DEF TypeOK
<1>2. \A m \in Modifiers : m \in fifo[1].layer <=> m \in active
  BY <1>1 DEF LayersFollow, LayerAt, Quiet, TypeOK
<1>3. fifo[1].layer \subseteq Modifiers /\ active \subseteq Modifiers
  BY <1>1 DEF EventType, TypeOK
<1> QED
  BY <1>1, <1>2, <1>3

LEMMA NextEventRight ==
  ASSUME TypeOK, LayersFollow, fifo # <<>>, Branch \in Modes, NEW e, e = Head(fifo),
         HandleKey(e)
  PROVE  sending'.sure => sending'.key = sending'.meant
<1> DEFINE meant == Meaning(Branch, e.key, e.layer)
           key   == CASE Branch = "Key"  -> RawKey(e.key, active)
                      [] Branch = "Hid"  -> HidKey(e.key, e.layer)
                      [] Branch = "Char" -> CharKey(e.key, e.layer)
           k     == LvglKey(e.n, IF e.down THEN key ELSE None, meant)
<1>1. Enqueue(k)
  BY DEF HandleKey
<1>2. sending' = NoKey \/ (sending' = k /\ k.key # None)
  BY <1>1 DEF Enqueue
<1>3. NoKey.key = NoKey.meant
  BY DEF NoKey
<1>4. unsure = {} => key = meant
  <2> SUFFICES ASSUME unsure = {} PROVE key = meant
    OBVIOUS
  <2>1. e.layer = active
    BY NextEventLayer
  <2>2. CASE Branch = "Key"
    BY <2>1, <2>2 DEF Meaning
  <2>3. CASE Branch = "Hid"
    BY <2>3 DEF Meaning
  <2>4. CASE Branch = "Char"
    BY <2>4 DEF Meaning, CharKey
  <2> QED
    BY <2>2, <2>3, <2>4 DEF Modes
<1>5. /\ k.key = (IF e.down THEN key ELSE None)
      /\ k.meant = meant
      /\ k.sure = (unsure = {})
  BY DEF LvglKey
<1>6. CASE sending' = k /\ k.key # None
  <2>1. k.key = key
    BY <1>5, <1>6
  <2>2. k.sure => unsure = {}
    BY <1>5
  <2> HIDE DEF k, key, meant
  <2> QED
    BY <1>4, <1>5, <1>6, <2>1, <2>2
<1> HIDE DEF k
<1> QED
  BY <1>2, <1>3, <1>6

\* The keys in Range of a queue, one by one.
LEMMA RangeOf ==
  ASSUME NEW s
  PROVE  Range(s) = {s[i] : i \in DOMAIN s}
BY DEF Range

LEMMA RightKeyStep ==
  ASSUME TypeOK, LayersFollow, RightKey, [Next]_vars
  PROVE  RightKey'
<1> USE DEF userVars, drainVars, lvglVars
<1> DEFINE Right(k) == k.sure => k.key = k.meant
<1>0. Right(NoKey)
  BY DEF NoKey
<1>1. /\ Right(sending) /\ Right(lastKey)
      /\ \A i \in 1..Len(queue) : Right(queue[i])
  BY RangeOf DEF RightKey, TypeOK
<1>2. ASSUME /\ Right(sending') /\ Right(lastKey') /\ queue' \in Seq(LvglKeyType)
             /\ \A i \in 1..Len(queue') : Right(queue'[i])
      PROVE  RightKey'
  BY <1>2, RangeOf DEF RightKey
<1>3. CASE UNCHANGED <<queue, lastKey>> /\ (UNCHANGED sending \/ sending' = NoKey)
  BY <1>0, <1>1, <1>2, <1>3 DEF TypeOK
<1>4. CASE Sent /\ lastKey' = lastKey
  <2>1. Right(sending') /\ Right(lastKey')
    BY <1>0, <1>1, <1>4 DEF Sent
  <2>2. \A i \in 1..Len(queue') : queue'[i] = sending \/ (i \in 1..Len(queue) /\ queue'[i] = queue[i])
    BY <1>4 DEF Sent, TypeOK
  <2>3. queue' \in Seq(LvglKeyType)
    BY <1>4 DEF Sent, TypeOK
  <2>4. \A i \in 1..Len(queue') : Right(queue'[i])
    BY <1>1, <2>2
  <2> HIDE DEF Right
  <2> QED
    BY <1>2, <2>1, <2>3, <2>4
<1>5. CASE /\ queue # <<>> /\ queue' = Tail(queue) /\ UNCHANGED sending
           /\ lastKey' \in {lastKey, Head(queue)}
  <2>1. /\ queue' \in Seq(LvglKeyType)
        /\ \A i \in 1..Len(queue') : i + 1 \in 1..Len(queue) /\ queue'[i] = queue[i + 1]
        /\ 1 \in 1..Len(queue) /\ Head(queue) = queue[1]
    BY <1>5, TailType DEF TypeOK
  <2>2. Right(sending') /\ Right(lastKey') /\ \A i \in 1..Len(queue') : Right(queue'[i])
    BY <1>1, <1>5, <2>1
  <2> HIDE DEF Right
  <2> QED
    BY <1>2, <2>1, <2>2
<1>6. CASE ReadEvent
  <2>1. \/ UNCHANGED sending
        \/ /\ ~NoEvent
           /\ IF Head(fifo).key \in Modifiers THEN HandleModifier(Head(fifo))
              ELSE HandleKey(Head(fifo))
    BY <1>6 DEF ReadEvent, GiveUp
  <2>2. ~NoEvent => fifo # <<>> /\ Branch \in Modes
    BY DEF NoEvent, TypeOK
  <2>3. Right(sending')
    BY <1>0, <1>1, <2>1, <2>2, NextEventRight DEF HandleModifier
  <2>4. UNCHANGED lvglVars
    BY <1>6 DEF ReadEvent
  <2> QED
    BY <1>1, <1>2, <2>3, <2>4 DEF TypeOK
<1>7. CASE ReadCb
  BY <1>3, <1>5, <1>7 DEF ReadCb, ReportRelease, ReportPress
<1>8. CASE Drain
  <2>1. CASE Send \/ Resend
    BY <1>3, <1>4, <2>1 DEF Send, Resend
  <2>2. CASE DropOldest
    BY <1>3, <1>5, <2>2 DEF DropOldest
  <2>3. CASE ReadStatus \/ ReadCount \/ LoopEnds \/ ReadLength \/ Finish
    BY <1>3, <2>3 DEF ReadStatus, ReadCount, LoopEnds, ReadLength, Finish, GiveUp
  <2> QED
    BY <1>6, <1>8, <2>1, <2>2, <2>3 DEF Drain
<1>9. CASE Configure
  BY <1>3, <1>9 DEF Configure, Configured, Probe, EnterHid, FlushHid, ClearHid, EnterKey,
                    Interrupts, FlushKey, MustAccess, TryWrite
<1>10. CASE User \/ UNCHANGED vars
  BY <1>3, <1>10 DEF User, Shift, Tap, Unplug, Plug, vars
<1> QED
  BY <1>7, <1>8, <1>9, <1>10 DEF Next, KeyboardTask

\* Whatever modifiers were pressed or released since, a key in the queue is the one
\* the user pressed in the layer he held, unless the event of a modifier was lost or
\* never made, or a configuration forgot one that was held (handle_modifier_event,
\* configure_tab5_keyboard_device).
THEOREM KeysAreRight == Spec => []RightKey
<1>1. Init => KeyboardInv
  <2>1. Init => TypeOK /\ Control
    BY InitType DEF Init, Control, ConfigureSteps
  <2>2. Init => EventsFitMode /\ LayersFollow
    BY DEF Init, EventsFitMode, LayersFollow, LayerAt, Quiet
  <2>3. Init => RightKey
    BY DEF Init, RightKey, Range, NoKey
  <2> QED
    BY <2>1, <2>2, <2>3 DEF KeyboardInv
<1>2. KeyboardInv /\ [Next]_vars => KeyboardInv'
  BY StepType, ControlStep, EventsFitModeStep, LayersFollowStep, RightKeyStep DEF KeyboardInv
<1>3. KeyboardInv => RightKey
  BY DEF KeyboardInv
<1> QED
  BY <1>1, <1>2, <1>3, PTL DEF Spec

-----------------------------------------------------------------------------
(* The order of the keys.                                                  *)

\* TypedInOrder, by the parts of the line.
Ordered ==
  /\ \A i, j \in 1..Len(queue) :
       Before(lastKey, queue[j]) /\ (i < j => Before(queue[i], queue[j]))
  /\ Before(lastKey, sending) /\ \A i \in 1..Len(queue) : Before(queue[i], sending)
  /\ \A j \in 1..Len(fifo) :
       /\ Before(lastKey, fifo[j]) /\ Before(sending, fifo[j])
       /\ \A i \in 1..Len(queue) : Before(queue[i], fifo[j])
       /\ \A i \in 1..(j - 1) : Before(fifo[i], fifo[j])

\* No number has been given out that the user has not reached.
Counted ==
  /\ lastKey.n <= taps /\ sending.n <= taps
  /\ \A i \in 1..Len(queue) : queue[i].n <= taps
  /\ \A i \in 1..Len(fifo) : fifo[i].n <= taps

\* No key is on its way from the device to the queue while the task does something
\* else.
SendsOne == pc \notin {"send", "drop", "resend"} => sending.n = 0

LineInv == Ordered /\ Counted /\ SendsOne

LEMMA NumbersAreNaturals ==
  ASSUME TypeOK
  PROVE  /\ lastKey.n \in Nat /\ sending.n \in Nat /\ taps \in Nat
         /\ \A i \in 1..Len(queue) : queue[i].n \in Nat
         /\ \A i \in 1..Len(fifo) : fifo[i].n \in Nat
         /\ Len(queue) \in Nat /\ Len(fifo) \in Nat
<1>1. \A k \in LvglKeyType : k.n \in Nat
  BY KeyboardAssumption DEF LvglKeyType
<1>2. \A e \in EventType : e.n \in Nat
  BY KeyboardAssumption DEF EventType
<1>3. \A i \in 1..Len(queue) : queue[i] \in LvglKeyType
  BY DEF TypeOK
<1>4. \A i \in 1..Len(fifo) : fifo[i] \in EventType
  BY DEF TypeOK
<1>5. taps \in Nat /\ Len(queue) \in Nat /\ Len(fifo) \in Nat
  BY KeyboardAssumption DEF TypeOK
<1> QED
  BY <1>1, <1>2, <1>3, <1>4, <1>5 DEF TypeOK

LEMMA OrderedLine ==
  ASSUME TypeOK, Ordered
  PROVE  TypedInOrder
<1> DEFINE q == Len(queue)
           f == Len(fifo)
<1>1. q \in Nat /\ f \in Nat
  BY DEF TypeOK
<1>2. /\ Len(Line) = q + 1 + f
      /\ \A i \in 1..q : Line[i] = queue[i]
      /\ Line[q + 1] = sending
      /\ \A i \in 1..f : Line[q + 1 + i] = fifo[i]
  <2> DEFINE S == LvglKeyType \cup EventType
  <2>1. queue \in Seq(S) /\ <<sending>> \in Seq(S) /\ fifo \in Seq(S)
    BY DEF TypeOK
  <2> HIDE DEF S
  <2> QED
    BY <2>1 DEF Line
<1> HIDE DEF q, f
<1>3. \A j \in 1..Len(Line) : j \in 1..q \/ j = q + 1 \/ (j - (q + 1) \in 1..f /\ j = q + 1 + (j - (q + 1)))
  BY <1>1, <1>2
<1> SUFFICES ASSUME NEW i \in 1..Len(Line), NEW j \in 1..Len(Line)
    PROVE  (i < j => Before(Line[i], Line[j])) /\ Before(lastKey, Line[j])
  BY DEF TypedInOrder
<1>4. CASE j \in 1..q
  <2>1. i < j => i \in 1..q
    BY <1>1, <1>2, <1>4
  <2> QED
    BY <1>2, <1>4, <2>1 DEF Ordered, q
<1>5. CASE j = q + 1
  <2>1. i < j => i \in 1..q
    BY <1>1, <1>2, <1>5
  <2> QED
    BY <1>2, <1>5, <2>1 DEF Ordered, q
<1>6. CASE j - (q + 1) \in 1..f /\ j = q + 1 + (j - (q + 1))
  <2> DEFINE k == j - (q + 1)
  <2>1. k \in 1..f /\ Line[j] = fifo[k]
    BY <1>2, <1>6
  <2>2. i < j => i \in 1..q \/ i = q + 1 \/ (i - (q + 1) \in 1..(k - 1) /\ i = q + 1 + (i - (q + 1)))
    BY <1>1, <1>2, <1>6
  <2>3. \A x \in 1..(k - 1) : x \in 1..f
    BY <1>1, <2>1
  <2> HIDE DEF k
  <2>4. CASE i \in 1..q
    BY <1>2, <2>1, <2>4 DEF Ordered, q, f
  <2>5. CASE i = q + 1
    BY <1>2, <2>1, <2>5 DEF Ordered, f
  <2>6. CASE i - (q + 1) \in 1..(k - 1) /\ i = q + 1 + (i - (q + 1))
    <3>1. Line[i] = fifo[i - (q + 1)]
      BY <1>2, <2>3, <2>6
    <3> QED
      BY <2>1, <2>6, <3>1 DEF Ordered, f
  <2>7. Before(lastKey, Line[j])
    BY <2>1 DEF Ordered, f
  <2> QED
    BY <2>2, <2>4, <2>5, <2>6, <2>7
<1> QED
  BY <1>3, <1>4, <1>5, <1>6

\* A step that adds nothing to the line.
LEMMA LineKept ==
  ASSUME TypeOK, Ordered, Counted, UNCHANGED <<queue, lastKey, taps>>,
         sending' = sending \/ sending'.n = 0,
         fifo' = fifo \/ fifo' = <<>>
  PROVE  Ordered' /\ Counted'
<1>1. \A k \in 1..Len(fifo') : fifo' = fifo
  OBVIOUS
<1>2. taps \in Nat /\ lastKey.n \in Nat
  BY NumbersAreNaturals
<1>4. \A j \in 1..Len(fifo) : fifo[j].n \in Nat
  BY NumbersAreNaturals
<1>5. \A j \in 1..Len(fifo) : Before(sending', fifo[j])
  BY <1>4 DEF Ordered, Before
<1>6. Before(lastKey, sending') /\ \A i \in 1..Len(queue) : Before(queue[i], sending')
  BY DEF Ordered, Before
<1> QED
  BY <1>1, <1>2, <1>5, <1>6 DEF Ordered, Counted

\* The oldest of the queue is taken out, by the reader or to make room.
LEMMA LineOfTail ==
  ASSUME TypeOK, Ordered, Counted, UNCHANGED <<sending, fifo, taps>>,
         queue # <<>>, queue' = Tail(queue), lastKey' \in {lastKey, Head(queue)}
  PROVE  Ordered' /\ Counted'
<1>1. /\ Len(queue) \in Nat /\ Len(queue') = Len(queue) - 1 /\ 1 \in 1..Len(queue)
      /\ \A i \in 1..Len(queue') : queue'[i] = queue[i + 1] /\ i + 1 \in 1..Len(queue)
      /\ Head(queue) = queue[1]
  BY TailType DEF TypeOK
<1>2. \A i \in 1..Len(queue') : 1 < i + 1
  BY <1>1
<1>3. \A i, j \in 1..Len(queue') : i < j => i + 1 < j + 1
  BY <1>1
<1>4. Counted'
  BY <1>1 DEF Counted
<1>5. \A i, j \in 1..Len(queue') :
        Before(lastKey', queue'[j]) /\ (i < j => Before(queue'[i], queue'[j]))
  BY <1>1, <1>2, <1>3 DEF Ordered
<1>6. Before(lastKey', sending) /\ \A i \in 1..Len(queue') : Before(queue'[i], sending)
  BY <1>1 DEF Ordered
<1>7. \A j \in 1..Len(fifo) :
        Before(lastKey', fifo[j]) /\ \A i \in 1..Len(queue') : Before(queue'[i], fifo[j])
  BY <1>1 DEF Ordered
<1>8. \A j \in 1..Len(fifo) :
        Before(sending, fifo[j]) /\ \A i \in 1..(j - 1) : Before(fifo[i], fifo[j])
  BY DEF Ordered
<1>9. UNCHANGED <<sending, fifo>>
  OBVIOUS
<1> HIDE DEF Before
<1> QED
  BY <1>4, <1>5, <1>6, <1>7, <1>8, <1>9 DEF Ordered, Before

\* The key being sent becomes the youngest of the queue.
LEMMA LineOfSent ==
  ASSUME TypeOK, Ordered, Counted, Sent, UNCHANGED <<lastKey, fifo, taps>>
  PROVE  Ordered' /\ Counted'
<1> DEFINE n == Len(queue)
<1>1. /\ n \in Nat /\ Len(queue') = n + 1 /\ queue'[n + 1] = sending
      /\ \A i \in 1..n : queue'[i] = queue[i]
  BY DEF Sent, TypeOK
<1>2. sending'.n = 0
  BY DEF Sent, NoKey
<1>3. \A j \in 1..(n + 1) : j \in 1..n \/ j = n + 1
  BY <1>1
<1>4. Counted'
  BY <1>1, <1>2, <1>3, NumbersAreNaturals DEF Counted
<1>5. \A i, j \in 1..(n + 1) : i < j => i \in 1..n
  BY <1>1
<1>6. \A i, j \in 1..(n + 1) :
        Before(lastKey, queue'[j]) /\ (i < j => Before(queue'[i], queue'[j]))
  BY <1>1, <1>3, <1>5 DEF Ordered
<1>7. Before(lastKey, sending') /\ \A i \in 1..(n + 1) : Before(queue'[i], sending')
  BY <1>2 DEF Before
<1>8. \A j \in 1..Len(fifo) :
        /\ Before(lastKey, fifo[j]) /\ \A i \in 1..(n + 1) : Before(queue'[i], fifo[j])
        /\ \A i \in 1..(j - 1) : Before(fifo[i], fifo[j])
  BY <1>1, <1>3 DEF Ordered
<1>9. \A j \in 1..Len(fifo) : Before(sending', fifo[j])
  BY <1>2, NumbersAreNaturals DEF Before
<1>10. Len(queue') = n + 1 /\ UNCHANGED <<lastKey, fifo>>
  BY <1>1
<1> HIDE DEF n
<1> QED
  BY <1>4, <1>6, <1>7, <1>8, <1>9, <1>10 DEF Ordered, Before

\* The oldest event of the device is read, into sending or into nothing.
LEMMA LineOfRead ==
  ASSUME TypeOK, Ordered, Counted, UNCHANGED <<queue, lastKey, taps>>,
         fifo # <<>>, fifo' = Tail(fifo), sending'.n \in {0, Head(fifo).n}
  PROVE  Ordered' /\ Counted'
<1>1. /\ Len(fifo) \in Nat /\ Len(fifo') = Len(fifo) - 1 /\ 1 \in 1..Len(fifo)
      /\ \A i \in 1..Len(fifo') : fifo'[i] = fifo[i + 1] /\ i + 1 \in 1..Len(fifo)
      /\ Head(fifo) = fifo[1]
  BY TailType DEF TypeOK
<1>2. \A j \in 1..Len(fifo') : 1 \in 1..((j + 1) - 1) /\ \A i \in 1..(j - 1) : i + 1 \in 1..((j + 1) - 1)
      /\ i \in 1..Len(fifo')
  BY <1>1
<1>3. Counted'
  BY <1>1, NumbersAreNaturals DEF Counted
<1>4. Before(lastKey, sending') /\ \A i \in 1..Len(queue) : Before(queue[i], sending')
  BY <1>1 DEF Ordered, Before
<1>5. \A j \in 1..Len(fifo') : Before(sending', fifo'[j])
  BY <1>1, <1>2, NumbersAreNaturals DEF Ordered, Before
<1>6. \A j \in 1..Len(fifo') :
        /\ Before(lastKey, fifo'[j]) /\ \A i \in 1..Len(queue) : Before(queue[i], fifo'[j])
        /\ \A i \in 1..(j - 1) : Before(fifo'[i], fifo'[j])
  BY <1>1, <1>2 DEF Ordered
<1>7. \A i, j \in 1..Len(queue) :
       Before(lastKey, queue[j]) /\ (i < j => Before(queue[i], queue[j]))
  BY DEF Ordered
<1>8. UNCHANGED <<queue, lastKey>>
  OBVIOUS
<1> QED
  BY <1>3, <1>4, <1>5, <1>6, <1>7, <1>8 DEF Ordered, Before

\* The device appends events, of which only the first may be a key, with the next
\* number.
LEMMA LineOfNewEvents ==
  ASSUME TypeOK, Ordered, Counted, UNCHANGED <<queue, lastKey, sending>>,
         NEW t \in Seq(EventType), Len(t) \in 1..2, fifo' = fifo \o t,
         taps' \in {taps, taps + 1}, t[1].n \in {0, taps'},
         t[1].n # 0 => taps' = taps + 1,
         Len(t) = 2 => t[2].n = 0
  PROVE  Ordered' /\ Counted'
<1> DEFINE f == Len(fifo)
<1>1. /\ f \in Nat /\ Len(fifo') = f + Len(t)
      /\ \A i \in 1..f : fifo'[i] = fifo[i]
      /\ fifo'[f + 1] = t[1] /\ (Len(t) = 2 => fifo'[f + 2] = t[2])
  BY DEF TypeOK
<1>2. \A j \in 1..Len(fifo') : j \in 1..f \/ j = f + 1 \/ (Len(t) = 2 /\ j = f + 2)
  BY <1>1
<1>3. taps \in Nat /\ taps <= taps'
  BY NumbersAreNaturals
<1>4. \A i \in 1..f : fifo[i].n <= taps /\ fifo[i].n \in Nat
  BY NumbersAreNaturals DEF Counted
<1>5. /\ lastKey.n <= taps /\ lastKey.n \in Nat /\ sending.n <= taps /\ sending.n \in Nat
      /\ \A i \in 1..Len(queue) : queue[i].n <= taps /\ queue[i].n \in Nat
  BY NumbersAreNaturals DEF Counted
<1> HIDE DEF f
<1>6. \A j \in 1..Len(fifo') : fifo'[j].n <= taps'
  BY <1>1, <1>2, <1>3, <1>4
<1>7. Counted'
  BY <1>3, <1>5, <1>6 DEF Counted
<1>8. SUFFICES ASSUME NEW j \in 1..Len(fifo')
      PROVE  /\ Before(lastKey, fifo'[j]) /\ Before(sending, fifo'[j])
             /\ \A i \in 1..Len(queue) : Before(queue[i], fifo'[j])
             /\ \A i \in 1..(j - 1) : Before(fifo'[i], fifo'[j])
  <2>1. /\ \A i, j \in 1..Len(queue) :
             Before(lastKey, queue[j]) /\ (i < j => Before(queue[i], queue[j]))
        /\ Before(lastKey, sending) /\ \A i \in 1..Len(queue) : Before(queue[i], sending)
    BY DEF Ordered
  <2>2. UNCHANGED <<queue, lastKey, sending>>
    OBVIOUS
  <2> QED
    BY <1>7, <1>8, <2>1, <2>2 DEF Ordered, Before
<1>9. CASE j \in 1..f
  <2>1. \A i \in 1..(j - 1) : i \in 1..f
    BY <1>1, <1>9
  <2>2. fifo'[j] = fifo[j] /\ \A i \in 1..(j - 1) : fifo'[i] = fifo[i]
    BY <1>1, <1>9, <2>1
  <2>3. /\ Before(lastKey, fifo[j]) /\ Before(sending, fifo[j])
        /\ \A i \in 1..Len(queue) : Before(queue[i], fifo[j])
        /\ \A i \in 1..(j - 1) : Before(fifo[i], fifo[j])
    BY <1>9 DEF Ordered, f
  <2> QED
    BY <2>2, <2>3
<1>10. CASE j = f + 1
  <2>1. \A i \in 1..(j - 1) : i \in 1..f
    BY <1>1, <1>10
  <2>2. fifo'[j] = t[1] /\ \A i \in 1..(j - 1) : fifo'[i] = fifo[i]
    BY <1>1, <1>10, <2>1
  <2>3. t[1].n # 0 => t[1].n = taps + 1
    OBVIOUS
  <2>4. /\ \A i \in 1..(j - 1) : Before(fifo[i], t[1])
        /\ \A i \in 1..Len(queue) : Before(queue[i], t[1])
        /\ Before(lastKey, t[1]) /\ Before(sending, t[1])
    BY <1>3, <1>4, <1>5, <2>1, <2>3 DEF Before
  <2> QED
    BY <2>2, <2>4
<1>11. CASE Len(t) = 2 /\ j = f + 2
  BY <1>1, <1>11 DEF Before
<1> QED
  BY <1>2, <1>9, <1>10, <1>11

LEMMA LineUserStep ==
  ASSUME TypeOK, LineInv, User
  PROVE  LineInv'
<1> USE DEF LineInv
<1>1. UNCHANGED <<queue, lastKey, sending, pc>>
  BY DEF User, Shift, Tap, Unplug, Plug, lvglVars, drainVars
<1>2. SendsOne'
  BY <1>1 DEF SendsOne
<1>3. ASSUME NEW m \in Modifiers, Shift(m) PROVE Ordered' /\ Counted'
  <2>1. taps' = taps
    BY <1>3 DEF Shift
  <2>2. CASE UNCHANGED fifo
    BY <1>1, <2>1, <2>2, LineKept
  <2>3. CASE fifo' = Append(fifo, Event(m, m \notin held, 0))
    <3> DEFINE e == Event(m, m \notin held, 0)
    <3>1. (m \notin held) \in BOOLEAN /\ 0 \in 0..MaxTaps
      BY KeyboardAssumption
    <3>2. e \in EventType /\ e.n = 0
      BY <3>1 DEF Event, EventType, TypeOK
    <3>3. fifo' = Append(fifo, e)
      BY <2>3
    <3> HIDE DEF e
    <3> DEFINE t == <<e>>
    <3>4. t \in Seq(EventType) /\ Len(t) = 1 /\ t[1] = e /\ fifo' = fifo \o t
      BY <3>2, <3>3 DEF TypeOK
    <3> HIDE DEF t
    <3>5. Len(t) \in 1..2 /\ t[1].n = 0 /\ Len(t) # 2
      BY <3>2, <3>4
    <3> QED
      BY <1>1, <2>1, <3>4, <3>5, LineOfNewEvents
  <2> QED
    BY <1>3, <2>2, <2>3 DEF Shift
<1>4. ASSUME NEW key \in Keys, Tap(key) PROVE Ordered' /\ Counted'
  <2> DEFINE down == Event(key, TRUE, taps + 1)
             up   == Event(key, FALSE, 0)
  <2>1. taps' = taps + 1 /\ taps + 1 \in 0..MaxTaps /\ 0 \in 0..MaxTaps
    BY <1>4, KeyboardAssumption DEF Tap, TypeOK
  <2>2. fifo' = fifo \o <<down>> \/ fifo' = fifo \o <<down, up>>
    BY <1>4 DEF Tap
  <2>3. down \in EventType /\ up \in EventType /\ down.n = taps' /\ up.n = 0
    BY <2>1 DEF Event, EventType, TypeOK
  <2> HIDE DEF down, up
  <2>4. CASE fifo' = fifo \o <<down>>
    <3> DEFINE t == <<down>>
    <3>1. t \in Seq(EventType) /\ Len(t) = 1 /\ t[1] = down /\ fifo' = fifo \o t
      BY <2>3, <2>4
    <3> HIDE DEF t
    <3>2. Len(t) \in 1..2 /\ t[1].n = taps' /\ Len(t) # 2
      BY <2>3, <3>1
    <3> QED
      BY <1>1, <2>1, <3>1, <3>2, LineOfNewEvents
  <2>5. CASE fifo' = fifo \o <<down, up>>
    <3> DEFINE t == <<down, up>>
    <3>1. /\ t \in Seq(EventType) /\ Len(t) = 2 /\ t[1] = down /\ t[2] = up
          /\ fifo' = fifo \o t
      BY <2>3, <2>5
    <3> HIDE DEF t
    <3>2. Len(t) \in 1..2 /\ t[1].n = taps' /\ t[2].n = 0
      BY <2>3, <3>1
    <3> QED
      BY <1>1, <2>1, <3>1, <3>2, LineOfNewEvents
  <2> QED
    BY <2>2, <2>4, <2>5
<1>5. CASE Unplug \/ Plug
  <2>1. taps' = taps /\ (fifo' = fifo \/ fifo' = <<>>)
    BY <1>5 DEF Unplug, Plug, userVars
  <2> QED
    BY <1>1, <1>2, <2>1, LineKept
<1> QED
  BY <1>2, <1>3, <1>4, <1>5 DEF User

LEMMA LineReadStep ==
  ASSUME TypeOK, LineInv, ReadEvent
  PROVE  LineInv'
<1> USE DEF LineInv, Goto
<1>1. UNCHANGED <<queue, lastKey, taps>> /\ pc \in {"events", "length"} /\ sending.n = 0
  BY DEF ReadEvent, SendsOne, userVars, lvglVars
<1>2. CASE UNCHANGED sending /\ (Leave \/ pc' = "done")
           /\ (UNCHANGED fifo \/ (~NoEvent /\ fifo' = Tail(fifo)))
  <2>1. SendsOne'
    BY <1>1, <1>2 DEF SendsOne
  <2>2. CASE UNCHANGED fifo
    BY <1>1, <1>2, <2>1, <2>2, LineKept
  <2>3. CASE ~NoEvent /\ fifo' = Tail(fifo)
    BY <1>1, <1>2, <2>1, <2>3, LineOfRead DEF NoEvent
  <2> QED
    BY <1>2, <2>2, <2>3
<1>3. ASSUME ~NoEvent, fifo' = Tail(fifo), NEW e, e = Head(fifo),
             IF e.key \in Modifiers THEN HandleModifier(e) ELSE HandleKey(e)
      PROVE  LineInv'
  <2>1. NoKey.n = 0
    BY DEF NoKey
  <2>2. HandleModifier(e) => sending' = NoKey /\ pc' = "events"
    BY DEF HandleModifier
  <2>3. HandleKey(e) => (sending' = NoKey /\ pc' = "events") \/ (sending'.n = e.n /\ pc' = "send")
    BY DEF HandleKey, Enqueue, LvglKey
  <2>4. sending'.n \in {0, Head(fifo).n} /\ SendsOne'
    BY <1>3, <2>1, <2>2, <2>3 DEF SendsOne
  <2> QED
    BY <1>1, <1>3, <2>4, LineOfRead DEF NoEvent
<1>4. \/ /\ UNCHANGED sending /\ (Leave \/ pc' = "done")
         /\ (UNCHANGED fifo \/ (~NoEvent /\ fifo' = Tail(fifo)))
      \/ /\ ~NoEvent /\ fifo' = Tail(fifo)
         /\ IF Head(fifo).key \in Modifiers THEN HandleModifier(Head(fifo))
            ELSE HandleKey(Head(fifo))
  BY DEF ReadEvent, GiveUp, KeepDevice, deviceVars, drainVars
<1> QED
  BY <1>2, <1>3, <1>4

LEMMA LineStep ==
  ASSUME TypeOK, LineInv, [Next]_vars
  PROVE  LineInv'
<1> USE DEF LineInv, Goto, userVars, drainVars, lvglVars
<1>1. ASSUME UNCHANGED <<fifo, taps>>, Send \/ Resend PROVE LineInv'
  <2>1. NoKey.n = 0
    BY DEF NoKey
  <2>2. UNCHANGED lastKey
    BY <1>1 DEF Send, Resend
  <2>3. CASE Sent
    BY <1>1, <2>1, <2>2, <2>3, LineOfSent DEF Sent, SendsOne
  <2>4. CASE UNCHANGED queue /\ (UNCHANGED sending \/ sending' = NoKey) /\ ~Sent
    <3>1. SendsOne'
      BY <1>1, <2>1, <2>4 DEF Send, Resend, SendsOne
    <3> QED
      BY <1>1, <2>1, <2>2, <2>4, <3>1, LineKept
  <2> QED
    BY <1>1, <2>3, <2>4 DEF Send, Resend
<1>2. CASE DropOldest
  <2>1. UNCHANGED <<sending, fifo, taps, lastKey>> /\ pc' = "resend"
    BY <1>2 DEF DropOldest, KeepDevice, deviceVars
  <2>2. SendsOne'
    BY <2>1 DEF SendsOne
  <2>3. UNCHANGED queue \/ (queue # <<>> /\ queue' = Tail(queue))
    BY <1>2 DEF DropOldest
  <2> QED
    BY <2>1, <2>2, <2>3, LineKept, LineOfTail
<1>3. CASE ReadCb
  <2>1. UNCHANGED <<sending, fifo, taps, pc>>
    BY <1>3 DEF ReadCb, deviceVars
  <2>2. SendsOne'
    BY <2>1 DEF SendsOne
  <2>3. \/ UNCHANGED <<queue, lastKey>>
        \/ queue # <<>> /\ queue' = Tail(queue) /\ lastKey' = Head(queue)
    BY <1>3 DEF ReadCb, ReportRelease, ReportPress
  <2> QED
    BY <2>1, <2>2, <2>3, LineKept, LineOfTail
<1>4. CASE Configure
  <2>1. UNCHANGED <<queue, lastKey, taps, sending>> /\ (fifo' = fifo \/ fifo' = <<>>)
    BY <1>4 DEF Configure, Configured, Probe, EnterHid, FlushHid, ClearHid, EnterKey, Interrupts,
                FlushKey, MustAccess, TryWrite, ClearStatus, Flush, SetMode, KeepDevice, deviceVars
  <2>2. pc \notin {"send", "drop", "resend"}
    BY <1>4 DEF Configure, Configured, Probe, EnterHid, FlushHid, ClearHid, EnterKey, Interrupts,
                FlushKey, MustAccess, TryWrite
  <2>3. SendsOne'
    BY <2>1, <2>2 DEF SendsOne
  <2> QED
    BY <2>1, <2>3, LineKept
<1>5. CASE ReadStatus \/ ReadCount \/ LoopEnds \/ ReadLength \/ Finish
  <2>1. UNCHANGED <<queue, lastKey, taps, sending, fifo>>
    BY <1>5 DEF ReadStatus, ReadCount, LoopEnds, ReadLength, Finish, GiveUp, ClearStatus, KeepDevice,
                deviceVars
  <2>2. pc \notin {"send", "drop", "resend"}
    BY <1>5 DEF ReadStatus, ReadCount, LoopEnds, ReadLength, Finish
  <2>3. SendsOne'
    BY <2>1, <2>2 DEF SendsOne
  <2> QED
    BY <2>1, <2>3, LineKept
<1>6. CASE UNCHANGED vars
  <2>1. UNCHANGED <<queue, lastKey, taps, sending, fifo, pc>>
    BY <1>6 DEF vars, deviceVars
  <2> QED
    BY <2>1, LineKept DEF SendsOne
<1>7. Send \/ Resend => UNCHANGED <<fifo, taps>>
  BY DEF Send, Resend, KeepDevice, deviceVars
<1> QED
  BY <1>1, <1>2, <1>3, <1>4, <1>5, <1>6, <1>7, LineUserStep, LineReadStep
  DEF Next, KeyboardTask, Drain

\* However often the queue was full, the bus failed or the keyboard was taken off:
\* what is still to be reported is younger than what was reported last, and in the
\* order of the presses.
THEOREM KeysKeepTheirOrder == Spec => []TypedInOrder
<1>1. Init => LineInv
  BY DEF Init, LineInv, Ordered, Counted, SendsOne, Before, NoKey
<1>2. TypeOK /\ LineInv /\ [Next]_vars => LineInv'
  BY LineStep
<1>3. TypeOK /\ LineInv => TypedInOrder
  BY OrderedLine DEF LineInv
<1> QED
  BY <1>1, <1>2, <1>3, KeyboardTypeCorrect, PTL DEF Spec

-----------------------------------------------------------------------------
(* What becomes of the keys.                                               *)

\* Only the press of a key has a number, and every one has; what is being sent is
\* one; and once the oldest key has been dropped there is room, which the reader
\* can only add to.
Accounted ==
  /\ \A i \in 1..Len(fifo) :
       fifo[i].n # 0 <=> fifo[i].down /\ fifo[i].key \notin Modifiers
  /\ pc \in {"send", "drop", "resend"} => sending.n # 0
  /\ pc = "resend" => Len(queue) < QueueSize

\* Some key in s has the number n.
In(n, s) == \E i \in 1..Len(s) : s[i].n = n

LEMMA OnTheWayIs ==
  ASSUME TypeOK
  PROVE  \A n : n \in OnTheWay <=> n # 0 /\ (In(n, queue) \/ n = sending.n \/ In(n, fifo))
<1> DEFINE q == Len(queue)
           f == Len(fifo)
<1>1. q \in Nat /\ f \in Nat
  BY DEF TypeOK
<1>2. /\ Len(Line) = q + 1 + f
      /\ \A i \in 1..q : Line[i] = queue[i]
      /\ Line[q + 1] = sending
      /\ \A i \in 1..f : Line[q + 1 + i] = fifo[i]
  <2> DEFINE S == LvglKeyType \cup EventType
  <2>1. queue \in Seq(S) /\ <<sending>> \in Seq(S) /\ fifo \in Seq(S)
    BY DEF TypeOK
  <2> HIDE DEF S
  <2> QED
    BY <2>1 DEF Line
<1> HIDE DEF q, f
<1>3. \A j \in 1..Len(Line) :
        j \in 1..q \/ j = q + 1 \/ (j - (q + 1) \in 1..f /\ j = q + 1 + (j - (q + 1)))
  BY <1>1, <1>2
<1>4. /\ \A i \in 1..q : i \in 1..Len(Line)
      /\ q + 1 \in 1..Len(Line)
      /\ \A i \in 1..f : q + 1 + i \in 1..Len(Line)
  BY <1>1, <1>2
<1>5. ASSUME NEW j \in 1..Len(Line)
      PROVE  In(Line[j].n, queue) \/ Line[j].n = sending.n \/ In(Line[j].n, fifo)
  BY <1>2, <1>3 DEF In, q, f
<1>6. ASSUME NEW n, In(n, queue) \/ n = sending.n \/ In(n, fifo)
      PROVE  \E j \in 1..Len(Line) : Line[j].n = n
  <2>1. ASSUME NEW i \in 1..q, queue[i].n = n PROVE \E j \in 1..Len(Line) : Line[j].n = n
    BY <1>2, <1>4, <2>1
  <2>2. ASSUME NEW i \in 1..f, fifo[i].n = n PROVE \E j \in 1..Len(Line) : Line[j].n = n
    BY <1>2, <1>4, <2>2
  <2>3. CASE n = sending.n
    BY <1>2, <1>4, <2>3
  <2> QED
    BY <1>6, <2>1, <2>2, <2>3 DEF In, q, f
<1> QED
  BY <1>5, <1>6 DEF OnTheWay

\* What taking the first, appending one and appending many do to the numbers.
LEMMA InTail ==
  ASSUME NEW S, NEW s \in Seq(S), s # <<>>
  PROVE  \A n : In(n, s) => n = Head(s).n \/ In(n, Tail(s))
<1> SUFFICES ASSUME NEW n, NEW i \in 1..Len(s), s[i].n = n
             PROVE  n = Head(s).n \/ In(n, Tail(s))
  BY DEF In
<1>1. Len(s) \in Nat /\ Len(Tail(s)) = Len(s) - 1 /\ Head(s) = s[1]
      /\ \A j \in 1..Len(Tail(s)) : Tail(s)[j] = s[j + 1]
  BY TailType
<1>2. i = 1 \/ (i - 1 \in 1..Len(Tail(s)) /\ i = (i - 1) + 1)
  BY <1>1
<1> QED
  BY <1>1, <1>2 DEF In

LEMMA InAppend ==
  ASSUME NEW S, NEW s \in Seq(S), NEW e \in S
  PROVE  \A n : In(n, s) \/ n = e.n => In(n, Append(s, e))
<1>1. /\ Len(s) \in Nat /\ Len(Append(s, e)) = Len(s) + 1
      /\ \A i \in 1..Len(s) : Append(s, e)[i] = s[i] /\ i \in 1..(Len(s) + 1)
      /\ Append(s, e)[Len(s) + 1] = e /\ Len(s) + 1 \in 1..(Len(s) + 1)
  OBVIOUS
<1> QED
  BY <1>1 DEF In

LEMMA InConcat ==
  ASSUME NEW S, NEW s \in Seq(S), NEW t \in Seq(S)
  PROVE  \A n : In(n, s) => In(n, s \o t)
<1>1. \A i \in 1..Len(s) : (s \o t)[i] = s[i] /\ i \in 1..Len(s \o t)
  OBVIOUS
<1> QED
  BY <1>1 DEF In

\* What the events of the device are numbered does not depend on which there are.
LEMMA AccountedEvents ==
  ASSUME TypeOK, Accounted, UNCHANGED <<pc, sending, queue>>,
         NEW t \in Seq(EventType), fifo' = fifo \o t,
         \A i \in 1..Len(t) : t[i].n # 0 <=> t[i].down /\ t[i].key \notin Modifiers
  PROVE  Accounted'
<1>1. \A i \in 1..Len(fifo') :
        \/ i \in 1..Len(fifo) /\ fifo'[i] = fifo[i]
        \/ i - Len(fifo) \in 1..Len(t) /\ fifo'[i] = t[i - Len(fifo)]
  BY DEF TypeOK
<1> QED
  BY <1>1 DEF Accounted

\* A step that takes events from the device at most.
LEMMA AccountedFewer ==
  ASSUME TypeOK, Accounted,
         fifo' = fifo \/ fifo' = <<>> \/ (fifo # <<>> /\ fifo' = Tail(fifo)),
         pc' \in {"send", "drop", "resend"} => sending'.n # 0,
         pc' = "resend" => Len(queue') < QueueSize
  PROVE  Accounted'
<1>1. CASE fifo' = fifo \/ fifo' = <<>>
  BY <1>1 DEF Accounted
<1>2. CASE fifo # <<>> /\ fifo' = Tail(fifo)
  <2>1. \A i \in 1..Len(fifo') : fifo'[i] = fifo[i + 1] /\ i + 1 \in 1..Len(fifo)
    BY <1>2, TailType DEF TypeOK
  <2> QED
    BY <2>1 DEF Accounted
<1> QED
  BY <1>1, <1>2

\* What a press of a key becomes: only that of a key without meaning comes to nothing.
LEMMA MeaningOf ==
  ASSUME NEW key \in Keys, NEW layer, key # "blank"
  PROVE  RawKey(key, layer) # None /\ HidKey(key, layer) # None /\ CharKey(key, layer) # None
<1>1. key \in {"q", "semicolon", "enter"}
  BY KeyboardAssumption DEF AllKeys
<1>2. /\ BaseMap[key] # None /\ SymbolMap[key] # None
      /\ [BaseMap EXCEPT !.q = "Q", !.semicolon = ":"][key] # None
  <2>1. CASE key = "q"
    BY <2>1 DEF SymbolMap, BaseMap, None
  <2>2. CASE key = "semicolon"
    BY <2>2 DEF SymbolMap, BaseMap, None
  <2>3. CASE key = "enter"
    BY <2>3 DEF SymbolMap, BaseMap, None
  <2> QED
    BY <1>1, <2>1, <2>2, <2>3
<1>3. RawKey(key, layer) # None
  BY <1>2 DEF RawKey, None
<1>4. HidKey(key, layer) # None
  BY <1>2 DEF HidKey
<1> QED
  BY <1>3, <1>4 DEF CharKey

\* An event that is read comes to nothing or to a key with its number.
LEMMA ReadComesTo ==
  ASSUME TypeOK, Accounted, fifo # <<>>, NEW e, e = Head(fifo), Branch # None,
         IF e.key \in Modifiers THEN HandleModifier(e) ELSE HandleKey(e)
  PROVE  /\ pc' = "send" => sending'.n = e.n /\ e.n # 0
         /\ pc' # "send" => pc' = "events" /\ (e.n # 0 => e.key = "blank")
<1>1. e \in EventType /\ (e.n # 0 <=> e.down /\ e.key \notin Modifiers)
  <2>1. e = fifo[1] /\ 1 \in 1..Len(fifo) /\ e \in EventType
    BY TailType DEF TypeOK
  <2> QED
    BY <2>1 DEF Accounted
<1>2. CASE e.key \in Modifiers
  BY <1>1, <1>2 DEF HandleModifier, Goto
<1>3. CASE e.key \notin Modifiers
  <2>1. e.key \in Keys
    BY <1>1, <1>3 DEF EventType
  <2>2. Branch \in {"Key", "Hid", "Char"}
    BY DEF Branch
  <2> DEFINE key == CASE Branch = "Key"  -> RawKey(e.key, active)
                      [] Branch = "Hid"  -> HidKey(e.key, e.layer)
                      [] Branch = "Char" -> CharKey(e.key, e.layer)
             k   == LvglKey(e.n, IF e.down THEN key ELSE None, Meaning(Branch, e.key, e.layer))
  <2>3. e.key # "blank" => key # None
    BY <2>1, <2>2, MeaningOf
  <2>4. Enqueue(k) /\ k.n = e.n /\ k.key = IF e.down THEN key ELSE None
    BY <1>3 DEF HandleKey, LvglKey
  <2> HIDE DEF key, k
  <2>5. \/ pc' = "send" /\ sending' = k /\ k.key # None
        \/ pc' = "events" /\ k.key = None
    BY <2>4 DEF Enqueue, Goto
  <2> QED
    BY <1>1, <1>3, <2>3, <2>4, <2>5
<1> QED
  BY <1>2, <1>3

\* Who may change the three parts of the line, by which the steps below are told
\* apart.
Polling == ReadStatus \/ ReadCount \/ LoopEnds \/ ReadLength \/ Finish

LEMMA ConfigureLeaves ==
  ASSUME Configure
  PROVE  /\ UNCHANGED <<queue, sending>> /\ (fifo' = fifo \/ fifo' = <<>>)
         /\ pc \in ConfigureSteps /\ pc' \in ConfigureSteps \cup {"status"}
BY DEF Configure, Configured, Probe, EnterHid, FlushHid, ClearHid, EnterKey, Interrupts,
       FlushKey, MustAccess, TryWrite, ClearStatus, Flush, SetMode, KeepDevice, deviceVars,
       lvglVars, drainVars, Goto, ConfigureSteps

LEMMA PollingLeaves ==
  ASSUME Polling
  PROVE  /\ UNCHANGED <<queue, sending, fifo>>
         /\ pc' \in {"status", "probe", "count", "recount", "events", "length", "done"}
BY DEF Polling, ReadStatus, ReadCount, LoopEnds, ReadLength, Finish, GiveUp, ClearStatus,
       KeepDevice, deviceVars, lvglVars, drainVars, Goto, Leave

LEMMA ReadLeaves ==
  ASSUME ReadEvent
  PROVE  /\ UNCHANGED queue /\ pc \in {"events", "length"}
         /\ \/ /\ UNCHANGED <<sending, fifo>>
               /\ pc' \in {"status", "probe", "done"}
            \/ /\ fifo # <<>> /\ fifo' = Tail(fifo) /\ UNCHANGED sending
               /\ Fault("i2c") /\ pc' \in {"status", "probe"}
            \/ /\ fifo # <<>> /\ fifo' = Tail(fifo)
               /\ IF Head(fifo).key \in Modifiers THEN HandleModifier(Head(fifo))
                  ELSE HandleKey(Head(fifo))
BY DEF ReadEvent, GiveUp, KeepDevice, NoEvent, deviceVars, lvglVars, drainVars, Goto, Leave

LEMMA SendLeaves ==
  ASSUME Send \/ Resend
  PROVE  /\ UNCHANGED fifo
         /\ \/ Sent
            \/ pc = "send" /\ pc' = "drop" /\ UNCHANGED <<queue, sending>>
            \/ pc = "resend" /\ Len(queue) >= QueueSize /\ pc' = "events" /\ UNCHANGED queue
BY DEF Send, Resend, KeepDevice, deviceVars, Goto, Full

LEMMA ReadCbLeaves ==
  ASSUME ReadCb
  PROVE  /\ UNCHANGED <<fifo, sending, pc>>
         /\ \/ UNCHANGED queue
            \/ queue # <<>> /\ queue' = Tail(queue) /\ lastKey' = Head(queue)
BY DEF ReadCb, ReportRelease, ReportPress, deviceVars, drainVars

LEMMA DropLeaves ==
  ASSUME DropOldest
  PROVE  /\ UNCHANGED <<fifo, sending>> /\ pc = "drop" /\ pc' = "resend"
         /\ queue' = IF queue = <<>> THEN queue ELSE Tail(queue)
BY DEF DropOldest, KeepDevice, deviceVars, drainVars, Goto

\* The register is looked at only if there is an event to read.
LEMMA ReadHasBranch ==
  ASSUME TypeOK, Control, ReadEvent
  PROVE  Branch # None
<1>1. None \notin {"Key", "Hid", "Char"}
  BY DEF None
<1>2. CASE pc = "events"
  BY <1>1, <1>2 DEF ReadEvent
<1>3. CASE pc = "length"
  <2>1. left > 0
    BY <1>3 DEF Control
  <2> QED
    BY <1>1, <2>1 DEF Branch
<1> QED
  BY <1>2, <1>3 DEF ReadEvent

\* What the user and the device do.
LEMMA UserLeaves ==
  ASSUME TypeOK, User
  PROVE  /\ UNCHANGED <<queue, sending, pc>>
         /\ \/ fifo' = fifo
            \/ fifo' = <<>> /\ Fault("unplug")
            \/ \E t \in Seq(EventType) :
                 /\ fifo' = fifo \o t
                 /\ \A i \in 1..Len(t) : t[i].n # 0 <=> t[i].down /\ t[i].key \notin Modifiers
<1> USE DEF lvglVars, drainVars
<1>1. UNCHANGED <<queue, sending, pc>>
  BY DEF User, Shift, Tap, Unplug, Plug
<1>2. ASSUME NEW m \in Modifiers, Shift(m), fifo' # fifo
      PROVE  \E t \in Seq(EventType) :
               /\ fifo' = fifo \o t
               /\ \A i \in 1..Len(t) : t[i].n # 0 <=> t[i].down /\ t[i].key \notin Modifiers
  <2> DEFINE e == Event(m, m \notin held, 0)
  <2>1. (m \notin held) \in BOOLEAN /\ 0 \in 0..MaxTaps
    BY KeyboardAssumption
  <2>2. e \in EventType /\ e.n = 0 /\ e.key = m
    BY <2>1 DEF Event, EventType, TypeOK
  <2>3. fifo' = Append(fifo, e)
    BY <1>2 DEF Shift
  <2> HIDE DEF e
  <2>4. <<e>> \in Seq(EventType) /\ fifo' = fifo \o <<e>> /\ Len(<<e>>) = 1 /\ <<e>>[1] = e
    <3>1. <<e>> \in Seq(EventType) /\ Len(<<e>>) = 1 /\ <<e>>[1] = e
      BY <2>2
    <3>2. fifo \in Seq(EventType)
      BY DEF TypeOK
    <3>3. Append(fifo, e) = fifo \o <<e>>
      BY <2>2, <3>2
    <3> QED
      BY <2>3, <3>1, <3>3
  <2>5. \A i \in 1..1 : i = 1
    OBVIOUS
  <2> QED
    BY <2>2, <2>4, <2>5
<1>3. ASSUME NEW key \in Keys, Tap(key)
      PROVE  \E t \in Seq(EventType) :
               /\ fifo' = fifo \o t
               /\ \A i \in 1..Len(t) : t[i].n # 0 <=> t[i].down /\ t[i].key \notin Modifiers
  <2> DEFINE down == Event(key, TRUE, taps + 1)
             up   == Event(key, FALSE, 0)
  <2>1. taps + 1 \in 0..MaxTaps /\ 0 \in 0..MaxTaps /\ taps + 1 # 0
    BY <1>3, KeyboardAssumption DEF Tap, TypeOK
  <2>2. fifo' = fifo \o <<down>> \/ fifo' = fifo \o <<down, up>>
    BY <1>3 DEF Tap
  <2>3. /\ down \in EventType /\ down.n # 0 /\ down.down /\ down.key \notin Modifiers
        /\ up \in EventType /\ up.n = 0 /\ ~up.down
    BY <2>1, ModifiersAreNoKeys DEF Event, EventType, TypeOK
  <2> HIDE DEF down, up
  <2>4. /\ <<down>> \in Seq(EventType) /\ Len(<<down>>) = 1 /\ <<down>>[1] = down
        /\ <<down, up>> \in Seq(EventType) /\ Len(<<down, up>>) = 2
        /\ <<down, up>>[1] = down /\ <<down, up>>[2] = up
    BY <2>3
  <2>5. (\A i \in 1..1 : i = 1) /\ (\A i \in 1..2 : i = 1 \/ i = 2)
    OBVIOUS
  <2>6. \A i \in 1..Len(<<down>>) :
          <<down>>[i].n # 0 <=> <<down>>[i].down /\ <<down>>[i].key \notin Modifiers
    BY <2>3, <2>4, <2>5
  <2>7. \A i \in 1..Len(<<down, up>>) :
          <<down, up>>[i].n # 0 <=> <<down, up>>[i].down /\ <<down, up>>[i].key \notin Modifiers
    BY <2>3, <2>4, <2>5
  <2> QED
    BY <2>2, <2>4, <2>6, <2>7
<1>4. CASE Unplug \/ Plug
  BY <1>1, <1>4 DEF Unplug, Plug
<1> QED
  BY <1>1, <1>2, <1>3, <1>4 DEF User

LEMMA AccountedStep ==
  ASSUME TypeOK, Control, Accounted, [Next]_vars
  PROVE  Accounted'
<1> DEFINE Sending == {"send", "drop", "resend"}
<1>1. CASE User
  <2>1. CASE fifo' = fifo \/ fifo' = <<>>
    BY <1>1, <2>1, UserLeaves, AccountedFewer DEF Accounted
  <2> QED
    BY <1>1, <2>1, UserLeaves, AccountedEvents
<1>2. CASE Configure
  <2>1. pc' \notin Sending
    BY <1>2, ConfigureLeaves DEF ConfigureSteps
  <2> QED
    BY <1>2, <2>1, ConfigureLeaves, AccountedFewer
<1>3. CASE Polling
  <2>1. pc' \notin Sending
    BY <1>3, PollingLeaves
  <2> QED
    BY <1>3, <2>1, PollingLeaves, AccountedFewer
<1>4. CASE ReadEvent
  <2>1. CASE pc' \notin Sending
    BY <1>4, <2>1, ReadLeaves, AccountedFewer
  <2>2. CASE pc' \in Sending
    <3>1. /\ fifo # <<>> /\ fifo' = Tail(fifo)
          /\ IF Head(fifo).key \in Modifiers THEN HandleModifier(Head(fifo))
             ELSE HandleKey(Head(fifo))
      BY <1>4, <2>2, ReadLeaves
    <3>2. pc' = "send" /\ sending'.n # 0
      BY <1>4, <2>2, <3>1, ReadComesTo, ReadHasBranch
    <3> QED
      BY <3>1, <3>2, AccountedFewer
  <2> QED
    BY <2>1, <2>2
<1>5. CASE Send \/ Resend
  <2>1. \/ pc' = "events"
        \/ pc = "send" /\ pc' = "drop" /\ sending' = sending
    BY <1>5, SendLeaves DEF Sent, Goto
  <2>2. pc' \in Sending => sending'.n # 0
    BY <2>1 DEF Accounted
  <2> QED
    BY <1>5, <2>1, <2>2, SendLeaves, AccountedFewer
<1>6. CASE DropOldest
  <2>1. queue = <<>> \/ Len(queue') = Len(queue) - 1
    BY <1>6, DropLeaves, TailType DEF TypeOK
  <2>2. Len(queue) \in Nat /\ Len(queue) <= QueueSize /\ QueueSize \in Nat \ {0}
        /\ (queue = <<>> => Len(queue) = 0)
    BY KeyboardAssumption DEF TypeOK
  <2>3. Len(queue') < QueueSize
    <3>1. queue = <<>> => queue' = queue
      BY <1>6, DropLeaves
    <3> QED
      BY <2>1, <2>2, <3>1
  <2> QED
    BY <1>6, <2>3, DropLeaves, AccountedFewer DEF Accounted
<1>7. CASE ReadCb
  <2>1. queue' = queue \/ Len(queue') = Len(queue) - 1
    BY <1>7, ReadCbLeaves, TailType DEF TypeOK
  <2>2. Len(queue) \in Nat /\ QueueSize \in Nat
    BY KeyboardAssumption DEF TypeOK
  <2>3. Len(queue) < QueueSize => Len(queue') < QueueSize
    BY <2>1, <2>2
  <2> QED
    BY <1>7, <2>3, ReadCbLeaves, AccountedFewer DEF Accounted
<1>8. CASE UNCHANGED vars
  <2>1. UNCHANGED <<fifo, queue, sending, pc>>
    BY <1>8 DEF vars, deviceVars, lvglVars, drainVars
  <2> QED
    BY <2>1, AccountedFewer DEF Accounted
<1> QED
  BY <1>1, <1>2, <1>3, <1>4, <1>5, <1>6, <1>7, <1>8 DEF Next, KeyboardTask, Drain, Polling

\* The same of every state, and so of the next one.
WayIs == \A n : n \in OnTheWay <=> n # 0 /\ (In(n, queue) \/ n = sending.n \/ In(n, fifo))

LEMMA WayIsNext == TypeOK' => WayIs'
<1>1. TypeOK => WayIs
  BY OnTheWayIs DEF WayIs
<1> QED
  BY <1>1, PTL

\* A key that is no more on its way after a step.
LEMMA VanishStep ==
  ASSUME TypeOK, TypeOK', Control, LineInv, Accounted, [Next]_vars,
         NEW n, n \in OnTheWay, n \notin OnTheWay'
  PROVE  \/ n = lastKey'.n
         \/ failures' # failures
         \/ pc \in ConfigureSteps
         \/ pc = "drop" /\ queue # <<>> /\ n = Head(queue).n /\ n < sending.n
         \/ fifo # <<>> /\ Head(fifo).n = n /\ Head(fifo).key = "blank"
<1>1. n # 0 /\ (In(n, queue) \/ n = sending.n \/ In(n, fifo))
  BY OnTheWayIs
<1>2. ~In(n, queue') /\ n # sending'.n /\ ~In(n, fifo')
  <2>1. n \in OnTheWay' <=> n # 0 /\ (In(n, queue') \/ n = sending'.n \/ In(n, fifo'))
    BY WayIsNext DEF WayIs, In
  <2> QED
    BY <1>1, <2>1
<1>3. queue \in Seq(LvglKeyType) /\ fifo \in Seq(EventType) /\ sending \in LvglKeyType
  BY DEF TypeOK
<1>4. ASSUME NEW name, Fault(name) PROVE failures' # failures
  BY <1>4, KeyboardAssumption DEF Fault, TypeOK
<1>5. CASE UNCHANGED <<queue, sending, fifo>>
  BY <1>1, <1>2, <1>5
<1>6. CASE User
  <2>1. \A t \in Seq(EventType) : In(n, fifo) => In(n, fifo \o t)
    BY <1>3, InConcat
  <2> QED
    BY <1>1, <1>2, <1>4, <1>6, <2>1, UserLeaves
<1>7. CASE Configure
  BY <1>7, ConfigureLeaves
<1>8. CASE ReadEvent
  <2>1. \/ UNCHANGED queue /\ sending.n = 0 /\ fifo # <<>> /\ fifo' = Tail(fifo)
        \/ UNCHANGED <<queue, sending, fifo>>
    BY <1>8, ReadLeaves DEF LineInv, SendsOne
  <2>2. CASE UNCHANGED queue /\ sending.n = 0 /\ fifo # <<>> /\ fifo' = Tail(fifo)
    <3>1. n = Head(fifo).n
      BY <1>1, <1>2, <1>3, <2>2, InTail
    <3>2. CASE IF Head(fifo).key \in Modifiers THEN HandleModifier(Head(fifo))
               ELSE HandleKey(Head(fifo))
      BY <1>1, <1>2, <1>8, <2>2, <3>1, <3>2, ReadComesTo, ReadHasBranch
    <3> QED
      BY <1>4, <1>5, <1>8, <3>2, ReadLeaves
  <2> QED
    BY <1>5, <2>1, <2>2
<1>9. CASE Send \/ Resend
  <2>1. ~Sent
    <3> SUFFICES ASSUME Sent PROVE FALSE
      OBVIOUS
    <3>1. In(n, queue) \/ n = sending.n => In(n, queue')
      BY <1>3, InAppend DEF Sent
    <3> QED
      BY <1>1, <1>2, <1>9, <3>1, SendLeaves
  <2>2. pc = "resend" => ~(Len(queue) >= QueueSize)
    BY KeyboardAssumption DEF Accounted, TypeOK
  <2> QED
    BY <1>5, <1>9, <2>1, <2>2, SendLeaves
<1>10. CASE DropOldest
  <2>1. queue # <<>> /\ queue' = Tail(queue) /\ UNCHANGED <<fifo, sending>> /\ pc = "drop"
    <3>1. queue = <<>> => UNCHANGED <<queue, sending, fifo>>
      BY <1>10, DropLeaves
    <3> QED
      BY <1>1, <1>2, <1>10, <3>1, DropLeaves
  <2>2. n = Head(queue).n
    BY <1>1, <1>2, <1>3, <2>1, InTail
  <2>3. Head(queue) = queue[1] /\ 1 \in 1..Len(queue)
    BY <1>3, <2>1, TailType
  <2>4. Before(Head(queue), sending) /\ sending.n # 0
    BY <2>1, <2>3 DEF LineInv, Ordered, Accounted
  <2> QED
    BY <2>1, <2>2, <2>4 DEF Before
<1>11. CASE ReadCb
  <2>1. CASE queue # <<>> /\ queue' = Tail(queue) /\ lastKey' = Head(queue)
    BY <1>1, <1>2, <1>3, <1>11, <2>1, InTail, ReadCbLeaves
  <2> QED
    BY <1>5, <1>11, <2>1, ReadCbLeaves
<1>12. CASE UNCHANGED vars
  BY <1>5, <1>12 DEF vars, deviceVars, lvglVars, drainVars
<1> QED
  BY <1>5, <1>6, <1>7, <1>8, <1>9, <1>10, <1>11, <1>12, PollingLeaves
  DEF Next, KeyboardTask, Drain, Polling

\* A key with a meaning is lost only where the code drops it: from a full queue, by
\* the bus or the keyboard, or in a configuration; never in a poll, which clears the
\* status after it has counted the events.
THEOREM KeysVanishNowhereElse == Spec => NothingVanishes
<1> DEFINE Inv == TypeOK /\ Control /\ LineInv /\ Accounted
<1>1. Init => Control /\ LineInv /\ Accounted
  BY DEF Init, Control, ConfigureSteps, LineInv, Ordered, Counted, SendsOne, Before, NoKey, Accounted
<1>2. TypeOK /\ Control /\ LineInv /\ Accounted /\ [Next]_vars => (Control /\ LineInv /\ Accounted)'
  BY ControlStep, LineStep, AccountedStep
<1>3. TypeOK /\ TypeOK' /\ Control /\ LineInv /\ Accounted /\ [Next]_vars
        => [\A n \in OnTheWay \ OnTheWay' :
              \/ n = lastKey'.n
              \/ failures' # failures
              \/ pc \in ConfigureSteps
              \/ pc = "drop" /\ queue # <<>> /\ n = Head(queue).n /\ n < sending.n
              \/ fifo # <<>> /\ Head(fifo).n = n /\ Head(fifo).key = "blank"]_vars
  BY VanishStep
<1> QED
  BY <1>1, <1>2, <1>3, KeyboardTypeCorrect, PTL DEF Spec, NothingVanishes

===============================================================================
