------------------------------ MODULE Keyboard ------------------------------
(***************************************************************************)
(* The Tab5 keyboard: a device on I2C, the task tab5_kbd that configures   *)
(* and polls it, and the LVGL task that takes the keys.                    *)
(*                                                                         *)
(* The task reads the interrupt status and the number of events, reads the *)
(* events one by one, turns presses into LVGL keys with the modifiers it   *)
(* tracks itself, and clears the status.  The user types meanwhile, so any *)
(* two register accesses have the device's own steps between them.  The    *)
(* keys go through a FreeRTOS queue to tab5_keyboard_read_cb, which reports *)
(* a press and, at its next call, the release.                             *)
(*                                                                         *)
(* The interrupt only ends the 20 ms wait early: the task polls with or    *)
(* without it, and the wait is not modelled.                               *)
(***************************************************************************)
EXTENDS Naturals, Sequences, SequencesExt

CONSTANTS
  Keys,        \* the keys of the user, other than the modifiers: see AllKeys
  MaxEvents,   \* kTab5KeyboardMaxEvents (32)
  QueueSize,   \* kTab5KeyboardQueueSize (96)
  LostAfter,   \* failed polls before the keyboard counts as lost (5)
  Faults,      \* what may go wrong: see FaultNames
  MaxFailures, \* bound: how often
  MaxTaps,     \* bound: keys tapped
  MaxShifts    \* bound: modifiers pressed or released

\* A letter, a key with another symbol on the symbol layer, one with a name, and
\* one that means nothing.
AllKeys == {"q", "semicolon", "enter", "blank"}
Modifiers == {"sym", "aa"}

\* "i2c": an access to the bus fails; "unplug": the keyboard is taken off, and may
\* be put back; "garbage": the length of a character event is out of range.
FaultNames == {"i2c", "unplug", "garbage"}

ASSUME KeyboardAssumption ==
  /\ Keys \subseteq AllKeys
  /\ MaxEvents \in Nat \ {0} /\ QueueSize \in Nat \ {0} /\ LostAfter \in Nat \ {0}
  /\ Faults \subseteq FaultNames
  /\ MaxFailures \in Nat /\ MaxTaps \in Nat /\ MaxShifts \in Nat

VARIABLES
  plugged,  \* the device answers on the bus
  mode,     \* the device's mode register
  fifo,     \* the device's events
  status,   \* the device's interrupt status
  held,     \* the modifiers the user holds down
  taps,     \* how many of the MaxTaps
  shifts,   \* how many of the MaxShifts
  pc,       \* where the task is: see Steps
  flags,    \* drain's local `status'
  left,     \* drain's event_count, less the events read
  sending,  \* the key enqueue_tab5_keyboard_key is called with
  ready,    \* g_tab5_keyboard_ready
  errors,   \* g_tab5_keyboard_i2c_error_count
  shown,    \* g_keyboard_status
  active,   \* g_tab5_keyboard_sym_active, g_tab5_keyboard_aa_active
  queue,    \* key_queue
  lastKey,  \* last_key
  releasePending, \* release_pending
  unsure,   \* history: the modifiers of which an event was lost or never made, or
            \* that a configuration has forgotten while they were active
  failures  \* how many of the MaxFailures

deviceVars == <<plugged, mode, fifo, status>>
userVars   == <<held, taps, shifts>>
drainVars  == <<flags, left, sending>>
driverVars == <<ready, errors, shown, active>>
lvglVars   == <<queue, lastKey, releasePending>>
vars == <<deviceVars, userVars, pc, drainVars, driverVars, lvglVars, unsure, failures>>

Modes == {"Key", "Hid", "Char"}
Shown == {"Wait", "Ready", "Input", "Lost"}

\* configure: "probe" to "clear"; drain: "status" to "done".
ConfigureSteps == {"probe", "hid", "flush1", "clear1", "key", "interrupt", "flush", "clear"}
Steps == ConfigureSteps \cup
  {"status", "count", "recount", "events", "length", "send", "drop", "resend", "done"}

None == "none"

Fault(name) ==
  /\ name \in Faults
  /\ failures < MaxFailures
  /\ failures' = failures + 1

-------------------------------------------------------------------------------
(* From keys to LVGL keys *)

BaseMap   == [q |-> "q", semicolon |-> ";", enter |-> "Enter", blank |-> None]
SymbolMap == [BaseMap EXCEPT !.semicolon = ":"]

\* raw_key_to_lvgl_key
RawKey(key, layer) ==
  LET base == IF "sym" \in layer THEN SymbolMap[key] ELSE BaseMap[key]
  IN  IF "aa" \in layer /\ base = "q" THEN "Q" ELSE base

\* hid_key_to_lvgl_key
HidKey(key, layer) ==
  IF "aa" \notin layer THEN BaseMap[key]
  ELSE [BaseMap EXCEPT !.q = "Q", !.semicolon = ":"][key]

\* char_event_to_lvgl_key: a character is its own key, a name that of its key, and
\* any other text none; the device has applied its own layers.
CharKey(key, layer) == RawKey(key, layer)

Meaning(m, key, layer) == IF m = "Hid" THEN HidKey(key, layer) ELSE RawKey(key, layer)

\* A key on its way to LVGL, with what the user meant by it.
LvglKey(n, key, meant) == [n |-> n, key |-> key, meant |-> meant, sure |-> unsure = {}]
NoKey == [n |-> 0, key |-> None, meant |-> None, sure |-> TRUE]

-------------------------------------------------------------------------------
(* The device and the user *)

Event(key, down, n) == [key |-> key, down |-> down, n |-> n, layer |-> held]

\* A modifier is an event of its own in Key mode only.
Shift(m) ==
  /\ shifts < MaxShifts
  /\ shifts' = shifts + 1
  /\ held' = IF m \in held THEN held \ {m} ELSE held \cup {m}
  /\ \/ /\ plugged /\ mode = "Key"
        /\ fifo' = Append(fifo, Event(m, m \notin held, 0))
        /\ status' = status \cup {"Key"}
        /\ UNCHANGED unsure
     \/ /\ ~plugged \/ mode # "Key"
        /\ unsure' = unsure \cup {m}
        /\ UNCHANGED <<fifo, status>>
  /\ UNCHANGED <<plugged, mode, taps, pc, drainVars, driverVars, lvglVars, failures>>

\* The release of a key is an event in Key and Hid mode.
Tap(key) ==
  /\ plugged /\ taps < MaxTaps
  /\ taps' = taps + 1
  /\ LET down == Event(key, TRUE, taps + 1)
         up   == Event(key, FALSE, 0)
     IN  fifo' = fifo \o (IF mode = "Char" THEN <<down>> ELSE <<down, up>>)
  /\ status' = status \cup {mode}
  /\ UNCHANGED <<plugged, mode, held, shifts, pc, drainVars, driverVars, lvglVars,
                 unsure, failures>>

\* The modifiers of which there are events in the device.
Pressed == {fifo[i].key : i \in DOMAIN fifo} \cap Modifiers

Unplug ==
  /\ plugged /\ Fault("unplug")
  /\ plugged' = FALSE
  /\ fifo' = <<>> /\ status' = {}
  /\ unsure' = unsure \cup Pressed
  /\ UNCHANGED <<mode, userVars, pc, drainVars, driverVars, lvglVars>>

\* Which mode it starts in is up to its firmware.
Plug ==
  /\ ~plugged
  /\ plugged' = TRUE
  /\ mode' \in Modes
  /\ UNCHANGED <<fifo, status, userVars, pc, drainVars, driverVars, lvglVars, unsure,
                 failures>>

-------------------------------------------------------------------------------
(* The bus *)

BusWorks == plugged /\ UNCHANGED failures
BusFails == (~plugged /\ UNCHANGED failures) \/ Fault("i2c")

\* A change of the mode empties the device's queue, as writing 0 to the event
\* count does.
Flush(m) ==
  /\ mode' = m
  /\ fifo' = <<>>
  /\ unsure' = unsure \cup Pressed

SetMode(m) == IF m = mode THEN UNCHANGED <<mode, fifo, unsure>> ELSE Flush(m)
KeepDevice == UNCHANGED <<deviceVars, unsure>>

-------------------------------------------------------------------------------
(* configure_tab5_keyboard_device *)

Goto(step) == pc' = step

\* A write whose result is not looked at.
TryWrite(here, there, Effect) ==
  /\ pc = here /\ Goto(there)
  /\ \/ BusWorks /\ Effect
     \/ BusFails /\ KeepDevice
  /\ UNCHANGED <<plugged, userVars, drainVars, driverVars, lvglVars>>

\* An access that ends the configuration if it fails.
MustAccess(here, there, Effect) ==
  /\ pc = here
  /\ \/ BusWorks /\ Effect /\ Goto(there) /\ UNCHANGED shown
     \/ BusFails /\ KeepDevice /\ Goto("probe") /\ shown' = "Wait"
  /\ UNCHANGED <<plugged, userVars, drainVars, ready, errors, active, lvglVars>>

ClearStatus == status' = {} /\ UNCHANGED <<mode, fifo, unsure>>

Probe      == MustAccess("probe", "hid", KeepDevice)
EnterHid   == TryWrite("hid", "flush1", SetMode("Hid") /\ UNCHANGED status)
FlushHid   == TryWrite("flush1", "clear1", Flush(mode) /\ UNCHANGED status)
ClearHid   == TryWrite("clear1", "key", ClearStatus)
EnterKey   == MustAccess("key", "interrupt", SetMode("Key") /\ UNCHANGED status)
Interrupts == MustAccess("interrupt", "flush", KeepDevice)
FlushKey   == TryWrite("flush", "clear", Flush(mode) /\ UNCHANGED status)

\* The last write, and the state the driver starts with.
Configured ==
  /\ pc = "clear" /\ Goto("status")
  /\ \/ BusWorks /\ status' = {}
     \/ BusFails /\ UNCHANGED status
  /\ ready' = TRUE /\ errors' = 0 /\ shown' = "Ready"
  /\ active' = {}
  /\ unsure' = unsure \cup active
  /\ UNCHANGED <<plugged, mode, fifo, userVars, drainVars, lvglVars>>

Configure ==
  \/ Probe \/ EnterHid \/ FlushHid \/ ClearHid \/ EnterKey \/ Interrupts \/ FlushKey
  \/ Configured

-------------------------------------------------------------------------------
(* drain_tab5_keyboard_events *)

\* The next iteration of tab5_keyboard_task.
Leave == Goto(IF ready' THEN "status" ELSE "probe")

\* Any failure but the first leaves the events, and the status, to the next poll.
GiveUp ==
  /\ BusFails /\ KeepDevice
  /\ UNCHANGED <<drainVars, driverVars>>
  /\ Leave

\* Mutant of ReadStatus: the failed polls are not counted.
ReadStatusUncounted ==
  /\ pc = "status"
  /\ \/ /\ BusWorks
        /\ flags' = status
        /\ Goto("count")
     \/ /\ BusFails
        /\ UNCHANGED <<ready, flags>>
        /\ Leave
  /\ KeepDevice
  /\ UNCHANGED <<ready, errors, shown, userVars, left, sending, active, lvglVars>>

ReadStatus ==
  /\ pc = "status"
  /\ \/ /\ BusWorks
        /\ flags' = status /\ errors' = 0
        /\ Goto("count")
        /\ UNCHANGED <<ready, shown>>
     \/ /\ BusFails
        /\ errors' = errors + 1
        /\ \/ /\ errors' >= LostAfter
              /\ ready' = FALSE /\ shown' = "Lost"
           \/ /\ errors' < LostAfter
              /\ UNCHANGED <<ready, shown>>
        /\ Leave
        /\ UNCHANGED flags
  /\ KeepDevice
  /\ UNCHANGED <<userVars, left, sending, active, lvglVars>>

\* The count is read a second time in Char and Hid mode.
ReadCount ==
  /\ pc \in {"count", "recount"}
  /\ \/ /\ BusWorks /\ KeepDevice
        /\ \/ /\ pc = "count" /\ flags \cap {"Char", "Hid"} # {}
              /\ Goto("recount")
              /\ UNCHANGED <<left, shown>>
           \/ /\ pc = "recount" \/ flags \cap {"Char", "Hid"} = {}
              /\ left' = IF Len(fifo) > MaxEvents THEN MaxEvents ELSE Len(fifo)
              /\ shown' = IF left' > 0 THEN "Input" ELSE shown
              /\ Goto("events")
        /\ UNCHANGED <<flags, sending, ready, errors, active>>
     \/ GiveUp
  /\ UNCHANGED <<userVars, lvglVars>>

\* Mutant of Branch: the events are read only when the status announces them.
BranchByStatus ==
  IF "Char" \in flags THEN "Char"
  ELSE IF "Hid" \in flags THEN "Hid"
  ELSE IF "Key" \in flags THEN "Key"
  ELSE None

\* Which register the loop reads.
Branch ==
  IF "Char" \in flags THEN "Char"
  ELSE IF "Hid" \in flags THEN "Hid"
  ELSE IF "Key" \in flags \/ left > 0 THEN "Key"
  ELSE None

\* The register of another mode than the device's reads as empty.
NoEvent == fifo = <<>> \/ mode # Branch

LoopEnds ==
  /\ pc = "events"
  /\ left = 0 \/ Branch = None
  /\ Goto("done")
  /\ KeepDevice
  /\ UNCHANGED <<userVars, drainVars, driverVars, lvglVars, failures>>

\* The length of a character event is read first; 0 means that there is none.
ReadLength ==
  /\ pc = "events" /\ left > 0 /\ Branch = "Char"
  /\ \/ /\ BusWorks
        /\ Goto(IF NoEvent THEN "done" ELSE "length")
        /\ KeepDevice
        /\ UNCHANGED <<drainVars, driverVars>>
     \/ /\ plugged /\ ~NoEvent /\ Fault("garbage")
        /\ ClearStatus /\ UNCHANGED plugged
        /\ UNCHANGED <<drainVars, driverVars>>
        /\ Leave
     \/ GiveUp
  /\ UNCHANGED <<userVars, lvglVars>>

\* Hands a key to enqueue_tab5_keyboard_key, or goes on with the next event.
Enqueue(lvglKey) ==
  \/ lvglKey.key # None /\ sending' = lvglKey /\ Goto("send")
  \/ lvglKey.key = None /\ sending' = NoKey /\ Goto("events")

\* Mutant of HandleModifier: a modifier stays on until the next configuration.
HandleModifierSticky(e) ==
  /\ active' = active \cup {e.key}
  /\ unsure' = unsure \ {e.key}
  /\ sending' = NoKey
  /\ Goto("events")

HandleModifier(e) ==
  /\ active' = IF e.down THEN active \cup {e.key} ELSE active \ {e.key}
  /\ unsure' = unsure \ {e.key}
  /\ sending' = NoKey
  /\ Goto("events")

HandleKey(e) ==
  /\ LET meant == Meaning(Branch, e.key, e.layer)
         key   == CASE Branch = "Key"  -> RawKey(e.key, active)
                    [] Branch = "Hid"  -> HidKey(e.key, e.layer)
                    [] Branch = "Char" -> CharKey(e.key, e.layer)
     IN  Enqueue(LvglKey(e.n, IF e.down THEN key ELSE None, meant))
  /\ UNCHANGED <<active, unsure>>

\* A read that fails may have taken the event out of the device.
ReadEvent ==
  /\ \/ pc = "events" /\ left > 0 /\ Branch \in {"Key", "Hid"}
     \/ pc = "length"
  /\ \/ /\ BusWorks /\ NoEvent
        /\ Goto("done")
        /\ KeepDevice
        /\ UNCHANGED <<drainVars, driverVars>>
     \/ /\ BusWorks /\ ~NoEvent
        /\ LET e == Head(fifo)
           IN  IF e.key \in Modifiers THEN HandleModifier(e) ELSE HandleKey(e)
        /\ fifo' = Tail(fifo)
        /\ left' = left - 1
        /\ UNCHANGED <<plugged, mode, status, flags, ready, errors, shown>>
     \/ GiveUp
     \/ /\ plugged /\ ~NoEvent /\ Fault("i2c")
        /\ fifo' = Tail(fifo)
        /\ unsure' = unsure \cup ({Head(fifo).key} \cap Modifiers)
        /\ UNCHANGED <<plugged, mode, status, drainVars, driverVars>>
        /\ Leave
  /\ UNCHANGED <<userVars, lvglVars>>

\* Mutant of Finish: the event count is cleared along with the status.
FinishFlushes ==
  /\ pc = "done"
  /\ \/ /\ flags = {}
        /\ KeepDevice /\ UNCHANGED failures
     \/ /\ flags # {} /\ BusWorks
        /\ Flush(mode) /\ status' = {} /\ UNCHANGED plugged
     \/ /\ flags # {} /\ BusFails
        /\ KeepDevice
  /\ UNCHANGED driverVars
  /\ Leave
  /\ UNCHANGED <<userVars, drainVars, lvglVars>>

\* A clear that fails is only logged: the status is read again.
Finish ==
  /\ pc = "done"
  /\ \/ /\ flags = {}
        /\ KeepDevice /\ UNCHANGED failures
     \/ /\ flags # {} /\ BusWorks
        /\ ClearStatus /\ UNCHANGED plugged
     \/ /\ flags # {} /\ BusFails
        /\ KeepDevice
  /\ UNCHANGED driverVars
  /\ Leave
  /\ UNCHANGED <<userVars, drainVars, lvglVars>>

-------------------------------------------------------------------------------
(* enqueue_tab5_keyboard_key: the reader may come between any two calls *)

Full == Len(queue) >= QueueSize

Sent ==
  /\ queue' = Append(queue, sending)
  /\ sending' = NoKey
  /\ Goto("events")

Send ==
  /\ pc = "send"
  /\ \/ ~Full /\ Sent
     \/ Full /\ Goto("drop") /\ UNCHANGED <<queue, sending>>
  /\ KeepDevice
  /\ UNCHANGED <<userVars, flags, left, driverVars, lastKey, releasePending, failures>>

DropOldest ==
  /\ pc = "drop" /\ Goto("resend")
  /\ queue' = IF queue = <<>> THEN queue ELSE Tail(queue)
  /\ KeepDevice
  /\ UNCHANGED <<userVars, drainVars, driverVars, lastKey, releasePending, failures>>

\* If there is still no room the new key is dropped.
Resend ==
  /\ pc = "resend"
  /\ \/ ~Full /\ Sent
     \/ Full /\ sending' = NoKey /\ Goto("events") /\ UNCHANGED queue
  /\ KeepDevice
  /\ UNCHANGED <<userVars, flags, left, driverVars, lastKey, releasePending, failures>>

Drain ==
  \/ ReadStatus \/ ReadCount \/ LoopEnds \/ ReadLength \/ ReadEvent \/ Finish
  \/ Send \/ DropOldest \/ Resend

-------------------------------------------------------------------------------
(* tab5_keyboard_read_cb, in the LVGL task *)

ReportRelease ==
  /\ releasePending
  /\ releasePending' = FALSE
  /\ UNCHANGED <<queue, lastKey>>

\* Mutant of ReportPress: the key is looked at and stays in the queue.
ReportPressPeeks ==
  /\ ~releasePending /\ queue # <<>>
  /\ lastKey' = Head(queue)
  /\ releasePending' = TRUE
  /\ UNCHANGED queue

ReportPress ==
  /\ ~releasePending /\ queue # <<>>
  /\ lastKey' = Head(queue)
  /\ queue' = Tail(queue)
  /\ releasePending' = TRUE

\* With nothing to report it reports last_key as released, again.
ReadCb ==
  /\ ReportRelease \/ ReportPress
  /\ UNCHANGED <<deviceVars, userVars, pc, drainVars, driverVars, unsure, failures>>

-------------------------------------------------------------------------------
\* initialize_tab5_keyboard_i2c_input, up to its call of configure.
Init ==
  /\ plugged \in BOOLEAN /\ mode \in Modes
  /\ fifo = <<>> /\ status = {}
  /\ held = {} /\ taps = 0 /\ shifts = 0
  /\ pc = "probe" /\ flags = {} /\ left = 0 /\ sending = NoKey
  /\ ready = FALSE /\ errors = 0 /\ shown = "Wait" /\ active = {}
  /\ queue = <<>> /\ lastKey = NoKey /\ releasePending = FALSE
  /\ unsure = {} /\ failures = 0

KeyboardTask == Configure \/ Drain

User ==
  \/ \E m \in Modifiers : Shift(m)
  \/ \E key \in Keys : Tap(key)
  \/ Unplug
  \/ Plug

Next == KeyboardTask \/ ReadCb \/ User

Spec == Init /\ [][Next]_vars

\* tab5_kbd is a task of its own that always becomes ready again, and the LVGL
\* timer calls the callback again and again.
FairSpec == Spec /\ WF_vars(KeyboardTask) /\ WF_vars(ReadCb)

-------------------------------------------------------------------------------
(* Properties *)

LvglKeyType ==
  LET keys == {RawKey(k, l) : k \in Keys, l \in SUBSET Modifiers}
              \cup {HidKey(k, l) : k \in Keys, l \in SUBSET Modifiers} \cup {None}
  IN  [n : 0..MaxTaps, key : keys, meant : keys, sure : BOOLEAN]

EventType ==
  [key : Keys \cup Modifiers, down : BOOLEAN, n : 0..MaxTaps, layer : SUBSET Modifiers]

\* Every variable has its type, and the queue of the keys and the number of failed
\* polls stay within their limits.
TypeOK ==
  /\ plugged \in BOOLEAN /\ mode \in Modes
  /\ fifo \in Seq(EventType) /\ status \subseteq Modes
  /\ held \subseteq Modifiers /\ taps \in 0..MaxTaps /\ shifts \in 0..MaxShifts
  /\ pc \in Steps /\ flags \subseteq Modes /\ left \in 0..MaxEvents
  /\ sending \in LvglKeyType
  /\ ready \in BOOLEAN /\ errors \in 0..LostAfter /\ shown \in Shown
  /\ active \subseteq Modifiers
  /\ queue \in Seq(LvglKeyType) /\ Len(queue) <= QueueSize
  /\ lastKey \in LvglKeyType /\ releasePending \in BOOLEAN
  /\ unsure \subseteq Modifiers /\ failures \in 0..MaxFailures

\* What is on its way to LVGL, the oldest first, and the numbers of the keys in it;
\* what is no press of a key has the number 0.
Line     == queue \o <<sending>> \o fifo
OnTheWay == {Line[i].n : i \in 1..Len(Line)} \ {0}

\* A press that comes later in the line has the larger number.
Before(earlier, later) == later.n # 0 => earlier.n < later.n

\* A key is reported in the layer the user held when it was pressed, however long
\* it waited in the device and whatever modifiers were pressed or released since,
\* unless the event of a modifier was lost, the user changed one while the device
\* was taken off or in another mode, or a configuration forgot one that was held
\* (configure_tab5_keyboard_device starts with none).
RightKey ==
  \A k \in Range(queue) \cup {sending, lastKey} : k.sure => k.key = k.meant

\* Keys are reported in the order they were pressed and none is reported twice.
TypedInOrder ==
  \A i, j \in 1..Len(Line) :
    /\ i < j => Before(Line[i], Line[j])
    /\ Before(lastKey, Line[j])

\* A key that has a meaning is lost only when it is the oldest of a queue that was
\* full when another came, when the bus fails or the keyboard is taken off, or
\* when the device is configured: never in the polling itself, although the
\* status is cleared after the events were counted.
NothingVanishes ==
  [][\A n \in OnTheWay \ OnTheWay' :
       \/ n = lastKey'.n
       \/ failures' # failures
       \/ pc \in ConfigureSteps
       \/ pc = "drop" /\ queue # <<>> /\ n = Head(queue).n /\ n < sending.n
       \/ fifo # <<>> /\ Head(fifo).n = n /\ Head(fifo).key = "blank"]_vars

\* Once the keyboard stays plugged in, in the mode it was configured for, every key
\* is reported to LVGL and released again, those that came while the status was
\* being cleared and those beyond the 32 of a poll included.
KeysArrive ==
  <>[](plugged /\ mode = "Key") => <>[](OnTheWay = {} /\ ~releasePending)

\* What the status line says of the keyboard ends up true: it is found when it is
\* plugged in, and waited for when it is gone.
StatusSettles ==
  /\ <>[]plugged  => <>[](ready /\ shown \in {"Ready", "Input"})
  /\ <>[]~plugged => <>[](~ready /\ shown = "Wait")

===============================================================================
