---------------------------- MODULE MainLoopProofs ----------------------------
(***************************************************************************)
(* Proofs about the main loop, for every set of credentials, every policy, *)
(* every duration and every number of failures and edits: the bits, the    *)
(* stream and the spacing of the reconnects.                               *)
(***************************************************************************)
EXTENDS MainLoop, TLAPS, WellFoundedInduction

(* Delays *)

\* A delay is never beyond the limit of its policy, and at least its base.
LEMMA DelayBounds ==
  ASSUME NEW policy \in {WifiPolicy, QuotePolicy},
         NEW current \in 0..policy.max
  PROVE  NextDelay(policy, current) \in 0..policy.max
<1>1. /\ policy.base \in Nat /\ policy.max \in Nat /\ policy.factor \in Nat
      /\ policy = Policy(policy.base, policy.max, policy.factor)
  BY LoopAssumption
<1>2. policy.max = Greatest(policy.base, policy.max)
  BY <1>1 DEF Policy
<1>3. policy.base <= policy.max
  BY <1>1, <1>2 DEF Greatest
<1>4. current * policy.factor \in Nat
  BY <1>1
<1>5. Least(current * policy.factor, policy.max) \in 0..policy.max
  BY <1>1, <1>4 DEF Least
<1>6. QED
  BY <1>1, <1>3, <1>5 DEF NextDelay

LEMMA LeftBounds ==
  ASSUME NEW limit \in Nat, NEW time \in 0..limit, NEW passed \in Nat
  PROVE  Left(time, passed) \in 0..limit
BY DEF Left

Horizon == Greatest(QuotePolicy.max, kLiveSnapshotRefreshMs)

LEMMA Limits ==
  /\ WifiPolicy.max \in Nat \ {0} /\ QuotePolicy.max \in Nat /\ Horizon \in Nat
  /\ QuotePolicy.max <= Horizon /\ kLiveSnapshotRefreshMs <= Horizon
<1>1. ASSUME NEW policy \in {WifiPolicy, QuotePolicy}
      PROVE  policy.max \in Nat \ {0}
  <2>1. /\ policy.base \in Nat \ {0} /\ policy.max \in Nat
        /\ policy = Policy(policy.base, policy.max, policy.factor)
    BY LoopAssumption
  <2>2. policy.max = Greatest(policy.base, policy.max)
    BY <2>1 DEF Policy
  <2>3. QED
    BY <2>1, <2>2 DEF Greatest
<1>2. QED
  BY <1>1, LoopAssumption DEF Horizon, Greatest

LEMMA ElapseType ==
  ASSUME TypeOK, NEW passed \in Nat, Elapse(passed)
  PROVE  since' \in 0..WifiPolicy.max
BY Limits DEF TypeOK, Elapse, Least

-------------------------------------------------------------------------------
(* Types *)

\* The parts of TypeOK that belong together.
DriverType ==
  /\ station \in {"idle", "connecting", "connected"}
  /\ events \in Seq({"GOT_IP", "DISCONNECTED"})
  /\ handling \in {"none", "GOT_IP", "DISCONNECTED"}
  /\ wifiBits \subseteq {"Connected", "Failed"}
  /\ woken \subseteq {"Connected", "Failed"}

FlagType ==
  /\ radio \in BOOLEAN /\ wifiStarted \in BOOLEAN /\ wifiOnline \in BOOLEAN
  /\ connected \in BOOLEAN /\ alive \in BOOLEAN /\ streamOnline \in BOOLEAN
  /\ wifiSet \in BOOLEAN /\ saved \in BOOLEAN

DelayType ==
  /\ wifiBackoff \in 0..WifiPolicy.max
  /\ wifiIn \in 0..WifiPolicy.max
  /\ quoteBackoff \in 0..QuotePolicy.max
  /\ quoteIn \in 0..Horizon
  /\ attempts \in 0..WifiPolicy.max /\ since \in 0..WifiPolicy.max

ActionType ==
  /\ pending \in Actions /\ taken \in Actions
  /\ peer \in Credentials \cup {NoCredentials}
  /\ credentials \in Credentials \cup {NoCredentials}

ControlType ==
  /\ main \in MainStates /\ after \in {"sleep", "manual", "reset"}
  /\ failures \in Nat /\ edits \in Nat

LEMMA TypeParts == TypeOK <=> DriverType /\ FlagType /\ DelayType /\ ActionType /\ ControlType
BY DEF TypeOK, DriverType, FlagType, DelayType, ActionType, ControlType, Horizon

LEMMA FaultType ==
  ASSUME ControlType, NEW name, Fault(name) \/ NoFault
  PROVE  failures' \in Nat /\ edits' \in Nat
BY DEF ControlType, Fault, NoFault, boundVars

LEMMA StartReturnsType ==
  ASSUME ControlType, NEW ok, StartReturns(ok)
  PROVE  main' \in MainStates /\ after' = after
BY DEF ControlType, StartReturns, MainStates

LEMMA ScheduleType ==
  ASSUME DelayType, NEW passed \in Nat,
         ScheduleFailed(passed) \/ ScheduleRefreshed(passed)
  PROVE  quoteBackoff' \in 0..QuotePolicy.max /\ quoteIn' \in 0..Horizon
<1>1. CASE ScheduleRefreshed(passed)
  <2>1. kLiveSnapshotRefreshMs \in 0..Horizon
    BY Limits, LoopAssumption
  <2>2. Left(kLiveSnapshotRefreshMs, passed) \in 0..Horizon
    BY <2>1, Limits, LeftBounds
  <2>3. QED
    BY <1>1, <2>2, Limits DEF ScheduleRefreshed
<1>2. CASE ScheduleFailed(passed)
  <2>1. NextDelay(QuotePolicy, quoteBackoff) \in 0..QuotePolicy.max
    BY DelayBounds DEF DelayType
  <2>2. quoteBackoff' \in 0..QuotePolicy.max
    BY <1>2, <2>1 DEF ScheduleFailed, DelayType
  <2>3. Left(quoteBackoff', passed) \in 0..Horizon
    <3>1. quoteBackoff' \in 0..Horizon
      BY <2>2, Limits
    <3>2. QED
      BY <3>1, Limits, LeftBounds
  <2>4. QED
    BY <1>2, <2>2, <2>3, Limits DEF ScheduleFailed
<1>3. QED
  BY <1>1, <1>2

LEMMA DriverTypeStep ==
  ASSUME DriverType, Next
  PROVE  DriverType'
<1> USE DEF DriverType, driverVars, bitVars, wifiVars, streamVars, scheduleVars, settingVars,
            actionVars, controlVars, boundVars, historyVars
<1>1. CASE Driver
  BY <1>1 DEF Driver, Associate, Rejected, Dropped, Post
<1>2. CASE EventTask
  <2>1. CASE BeginEvent
    <3>1. events # <<>> /\ handling' = Head(events) /\ events' = Tail(events)
      BY <2>1 DEF BeginEvent
    <3>2. /\ Head(events) \in {"GOT_IP", "DISCONNECTED"}
          /\ Tail(events) \in Seq({"GOT_IP", "DISCONNECTED"})
      BY <3>1
    <3>3. QED
      BY <1>2, <2>1, <3>1, <3>2 DEF EventTask, BeginEvent
  <2>2. CASE EndEvent
    <3>1. wifiBits' \subseteq {"Connected", "Failed"}
      BY <2>2 DEF EndEvent, Raised
    <3>2. QED
      BY <1>2, <2>2, <3>1 DEF EventTask, EndEvent
  <2>3. QED
    BY <1>2, <2>1, <2>2 DEF EventTask
<1>3. CASE StreamEnds \/ Queue \/ Sleep \/ TakeActions \/ HandleSetup \/ HandleManualRefresh
        \/ HandleReset
  BY <1>3 DEF StreamEnds, Queue, Sleep, TakeActions, HandleSetup, HandleManualRefresh,
              HandleReset
<1>4. CASE StartWifi \/ Join \/ JoinTimesOut \/ Joined \/ StartFailed
  BY <1>4 DEF StartWifi, Join, JoinTimesOut, Joined, StartFailed
<1>5. CASE RestartStation
  BY <1>5 DEF RestartStation, Post
<1>6. CASE StartRefresh \/ RefreshSucceeds \/ RefreshFails
  BY <1>6 DEF StartRefresh, RefreshSucceeds, RefreshFails
<1>7. CASE LookAtWifi \/ LookForFailure \/ ClearFailed \/ Reconnect \/ ReconnectFails
  BY <1>7 DEF LookAtWifi, LookForFailure, ClearFailed, Reconnect, ReconnectFails
<1>8. CASE HandleQuoteStreamState \/ RunScheduledRefresh
  BY <1>8 DEF HandleQuoteStreamState, RunScheduledRefresh
<1>9. QED
  BY <1>1, <1>2, <1>3, <1>4, <1>5, <1>6, <1>7, <1>8 DEF Next, MainTask

LEMMA FlagTypeStep ==
  ASSUME FlagType, ActionType, Next
  PROVE  FlagType'
<1> USE DEF FlagType, driverVars, bitVars, wifiVars, streamVars, scheduleVars, settingVars,
            actionVars, controlVars, boundVars, historyVars
<1>1. CASE Driver
  BY <1>1 DEF Driver, Associate, Rejected, Dropped
<1>2. CASE EventTask \/ StreamEnds \/ Queue
  BY <1>2 DEF EventTask, StreamEnds, Queue
<1>3. CASE Sleep \/ TakeActions \/ HandleManualRefresh
  BY <1>3 DEF Sleep, TakeActions, HandleManualRefresh
<1>4. CASE HandleSetup
  <2>1. ASSUME NEW setup \in taken.setup
        PROVE  setup.wifi \in BOOLEAN
    BY DEF ActionType, Actions, Setup
  <2>2. ASSUME NEW setup \in taken.setup, SaveSetup(setup)
        PROVE  /\ wifiSet' \in BOOLEAN /\ saved' \in BOOLEAN /\ connected' \in BOOLEAN /\ alive' \in BOOLEAN
               /\ streamOnline' \in BOOLEAN
    BY <2>1, <2>2 DEF SaveSetup, DropStream
  <2>3. QED
    BY <1>4, <2>2 DEF HandleSetup
<1>5. CASE HandleReset
  BY <1>5 DEF HandleReset, ResetSettings, DropStream
<1>6. CASE StartWifi \/ RestartStation \/ Join \/ JoinTimesOut \/ Joined \/ StartFailed
  BY <1>6 DEF StartWifi, RestartStation, Join, JoinTimesOut, Joined, StartFailed
<1>7. CASE StartRefresh \/ RefreshSucceeds \/ RefreshFails
  BY <1>7 DEF StartRefresh, RefreshSucceeds, RefreshFails, DropStream
<1>8. CASE LookAtWifi
  BY <1>8 DEF LookAtWifi, DropStream
<1>9. CASE LookForFailure \/ ClearFailed \/ Reconnect \/ ReconnectFails
  BY <1>9 DEF LookForFailure, ClearFailed, Reconnect, ReconnectFails
<1>10. CASE HandleQuoteStreamState \/ RunScheduledRefresh
  BY <1>10 DEF HandleQuoteStreamState, RunScheduledRefresh
<1>11. QED
  BY <1>1, <1>2, <1>3, <1>4, <1>5, <1>6, <1>7, <1>8, <1>9, <1>10 DEF Next, MainTask

LEMMA DelayTypeStep ==
  ASSUME TypeOK, DelayType, Next
  PROVE  DelayType'
<1> USE DEF driverVars, bitVars, wifiVars, streamVars, scheduleVars, settingVars,
            actionVars, controlVars, boundVars, historyVars
<1> DEFINE WifiDelay == wifiBackoff' \in 0..WifiPolicy.max /\ wifiIn' \in 0..WifiPolicy.max
           QuoteDelay == quoteBackoff' \in 0..QuotePolicy.max /\ quoteIn' \in 0..Horizon
           History == attempts' \in 0..WifiPolicy.max /\ since' \in 0..WifiPolicy.max
<1>0. ASSUME NEW passed \in Nat
      PROVE  Left(wifiIn, passed) \in 0..WifiPolicy.max /\ Left(quoteIn, passed) \in 0..Horizon
  BY Limits, LeftBounds DEF DelayType
<1>1. CASE Driver \/ EventTask \/ StreamEnds \/ Queue
  BY <1>1 DEF Driver, EventTask, StreamEnds, Queue, DelayType
<1>2. CASE Sleep
  <2>1. WifiDelay /\ QuoteDelay
    BY <1>2, <1>0 DEF Sleep, DelayType
  <2>2. History
    BY <1>2, ElapseType DEF Sleep, DelayType
  <2>3. QED
    BY <2>1, <2>2 DEF DelayType
<1>3. CASE TakeActions \/ HandleSetup \/ HandleManualRefresh
  BY <1>3 DEF TakeActions, HandleSetup, HandleManualRefresh, DelayType
<1>4. CASE HandleReset
  BY <1>4, Limits DEF HandleReset, ResetSettings, DelayType
<1>5. CASE StartWifi \/ RestartStation \/ Join \/ JoinTimesOut \/ StartFailed
  BY <1>5 DEF StartWifi, RestartStation, Join, JoinTimesOut, StartFailed, DelayType
<1>6. CASE Joined
  <2>1. PICK passed \in Durations :
          /\ quoteIn' = Left(quoteIn, passed)
          /\ Elapse(passed)
          /\ \/ wifiBackoff' = 0 /\ wifiIn' = 0 /\ attempts' = 0
             \/ wifiIn' = Left(wifiIn, passed) /\ UNCHANGED <<wifiBackoff, attempts>>
    BY <1>6 DEF Joined
  <2>2. passed \in Nat
    BY LoopAssumption
  <2>3. QuoteDelay
    BY <1>6, <2>1, <2>2, <1>0 DEF Joined, DelayType
  <2>4. WifiDelay
    BY <2>1, <2>2, <1>0, Limits DEF DelayType
  <2>5. History
    BY <2>1, <2>2, ElapseType, Limits DEF DelayType
  <2>6. QED
    BY <2>3, <2>4, <2>5 DEF DelayType
<1>7. CASE StartRefresh
  <2>1. QuoteDelay
    BY <1>7, ScheduleType DEF StartRefresh, DelayType
  <2>2. QED
    BY <1>7, <2>1 DEF StartRefresh, DelayType
<1>8. CASE RefreshSucceeds \/ RefreshFails
  <2>1. PICK passed \in Durations :
          /\ ScheduleFailed(passed) \/ ScheduleRefreshed(passed)
          /\ wifiIn' = Left(wifiIn, passed)
          /\ Elapse(passed)
    BY <1>8 DEF RefreshSucceeds, RefreshFails
  <2>2. passed \in Nat
    BY LoopAssumption
  <2>3. QuoteDelay
    BY <2>1, <2>2, ScheduleType
  <2>4. UNCHANGED <<wifiBackoff, attempts>>
    BY <1>8 DEF RefreshSucceeds, RefreshFails
  <2>5. WifiDelay /\ History
    BY <2>1, <2>2, <2>4, <1>0, ElapseType DEF DelayType
  <2>6. QED
    BY <2>3, <2>5 DEF DelayType
<1>9. CASE LookAtWifi
  BY <1>9, Limits DEF LookAtWifi, DelayType
<1>10. CASE LookForFailure \/ ClearFailed \/ ReconnectFails
  BY <1>10 DEF LookForFailure, ClearFailed, ReconnectFails, DelayType
<1>11. CASE Reconnect
  <2>1. NextDelay(WifiPolicy, wifiBackoff) \in 0..WifiPolicy.max
    BY DelayBounds DEF DelayType
  <2>2. WifiDelay
    BY <1>11, <2>1 DEF Reconnect
  <2>3. History
    BY <1>11, Limits DEF Reconnect, DelayType, Least
  <2>4. QuoteDelay
    BY <1>11 DEF Reconnect, DelayType
  <2>5. QED
    BY <2>2, <2>3, <2>4 DEF DelayType
<1>12. CASE HandleQuoteStreamState \/ RunScheduledRefresh
  BY <1>12, Limits DEF HandleQuoteStreamState, RunScheduledRefresh, DelayType
<1>13. QED
  BY <1>1, <1>2, <1>3, <1>4, <1>5, <1>6, <1>7, <1>8, <1>9, <1>10, <1>11, <1>12
  DEF Next, MainTask

LEMMA ActionTypeStep ==
  ASSUME ActionType, Next
  PROVE  ActionType'
<1> USE DEF driverVars, bitVars, wifiVars, streamVars, scheduleVars, settingVars,
            actionVars, controlVars, boundVars, historyVars
<1>1. CASE Driver \/ EventTask \/ StreamEnds
  BY <1>1 DEF Driver, EventTask, StreamEnds, ActionType
<1>2. CASE Queue
  <2>1. pending' \in Actions
    <3>1. ASSUME NEW s \in Setup
          PROVE  [pending EXCEPT !.setup = {s}] \in Actions
      BY DEF ActionType, Actions
    <3>2. [pending EXCEPT !.refresh = TRUE] \in Actions
      BY DEF ActionType, Actions
    <3>3. [pending EXCEPT !.reset = TRUE] \in Actions
      BY DEF ActionType, Actions
    <3>4. QED
      BY <1>2, <3>1, <3>2, <3>3 DEF Queue
  <2>2. QED
    BY <1>2, <2>1 DEF Queue, ActionType
<1>3. CASE Sleep \/ HandleManualRefresh
  BY <1>3 DEF Sleep, HandleManualRefresh, ActionType
<1>4. CASE TakeActions
  <2>1. NoActions \in Actions
    BY DEF NoActions, Actions
  <2>2. QED
    BY <1>4, <2>1 DEF TakeActions, ActionType
<1>5. CASE HandleSetup
  <2>1. ASSUME NEW setup \in taken.setup
        PROVE  setup.credentials \in Credentials \cup {NoCredentials}
    BY DEF ActionType, Actions, Setup
  <2>2. credentials' \in Credentials \cup {NoCredentials} /\ peer' = peer
    BY <1>5, <2>1 DEF HandleSetup, SaveSetup, DropStream, ActionType
  <2>3. QED
    BY <1>5, <2>2 DEF HandleSetup, ActionType
<1>6. CASE HandleReset
  BY <1>6 DEF HandleReset, ResetSettings, DropStream, ActionType
<1>7. CASE StartWifi \/ RestartStation \/ Join \/ JoinTimesOut \/ Joined \/ StartFailed
  BY <1>7 DEF StartWifi, RestartStation, Join, JoinTimesOut, Joined, StartFailed, ActionType
<1>8. CASE StartRefresh \/ RefreshSucceeds \/ RefreshFails
  BY <1>8 DEF StartRefresh, RefreshSucceeds, RefreshFails, DropStream, ActionType
<1>9. CASE LookAtWifi
  BY <1>9 DEF LookAtWifi, DropStream, ActionType
<1>10. CASE LookForFailure \/ ClearFailed \/ Reconnect \/ ReconnectFails
  BY <1>10 DEF LookForFailure, ClearFailed, Reconnect, ReconnectFails, ActionType
<1>11. CASE HandleQuoteStreamState \/ RunScheduledRefresh
  BY <1>11 DEF HandleQuoteStreamState, RunScheduledRefresh, ActionType
<1>12. QED
  BY <1>1, <1>2, <1>3, <1>4, <1>5, <1>6, <1>7, <1>8, <1>9, <1>10, <1>11 DEF Next, MainTask

LEMMA ControlTypeStep ==
  ASSUME ControlType, Next
  PROVE  ControlType'
<1> USE DEF driverVars, bitVars, wifiVars, streamVars, scheduleVars, settingVars,
            actionVars, controlVars, boundVars, historyVars
<1>1. CASE Driver \/ StreamEnds
  BY <1>1 DEF Driver, Associate, Rejected, Dropped, StreamEnds, Fault, NoFault, ControlType
<1>2. CASE EventTask
  BY <1>2 DEF EventTask, BeginEvent, EndEvent, ControlType, MainStates
<1>3. CASE Queue
  BY <1>3 DEF Queue, ControlType
<1>4. CASE Sleep \/ TakeActions
  BY <1>4 DEF Sleep, TakeActions, Goto, ControlType, MainStates
<1>5. CASE HandleSetup
  BY <1>5 DEF HandleSetup, SaveSetup, Goto, Fault, NoFault, ControlType, MainStates
<1>6. CASE HandleManualRefresh
  BY <1>6 DEF HandleManualRefresh, Goto, ControlType, MainStates
<1>7. CASE HandleReset
  BY <1>7 DEF HandleReset, ResetSettings, Goto, Fault, NoFault, ControlType, MainStates
<1>8. CASE StartWifi
  <2>1. failures' \in Nat /\ edits' \in Nat
    BY <1>8, FaultType DEF StartWifi
  <2>2. main' \in MainStates /\ after' = after
    BY <1>8, StartReturnsType DEF StartWifi, Goto, MainStates
  <2>3. QED
    BY <2>1, <2>2 DEF ControlType
<1>9. CASE RestartStation \/ Join \/ JoinTimesOut
  BY <1>9 DEF RestartStation, Join, JoinTimesOut, Goto, Fault, NoFault, ControlType, MainStates
<1>10. CASE Joined \/ StartFailed
  <2>1. main' \in MainStates /\ after' = after
    BY <1>10, StartReturnsType DEF Joined, StartFailed, Goto, MainStates
  <2>2. QED
    BY <1>10, <2>1 DEF Joined, StartFailed, ControlType
<1>11. CASE StartRefresh \/ RefreshSucceeds \/ RefreshFails
  BY <1>11 DEF StartRefresh, RefreshSucceeds, RefreshFails, Fault, NoFault, ControlType, MainStates
<1>12. CASE LookAtWifi \/ LookForFailure \/ ClearFailed \/ Reconnect \/ ReconnectFails
  BY <1>12 DEF LookAtWifi, LookForFailure, ClearFailed, Reconnect, ReconnectFails, Goto, Fault,
               NoFault, ControlType, MainStates
<1>13. CASE HandleQuoteStreamState \/ RunScheduledRefresh
  BY <1>13 DEF HandleQuoteStreamState, RunScheduledRefresh, Goto, ControlType, MainStates
<1>14. QED
  BY <1>1, <1>2, <1>3, <1>4, <1>5, <1>6, <1>7, <1>8, <1>9, <1>10, <1>11, <1>12, <1>13
  DEF Next, MainTask

\* Every variable of the loop keeps its type; the delays and what is left of them
\* stay within the limits of their policies.
THEOREM TypeCorrect == Spec => []TypeOK
<1>1. Init => TypeOK
  <2> SUFFICES ASSUME Init PROVE TypeOK
    OBVIOUS
  <2>1. DriverType /\ DelayType
    BY Limits DEF Init, DriverType, DelayType
  <2>2. FlagType
    BY DEF Init, FlagType
  <2>3. NoActions \in Actions
    BY DEF NoActions, Actions
  <2>4. ActionType /\ ControlType
    BY <2>3 DEF Init, ActionType, ControlType, MainStates
  <2>5. QED
    BY <2>1, <2>2, <2>4, TypeParts
<1>2. TypeOK /\ [Next]_vars => TypeOK'
  <2> SUFFICES ASSUME TypeOK, [Next]_vars PROVE TypeOK'
    OBVIOUS
  <2>1. DriverType /\ FlagType /\ DelayType /\ ActionType /\ ControlType
    BY TypeParts
  <2>2. CASE Next
    <3>1. DriverType' /\ FlagType' /\ DelayType' /\ ActionType' /\ ControlType'
      BY <2>1, <2>2, DriverTypeStep, FlagTypeStep, DelayTypeStep, ActionTypeStep, ControlTypeStep
    <3>2. QED
      BY <3>1
      DEF TypeOK, DriverType, FlagType, DelayType, ActionType, ControlType, Horizon
  <2>3. CASE UNCHANGED vars
    BY <2>3 DEF vars, TypeOK, driverVars, bitVars, wifiVars, streamVars, scheduleVars,
                settingVars, actionVars, controlVars, boundVars, historyVars
  <2>4. QED
    BY <2>2, <2>3
<1>3. QED
  BY <1>1, <1>2, PTL DEF Spec

-------------------------------------------------------------------------------
(* The bits of the Wi-Fi *)

(***************************************************************************)
(* Why the bits can be trusted although events arrive late, main clears    *)
(* bits at any moment, and both bits may be set at once.  The last event   *)
(* posted tells the station's state.  Once it is handled, its bit is set,  *)
(* and only two steps clear that bit again: the start of a new connection, *)
(* after which main restarts the station, and the start of another         *)
(* attempt, after which main calls esp_wifi_connect or sets the bit.       *)
(***************************************************************************)
LastEventTells ==
  /\ events # <<>> => (events[Len(events)] = "GOT_IP" <=> station = "connected")
  /\ events = <<>> /\ handling # "none" => (handling = "GOT_IP" <=> station = "connected")

HandlerHasCleared == handling = "DISCONNECTED" => ~Online

StartedFirst ==
  station # "idle" \/ main \in {"join", "wifiFailed", "wifiClear", "reconnect"} => wifiStarted

BitFollowsStation ==
  EventsHandled =>
    /\ Online => station = "connected"
    /\ main # "restart" /\ station = "connected" => Online

IdleStationIsAsked ==
  EventsHandled /\ station = "idle" /\ wifiStarted =>
    "Failed" \in wifiBits \/ main \in {"restart", "join", "failed", "reconnect", "refail"}

JoinFromIdle == main = "join" => station = "idle"

LinkInv ==
  /\ LastEventTells /\ HandlerHasCleared /\ StartedFirst /\ JoinFromIdle
  /\ BitFollowsStation /\ IdleStationIsAsked

LEMMA DriverLink ==
  ASSUME DriverType, LinkInv, Driver
  PROVE  LinkInv'
<1> USE DEF driverVars, bitVars, wifiVars, streamVars, controlVars
<1>1. PICK event \in {"GOT_IP", "DISCONNECTED"} :
        /\ events' = Append(events, event)
        /\ event = "GOT_IP" <=> station' = "connected"
        /\ station # "idle"
  BY DEF Driver, Associate, Rejected, Dropped, Post
<1>2. UNCHANGED <<handling, wifiBits, wifiStarted, main>>
  BY DEF Driver, Associate, Rejected, Dropped
<1>3. events' # <<>> /\ events'[Len(events')] = event
  BY <1>1 DEF DriverType
<1>4. LastEventTells' /\ BitFollowsStation' /\ IdleStationIsAsked'
  BY <1>1, <1>3 DEF LastEventTells, BitFollowsStation, IdleStationIsAsked, EventsHandled
<1>5. HandlerHasCleared' /\ StartedFirst' /\ JoinFromIdle'
  BY <1>1, <1>2 DEF LinkInv, HandlerHasCleared, StartedFirst, JoinFromIdle, Online
<1>6. QED
  BY <1>4, <1>5 DEF LinkInv

LEMMA BeginEventLink ==
  ASSUME DriverType, LinkInv, EventTask, BeginEvent
  PROVE  LinkInv'
<1> USE DEF wifiVars, streamVars, controlVars
<1>1. /\ handling = "none" /\ events # <<>>
      /\ handling' = Head(events) /\ events' = Tail(events)
      /\ wifiBits' = wifiBits \ {Cleared(handling')}
      /\ UNCHANGED <<station, wifiStarted, main>>
  BY DEF EventTask, BeginEvent
<1>2. handling' \in {"GOT_IP", "DISCONNECTED"}
  BY <1>1 DEF DriverType
<1>3. CASE Len(events) = 1
  <2>1. events' = <<>> /\ Head(events) = events[Len(events)]
    BY <1>1, <1>3 DEF DriverType
  <2>2. QED
    BY <1>1, <1>2, <2>1
    DEF LinkInv, LastEventTells, HandlerHasCleared, StartedFirst, JoinFromIdle, BitFollowsStation,
        IdleStationIsAsked, EventsHandled, Online, Cleared
<1>4. CASE Len(events) # 1
  <2>1. events' # <<>> /\ events'[Len(events')] = events[Len(events)]
    <3>0. events \in Seq({"GOT_IP", "DISCONNECTED"}) /\ events # <<>>
      BY <1>1 DEF DriverType
    <3>1. Len(events) \in Nat /\ Len(events) > 1
      <4>1. Len(events) \in Nat /\ Len(events) # 0
        BY <3>0
      <4>2. QED
        BY <4>1, <1>4
    <3>2. Len(events') = Len(events) - 1
      BY <1>1 DEF DriverType
    <3>3. events'[Len(events) - 1] = events[Len(events)]
      BY <1>1, <3>1 DEF DriverType
    <3>4. QED
      BY <3>1, <3>2, <3>3
  <2>2. QED
    BY <1>1, <1>2, <2>1
    DEF LinkInv, LastEventTells, HandlerHasCleared, StartedFirst, JoinFromIdle, BitFollowsStation,
        IdleStationIsAsked, EventsHandled, Online, Cleared
<1>5. QED
  BY <1>3, <1>4

LEMMA EndEventLink ==
  ASSUME DriverType, LinkInv, EventTask, EndEvent
  PROVE  LinkInv'
<1> USE DEF wifiVars, streamVars, controlVars
<1>1. /\ handling \in {"GOT_IP", "DISCONNECTED"} /\ handling' = "none"
      /\ wifiBits' = wifiBits \cup {Raised(handling)}
      /\ UNCHANGED <<station, events, wifiStarted>>
      /\ main' = main \/ (main = "joining" /\ main' = "joined")
  BY DEF EventTask, EndEvent, DriverType
<1>2. LastEventTells' /\ HandlerHasCleared' /\ StartedFirst' /\ JoinFromIdle'
  BY <1>1 DEF LinkInv, LastEventTells, HandlerHasCleared, StartedFirst, JoinFromIdle
<1>3. events = <<>> => (handling = "GOT_IP" <=> station = "connected")
  BY <1>1 DEF LinkInv, LastEventTells
<1>4. BitFollowsStation' /\ IdleStationIsAsked'
  BY <1>1, <1>3
  DEF LinkInv, BitFollowsStation, IdleStationIsAsked, HandlerHasCleared, EventsHandled, Online,
      Raised
<1>5. QED
  BY <1>2, <1>4 DEF LinkInv

\* Steps that leave the station, its events and the bits alone.
LEMMA QuietStepLink ==
  ASSUME LinkInv, UNCHANGED <<station, events, handling, wifiBits, wifiStarted>>,
         main \notin {"restart", "join", "failed", "reconnect", "refail"},
         main' # "join",
         main' \in {"wifiFailed", "wifiClear", "reconnect"} => wifiStarted
  PROVE  LinkInv'
BY DEF LinkInv, LastEventTells, HandlerHasCleared, StartedFirst, JoinFromIdle, BitFollowsStation,
       IdleStationIsAsked, EventsHandled, Online

LEMMA MainTaskLink ==
  ASSUME TypeOK, LinkInv, MainTask
  PROVE  LinkInv'
<1> USE DEF driverVars, bitVars, wifiVars, streamVars, scheduleVars, settingVars,
            actionVars, controlVars, boundVars, historyVars
<1> DEFINE Loop == {"sleep", "actions", "setup", "manual", "reset", "start", "refresh",
                    "calling", "wifi", "stream", "scheduled", "joining", "joined"}
<1>1. CASE \/ Sleep \/ TakeActions \/ HandleSetup \/ HandleManualRefresh \/ HandleReset
           \/ StartRefresh \/ RefreshSucceeds \/ RefreshFails
           \/ HandleQuoteStreamState \/ RunScheduledRefresh
  <2>1. UNCHANGED <<station, events, handling, wifiBits, wifiStarted>> /\ main \in Loop
    BY <1>1 DEF Sleep, TakeActions, HandleSetup, HandleManualRefresh, HandleReset, StartRefresh,
                RefreshSucceeds, RefreshFails, HandleQuoteStreamState, RunScheduledRefresh
  <2>2. main' \in Loop
    <3>1. CASE Sleep \/ TakeActions \/ HandleSetup
      BY <3>1 DEF Sleep, TakeActions, HandleSetup, SaveSetup, Goto
    <3>2. CASE HandleManualRefresh \/ HandleReset
      BY <3>2 DEF HandleManualRefresh, HandleReset, Goto
    <3>3. CASE StartRefresh \/ RefreshSucceeds \/ RefreshFails
      BY <3>3 DEF StartRefresh, RefreshSucceeds, RefreshFails, TypeOK
    <3>4. CASE HandleQuoteStreamState \/ RunScheduledRefresh
      BY <3>4 DEF HandleQuoteStreamState, RunScheduledRefresh, Goto
    <3>5. QED
      BY <1>1, <3>1, <3>2, <3>3, <3>4
  <2>3. QED
    BY <2>1, <2>2, QuietStepLink
<1>2. CASE StartWifi
  <2>1. CASE main' = "restart"
    <3>1. /\ UNCHANGED <<station, events, handling, wifiStarted>>
          /\ wifiBits' = {} \/ UNCHANGED wifiBits
          /\ main = "start"
      BY <1>2 DEF StartWifi
    <3>2. QED
      BY <2>1, <3>1
      DEF LinkInv, LastEventTells, HandlerHasCleared, StartedFirst, JoinFromIdle, BitFollowsStation,
          IdleStationIsAsked, EventsHandled, Online
  <2>2. CASE main' # "restart"
    <3>1. UNCHANGED <<station, events, handling, wifiBits, wifiStarted>> /\ main = "start"
      BY <1>2, <2>2 DEF StartWifi, Goto
    <3>2. main' \in Loop
      BY <1>2, <2>2 DEF StartWifi, StartReturns, Goto, TypeOK
    <3>3. QED
      BY <3>1, <3>2, QuietStepLink
  <2>3. QED
    BY <2>1, <2>2
<1>3. CASE RestartStation
  <2>1. /\ wifiStarted' /\ main = "restart" /\ main' = "join"
        /\ UNCHANGED <<handling, wifiBits>>
    BY <1>3 DEF RestartStation, Goto
  <2>2. CASE station # "idle"
    <3>1. station' = "idle" /\ events' = Append(events, "DISCONNECTED")
      BY <1>3, <2>2 DEF RestartStation, Post, LinkInv, StartedFirst
    <3>2. events' # <<>> /\ events'[Len(events')] = "DISCONNECTED"
      BY <3>1 DEF TypeOK
    <3>3. QED
      BY <2>1, <3>1, <3>2
      DEF LinkInv, LastEventTells, HandlerHasCleared, StartedFirst, JoinFromIdle, BitFollowsStation,
          IdleStationIsAsked, EventsHandled, Online
  <2>3. CASE station = "idle"
    <3>1. UNCHANGED <<station, events>>
      BY <1>3, <2>3 DEF RestartStation
    <3>2. QED
      BY <2>1, <2>3, <3>1
      DEF LinkInv, LastEventTells, HandlerHasCleared, StartedFirst, JoinFromIdle, BitFollowsStation,
          IdleStationIsAsked, EventsHandled, Online
  <2>4. QED
    BY <2>2, <2>3
<1>4. CASE Join
  <2>1. /\ UNCHANGED <<events, handling, wifiBits, wifiStarted>> /\ main = "join"
        /\ \/ station' = "connecting" /\ main' \in {"joining", "joined"}
           \/ station' = station /\ main' = "failed"
    BY <1>4 DEF Join, Goto
  <2>2. station = "idle"
    BY <2>1 DEF LinkInv, JoinFromIdle
  <2>3. QED
    BY <2>1, <2>2
    DEF LinkInv, LastEventTells, HandlerHasCleared, StartedFirst, JoinFromIdle,
        BitFollowsStation, IdleStationIsAsked, EventsHandled, Online
<1>5. CASE JoinTimesOut \/ Joined \/ LookAtWifi \/ LookForFailure
  <2>1. /\ UNCHANGED <<station, events, handling, wifiBits, wifiStarted>>
        /\ main \in {"joining", "joined", "wifi", "wifiFailed"}
    BY <1>5 DEF JoinTimesOut, Joined, LookAtWifi, LookForFailure
  <2>2. main' # "join" /\ main' # "reconnect"
    BY <1>5 DEF JoinTimesOut, Joined, StartReturns, LookAtWifi, LookForFailure, Goto, TypeOK
  <2>3. main' \in {"wifiFailed", "wifiClear"} => wifiStarted
    <3>1. CASE JoinTimesOut \/ Joined
      BY <3>1 DEF JoinTimesOut, Joined, StartReturns, Goto, TypeOK
    <3>2. CASE LookAtWifi
      BY <3>2 DEF LookAtWifi, Goto
    <3>3. CASE LookForFailure
      BY <3>3 DEF LookForFailure, Goto, LinkInv, StartedFirst
    <3>4. QED
      BY <1>5, <3>1, <3>2, <3>3
  <2>4. QED
    BY <2>1, <2>2, <2>3, QuietStepLink
<1>6. CASE StartFailed \/ ReconnectFails
  <2>1. /\ UNCHANGED <<station, events, handling, wifiStarted>>
        /\ wifiBits' = wifiBits \cup {"Failed"}
        /\ main \in {"failed", "refail"}
        /\ main' \in Loop
    BY <1>6 DEF StartFailed, ReconnectFails, StartReturns, Goto, TypeOK
  <2>2. QED
    BY <2>1
    DEF LinkInv, LastEventTells, HandlerHasCleared, StartedFirst, JoinFromIdle,
        BitFollowsStation, IdleStationIsAsked, EventsHandled, Online
<1>7. CASE ClearFailed
  <2>1. /\ UNCHANGED <<station, events, handling, wifiStarted>>
        /\ wifiBits' = wifiBits \ {"Failed"}
        /\ main = "wifiClear" /\ main' = "reconnect"
    BY <1>7 DEF ClearFailed, Goto
  <2>2. QED
    BY <2>1
    DEF LinkInv, LastEventTells, HandlerHasCleared, StartedFirst, JoinFromIdle,
        BitFollowsStation, IdleStationIsAsked, EventsHandled, Online
<1>8. CASE Reconnect
  <2>1. /\ UNCHANGED <<events, handling, wifiBits, wifiStarted>> /\ main = "reconnect"
        /\ \/ main' = "stream" /\ station' = IF station = "idle" THEN "connecting" ELSE station
           \/ main' = "refail" /\ station' = station
    BY <1>8 DEF Reconnect, Goto
  <2>2. QED
    BY <2>1
    DEF LinkInv, LastEventTells, HandlerHasCleared, StartedFirst, JoinFromIdle,
        BitFollowsStation, IdleStationIsAsked, EventsHandled, Online
<1>9. QED
  BY <1>1, <1>2, <1>3, <1>4, <1>5, <1>6, <1>7, <1>8 DEF MainTask

LEMMA LinkStep ==
  ASSUME TypeOK, LinkInv, [Next]_vars
  PROVE  LinkInv'
<1> USE DEF driverVars, bitVars, wifiVars, streamVars, scheduleVars, settingVars,
            actionVars, controlVars, boundVars, historyVars
<1>1. DriverType
  BY TypeParts
<1>2. CASE Driver
  BY <1>1, <1>2, DriverLink
<1>3. CASE EventTask
  BY <1>1, <1>3, BeginEventLink, EndEventLink DEF EventTask
<1>4. CASE StreamEnds \/ Queue \/ UNCHANGED vars
  <2>1. UNCHANGED <<station, events, handling, wifiBits, wifiStarted, main>>
    BY <1>4 DEF StreamEnds, Queue, vars
  <2>2. QED
    BY <2>1
    DEF LinkInv, LastEventTells, HandlerHasCleared, StartedFirst, JoinFromIdle,
        BitFollowsStation, IdleStationIsAsked, EventsHandled, Online
<1>5. CASE MainTask
  BY <1>5, MainTaskLink
<1>6. QED
  BY <1>2, <1>3, <1>4, <1>5 DEF Next

THEOREM LinkCorrect == Spec => []LinkInv
<1>1. Init => LinkInv
  BY DEF Init, LinkInv, LastEventTells, HandlerHasCleared, StartedFirst, JoinFromIdle,
         BitFollowsStation, IdleStationIsAsked, Online
<1>2. TypeOK /\ LinkInv /\ [Next]_vars => LinkInv'
  BY LinkStep
<1>3. QED
  BY <1>1, <1>2, TypeCorrect, PTL DEF Spec

\* Whatever the event task and the driver do in between: once they have caught up,
\* the bit that the main task goes by tells whether there is a connection.
THEOREM BitCorrect == Spec => []BitTellsConnection
<1>1. LinkInv => BitTellsConnection
  BY DEF LinkInv, BitFollowsStation, BitTellsConnection
<1>2. QED
  BY <1>1, LinkCorrect, PTL

\* Clearing the bit that asks for another attempt never loses a failure.
THEOREM FailureKept == Spec => []FailureIsNotLost
<1>1. LinkInv => FailureIsNotLost
  BY DEF LinkInv, IdleStationIsAsked, FailureIsNotLost
<1>2. QED
  BY <1>1, LinkCorrect, PTL

-------------------------------------------------------------------------------
(* The stream and the settings *)

\* Whoever changes the credentials has dropped the stream, and a refresh makes a
\* new one with the credentials of that moment.
THEOREM StreamCorrect == Spec => []StreamUsesCredentials
<1> USE DEF driverVars, bitVars, wifiVars, streamVars, scheduleVars, settingVars,
            actionVars, controlVars, boundVars, historyVars, StreamUsesCredentials
<1>1. Init => StreamUsesCredentials
  BY DEF Init
<1>2. StreamUsesCredentials /\ [Next]_vars => StreamUsesCredentials'
  <2> SUFFICES ASSUME StreamUsesCredentials, [Next]_vars
               PROVE  StreamUsesCredentials'
    OBVIOUS
  <2>1. CASE Driver \/ EventTask \/ StreamEnds \/ Queue \/ UNCHANGED vars
    BY <2>1 DEF Driver, EventTask, StreamEnds, Queue, vars
  <2>2. CASE Sleep \/ TakeActions \/ HandleManualRefresh
    BY <2>2 DEF Sleep, TakeActions, HandleManualRefresh
  <2>3. CASE HandleSetup
    <3>1. ASSUME NEW setup \in taken.setup, SaveSetup(setup)
          PROVE  connected' => peer' = credentials'
      <4>1. CASE DropStream
        BY <4>1 DEF DropStream
      <4>2. CASE setup.credentials = credentials /\ UNCHANGED streamVars
        BY <3>1, <4>2 DEF SaveSetup
      <4>3. QED
        BY <3>1, <4>1, <4>2 DEF SaveSetup
    <3>2. QED
      BY <2>3, <3>1 DEF HandleSetup
  <2>4. CASE HandleReset
    BY <2>4 DEF HandleReset, ResetSettings, DropStream
  <2>5. CASE StartWifi \/ RestartStation \/ Join \/ JoinTimesOut \/ Joined \/ StartFailed
    BY <2>5 DEF StartWifi, RestartStation, Join, JoinTimesOut, Joined, StartFailed
  <2>6. CASE StartRefresh \/ RefreshSucceeds \/ RefreshFails
    BY <2>6 DEF StartRefresh, RefreshSucceeds, RefreshFails, DropStream
  <2>7. CASE LookAtWifi
    BY <2>7 DEF LookAtWifi, DropStream
  <2>8. CASE LookForFailure \/ ClearFailed \/ Reconnect \/ ReconnectFails
    BY <2>8 DEF LookForFailure, ClearFailed, Reconnect, ReconnectFails
  <2>9. CASE HandleQuoteStreamState \/ RunScheduledRefresh
    BY <2>9 DEF HandleQuoteStreamState, RunScheduledRefresh
  <2>10. QED
    BY <2>1, <2>2, <2>3, <2>4, <2>5, <2>6, <2>7, <2>8, <2>9 DEF Next, MainTask
<1>3. QED
  BY <1>1, <1>2, PTL DEF Spec

-------------------------------------------------------------------------------
(* The backoff of the reconnects *)

\* Induction over the natural numbers, the hypothesis as the set of those for which
\* it holds.
LEMMA SetInduction ==
  ASSUME NEW T, 0 \in T, \A n \in Nat : n \in T => n + 1 \in T
  PROVE  Nat \subseteq T
<1> SUFFICES ASSUME Nat \ T # {} PROVE FALSE
  OBVIOUS
<1>1. PICK n \in Nat \ T : \A m \in Nat \ T : <<m, n>> \notin OpToRel(<, Nat)
  <2> HIDE DEF OpToRel
  <2>1. Nat \ T \subseteq Nat
    OBVIOUS
  <2> QED
    BY <2>1, NatLessThanWellFounded, WFMin
<1>2. \A m \in Nat \ T : ~(m < n)
  BY <1>1 DEF OpToRel
<1>3. n # 0 /\ n - 1 \in Nat /\ n - 1 < n /\ (n - 1) + 1 = n
  OBVIOUS
<1> QED
  BY <1>2, <1>3

\* g has the first delays, up to the n-th.
Grows(g, n) ==
  g = [k \in 0..n |-> IF k = 0 THEN WifiPolicy.base ELSE g[k - 1] * WifiPolicy.factor]

LEMMA GrowsOnce ==
  ASSUME NEW n \in Nat, NEW f, Grows(f, n)
  PROVE  \E g : Grows(g, n + 1)
<1> DEFINE g == [k \in 0..n + 1 |-> IF k = n + 1 THEN f[n] * WifiPolicy.factor ELSE f[k]]
<1>1. ASSUME NEW k \in 0..n + 1
      PROVE  g[k] = IF k = 0 THEN WifiPolicy.base ELSE g[k - 1] * WifiPolicy.factor
  <2>1. CASE k = 0
    BY <2>1 DEF Grows
  <2>2. CASE k # 0 /\ k # n + 1
    <3>1. k \in 0..n /\ k - 1 \in 0..n /\ k - 1 # n + 1 /\ k - 1 \in 0..n + 1
      BY <2>2
    <3>2. g[k] = f[k] /\ g[k - 1] = f[k - 1]
      BY <2>2, <3>1
    <3>3. f[k] = f[k - 1] * WifiPolicy.factor
      BY <2>2, <3>1 DEF Grows
    <3> QED
      BY <2>2, <3>2, <3>3
  <2>3. CASE k = n + 1
    <3>1. n + 1 # 0 /\ n \in 0..n + 1 /\ n # n + 1 /\ (n + 1) - 1 = n
      OBVIOUS
    <3>2. g[n + 1] = f[n] * WifiPolicy.factor /\ g[n] = f[n]
      BY <3>1
    <3> QED
      BY <2>3, <3>1, <3>2
  <2> QED
    BY <2>1, <2>2, <2>3
<1>2. g = [k \in 0..n + 1 |-> g[k]]
  OBVIOUS
<1> HIDE DEF g
<1>3. Grows(g, n + 1)
  BY <1>1, <1>2 DEF Grows
<1> QED
  BY <1>3

\* The recursive function of MainLoop exists.
LEMMA GrownIs ==
  /\ Grown[0] = WifiPolicy.base
  /\ \A n \in 1..WifiPolicy.max : Grown[n] = Grown[n - 1] * WifiPolicy.factor
<1> DEFINE T == {n \in Nat : \E g : Grows(g, n)}
<1>1. 0 \in T
  <2>1. Grows([k \in 0..0 |-> WifiPolicy.base], 0)
    BY DEF Grows
  <2> QED
    BY <2>1
<1>2. ASSUME NEW n \in Nat, n \in T
      PROVE  n + 1 \in T
  BY <1>2, GrowsOnce
<1> HIDE DEF T
<1>3. Nat \subseteq T
  BY <1>1, <1>2, SetInduction
<1>4. WifiPolicy.max \in Nat
  BY Limits
<1>5. \E g : Grows(g, WifiPolicy.max)
  BY <1>3, <1>4 DEF T
<1>6. Grows(Grown, WifiPolicy.max)
  BY <1>5 DEF Grown, Grows
<1> HIDE DEF Grown
<1> QED
  BY <1>4, <1>6 DEF Grows


LEMMA GrownType == \A n \in 0..WifiPolicy.max : Grown[n] \in Nat \ {0}
<1>1. WifiPolicy.base \in Nat \ {0} /\ WifiPolicy.factor \in Nat \ {0} /\ WifiPolicy.max \in Nat
  <2>1. /\ WifiPolicy.base \in Nat \ {0} /\ WifiPolicy.max \in Nat /\ WifiPolicy.factor \in Nat
        /\ WifiPolicy = Policy(WifiPolicy.base, WifiPolicy.max, WifiPolicy.factor)
    BY LoopAssumption
  <2>2. WifiPolicy.factor = Greatest(WifiPolicy.factor, 1)
    BY <2>1 DEF Policy
  <2> QED
    BY <2>1, <2>2 DEF Greatest
<1> DEFINE T == {n \in Nat : n <= WifiPolicy.max => Grown[n] \in Nat \ {0}}
<1>2. 0 \in T
  BY <1>1, GrownIs
<1>3. ASSUME NEW n \in Nat, n \in T
      PROVE  n + 1 \in T
  <2> SUFFICES ASSUME n + 1 <= WifiPolicy.max
               PROVE  Grown[n + 1] \in Nat \ {0}
    OBVIOUS
  <2>1. n + 1 \in 1..WifiPolicy.max /\ (n + 1) - 1 = n /\ n <= WifiPolicy.max
    BY <1>1
  <2>2. Grown[n + 1] = Grown[n] * WifiPolicy.factor
    BY <2>1, GrownIs
  <2>3. Grown[n] \in Nat \ {0}
    BY <1>3, <2>1
  <2>4. \A a, b \in Nat \ {0} : a * b \in Nat \ {0}
    OBVIOUS
  <2> QED
    BY <1>1, <2>2, <2>3, <2>4
<1> HIDE DEF T
<1>4. Nat \subseteq T
  BY <1>2, <1>3, SetInduction
<1> QED
  BY <1>1, <1>4 DEF T

\* The n-th delay.
Nth(n) == Least(Grown[n - 1], WifiPolicy.max)

\* A delay that is the n-th or more is followed by one that is the next or more.
LEMMA NextIsNth ==
  ASSUME NEW n \in 1..WifiPolicy.max, NEW delay \in 0..WifiPolicy.max, delay >= Nth(n)
  PROVE  /\ NextDelay(WifiPolicy, delay) >= delay
         /\ n + 1 <= WifiPolicy.max => NextDelay(WifiPolicy, delay) >= Nth(n + 1)
<1> DEFINE factor == WifiPolicy.factor
           max == WifiPolicy.max
           grown == Grown[n - 1]
<1>1. factor \in Nat \ {0} /\ max \in Nat \ {0}
  <2>1. /\ max \in Nat /\ factor \in Nat
        /\ WifiPolicy = Policy(WifiPolicy.base, max, factor)
    BY LoopAssumption
  <2>2. factor = Greatest(factor, 1)
    BY <2>1 DEF Policy
  <2> QED
    BY <2>1, <2>2, Limits DEF Greatest
<1>2. n - 1 \in 0..max /\ grown \in Nat \ {0}
  BY <1>1, GrownType
<1>3. n + 1 <= max => Grown[n] = grown * factor
  BY <1>1, GrownIs
<1>4. (n + 1) - 1 = n
  OBVIOUS
<1>5. NextDelay(WifiPolicy, delay) = Least(delay * factor, max) /\ delay > 0
  BY <1>1, <1>2 DEF NextDelay, Nth, Least
<1> HIDE DEF factor, max, grown
<1>6. \A a, b \in Nat : a >= b => a * factor >= b * factor
  <2> SUFFICES ASSUME NEW a \in Nat, NEW b \in Nat, a >= b
               PROVE  a * factor >= b * factor
    OBVIOUS
  <2>1. (a - b) * factor \in Nat /\ a * factor \in Nat /\ b * factor \in Nat
    BY <1>1
  <2>2. (a - b) * factor = a * factor - b * factor
    BY <1>1
  <2> QED
    BY <2>1, <2>2
<1>7. \A a \in Nat : a * factor >= a /\ a * factor \in Nat
  <2> SUFFICES ASSUME NEW a \in Nat
               PROVE  a * factor >= a /\ a * factor \in Nat
    OBVIOUS
  <2>1. a * (factor - 1) \in Nat /\ a * factor \in Nat
    BY <1>1
  <2>2. a * (factor - 1) = a * factor - a
    BY <1>1
  <2> QED
    BY <2>1, <2>2
<1>8. delay \in Nat /\ delay <= max /\ delay >= Least(grown, max)
  BY <1>1 DEF max, grown, Nth
<1>9. Least(delay * factor, max) >= delay
  BY <1>1, <1>7, <1>8 DEF Least
<1>10. Least(delay * factor, max) >= Least(grown * factor, max)
  BY <1>1, <1>2, <1>6, <1>7, <1>8 DEF Least
<1>11. n + 1 <= max => Nth(n + 1) = Least(grown * factor, max)
  BY <1>3, <1>4 DEF Nth, max
<1> QED
  BY <1>5, <1>9, <1>10, <1>11 DEF max

\* The delay is at least what the attempts in a row call for, and what is left of it
\* and what has passed make up the whole; who is about to connect has waited.
BackoffInv ==
  /\ attempts = 0 => wifiBackoff = 0
  /\ attempts > 0 => wifiBackoff >= Nth(attempts) /\ since + wifiIn >= wifiBackoff
  /\ main \in {"wifiClear", "reconnect"} => wifiIn = 0

\* Time passes for both alike.
LEMMA TimePasses ==
  ASSUME TypeOK, since + wifiIn >= wifiBackoff, NEW passed \in Nat,
         wifiIn' = Left(wifiIn, passed), Elapse(passed)
  PROVE  since' + wifiIn' >= wifiBackoff
<1>1. /\ wifiIn \in Nat /\ since \in Nat /\ WifiPolicy.max \in Nat /\ wifiBackoff \in Nat
      /\ wifiBackoff <= WifiPolicy.max
  BY Limits DEF TypeOK
<1>2. wifiIn' \in Nat /\ wifiIn' >= wifiIn - passed
  BY <1>1 DEF Left
<1>3. since' = WifiPolicy.max \/ since' = since + passed
  BY <1>1 DEF Elapse, Least
<1> QED
  BY <1>1, <1>2, <1>3

LEMMA BackoffStep ==
  ASSUME TypeOK, BackoffInv, Next
  PROVE  BackoffInv'
<1> USE DEF driverVars, bitVars, wifiVars, streamVars, scheduleVars, settingVars,
            actionVars, controlVars, boundVars, historyVars, Goto
<1>0. attempts \in Nat /\ wifiBackoff \in 0..WifiPolicy.max /\ wifiIn \in Nat /\ since \in Nat
  BY Limits DEF TypeOK
<1>1. CASE Driver \/ EventTask \/ StreamEnds \/ Queue
  <2>1. UNCHANGED <<wifiBackoff, wifiIn, attempts, since>>
    BY <1>1 DEF Driver, EventTask, StreamEnds, Queue
  <2>2. main' = main \/ main' \notin {"wifiClear", "reconnect"}
    BY <1>1 DEF Driver, EventTask, StreamEnds, Queue, BeginEvent, EndEvent
  <2> QED
    BY <2>1, <2>2 DEF BackoffInv
<1>2. CASE Sleep
  <2>1. attempts > 0 => since' + wifiIn' >= wifiBackoff
    BY <1>2, TimePasses DEF Sleep, BackoffInv
  <2> QED
    BY <1>2, <2>1 DEF Sleep, BackoffInv
<1>3. CASE TakeActions \/ HandleSetup \/ HandleManualRefresh
  BY <1>3 DEF TakeActions, HandleSetup, SaveSetup, HandleManualRefresh, BackoffInv
<1>4. CASE HandleReset
  BY <1>4 DEF HandleReset, BackoffInv
<1>5. CASE StartWifi \/ RestartStation \/ Join \/ JoinTimesOut \/ StartFailed
  <2>1. UNCHANGED <<wifiBackoff, wifiIn, attempts, since>>
    BY <1>5 DEF StartWifi, RestartStation, Join, JoinTimesOut, StartFailed
  <2>2. main' \notin {"wifiClear", "reconnect"}
    BY <1>5 DEF StartWifi, RestartStation, Join, JoinTimesOut, StartFailed, StartReturns, TypeOK
  <2> QED
    BY <2>1, <2>2 DEF BackoffInv
<1>6. CASE Joined
  <2>1. PICK passed \in Durations :
          /\ Elapse(passed)
          /\ \/ wifiBackoff' = 0 /\ wifiIn' = 0 /\ attempts' = 0
             \/ wifiIn' = Left(wifiIn, passed) /\ UNCHANGED <<wifiBackoff, attempts>>
    BY <1>6 DEF Joined
  <2>2. main' \notin {"wifiClear", "reconnect"}
    BY <1>6 DEF Joined, StartReturns, TypeOK
  <2>3. passed \in Nat
    BY LoopAssumption
  <2>4. CASE wifiBackoff' = 0 /\ wifiIn' = 0 /\ attempts' = 0
    BY <2>2, <2>4 DEF BackoffInv
  <2>5. CASE wifiIn' = Left(wifiIn, passed) /\ UNCHANGED <<wifiBackoff, attempts>>
    <3>1. attempts > 0 => since' + wifiIn' >= wifiBackoff
      BY <2>1, <2>3, <2>5, TimePasses DEF BackoffInv
    <3> QED
      BY <2>2, <2>5, <3>1 DEF BackoffInv
  <2> QED
    BY <2>1, <2>4, <2>5
<1>7. CASE StartRefresh
  BY <1>7 DEF StartRefresh, BackoffInv, TypeOK
<1>8. CASE RefreshSucceeds \/ RefreshFails
  <2>1. PICK passed \in Durations : wifiIn' = Left(wifiIn, passed) /\ Elapse(passed)
    BY <1>8 DEF RefreshSucceeds, RefreshFails
  <2>2. passed \in Nat
    BY LoopAssumption
  <2>3. UNCHANGED <<wifiBackoff, attempts>> /\ main' = after
    BY <1>8 DEF RefreshSucceeds, RefreshFails
  <2>4. attempts > 0 => since' + wifiIn' >= wifiBackoff
    BY <2>1, <2>2, TimePasses DEF BackoffInv
  <2> QED
    BY <2>3, <2>4 DEF BackoffInv, TypeOK
<1>9. CASE LookAtWifi
  BY <1>9 DEF LookAtWifi, BackoffInv
<1>10. CASE LookForFailure \/ ClearFailed \/ ReconnectFails
  BY <1>10 DEF LookForFailure, ClearFailed, ReconnectFails, BackoffInv
<1>11. CASE Reconnect
  <2> DEFINE next == NextDelay(WifiPolicy, wifiBackoff)
  <2>1. /\ wifiBackoff' = next /\ wifiIn' = next /\ since' = 0
        /\ attempts' = Least(attempts + 1, WifiPolicy.max)
        /\ main' \in {"stream", "refail"}
    BY <1>11 DEF Reconnect
  <2>2. next \in Nat /\ WifiPolicy.max \in Nat \ {0}
    BY <1>0, DelayBounds, Limits
  <2> HIDE DEF next
  <2>3. next >= Nth(attempts')
    <3>1. CASE attempts = 0
      <4>1. next = WifiPolicy.base
        BY <3>1 DEF next, NextDelay, BackoffInv
      <4>2. attempts' = 1 /\ 1 - 1 = 0
        BY <2>1, <2>2, <3>1 DEF Least
      <4>3. Nth(1) = Least(WifiPolicy.base, WifiPolicy.max)
        BY <4>2, GrownIs DEF Nth
      <4>4. WifiPolicy.base \in Nat
        BY LoopAssumption
      <4> QED
        BY <2>2, <4>1, <4>2, <4>3, <4>4 DEF Least
    <3>2. CASE attempts > 0
      <4>1. attempts \in 1..WifiPolicy.max /\ wifiBackoff >= Nth(attempts)
        BY <1>0, <3>2 DEF TypeOK, BackoffInv
      <4>2. /\ next >= wifiBackoff
            /\ attempts + 1 <= WifiPolicy.max => next >= Nth(attempts + 1)
        BY <1>0, <4>1, NextIsNth DEF next
      <4>3. CASE attempts + 1 <= WifiPolicy.max
        <5>1. attempts' = attempts + 1
          BY <1>0, <2>1, <2>2, <4>3 DEF Least
        <5> QED
          BY <4>2, <4>3, <5>1
      <4>4. CASE attempts = WifiPolicy.max
        <5>1. attempts' = attempts
          BY <1>0, <2>1, <2>2, <4>4 DEF Least
        <5>2. Nth(attempts) \in Nat
          <6>1. attempts - 1 \in 0..WifiPolicy.max
            BY <2>2, <4>1
          <6> QED
            BY <2>2, <6>1, GrownType DEF Nth, Least
        <5> QED
          BY <1>0, <2>2, <4>1, <4>2, <5>1, <5>2
      <4> QED
        BY <1>0, <2>2, <4>1, <4>3, <4>4
    <3> QED
      BY <1>0, <3>1, <3>2
  <2>4. attempts' > 0
    BY <1>0, <2>1, <2>2 DEF Least
  <2>5. since' + wifiIn' >= wifiBackoff'
    BY <2>1, <2>2
  <2>6. wifiBackoff' >= Nth(attempts)'
    BY <2>1, <2>3
  <2>7. attempts' # 0
    BY <2>4
  <2> QED
    BY <2>1, <2>5, <2>6, <2>7 DEF BackoffInv
<1>12. CASE HandleQuoteStreamState \/ RunScheduledRefresh
  BY <1>12 DEF HandleQuoteStreamState, RunScheduledRefresh, BackoffInv
<1>13. QED
  BY <1>1, <1>2, <1>3, <1>4, <1>5, <1>6, <1>7, <1>8, <1>9, <1>10, <1>11, <1>12
  DEF Next, MainTask

\* Only Reconnect counts an attempt, and who is about to connect has waited.
LEMMA AttemptHasWaited ==
  ASSUME TypeOK, BackoffInv, [Next]_vars, attempts' > attempts, attempts > 0
  PROVE  since >= Nth(attempts)
<1> USE DEF driverVars, bitVars, wifiVars, streamVars, scheduleVars, settingVars,
            actionVars, controlVars, boundVars, historyVars
<1>1. attempts \in 0..WifiPolicy.max /\ since \in Nat /\ wifiBackoff \in Nat
      /\ WifiPolicy.max \in Nat /\ ~(attempts > attempts) /\ ~(0 > attempts)
  BY Limits DEF TypeOK
<1>2. Reconnect
  <2>1. CASE Driver \/ EventTask \/ StreamEnds \/ Queue \/ UNCHANGED vars
    BY <1>1, <2>1 DEF Driver, EventTask, StreamEnds, Queue, vars
  <2>2. CASE Sleep \/ TakeActions \/ HandleSetup \/ HandleManualRefresh \/ HandleReset
    BY <1>1, <2>2 DEF Sleep, TakeActions, HandleSetup, HandleManualRefresh, HandleReset
  <2>3. CASE StartWifi \/ RestartStation \/ Join \/ JoinTimesOut \/ Joined \/ StartFailed
    BY <1>1, <2>3 DEF StartWifi, RestartStation, Join, JoinTimesOut, Joined, StartFailed
  <2>4. CASE StartRefresh \/ RefreshSucceeds \/ RefreshFails
    BY <1>1, <2>4 DEF StartRefresh, RefreshSucceeds, RefreshFails
  <2>5. CASE LookAtWifi \/ LookForFailure \/ ClearFailed \/ ReconnectFails
    BY <1>1, <2>5 DEF LookAtWifi, LookForFailure, ClearFailed, ReconnectFails
  <2>6. CASE HandleQuoteStreamState \/ RunScheduledRefresh
    BY <1>1, <2>6 DEF HandleQuoteStreamState, RunScheduledRefresh
  <2> QED
    BY <2>1, <2>2, <2>3, <2>4, <2>5, <2>6 DEF Next, MainTask
<1>3. wifiIn = 0
  BY <1>2 DEF Reconnect, BackoffInv
<1>4. since >= wifiBackoff /\ wifiBackoff >= Nth(attempts)
  BY <1>1, <1>3 DEF BackoffInv
<1>5. Nth(attempts) \in Nat
  <2>1. attempts - 1 \in 0..WifiPolicy.max
    BY <1>1
  <2> QED
    BY <1>1, <2>1, GrownType DEF Nth, Least
<1> QED
  BY <1>1, <1>4, <1>5

\* However the access point, the driver and the calls that block fail, the n-th attempt
\* in a row to reconnect comes no sooner than the (n-1)-th delay after the last, for
\* every policy.
THEOREM AttemptsAreSpaced == Spec => AttemptsBackOff
<1>1. Init => BackoffInv
  BY DEF Init, BackoffInv
<1>2. TypeOK /\ BackoffInv /\ [Next]_vars => BackoffInv'
  <2> SUFFICES ASSUME TypeOK, BackoffInv, [Next]_vars PROVE BackoffInv'
    OBVIOUS
  <2>1. CASE UNCHANGED vars
    BY <2>1 DEF vars, BackoffInv, Nth, wifiVars, controlVars, historyVars
  <2> QED
    BY <2>1, BackoffStep
<1>3. TypeOK /\ BackoffInv /\ [Next]_vars =>
        [attempts' > attempts /\ attempts > 0 =>
           since >= Least(Grown[attempts - 1], WifiPolicy.max)]_vars
  BY AttemptHasWaited DEF Nth
<1> QED
  BY <1>1, <1>2, <1>3, TypeCorrect, PTL DEF Spec, AttemptsBackOff
===============================================================================
