------------------------------- MODULE MainLoop -------------------------------
(***************************************************************************)
(* app_main: the loop that keeps the terminal on line.                     *)
(*                                                                         *)
(* Once a second the main task takes what the user asked for               *)
(* (process_pending_actions), looks at the Wi-Fi (handle_wifi_state) and   *)
(* at the quote stream (handle_quote_stream_state) and refreshes the       *)
(* quotes when that is due (run_scheduled_quote_refresh).  The Wi-Fi       *)
(* driver posts events; the event task turns them into two bits of an      *)
(* event group (wifi_event_handler), which the main task reads, clears and *)
(* waits on.  Every access to a bit is a step of its own, since the other  *)
(* task may come in between.                                               *)
(*                                                                         *)
(* A refresh and the stream it leaves behind are taken from StreamClient   *)
(* and QuotePipeline as one step with its possible outcomes; here the      *)
(* question is when refreshes happen and over what.  Time is counted in    *)
(* rounds of the loop, and a moment in the future by what is left of it:   *)
(* g_next_wifi_reconnect_ms and g_next_quote_refresh_ms become wifiIn and  *)
(* quoteIn, 0 once they are due.                                           *)
(***************************************************************************)
EXTENDS Backoff, Sequences

CONSTANTS
  Credentials,            \* the API credentials, endpoint included, a user may enter
  WifiPolicy,             \* g_wifi_backoff
  QuotePolicy,            \* g_quote_retry_backoff
  kLiveSnapshotRefreshMs, \* how long after a good refresh the next is due
  Durations,              \* how long a blocking call may take
  Faults,                 \* what may go wrong: see FaultNames
  MaxFailures,            \* bound: how often
  MaxEdits                \* bound: what the user asks for

\* "ap": the access point rejects or drops the station; "driver": esp_wifi_connect
\* fails; "slowjoin": no IP address within 15 s; "hosted": the radio's transport
\* does not come up; "stream": the stream ends; "call": a refresh fails; "flash":
\* the settings cannot be written.
FaultNames == {"ap", "driver", "slowjoin", "hosted", "stream", "call", "flash"}

NoCredentials == "incomplete"

ASSUME LoopAssumption ==
  /\ NoCredentials \notin Credentials
  /\ \A policy \in {WifiPolicy, QuotePolicy} :
       /\ policy.base \in Nat \ {0} /\ policy.max \in Nat /\ policy.factor \in Nat
       /\ policy = Policy(policy.base, policy.max, policy.factor)
  /\ kLiveSnapshotRefreshMs \in Nat
  /\ Durations \subseteq Nat
  /\ Faults \subseteq FaultNames
  /\ MaxFailures \in Nat /\ MaxEdits \in Nat

VARIABLES
  station,      \* external: "idle", "connecting" or "connected"
  events,       \* external: events posted to the event task, oldest first
  handling,     \* the event whose handler has cleared its bit and not set the other
  wifiBits,     \* g_wifi_events
  woken,        \* the bits start_wifi_sta's wait returned with
  radio,        \* g_netif_initialized: the transport is up
  wifiStarted,  \* g_wifi_started
  wifiOnline,   \* g_wifi_online
  wifiBackoff,  \* g_wifi_backoff.current_ms_
  wifiIn,       \* time until g_next_wifi_reconnect_ms
  connected,    \* g_longbridge.quote_stream_connected()
  alive,        \* external: the stream's connection still works
  peer,         \* the credentials the stream was authenticated with
  streamOnline, \* g_quote_stream_online
  quoteBackoff, \* g_quote_retry_backoff.current_ms_
  quoteIn,      \* time until g_next_quote_refresh_ms
  wifiSet,      \* g_settings.wifi.complete()
  credentials,  \* g_settings.api_key and endpoint_region
  saved,        \* history: the settings are those in flash
  pending,      \* g_pending_setup, g_pending_refresh_quotes, g_pending_reset_settings
  taken,        \* what process_pending_actions took
  main,         \* where the main task is: see MainStates
  after,        \* where it goes on after a blocking call
  failures,     \* how many of the MaxFailures have happened
  edits,        \* how many of the MaxEdits have
  attempts,     \* history: esp_wifi_connect calls of handle_wifi_state since it
                \* last saw a connection
  since         \* history: time since the last of them

driverVars   == <<station, events, handling>>
bitVars      == <<wifiBits, woken>>
wifiVars     == <<radio, wifiStarted, wifiOnline, wifiBackoff, wifiIn>>
streamVars   == <<connected, alive, peer, streamOnline>>
scheduleVars == <<quoteBackoff, quoteIn>>
settingVars  == <<wifiSet, credentials, saved>>
actionVars   == <<pending, taken>>
controlVars  == <<main, after>>
boundVars    == <<failures, edits>>
historyVars  == <<attempts, since>>
vars == <<driverVars, bitVars, wifiVars, streamVars, scheduleVars, settingVars,
          actionVars, controlVars, boundVars, historyVars>>

\* "sleep": vTaskDelay; "actions" to "reset": process_pending_actions; "start" to
\* "joined": start_wifi_sta; "refresh", "calling": refresh_quotes; "wifi" to
\* "refail": handle_wifi_state; "stream": handle_quote_stream_state;
\* "scheduled": run_scheduled_quote_refresh.
MainStates == {"sleep", "actions", "setup", "manual", "reset",
               "start", "restart", "join", "joining", "joined", "failed",
               "refresh", "calling",
               "wifi", "wifiFailed", "wifiClear", "reconnect", "refail",
               "stream", "scheduled"}

NoActions == [setup |-> {}, refresh |-> FALSE, reset |-> FALSE]

Setup == [wifi : BOOLEAN, credentials : Credentials \cup {NoCredentials}]

Fault(name) ==
  /\ name \in Faults
  /\ failures < MaxFailures
  /\ failures' = failures + 1
  /\ UNCHANGED edits

NoFault == UNCHANGED boundVars

Left(time, passed) == IF time > passed THEN time - passed ELSE 0

\* The history of the reconnects needs no more than the longest delay.
Elapse(passed) == since' = Least(since + passed, WifiPolicy.max)

-------------------------------------------------------------------------------
(* The Wi-Fi driver, external, and the event task *)

Post(event) == events' = Append(events, event)

Associate ==
  /\ station = "connecting"
  /\ station' = "connected"
  /\ Post("GOT_IP")
  /\ NoFault
  /\ UNCHANGED <<handling, alive>>

Rejected ==
  /\ station = "connecting"
  /\ Fault("ap")
  /\ station' = "idle"
  /\ Post("DISCONNECTED")
  /\ UNCHANGED <<handling, alive>>

Dropped ==
  /\ station = "connected"
  /\ Fault("ap")
  /\ station' = "idle"
  /\ alive' = FALSE
  /\ Post("DISCONNECTED")
  /\ UNCHANGED handling

Driver ==
  /\ Associate \/ Rejected \/ Dropped
  /\ UNCHANGED <<bitVars, wifiVars, connected, peer, streamOnline, scheduleVars, settingVars,
                 actionVars, controlVars, historyVars>>

\* The bit that an event clears and the one that it then sets.
Cleared(event) == IF event = "GOT_IP" THEN "Failed" ELSE "Connected"
Raised(event)  == IF event = "GOT_IP" THEN "Connected" ELSE "Failed"

\* Mutant: an event does not clear the other bit.
BeginEventKeepsBit ==
  /\ handling = "none"
  /\ events # <<>>
  /\ handling' = Head(events)
  /\ events' = Tail(events)
  /\ UNCHANGED <<wifiBits, woken, main>>

\* wifi_event_handler
BeginEvent ==
  /\ handling = "none"
  /\ events # <<>>
  /\ handling' = Head(events)
  /\ events' = Tail(events)
  /\ wifiBits' = wifiBits \ {Cleared(handling')}
  /\ UNCHANGED <<woken, main>>

\* Setting a bit wakes the main task if it waits, with the bits there are then.
EndEvent ==
  /\ handling # "none"
  /\ wifiBits' = wifiBits \cup {Raised(handling)}
  /\ \/ main = "joining" /\ main' = "joined" /\ woken' = wifiBits'
     \/ main # "joining" /\ UNCHANGED <<main, woken>>
  /\ handling' = "none"
  /\ UNCHANGED events

EventTask ==
  /\ BeginEvent \/ EndEvent
  /\ UNCHANGED <<station, wifiVars, streamVars, scheduleVars, settingVars, actionVars, after,
                 boundVars, historyVars>>

\* The WebSocket task notices that the stream has ended; a dead connection is
\* noticed when a ping is not answered.
StreamEnds ==
  /\ connected
  /\ \/ ~alive /\ NoFault
     \/ alive /\ Fault("stream")
  /\ connected' = FALSE
  /\ alive' = FALSE
  /\ UNCHANGED <<driverVars, bitVars, wifiVars, peer, streamOnline, scheduleVars, settingVars,
                 actionVars, controlVars, historyVars>>

\* The user interface: each kind of action has one place to wait in.
Queue ==
  /\ edits < MaxEdits
  /\ edits' = edits + 1
  /\ \/ \E s \in Setup : pending' = [pending EXCEPT !.setup = {s}]
     \/ pending' = [pending EXCEPT !.refresh = TRUE]
     \/ pending' = [pending EXCEPT !.reset = TRUE]
  /\ UNCHANGED <<driverVars, bitVars, wifiVars, streamVars, scheduleVars, settingVars,
                 taken, controlVars, failures, historyVars>>

-------------------------------------------------------------------------------
(* The main task: process_pending_actions *)

Goto(label) == main' = label /\ UNCHANGED after

\* LongbridgeClient::disconnect, and what its callers do with it.
DropStream ==
  /\ connected' = FALSE
  /\ alive' = FALSE
  /\ streamOnline' = FALSE
  /\ UNCHANGED peer

Sleep ==
  /\ main = "sleep"
  /\ Goto("actions")
  /\ wifiIn' = Left(wifiIn, 1)
  /\ quoteIn' = Left(quoteIn, 1)
  /\ Elapse(1)
  /\ UNCHANGED <<driverVars, bitVars, radio, wifiStarted, wifiOnline, wifiBackoff, streamVars,
                 quoteBackoff, settingVars, actionVars, boundVars, attempts>>

TakeActions ==
  /\ main = "actions"
  /\ taken' = pending
  /\ pending' = NoActions
  /\ Goto("setup")
  /\ UNCHANGED <<driverVars, bitVars, wifiVars, streamVars, scheduleVars, settingVars,
                 boundVars, historyVars>>

\* Mutant: the stream is disconnected only once the settings are saved.
SaveSetupDropsLate(setup) ==
  /\ wifiSet' = setup.wifi
  /\ credentials' = setup.credentials
  /\ after' = "manual"
  /\ \/ /\ main' = (IF setup.wifi THEN "start" ELSE "manual") /\ saved' = TRUE /\ NoFault
        /\ IF setup.credentials # credentials THEN DropStream ELSE UNCHANGED streamVars
     \/ main' = "manual" /\ saved' = FALSE /\ Fault("flash") /\ UNCHANGED streamVars

\* handle_setup_save, up to start_wifi_sta
SaveSetup(setup) ==
  /\ wifiSet' = setup.wifi
  /\ credentials' = setup.credentials
  /\ \/ setup.credentials # credentials /\ DropStream
     \/ setup.credentials = credentials /\ UNCHANGED streamVars
  /\ after' = "manual"
  /\ \/ main' = (IF setup.wifi THEN "start" ELSE "manual") /\ saved' = TRUE /\ NoFault
     \/ main' = "manual" /\ saved' = FALSE /\ Fault("flash")

HandleSetup ==
  /\ main = "setup"
  /\ \/ /\ taken.setup = {}
        /\ Goto("manual")
        /\ NoFault
        /\ UNCHANGED <<settingVars, streamVars>>
     \/ \E setup \in taken.setup : SaveSetup(setup)
  /\ UNCHANGED <<driverVars, bitVars, wifiVars, scheduleVars, actionVars, historyVars>>

HandleManualRefresh ==
  /\ main = "manual"
  /\ IF taken.refresh THEN main' = "refresh" /\ after' = "reset" ELSE Goto("reset")
  /\ UNCHANGED <<driverVars, bitVars, wifiVars, streamVars, scheduleVars, settingVars,
                 actionVars, boundVars, historyVars>>

\* handle_reset_settings: a store that cannot be erased leaves the settings.
ResetSettings ==
  /\ DropStream
  /\ quoteIn' = 0
  /\ UNCHANGED quoteBackoff
  /\ \/ wifiSet' = FALSE /\ credentials' = NoCredentials /\ saved' = TRUE /\ NoFault
     \/ UNCHANGED settingVars /\ Fault("flash")

HandleReset ==
  /\ main = "reset"
  /\ Goto("wifi")
  /\ \/ taken.reset /\ ResetSettings
     \/ ~taken.reset /\ NoFault /\ UNCHANGED <<streamVars, scheduleVars, settingVars>>
  /\ UNCHANGED <<driverVars, bitVars, wifiVars, actionVars, historyVars>>

-------------------------------------------------------------------------------
(* The main task: start_wifi_sta *)

\* At boot a refresh follows in any case; after a setup only over a connection.
StartReturns(ok) ==
  /\ UNCHANGED after
  /\ main' = IF after = "sleep" \/ (ok /\ credentials # NoCredentials)
             THEN "refresh" ELSE after

StartWifi ==
  /\ main = "start"
  /\ \/ /\ radio' = TRUE
        /\ wifiBits' = {}
        /\ wifiOnline' = FALSE
        /\ Goto("restart")
        /\ NoFault
     \/ /\ ~radio
        /\ Fault("hosted")
        /\ StartReturns(FALSE)
        /\ UNCHANGED <<radio, wifiBits, wifiOnline>>
  /\ UNCHANGED <<driverVars, woken, wifiStarted, wifiBackoff, wifiIn, streamVars, scheduleVars,
                 settingVars, actionVars, historyVars>>

\* esp_wifi_disconnect, esp_wifi_stop, esp_wifi_start
RestartStation ==
  /\ main = "restart"
  /\ wifiStarted' = TRUE
  /\ \/ /\ wifiStarted /\ station # "idle"
        /\ station' = "idle"
        /\ alive' = FALSE
        /\ Post("DISCONNECTED")
     \/ /\ ~(wifiStarted /\ station # "idle")
        /\ UNCHANGED <<station, alive, events>>
  /\ Goto("join")
  /\ UNCHANGED <<handling, bitVars, radio, wifiOnline, wifiBackoff, wifiIn, connected, peer,
                 streamOnline, scheduleVars, settingVars, actionVars, boundVars, historyVars>>

\* esp_wifi_connect and the start of the wait: an event of the station that was
\* stopped may have set a bit already.
Join ==
  /\ main = "join"
  /\ \/ /\ station' = "connecting"
        /\ IF wifiBits = {} THEN Goto("joining") /\ UNCHANGED woken
                            ELSE Goto("joined") /\ woken' = wifiBits
        /\ NoFault
     \/ /\ Fault("driver")
        /\ Goto("failed")
        /\ UNCHANGED <<station, woken>>
  /\ UNCHANGED <<events, handling, wifiBits, wifiVars, streamVars, scheduleVars, settingVars,
                 actionVars, historyVars>>

JoinTimesOut ==
  /\ main = "joining"
  /\ Fault("slowjoin")
  /\ Goto("joined")
  /\ woken' = wifiBits
  /\ UNCHANGED <<driverVars, wifiBits, wifiVars, streamVars, scheduleVars, settingVars,
                 actionVars, historyVars>>

Joined ==
  /\ main = "joined"
  /\ \E passed \in Durations :
       /\ quoteIn' = Left(quoteIn, passed)
       /\ Elapse(passed)
       /\ \/ /\ "Connected" \in woken
             /\ wifiOnline' = TRUE
             /\ wifiBackoff' = 0
             /\ wifiIn' = 0
             /\ attempts' = 0
             /\ StartReturns(TRUE)
          \/ /\ "Connected" \notin woken
             /\ wifiIn' = Left(wifiIn, passed)
             /\ Goto("failed")
             /\ UNCHANGED <<wifiOnline, wifiBackoff, attempts>>
  /\ UNCHANGED <<driverVars, bitVars, radio, wifiStarted, streamVars, quoteBackoff,
                 settingVars, actionVars, boundVars>>

\* Mutant: the Failed bit is left to the event.
StartFailedSilently ==
  /\ main = "failed"
  /\ StartReturns(FALSE)
  /\ UNCHANGED <<driverVars, bitVars, wifiVars, streamVars, scheduleVars, settingVars,
                 actionVars, boundVars, historyVars>>

StartFailed ==
  /\ main = "failed"
  /\ wifiBits' = wifiBits \cup {"Failed"}
  /\ StartReturns(FALSE)
  /\ UNCHANGED <<driverVars, woken, wifiVars, streamVars, scheduleVars, settingVars,
                 actionVars, boundVars, historyVars>>

-------------------------------------------------------------------------------
(* The main task: refresh_quotes and schedule_next_quote_refresh *)

Online == "Connected" \in wifiBits

\* A refresh that fails is tried again after the backoff, or as soon as there are
\* credentials and Wi-Fi for it.
ScheduleFailed(passed) ==
  \/ /\ credentials = NoCredentials \/ ~Online
     /\ quoteIn' = 0
     /\ UNCHANGED quoteBackoff
  \/ /\ credentials # NoCredentials /\ Online
     /\ quoteBackoff' = NextDelay(QuotePolicy, quoteBackoff)
     /\ quoteIn' = Left(quoteBackoff', passed)

ScheduleRefreshed(passed) ==
  /\ quoteBackoff' = 0
  /\ quoteIn' = Left(kLiveSnapshotRefreshMs, passed)

StartRefresh ==
  /\ main = "refresh"
  /\ \/ /\ credentials = NoCredentials \/ ~Online
        /\ main' = after
        /\ ScheduleFailed(0)
     \/ /\ credentials # NoCredentials /\ Online
        /\ main' = "calling"
        /\ UNCHANGED scheduleVars
  /\ UNCHANGED <<driverVars, bitVars, wifiVars, streamVars, settingVars, actionVars, after,
                 boundVars, historyVars>>

\* fetch_quote_snapshots and ensure_quote_stream: a stream that is up is kept.
RefreshSucceeds ==
  /\ main = "calling"
  /\ station = "connected"
  /\ connected => alive
  /\ connected' = TRUE
  /\ alive' = TRUE
  /\ peer' = IF connected THEN peer ELSE credentials
  /\ streamOnline' = TRUE
  /\ main' = after
  /\ \E passed \in Durations :
       /\ ScheduleRefreshed(passed)
       /\ wifiIn' = Left(wifiIn, passed)
       /\ Elapse(passed)
  /\ UNCHANGED <<driverVars, bitVars, radio, wifiStarted, wifiOnline, wifiBackoff, settingVars,
                 actionVars, after, boundVars, attempts>>

\* What a failing refresh leaves: nothing changed (no token, or no answer to the
\* pull), a stream that is connected and not used, or none.
RefreshFails ==
  /\ main = "calling"
  /\ \/ (station # "connected" \/ (connected /\ ~alive)) /\ NoFault
     \/ Fault("call")
  /\ \/ UNCHANGED streamVars
     \/ /\ ~connected /\ station = "connected"
        /\ connected' = TRUE
        /\ alive' = TRUE
        /\ peer' = credentials
        /\ UNCHANGED streamOnline
     \/ DropStream
  /\ main' = after
  /\ \E passed \in Durations :
       /\ ScheduleFailed(passed)
       /\ wifiIn' = Left(wifiIn, passed)
       /\ Elapse(passed)
  /\ UNCHANGED <<driverVars, bitVars, radio, wifiStarted, wifiOnline, wifiBackoff, settingVars,
                 actionVars, after, attempts>>

-------------------------------------------------------------------------------
(* The main task: handle_wifi_state *)

LookAtWifi ==
  /\ main = "wifi"
  /\ \/ /\ Online /\ ~wifiOnline
        /\ wifiOnline' = TRUE
        /\ wifiBackoff' = 0
        /\ wifiIn' = 0
        /\ quoteIn' = 0
        /\ attempts' = 0
        /\ Goto("stream")
        /\ UNCHANGED streamVars
     \/ /\ Online /\ wifiOnline
        /\ Goto("stream")
        /\ UNCHANGED <<wifiOnline, wifiBackoff, wifiIn, quoteIn, attempts, streamVars>>
     \/ /\ ~Online
        /\ wifiOnline' = FALSE
        /\ IF wifiOnline THEN DropStream ELSE UNCHANGED streamVars
        /\ Goto(IF wifiSet /\ wifiStarted THEN "wifiFailed" ELSE "stream")
        /\ UNCHANGED <<wifiBackoff, wifiIn, quoteIn, attempts>>
  /\ UNCHANGED <<driverVars, bitVars, radio, wifiStarted, quoteBackoff, settingVars, actionVars,
                 boundVars, since>>

\* Mutant: the backoff is not waited for.
LookForFailureEagerly ==
  /\ main = "wifiFailed"
  /\ Goto(IF "Failed" \in wifiBits THEN "wifiClear" ELSE "stream")
  /\ UNCHANGED <<driverVars, bitVars, wifiVars, streamVars, scheduleVars, settingVars,
                 actionVars, boundVars, historyVars>>

LookForFailure ==
  /\ main = "wifiFailed"
  /\ Goto(IF "Failed" \in wifiBits /\ wifiIn = 0 THEN "wifiClear" ELSE "stream")
  /\ UNCHANGED <<driverVars, bitVars, wifiVars, streamVars, scheduleVars, settingVars,
                 actionVars, boundVars, historyVars>>

ClearFailed ==
  /\ main = "wifiClear"
  /\ wifiBits' = wifiBits \ {"Failed"}
  /\ Goto("reconnect")
  /\ UNCHANGED <<driverVars, woken, wifiVars, streamVars, scheduleVars, settingVars,
                 actionVars, boundVars, historyVars>>

\* esp_wifi_connect leaves a station alone that is connecting or connected.
Reconnect ==
  /\ main = "reconnect"
  /\ \/ station' = (IF station = "idle" THEN "connecting" ELSE station)
        /\ Goto("stream")
        /\ NoFault
     \/ Fault("driver") /\ Goto("refail") /\ UNCHANGED station
  /\ wifiBackoff' = NextDelay(WifiPolicy, wifiBackoff)
  /\ wifiIn' = wifiBackoff'
  /\ attempts' = Least(attempts + 1, WifiPolicy.max)
  /\ since' = 0
  /\ UNCHANGED <<events, handling, bitVars, radio, wifiStarted, wifiOnline, streamVars,
                 scheduleVars, settingVars, actionVars>>

\* Mutant: a call that fails does not ask for another.
ReconnectFailsSilently ==
  /\ main = "refail"
  /\ Goto("stream")
  /\ UNCHANGED <<driverVars, bitVars, wifiVars, streamVars, scheduleVars, settingVars,
                 actionVars, boundVars, historyVars>>

ReconnectFails ==
  /\ main = "refail"
  /\ wifiBits' = wifiBits \cup {"Failed"}
  /\ Goto("stream")
  /\ UNCHANGED <<driverVars, woken, wifiVars, streamVars, scheduleVars, settingVars,
                 actionVars, boundVars, historyVars>>

-------------------------------------------------------------------------------
(* The main task: handle_quote_stream_state, run_scheduled_quote_refresh *)

HandleQuoteStreamState ==
  /\ main = "stream"
  /\ streamOnline' = connected
  /\ quoteIn' = IF ~connected /\ streamOnline /\ Online /\ credentials # NoCredentials
                THEN 0 ELSE quoteIn
  /\ Goto("scheduled")
  /\ UNCHANGED <<driverVars, bitVars, wifiVars, connected, alive, peer, quoteBackoff,
                 settingVars, actionVars, boundVars, historyVars>>

RunScheduledRefresh ==
  /\ main = "scheduled"
  /\ IF credentials # NoCredentials /\ Online /\ quoteIn = 0
     THEN main' = "refresh" /\ after' = "sleep"
     ELSE Goto("sleep")
  /\ UNCHANGED <<driverVars, bitVars, wifiVars, streamVars, scheduleVars, settingVars,
                 actionVars, boundVars, historyVars>>

MainTask ==
  \/ Sleep
  \/ TakeActions \/ HandleSetup \/ HandleManualRefresh \/ HandleReset
  \/ StartWifi \/ RestartStation \/ Join \/ JoinTimesOut \/ Joined \/ StartFailed
  \/ StartRefresh \/ RefreshSucceeds \/ RefreshFails
  \/ LookAtWifi \/ LookForFailure \/ ClearFailed \/ Reconnect \/ ReconnectFails
  \/ HandleQuoteStreamState \/ RunScheduledRefresh

-------------------------------------------------------------------------------
\* The settings may be complete or not; onboarding_complete() starts the Wi-Fi.
Init ==
  /\ station = "idle" /\ events = <<>> /\ handling = "none"
  /\ wifiBits = {} /\ woken = {}
  /\ radio = FALSE /\ wifiStarted = FALSE /\ wifiOnline = FALSE
  /\ wifiBackoff = 0 /\ wifiIn = 0
  /\ connected = FALSE /\ alive = FALSE /\ peer = NoCredentials /\ streamOnline = FALSE
  /\ quoteBackoff = 0 /\ quoteIn = 0
  /\ wifiSet \in BOOLEAN /\ saved = TRUE
  /\ credentials \in Credentials \cup {NoCredentials}
  /\ pending = NoActions /\ taken = NoActions
  /\ main = IF wifiSet /\ credentials # NoCredentials THEN "start" ELSE "sleep"
  /\ after = "sleep"
  /\ failures = 0 /\ edits = 0
  /\ attempts = 0 /\ since = 0

Next == Driver \/ EventTask \/ StreamEnds \/ Queue \/ MainTask

Spec == Init /\ [][Next]_vars

\* Every task is scheduled, and the driver ends what it has begun.
FairSpec ==
  Spec /\ WF_vars(Driver) /\ WF_vars(EventTask) /\ WF_vars(StreamEnds) /\ WF_vars(MainTask)

-------------------------------------------------------------------------------
(* Properties *)

Actions == [setup : SUBSET Setup, refresh : BOOLEAN, reset : BOOLEAN]

TypeOK ==
  /\ station \in {"idle", "connecting", "connected"}
  /\ events \in Seq({"GOT_IP", "DISCONNECTED"})
  /\ handling \in {"none", "GOT_IP", "DISCONNECTED"}
  /\ wifiBits \subseteq {"Connected", "Failed"}
  /\ woken \subseteq {"Connected", "Failed"}
  /\ radio \in BOOLEAN /\ wifiStarted \in BOOLEAN /\ wifiOnline \in BOOLEAN
  /\ wifiBackoff \in 0..WifiPolicy.max
  /\ wifiIn \in 0..WifiPolicy.max
  /\ connected \in BOOLEAN /\ alive \in BOOLEAN /\ streamOnline \in BOOLEAN
  /\ peer \in Credentials \cup {NoCredentials}
  /\ quoteBackoff \in 0..QuotePolicy.max
  /\ quoteIn \in 0..Greatest(QuotePolicy.max, kLiveSnapshotRefreshMs)
  /\ wifiSet \in BOOLEAN /\ saved \in BOOLEAN
  /\ credentials \in Credentials \cup {NoCredentials}
  /\ pending \in Actions /\ taken \in Actions
  /\ main \in MainStates /\ after \in {"sleep", "manual", "reset"}
  /\ failures \in Nat /\ edits \in Nat
  /\ attempts \in 0..WifiPolicy.max /\ since \in 0..WifiPolicy.max

EventsHandled == events = <<>> /\ handling = "none"

\* Once the event task has caught up, the Connected bit tells whether the station
\* has its connection, except while start_wifi_sta is restarting it.
BitTellsConnection ==
  EventsHandled /\ main # "restart" => (Online <=> station = "connected")

\* A station that is not connected and not connecting is always tried again: no
\* order of events, clears and waits loses the bit that asks for it.
FailureIsNotLost ==
  main = "sleep" /\ wifiStarted /\ station = "idle" /\ EventsHandled => "Failed" \in wifiBits

\* A stream belongs to the credentials and the endpoint in the settings, also if
\* saving or erasing them failed.
StreamUsesCredentials == connected => peer = credentials

\* The delays of g_wifi_backoff, were they not limited.
Grown[n \in 0..WifiPolicy.max] ==
  IF n = 0 THEN WifiPolicy.base ELSE Grown[n - 1] * WifiPolicy.factor

\* handle_wifi_state does not try more often than the backoff allows: the n-th
\* attempt in a row comes no sooner than the (n-1)-th delay after the last.
AttemptsBackOff ==
  [][attempts' > attempts /\ attempts > 0 =>
       since >= Least(Grown[attempts - 1], WifiPolicy.max)]_vars

\* start_wifi_sta fails, and the user is told to check SSID and password, only if
\* something went wrong.
JoinFailsForAReason == main = "failed" => failures > 0

\* With complete settings, saved without an error, the terminal is on line with a live stream again and
\* again, whatever Wi-Fi, stream, driver and the order of events have done to it.
Live == wifiOnline /\ streamOnline /\ connected /\ alive

StreamComesLive == []<>(Live \/ ~wifiSet \/ credentials = NoCredentials \/ ~saved)
===============================================================================
