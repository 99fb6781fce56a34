----------------------------- MODULE StreamClient -----------------------------
(***************************************************************************)
(* LongbridgeClient: one WebSocket shared by two tasks.                    *)
(*                                                                         *)
(* The main task connects, sends one request at a time and waits for its   *)
(* answer on an event group; the task lb_quote_ws of the WebSocket library *)
(* runs the callbacks that set the bits and store the answer.  Between     *)
(* them are atomics (stream_connected_, pending_request_id_, pending_      *)
(* status_code_), the unprotected pending_response_payload_ and the bits:  *)
(* stream_request_mutex_ only orders senders, of which there is one.  So a *)
(* step below is an access to one of these, and any two steps of the two   *)
(* tasks may come in either order.                                         *)
(*                                                                         *)
(* The library and the server are external: a connection attempt succeeds  *)
(* or fails, a connection ends, and every request is answered unless the   *)
(* connection ends first.  esp_websocket_client_stop waits for the task,   *)
(* which may still run a callback meanwhile.                               *)
(***************************************************************************)
EXTENDS Naturals, FiniteSets

CONSTANTS
  IdModulus,   \* 2^32: request ids wrap around to 1
  SlowHandler, \* may a callback be held up while main starts another request?
  Faults,      \* what may go wrong: see FaultNames
  MaxFailures  \* bound: how often

\* "linkdown": a connection cannot be made or ends; "garbage": a frame does not
\* decode; "timeout": no answer within 5 s or 10 s; "slowconnect": no connection
\* within 15 s; "refused": an answer with a status other than 0; "token": no
\* socket token; "edit": the main task disconnects (symbol removed, Wi-Fi lost,
\* credentials changed).
FaultNames == {"linkdown", "garbage", "timeout", "slowconnect", "refused", "token", "edit"}

ASSUME StreamAssumption ==
  /\ IdModulus \in Nat /\ IdModulus > 2
  /\ SlowHandler \in BOOLEAN
  /\ Faults \subseteq FaultNames
  /\ MaxFailures \in Nat

VARIABLES
  connected,  \* stream_connected_
  client,     \* websocket_client_ and what the library does: see ClientStates
  bits,       \* stream_events_
  current,    \* request_ids_.current_
  pendingId,  \* pending_request_id_
  status,     \* pending_status_code_: that of the frame with this id, or 0xFF
  payload,    \* pending_response_payload_: that of the frame with this id, or 0
  handler,    \* where the callback of the WebSocket task is: see HandlerStates
  frame,      \* the frame the callback is handling
  main,       \* where the main task is: see MainStates
  op,         \* the request main is about to make or is making
  next,       \* what main does with the connection it is making or ending
  woken,      \* the bits its wait returned with
  asked,      \* the id of its request
  answer,     \* the status it read, NoStatus before
  refreshed,  \* refresh_quotes last returned true
  unanswered, \* external: the requests the server has not answered
  failures,   \* how many of the MaxFailures have happened
  late        \* history: the wait for the connection started last has timed out

signalVars  == <<bits, main, woken>>
answerVars  == <<status, payload>>
callVars    == <<op, next, asked, answer, refreshed>>
vars == <<connected, client, current, pendingId, handler, frame, unanswered, failures, late,
          signalVars, answerVars, callVars>>

Bits == {"Connected", "Error", "Response"}

\* "none": websocket_client_ is null; "down": the connection failed or ended.
ClientStates == {"none", "connecting", "up", "down"}

HandlerStates == {"idle", "Connected", "Disconnected", "ErrorEvent", "Response",
                  "clearConnected", "storeStatus", "storePayload",
                  "signalConnected", "signalError", "signalResponse"}

\* disconnect: "drop", "forget", "stop"; connect_quote_stream: "start", "started",
\* "connecting", "attempted"; send_stream_request: "check" to "retired".
MainStates == {"idle", "ensure", "drop", "forget", "stop",
               "start", "started", "connecting", "attempted",
               "check", "arm", "reset", "clear", "send", "sent", "awaiting",
               "answered", "retired"}

Ids == 1..(IdModulus - 1)
NoStatus == [id |-> 0, ok |-> FALSE]
Answer == [id : Ids, ok : BOOLEAN]

Fault(name) ==
  /\ name \in Faults
  /\ failures < MaxFailures
  /\ failures' = failures + 1

-------------------------------------------------------------------------------
(* The event group *)

\* What main is waiting for, and where it continues.
Awaited ==
  CASE main = "connecting" -> {"Connected", "Error"}
    [] main = "awaiting"   -> {"Response", "Error"}
    [] OTHER               -> {}

Continuation == IF main = "connecting" THEN "attempted" ELSE "answered"

\* The wait of a request clears the bits it was waiting for, that of a
\* connection does not.
ClearedOnExit == IF main = "awaiting" THEN Awaited ELSE {}

\* xEventGroupSetBits wakes a waiting task with the bits there are then.
SetBits(b) ==
  LET now == bits \cup b IN
  \/ /\ Awaited \cap now = {}
     /\ bits' = now
     /\ UNCHANGED <<main, woken>>
  \/ /\ Awaited \cap now # {}
     /\ bits' = now \ ClearedOnExit
     /\ woken' = now
     /\ main' = Continuation

\* xEventGroupWaitBits(here): returns at once if a bit is there already.
WaitBits(here, there, wanted, cleared) ==
  \/ /\ bits \cap wanted = {}
     /\ main' = here
     /\ UNCHANGED <<bits, woken>>
  \/ /\ bits \cap wanted # {}
     /\ main' = there
     /\ woken' = bits
     /\ bits' = bits \ cleared

\* The wait times out: no awaited bit is set.
TimeOut(name) ==
  /\ Fault(name)
  /\ main' = Continuation
  /\ woken' = bits
  /\ UNCHANGED bits

-------------------------------------------------------------------------------
(* The WebSocket task: handle_websocket_event, handle_websocket_message *)

\* The library starts a callback; the client is as the event says already.
BeginHandler(label, state) ==
  /\ handler = "idle"
  /\ handler' = label
  /\ client' = state
  /\ UNCHANGED <<connected, current, pendingId, signalVars, answerVars, callVars, late>>

LinkUp ==
  /\ client = "connecting"
  /\ BeginHandler("Connected", "up")
  /\ UNCHANGED <<frame, unanswered, failures>>

LinkFails ==
  /\ client = "connecting"
  /\ Fault("linkdown")
  /\ BeginHandler("ErrorEvent", "down")
  /\ UNCHANGED <<frame, unanswered>>

LinkDown ==
  /\ client = "up"
  /\ Fault("linkdown")
  /\ \E event \in {"Disconnected", "ErrorEvent"} : BeginHandler(event, "down")
  /\ unanswered' = {}
  /\ UNCHANGED frame

Respond(id) ==
  /\ client = "up"
  /\ BeginHandler("Response", "up")
  /\ unanswered' = unanswered \ {id}
  /\ \/ frame' = [id |-> id, ok |-> TRUE] /\ UNCHANGED failures
     \/ frame' = [id |-> id, ok |-> FALSE] /\ Fault("refused")

Garbage ==
  /\ client = "up"
  /\ Fault("garbage")
  /\ BeginHandler("signalError", "up")
  /\ UNCHANGED <<frame, unanswered>>

\* One access of a callback that changes no bits.
HandlerStep(from, to) ==
  /\ handler = from
  /\ handler' = to
  /\ UNCHANGED <<client, current, pendingId, frame, unanswered, failures, signalVars, callVars,
                 late>>

OnConnected ==
  /\ HandlerStep("Connected", "signalConnected")
  /\ connected' = TRUE
  /\ UNCHANGED answerVars

OnDisconnected ==
  /\ \/ HandlerStep("Disconnected", "clearConnected")
     \/ HandlerStep("ErrorEvent", "signalError")
  /\ connected' = FALSE
  /\ UNCHANGED answerVars

ClearConnectedBit ==
  /\ handler = "clearConnected"
  /\ handler' = "signalError"
  /\ bits' = bits \ {"Connected"}
  /\ UNCHANGED <<connected, client, current, pendingId, frame, unanswered, failures,
                 main, woken, answerVars, callVars, late>>

\* Mutant: the answer is taken for that of the pending request whatever its id.
MatchAny ==
  /\ HandlerStep("Response", "storeStatus")
  /\ UNCHANGED <<connected, answerVars>>

\* A response is looked at only if it is that of the pending request...
MatchResponse ==
  /\ \/ frame.id = pendingId /\ HandlerStep("Response", "storeStatus")
     \/ frame.id # pendingId /\ HandlerStep("Response", "idle")
  /\ UNCHANGED <<connected, answerVars>>

\* ...and then stored, whatever has become of that request.
StoreStatus ==
  /\ HandlerStep("storeStatus", "storePayload")
  /\ status' = frame
  /\ UNCHANGED <<connected, payload>>

StorePayload ==
  /\ HandlerStep("storePayload", "signalResponse")
  /\ payload' = frame.id
  /\ UNCHANGED <<connected, status>>

Signal(label, bit) ==
  /\ handler = label
  /\ handler' = "idle"
  /\ SetBits({bit})
  /\ UNCHANGED <<connected, client, current, pendingId, frame, unanswered, failures,
                 answerVars, callVars, late>>

WebSocketTask ==
  \/ LinkUp \/ LinkFails \/ LinkDown \/ Garbage
  \/ \E id \in unanswered : Respond(id)
  \/ OnConnected \/ OnDisconnected \/ ClearConnectedBit
  \/ MatchResponse \/ StoreStatus \/ StorePayload
  \/ Signal("signalConnected", "Connected")
  \/ Signal("signalError", "Error")
  \/ Signal("signalResponse", "Response")

-------------------------------------------------------------------------------
(* The main task: disconnect *)

\* Mutant: stream_connected_ is left to the DISCONNECTED event.
DropConnectedByEvent ==
  /\ main = "drop"
  /\ main' = "forget"
  /\ UNCHANGED <<connected, client, bits, current, pendingId, handler, frame, unanswered, failures,
                 woken, answerVars, callVars, late>>

DropConnected ==
  /\ main = "drop"
  /\ main' = "forget"
  /\ connected' = FALSE
  /\ UNCHANGED <<client, bits, current, pendingId, handler, frame, unanswered, failures,
                 woken, answerVars, callVars, late>>

ForgetRequest ==
  /\ main = "forget"
  /\ main' = "stop"
  /\ pendingId' = 0
  /\ bits' = bits \ {"Connected", "Response"}
  /\ UNCHANGED <<connected, client, current, handler, frame, unanswered, failures,
                 woken, answerVars, callVars, late>>

\* esp_websocket_client_stop returns once the WebSocket task is done.
StopClient ==
  /\ main = "stop"
  /\ handler = "idle"
  /\ client' = "none"
  /\ unanswered' = {}
  /\ main' = IF next = "idle" THEN "idle" ELSE "start"
  /\ UNCHANGED <<connected, bits, current, pendingId, handler, frame, failures, woken,
                 answerVars, callVars, late>>

-------------------------------------------------------------------------------
(* The main task: connect_quote_stream, after its disconnect *)

\* Mutant: the bits of the last connection are not cleared.
StartClientKeepsBits ==
  /\ main = "start"
  /\ client' = "connecting"
  /\ main' = "started"
  /\ late' = FALSE
  /\ UNCHANGED <<connected, bits, current, pendingId, handler, frame, unanswered, failures,
                 woken, answerVars, callVars>>

StartClient ==
  /\ main = "start"
  /\ bits' = {}
  /\ client' = "connecting"
  /\ main' = "started"
  /\ late' = FALSE
  /\ UNCHANGED <<connected, current, pendingId, handler, frame, unanswered, failures,
                 woken, answerVars, callVars>>

StartFails ==
  /\ main = "start"
  /\ Fault("linkdown")
  /\ bits' = {}
  /\ main' = "idle"
  /\ UNCHANGED <<connected, client, current, pendingId, handler, frame, unanswered,
                 woken, answerVars, callVars, late>>

AwaitConnection ==
  /\ \/ main = "started" /\ WaitBits("connecting", "attempted", {"Connected", "Error"}, {})
           /\ UNCHANGED <<failures, late>>
     \/ main = "connecting" /\ TimeOut("slowconnect") /\ late' = TRUE
  /\ UNCHANGED <<connected, client, current, pendingId, handler, frame, unanswered,
                 answerVars, callVars>>

\* Main goes on to label, its next request or connection being as given.
Go(label, request, then) ==
  /\ main' = label
  /\ op' = request
  /\ next' = then

Attempted ==
  /\ main = "attempted"
  /\ \/ "Connected" \in woken /\ Go("check", "auth", next)
     \/ "Connected" \notin woken /\ Go("drop", op, "idle")
  /\ UNCHANGED <<connected, client, bits, current, pendingId, handler, frame, unanswered,
                 failures, woken, answerVars, asked, answer, refreshed, late>>

-------------------------------------------------------------------------------
(* The main task: send_stream_request *)

\* The callers: a failing pull is only reported, a failing authentication or
\* subscription ends the connection.
CallFails ==
  /\ \/ op = "pull" /\ Go("idle", op, next)
     \/ op # "pull" /\ Go("drop", op, "idle")
  /\ UNCHANGED refreshed

CallSucceeds ==
  \/ op = "auth" /\ Go("check", next, "idle") /\ UNCHANGED refreshed
  \/ op = "pull" /\ Go("ensure", op, next) /\ UNCHANGED refreshed
  \/ op = "subscribe" /\ Go("idle", op, next) /\ refreshed' = TRUE

CheckConnected ==
  /\ main = "check"
  /\ \/ connected /\ client = "up" /\ Go("arm", op, next) /\ UNCHANGED refreshed
     \/ ~(connected /\ client = "up") /\ CallFails
  /\ UNCHANGED <<connected, client, bits, current, pendingId, handler, frame, unanswered,
                 failures, woken, answerVars, asked, answer, late>>

\* Mutant: the id 0 is not skipped.
NextIdWrapsToZero(id) == (id + 1) % IdModulus

\* RequestIdGenerator::next
NextId(id) == IF id + 1 = IdModulus THEN 1 ELSE id + 1

Storing == handler \in {"storeStatus", "storePayload", "signalResponse"}

\* The requests whose answer may still arrive.  No answer is so late that the ids
\* have come round to it.
Outstanding == unanswered \cup (IF Storing \/ handler = "Response" THEN {frame.id} ELSE {})

Arm ==
  /\ main = "arm"
  /\ NextId(current) \notin Outstanding
  /\ SlowHandler \/ ~Storing
  /\ current' = NextId(current)
  /\ pendingId' = current'
  /\ asked' = current'
  /\ answer' = NoStatus
  /\ main' = "reset"
  /\ UNCHANGED <<connected, client, bits, handler, frame, unanswered, failures, woken,
                 answerVars, op, next, refreshed, late>>

ResetAnswer ==
  /\ main = "reset"
  /\ status' = NoStatus
  /\ payload' = 0
  /\ main' = "clear"
  /\ UNCHANGED <<connected, client, bits, current, pendingId, handler, frame, unanswered,
                 failures, woken, callVars, late>>

ClearRequestBits ==
  /\ main = "clear"
  /\ bits' = bits \ {"Response", "Error"}
  /\ main' = "send"
  /\ UNCHANGED <<connected, client, current, pendingId, handler, frame, unanswered,
                 failures, woken, answerVars, callVars, late>>

Send ==
  /\ main = "send"
  /\ \/ /\ client = "up"
        /\ unanswered' = unanswered \cup {asked}
        /\ Go("sent", op, next)
        /\ UNCHANGED <<pendingId, refreshed>>
     \/ /\ client # "up"
        /\ pendingId' = 0
        /\ CallFails
        /\ UNCHANGED unanswered
  /\ UNCHANGED <<connected, client, bits, current, handler, frame, failures, woken,
                 answerVars, asked, answer, late>>

AwaitAnswer ==
  /\ \/ /\ main = "sent"
        /\ WaitBits("awaiting", "answered", {"Response", "Error"}, {"Response", "Error"})
        /\ UNCHANGED failures
     \/ main = "awaiting" /\ TimeOut("timeout")
  /\ UNCHANGED <<connected, client, current, pendingId, handler, frame, unanswered,
                 answerVars, callVars, late>>

\* The status is read, and an answer from now on is too late.
RetireRequest ==
  /\ main = "answered"
  /\ answer' = status
  /\ pendingId' = 0
  /\ main' = "retired"
  /\ UNCHANGED <<connected, client, bits, current, handler, frame, unanswered, failures,
                 woken, answerVars, op, next, asked, refreshed, late>>

TakeAnswer ==
  /\ main = "retired"
  /\ payload' = 0
  /\ \/ "Response" \in woken /\ answer.ok /\ CallSucceeds
     \/ ~("Response" \in woken /\ answer.ok) /\ CallFails
  /\ UNCHANGED <<connected, client, bits, current, pendingId, handler, frame, unanswered,
                 failures, woken, status, asked, answer, late>>

-------------------------------------------------------------------------------
(* The main task: refresh_quotes and what else ends the connection *)

\* fetch_socket_token may fail before a connection is attempted.
Connect(then) ==
  \/ Go("drop", op, then) /\ UNCHANGED failures
  \/ Go("idle", op, next) /\ Fault("token")

\* fetch_quote_snapshots
Refresh ==
  /\ main = "idle"
  /\ refreshed' = FALSE
  /\ \/ connected /\ Go("check", "pull", next) /\ UNCHANGED failures
     \/ ~connected /\ Connect("pull")
  /\ UNCHANGED <<connected, client, bits, current, pendingId, handler, frame, unanswered,
                 woken, answerVars, asked, answer, late>>

\* ensure_quote_stream; whether the key of the stream is that of the watchlist is
\* left open here.
EnsureQuoteStream ==
  /\ main = "ensure"
  /\ \/ connected /\ Go("idle", op, next) /\ refreshed' = TRUE /\ UNCHANGED failures
     \/ connected /\ Go("check", "subscribe", next) /\ UNCHANGED <<refreshed, failures>>
     \/ ~connected /\ Connect("subscribe") /\ UNCHANGED refreshed
  /\ UNCHANGED <<connected, client, bits, current, pendingId, handler, frame, unanswered,
                 woken, answerVars, asked, answer, late>>

Disconnect ==
  /\ main = "idle"
  /\ Fault("edit")
  /\ Go("drop", op, "idle")
  /\ UNCHANGED <<connected, client, bits, current, pendingId, handler, frame, unanswered,
                 woken, answerVars, asked, answer, refreshed, late>>

MainTask ==
  \/ DropConnected \/ ForgetRequest \/ StopClient
  \/ StartClient \/ StartFails \/ AwaitConnection \/ Attempted
  \/ CheckConnected \/ Arm \/ ResetAnswer \/ ClearRequestBits \/ Send \/ AwaitAnswer
  \/ RetireRequest \/ TakeAnswer
  \/ Refresh \/ EnsureQuoteStream \/ Disconnect

-------------------------------------------------------------------------------
Init ==
  /\ connected = FALSE
  /\ client = "none"
  /\ bits = {}
  /\ current \in {0, IdModulus - 2}
  /\ pendingId = 0
  /\ status = NoStatus
  /\ payload = 0
  /\ handler = "idle"
  /\ frame = NoStatus
  /\ main = "idle"
  /\ op = "pull"
  /\ next = "idle"
  /\ woken = {}
  /\ asked = 0
  /\ answer = NoStatus
  /\ refreshed = FALSE
  /\ unanswered = {}
  /\ failures = 0
  /\ late = FALSE

Next == WebSocketTask \/ MainTask

Spec == Init /\ [][Next]_vars

\* Both tasks are scheduled, the server answers, and a refresh comes round.
FairSpec == Spec /\ WF_vars(WebSocketTask) /\ WF_vars(MainTask)

-------------------------------------------------------------------------------
(* Properties *)

Frame == Answer \cup {NoStatus}

TypeOK ==
  /\ connected \in BOOLEAN
  /\ client \in ClientStates
  /\ bits \subseteq Bits
  /\ current \in Ids \cup {0}
  /\ pendingId \in Ids \cup {0}
  /\ status \in Frame
  /\ payload \in Ids \cup {0}
  /\ handler \in HandlerStates
  /\ frame \in Frame
  /\ main \in MainStates
  /\ op \in {"auth", "pull", "subscribe"}
  /\ next \in {"idle", "pull", "subscribe"}
  /\ woken \subseteq Bits
  /\ asked \in Ids \cup {0}
  /\ answer \in Frame
  /\ refreshed \in BOOLEAN
  /\ unanswered \subseteq Ids
  /\ failures \in Nat
  /\ late \in BOOLEAN

\* While a request is under way its id is the pending one, and it is not 0, which
\* means that there is none; otherwise nothing is pending.
UnderWay == main \in {"reset", "clear", "send", "sent", "awaiting", "answered"}

PendingIsAsked ==
  /\ UnderWay => pendingId = asked /\ asked # 0
  /\ ~UnderWay => pendingId = 0

\* What send_stream_request takes for an answer is the answer to its own request,
\* status and payload both: never that of a request that timed out.
OwnAnswer ==
  main = "retired" /\ "Response" \in woken => answer.id = asked /\ payload = asked

\* The flag is left set, though there is no WebSocket client that would clear it.
FlagLeftSet == connected /\ client = "none"

\* quote_stream_connected() tells main that there is a connection to use: of all
\* that may go wrong, only a connection made after the 15 s main waits for it,
\* while main gives it up, leaves the flag set.
ConnectedHasClient == main = "idle" /\ FlagLeftSet => late

\* Every refresh that fails is followed by one that succeeds, once failures are
\* over: no bit, flag or pending id left behind blocks the next connection, but for
\* the flag such a late connection has left.
RefreshSucceeds == <>[](late /\ FlagLeftSet) \/ []<>(main = "idle" /\ refreshed)
===============================================================================
