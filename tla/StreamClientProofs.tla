-------------------------- MODULE StreamClientProofs --------------------------
(***************************************************************************)
(* Proofs about the stream client, for every id width, every combination   *)
(* of faults and every number of them: the pending id and the answer are   *)
(* those of the request, and the flag is not left set without a client.    *)
(***************************************************************************)
EXTENDS StreamClient, TLAPS

(***************************************************************************)
(* A connection is made for a pull or a subscription: the authentication   *)
(* knows what it goes on to.  With PendingIsAsked this is what the types   *)
(* rest on: a request that is sent has an id, a request that follows an    *)
(* authentication is one.                                                  *)
(***************************************************************************)
Calling == UnderWay \/ main \in {"check", "arm", "retired"}

ConnectionHasPurpose ==
  /\ main \in {"start", "started", "connecting", "attempted"} => next # "idle"
  /\ Calling /\ op = "auth" => next # "idle"

(* Types *)

LEMMA AwaitedBits == Awaited \subseteq Bits
BY DEF Awaited, Bits

LEMMA SetBitsType ==
  ASSUME TypeOK, NEW b \in Bits, SetBits({b})
  PROVE  bits' \subseteq Bits /\ woken' \subseteq Bits /\ main' \in MainStates
<1>1. Continuation \in MainStates
  BY DEF Continuation, MainStates
<1>2. QED
  BY <1>1 DEF SetBits, TypeOK

LEMMA NextIdType ==
  ASSUME NEW id \in Ids \cup {0}
  PROVE  NextId(id) \in Ids
BY StreamAssumption DEF NextId, Ids

LEMMA InitType == Init => TypeOK
<1> SUFFICES ASSUME Init PROVE TypeOK
  OBVIOUS
<1>1. current \in Ids \cup {0}
  BY StreamAssumption DEF Init, Ids
<1>2. connected \in BOOLEAN /\ refreshed \in BOOLEAN
  BY DEF Init
<1>3. NoStatus \in Frame
  BY DEF Frame
<1>4. QED
  BY <1>1, <1>2, <1>3
  DEF Init, TypeOK, Bits, ClientStates, HandlerStates, MainStates

LEMMA WebSocketTaskType == TypeOK /\ WebSocketTask => TypeOK'
<1> SUFFICES ASSUME TypeOK, WebSocketTask PROVE TypeOK'
  OBVIOUS
<1> USE DEF signalVars, answerVars, callVars
<1>1. CASE LinkUp \/ LinkFails \/ LinkDown \/ Garbage
  <2>1. failures' \in Nat
    BY <1>1 DEF LinkUp, LinkFails, LinkDown, Garbage, Fault, TypeOK
  <2>2. client' \in ClientStates /\ handler' \in HandlerStates
    BY <1>1 DEF LinkUp, LinkFails, LinkDown, Garbage, BeginHandler, ClientStates, HandlerStates
  <2>3. unanswered' \subseteq Ids /\ frame' \in Frame
    BY <1>1 DEF LinkUp, LinkFails, LinkDown, Garbage, BeginHandler, TypeOK
  <2>4. QED
    BY <1>1, <2>1, <2>2, <2>3 DEF LinkUp, LinkFails, LinkDown, Garbage, BeginHandler, TypeOK
<1>2. ASSUME NEW id \in unanswered, Respond(id)
      PROVE  TypeOK'
  <2>1. id \in Ids
    BY DEF TypeOK
  <2>2. frame' \in Frame
    <3>1. [id |-> id, ok |-> TRUE] \in Answer /\ [id |-> id, ok |-> FALSE] \in Answer
      BY <2>1 DEF Answer
    <3>2. QED
      BY <1>2, <3>1 DEF Respond, Frame
  <2>3. failures' \in Nat
    BY <1>2 DEF Respond, Fault, TypeOK
  <2>4. client' \in ClientStates /\ handler' \in HandlerStates /\ unanswered' \subseteq Ids
    BY <1>2 DEF Respond, BeginHandler, ClientStates, HandlerStates, TypeOK
  <2>5. QED
    BY <1>2, <2>2, <2>3, <2>4 DEF Respond, BeginHandler, TypeOK
<1>3. CASE OnConnected \/ OnDisconnected \/ ClearConnectedBit
  <2>1. connected' \in BOOLEAN /\ bits' \subseteq Bits
    BY <1>3 DEF OnConnected, OnDisconnected, ClearConnectedBit, HandlerStep, TypeOK
  <2>2. handler' \in HandlerStates
    BY <1>3 DEF OnConnected, OnDisconnected, ClearConnectedBit, HandlerStep, HandlerStates
  <2>3. QED
    BY <1>3, <2>1, <2>2
    DEF OnConnected, OnDisconnected, ClearConnectedBit, HandlerStep, TypeOK
<1>4. CASE MatchResponse
  BY <1>4 DEF MatchResponse, HandlerStep, TypeOK, HandlerStates
<1>5. CASE StoreStatus \/ StorePayload
  <2>1. frame.id \in Ids \cup {0}
    BY DEF TypeOK, Frame, Answer, NoStatus
  <2>2. QED
    BY <1>5, <2>1 DEF StoreStatus, StorePayload, HandlerStep, TypeOK, HandlerStates
<1>6. ASSUME NEW label, NEW b \in Bits, Signal(label, b)
      PROVE  TypeOK'
  <2>1. bits' \subseteq Bits /\ woken' \subseteq Bits /\ main' \in MainStates
    BY <1>6, SetBitsType DEF Signal
  <2>2. handler' \in HandlerStates
    BY <1>6 DEF Signal, HandlerStates
  <2>3. QED
    BY <1>6, <2>1, <2>2 DEF Signal, TypeOK
<1>7. QED
  BY <1>1, <1>2, <1>3, <1>4, <1>5, <1>6 DEF WebSocketTask, Bits

LEMMA MainTaskType ==
  ASSUME TypeOK, PendingIsAsked, ConnectionHasPurpose, MainTask
  PROVE  TypeOK'
<1> USE DEF signalVars, answerVars, callVars
<1>1. CASE DropConnected \/ ForgetRequest \/ StopClient
  <2>1. connected' \in BOOLEAN
    BY <1>1 DEF DropConnected, ForgetRequest, StopClient, TypeOK
  <2>2. main' \in MainStates /\ client' \in ClientStates
    BY <1>1 DEF DropConnected, ForgetRequest, StopClient, TypeOK, MainStates, ClientStates
  <2>3. QED
    BY <1>1, <2>1, <2>2 DEF DropConnected, ForgetRequest, StopClient, TypeOK
<1>2. CASE StartClient \/ StartFails
  <2>1. failures' \in Nat
    BY <1>2 DEF StartClient, StartFails, Fault, TypeOK
  <2>2. main' \in MainStates /\ client' \in ClientStates
    BY <1>2 DEF StartClient, StartFails, TypeOK, MainStates, ClientStates
  <2>3. QED
    BY <1>2, <2>1, <2>2 DEF StartClient, StartFails, TypeOK
<1>3. CASE AwaitConnection \/ AwaitAnswer
  <2>1. failures' \in Nat
    BY <1>3 DEF AwaitConnection, AwaitAnswer, TimeOut, Fault, TypeOK
  <2>2. main' \in MainStates /\ bits' \subseteq Bits /\ woken' \subseteq Bits
    BY <1>3
    DEF AwaitConnection, AwaitAnswer, TimeOut, WaitBits, Continuation, TypeOK, MainStates
  <2>3. QED
    BY <1>3, <2>1, <2>2 DEF AwaitConnection, AwaitAnswer, TypeOK
<1>4. CASE Attempted
  BY <1>4 DEF Attempted, Go, TypeOK, MainStates
<1>5. CASE CheckConnected
  BY <1>5 DEF CheckConnected, CallFails, Go, TypeOK, MainStates
<1>6. CASE Arm
  <2>1. NextId(current) \in Ids
    BY NextIdType DEF TypeOK
  <2>2. QED
    BY <1>6, <2>1 DEF Arm, TypeOK, Frame, MainStates
<1>7. CASE ResetAnswer \/ ClearRequestBits
  BY <1>7 DEF ResetAnswer, ClearRequestBits, TypeOK, Frame, MainStates
<1>8. CASE Send
  <2>1. asked \in Ids
    BY <1>8 DEF Send, TypeOK, PendingIsAsked, UnderWay
  <2>2. main' \in MainStates /\ op' = op /\ next' \in {"idle", "pull", "subscribe"}
    BY <1>8 DEF Send, CallFails, Go, TypeOK, MainStates
  <2>3. QED
    BY <1>8, <2>1, <2>2 DEF Send, CallFails, Go, TypeOK
<1>9. CASE RetireRequest
  BY <1>9 DEF RetireRequest, TypeOK, MainStates
<1>10. CASE TakeAnswer
  <2>1. refreshed' \in BOOLEAN
    BY <1>10 DEF TakeAnswer, CallFails, CallSucceeds, TypeOK
  <2>2. /\ main' \in MainStates
        /\ op' \in {"auth", "pull", "subscribe"}
        /\ next' \in {"idle", "pull", "subscribe"}
    <3>1. op = "auth" => next \in {"pull", "subscribe"}
      BY <1>10 DEF TakeAnswer, ConnectionHasPurpose, Calling, TypeOK
    <3>2. CASE CallSucceeds
      BY <3>1, <3>2 DEF CallSucceeds, Go, TypeOK, MainStates
    <3>3. CASE CallFails
      BY <3>3 DEF CallFails, Go, TypeOK, MainStates
    <3>4. QED
      BY <1>10, <3>2, <3>3 DEF TakeAnswer
  <2>3. QED
    BY <1>10, <2>1, <2>2 DEF TakeAnswer, TypeOK
<1>11. CASE Refresh \/ EnsureQuoteStream \/ Disconnect
  <2>1. refreshed' \in BOOLEAN
    BY <1>11 DEF Refresh, EnsureQuoteStream, Disconnect, TypeOK
  <2>2. failures' \in Nat
    BY <1>11 DEF Refresh, EnsureQuoteStream, Disconnect, Connect, Fault, TypeOK
  <2>3. /\ main' \in MainStates
        /\ op' \in {"auth", "pull", "subscribe"}
        /\ next' \in {"idle", "pull", "subscribe"}
    BY <1>11 DEF Refresh, EnsureQuoteStream, Disconnect, Connect, Go, TypeOK, MainStates
  <2>4. QED
    BY <1>11, <2>1, <2>2, <2>3 DEF Refresh, EnsureQuoteStream, Disconnect, TypeOK
<1>12. QED
  BY <1>1, <1>2, <1>3, <1>4, <1>5, <1>6, <1>7, <1>8, <1>9, <1>10, <1>11 DEF MainTask

LEMMA StepType ==
  ASSUME TypeOK, PendingIsAsked, ConnectionHasPurpose, [Next]_vars
  PROVE  TypeOK'
<1>1. CASE UNCHANGED vars
  BY <1>1 DEF vars, signalVars, answerVars, callVars, TypeOK
<1>2. QED
  BY <1>1, WebSocketTaskType, MainTaskType DEF Next

-------------------------------------------------------------------------------
(* The pending request *)

\* A callback moves main on from a wait only, and touches no request.
LEMMA WebSocketTaskLeaves ==
  ASSUME TypeOK, WebSocketTask
  PROVE  /\ UNCHANGED <<pendingId, asked, op, next, current, answer>>
         /\ \/ main' = main
            \/ main = "connecting" /\ main' = "attempted"
            \/ main = "awaiting" /\ main' = "answered"
<1> USE DEF signalVars, answerVars, callVars
<1>1. CASE LinkUp \/ LinkFails \/ LinkDown \/ Garbage \/ \E id \in unanswered : Respond(id)
  BY <1>1 DEF LinkUp, LinkFails, LinkDown, Garbage, Respond, BeginHandler
<1>2. CASE OnConnected \/ OnDisconnected \/ ClearConnectedBit
  BY <1>2 DEF OnConnected, OnDisconnected, ClearConnectedBit, HandlerStep
<1>3. CASE MatchResponse \/ StoreStatus \/ StorePayload
  BY <1>3 DEF MatchResponse, StoreStatus, StorePayload, HandlerStep
<1>4. ASSUME NEW label, NEW b, Signal(label, b)
      PROVE  /\ UNCHANGED <<pendingId, asked, op, next, current, answer>>
             /\ \/ main' = main
                \/ main = "connecting" /\ main' = "attempted"
                \/ main = "awaiting" /\ main' = "answered"
  <2>1. Awaited # {} => main \in {"connecting", "awaiting"}
    BY DEF Awaited
  <2>2. SetBits({b}) /\ UNCHANGED <<pendingId, asked, op, next, current, answer>>
    BY <1>4 DEF Signal
  <2>3. main' = main \/ (Awaited # {} /\ main' = Continuation)
    BY <2>2 DEF SetBits
  <2>4. QED
    BY <2>1, <2>2, <2>3 DEF Continuation
<1>5. QED
  BY <1>1, <1>2, <1>3, <1>4 DEF WebSocketTask

LEMMA PendingStep ==
  ASSUME TypeOK, PendingIsAsked, ConnectionHasPurpose, [Next]_vars
  PROVE  PendingIsAsked' /\ ConnectionHasPurpose'
<1> USE DEF signalVars, answerVars, callVars, PendingIsAsked, ConnectionHasPurpose,
            Calling, UnderWay
<1>1. CASE UNCHANGED vars
  BY <1>1 DEF vars
<1>2. CASE WebSocketTask
  BY <1>2, WebSocketTaskLeaves
<1>3. CASE DropConnected \/ ForgetRequest \/ StopClient
  BY <1>3 DEF DropConnected, ForgetRequest, StopClient
<1>4. CASE StartClient \/ StartFails
  BY <1>4 DEF StartClient, StartFails
<1>5. CASE AwaitConnection \/ AwaitAnswer
  BY <1>5 DEF AwaitConnection, AwaitAnswer, WaitBits, TimeOut, Continuation
<1>6. CASE Attempted
  BY <1>6 DEF Attempted, Go
<1>7. CASE CheckConnected
  BY <1>7 DEF CheckConnected, CallFails, Go
<1>8. CASE Arm
  <2>1. NextId(current) # 0
    BY NextIdType, StreamAssumption DEF TypeOK, Ids
  <2>2. QED
    BY <1>8, <2>1 DEF Arm
<1>9. CASE ResetAnswer \/ ClearRequestBits \/ RetireRequest
  BY <1>9 DEF ResetAnswer, ClearRequestBits, RetireRequest
<1>10. CASE Send
  BY <1>10 DEF Send, CallFails, Go
<1>11. CASE TakeAnswer
  <2>1. CASE CallSucceeds
    <3>1. next # "auth" /\ op \in {"auth", "pull", "subscribe"}
      BY DEF TypeOK
    <3>2. main' # "retired" /\ pendingId' = pendingId
      BY <1>11, <2>1 DEF TakeAnswer, CallSucceeds, Go
    <3>3. op' # "auth"
      BY <1>11, <2>1, <3>1 DEF TakeAnswer, CallSucceeds, Go
    <3>4. QED
      BY <1>11, <2>1, <3>1, <3>2, <3>3 DEF TakeAnswer, CallSucceeds, Go
  <2>2. CASE CallFails
    BY <1>11, <2>2 DEF TakeAnswer, CallFails, Go
  <2>3. QED
    BY <1>11, <2>1, <2>2 DEF TakeAnswer
<1>12. CASE Refresh \/ EnsureQuoteStream \/ Disconnect
  BY <1>12 DEF Refresh, EnsureQuoteStream, Disconnect, Connect, Go
<1>13. QED
  BY <1>1, <1>2, <1>3, <1>4, <1>5, <1>6, <1>7, <1>8, <1>9, <1>10, <1>11, <1>12
  DEF Next, MainTask

LEMMA PendingInit == Init => PendingIsAsked /\ ConnectionHasPurpose
BY DEF Init, PendingIsAsked, ConnectionHasPurpose, Calling, UnderWay

\* Every variable of the client keeps its type, for every id width.
THEOREM TypeCorrect == Spec => []TypeOK
<1>1. Init => TypeOK /\ PendingIsAsked /\ ConnectionHasPurpose
  BY InitType, PendingInit
<1>2. TypeOK /\ PendingIsAsked /\ ConnectionHasPurpose /\ [Next]_vars
        => (TypeOK /\ PendingIsAsked /\ ConnectionHasPurpose)'
  BY StepType, PendingStep
<1>3. QED
  BY <1>1, <1>2, PTL DEF Spec

\* The pending id is that of the request under way and not 0, or 0 if there is no
\* request: also when the ids wrap around.
THEOREM PendingCorrect == Spec => []PendingIsAsked
<1>1. Init => TypeOK /\ PendingIsAsked /\ ConnectionHasPurpose
  BY InitType, PendingInit
<1>2. TypeOK /\ PendingIsAsked /\ ConnectionHasPurpose /\ [Next]_vars
        => (TypeOK /\ PendingIsAsked /\ ConnectionHasPurpose)'
  BY StepType, PendingStep
<1>3. QED
  BY <1>1, <1>2, PTL DEF Spec

-------------------------------------------------------------------------------
(* The answer *)

(***************************************************************************)
(* Why a request takes its own answer only, as long as a callback that has *)
(* matched an id is not held up until the next request: the id of a new    *)
(* request belongs to no answer that may still arrive, so what matches     *)
(* while it is pending is its answer; nothing matches once it is retired;  *)
(* and a "Response" bit is set after the status and the payload are        *)
(* stored, having been cleared before the request was sent.                *)
(***************************************************************************)
Matched == status.id = asked /\ payload = asked

FramesHaveIds == handler = "Response" \/ Storing => frame.id \in Ids

NewIdIsUnused == main \in {"reset", "clear", "send"} => asked \notin Outstanding

StoresOwnAnswer ==
  UnderWay \/ main = "retired" =>
    /\ Storing => frame.id = asked
    /\ handler \in {"storePayload", "signalResponse"} => status.id = asked
    /\ handler = "signalResponse" => payload = asked

BitsAreFresh ==
  /\ main = "send" => "Response" \notin bits
  /\ main = "sent" /\ "Response" \in bits => Matched
  /\ main = "awaiting" => bits \cap {"Response", "Error"} = {}
  /\ main = "answered" /\ "Response" \in woken => Matched

AnswerInv ==
  FramesHaveIds /\ NewIdIsUnused /\ StoresOwnAnswer /\ BitsAreFresh /\ OwnAnswer

\* Where there is no request there is nothing to show but the frame.
LEMMA NoRequestKeepsAnswerInv ==
  ASSUME AnswerInv, UNCHANGED <<handler, frame>>,
         main' \notin {"reset", "clear", "send", "sent", "awaiting", "answered", "retired"}
  PROVE  AnswerInv'
BY DEF AnswerInv, FramesHaveIds, NewIdIsUnused, StoresOwnAnswer, BitsAreFresh, OwnAnswer,
       Storing, UnderWay

\* A callback that stores nothing, touches no bit and adds no answer.
LEMMA QuietHandlerKeepsAnswerInv ==
  ASSUME TypeOK, AnswerInv,
         UNCHANGED <<pendingId, asked, answer, main, woken, bits, status, payload, frame>>,
         unanswered' \subseteq unanswered,
         handler' \notin {"Response", "storeStatus", "storePayload", "signalResponse"}
  PROVE  AnswerInv'
<1>1. FramesHaveIds' /\ StoresOwnAnswer'
  BY DEF FramesHaveIds, StoresOwnAnswer, Storing, UnderWay
<1>2. NewIdIsUnused'
  BY DEF AnswerInv, NewIdIsUnused, Outstanding, Storing
<1>3. BitsAreFresh' /\ OwnAnswer'
  BY DEF AnswerInv, BitsAreFresh, OwnAnswer, Matched
<1>4. QED
  BY <1>1, <1>2, <1>3 DEF AnswerInv

LEMMA WebSocketTaskAnswer ==
  ASSUME TypeOK, PendingIsAsked, AnswerInv, WebSocketTask
  PROVE  AnswerInv'
<1> USE DEF signalVars, answerVars, callVars
<1>1. CASE LinkUp \/ LinkFails \/ LinkDown \/ Garbage
  <2>1. /\ UNCHANGED <<pendingId, asked, answer, main, woken, bits, status, payload, frame>>
        /\ unanswered' \subseteq unanswered
    BY <1>1 DEF LinkUp, LinkFails, LinkDown, Garbage, BeginHandler
  <2>2. handler' \in {"Connected", "Disconnected", "ErrorEvent", "signalError"}
    BY <1>1 DEF LinkUp, LinkFails, LinkDown, Garbage, BeginHandler
  <2>3. QED
    BY <2>1, <2>2, QuietHandlerKeepsAnswerInv
<1>2. CASE OnConnected \/ OnDisconnected
  <2>1. /\ UNCHANGED <<pendingId, asked, answer, main, woken, bits, status, payload, frame>>
        /\ unanswered' = unanswered
        /\ handler' \in {"signalConnected", "clearConnected", "signalError"}
    BY <1>2 DEF OnConnected, OnDisconnected, HandlerStep
  <2>2. QED
    BY <2>1, QuietHandlerKeepsAnswerInv
<1>3. CASE ClearConnectedBit
  <2>1. handler' = "signalError" /\ bits' = bits \ {"Connected"}
    BY <1>3 DEF ClearConnectedBit
  <2>2. UNCHANGED <<pendingId, asked, answer, main, woken, status, payload, frame, unanswered>>
    BY <1>3 DEF ClearConnectedBit
  <2>3. FramesHaveIds' /\ StoresOwnAnswer'
    BY <2>1 DEF FramesHaveIds, StoresOwnAnswer, Storing, UnderWay
  <2>4. NewIdIsUnused'
    BY <2>1, <2>2 DEF AnswerInv, NewIdIsUnused, Outstanding, Storing
  <2>5. BitsAreFresh' /\ OwnAnswer'
    BY <2>1, <2>2 DEF AnswerInv, BitsAreFresh, OwnAnswer, Matched
  <2>6. QED
    BY <2>3, <2>4, <2>5 DEF AnswerInv
<1>4. ASSUME NEW id \in unanswered, Respond(id)
      PROVE  AnswerInv'
  <2>1. handler' = "Response" /\ unanswered' = unanswered \ {id} /\ frame'.id = id
    BY <1>4 DEF Respond, BeginHandler
  <2>2. UNCHANGED <<pendingId, asked, answer, main, woken, bits, status, payload>>
    BY <1>4 DEF Respond, BeginHandler
  <2>3. FramesHaveIds'
    BY <2>1 DEF FramesHaveIds, TypeOK
  <2>4. NewIdIsUnused'
    BY <2>1, <2>2 DEF AnswerInv, NewIdIsUnused, Outstanding, Storing
  <2>5. StoresOwnAnswer'
    BY <2>1 DEF StoresOwnAnswer, Storing
  <2>6. BitsAreFresh' /\ OwnAnswer'
    BY <2>2 DEF AnswerInv, BitsAreFresh, OwnAnswer, Matched
  <2>7. QED
    BY <2>3, <2>4, <2>5, <2>6 DEF AnswerInv
<1>5. CASE MatchResponse
  <2>1. UNCHANGED <<pendingId, asked, answer, main, woken, bits, status, payload, frame, unanswered>>
    BY <1>5 DEF MatchResponse, HandlerStep
  <2>2. CASE handler' = "idle"
    BY <2>1, <2>2, QuietHandlerKeepsAnswerInv
  <2>3. CASE handler' = "storeStatus" /\ frame.id = pendingId
    <3>1. handler = "Response" /\ frame.id \in Ids
      BY <1>5 DEF MatchResponse, HandlerStep, AnswerInv, FramesHaveIds
    <3>2. pendingId # 0
      BY <2>3, <3>1, StreamAssumption DEF Ids
    <3>3. UnderWay /\ frame.id = asked
      BY <2>3, <3>2 DEF PendingIsAsked
    <3>4. asked \in Outstanding
      BY <3>1, <3>3 DEF Outstanding
    <3>5. main \in {"sent", "awaiting", "answered"}
      BY <3>3, <3>4 DEF AnswerInv, NewIdIsUnused, UnderWay
    <3>6. FramesHaveIds' /\ NewIdIsUnused'
      BY <2>1, <3>1, <3>5 DEF FramesHaveIds, NewIdIsUnused
    <3>7. StoresOwnAnswer'
      BY <2>1, <2>3, <3>3 DEF StoresOwnAnswer
    <3>8. BitsAreFresh' /\ OwnAnswer'
      BY <2>1 DEF AnswerInv, BitsAreFresh, OwnAnswer, Matched
    <3>9. QED
      BY <3>6, <3>7, <3>8 DEF AnswerInv
  <2>4. QED
    BY <1>5, <2>2, <2>3 DEF MatchResponse, HandlerStep
<1>6. CASE StoreStatus \/ StorePayload
  <2>1. UNCHANGED <<pendingId, asked, answer, main, woken, bits, frame, unanswered>>
    BY <1>6 DEF StoreStatus, StorePayload, HandlerStep
  <2>2. Storing /\ Storing' /\ frame.id \in Ids
    BY <1>6 DEF StoreStatus, StorePayload, HandlerStep, Storing, AnswerInv, FramesHaveIds
  <2>3. FramesHaveIds' /\ NewIdIsUnused'
    BY <2>1, <2>2 DEF AnswerInv, FramesHaveIds, NewIdIsUnused, Outstanding
  <2>4. UnderWay \/ main = "retired" => frame.id = asked
    BY <2>2 DEF AnswerInv, StoresOwnAnswer
  <2>5. status' \in {status, frame} /\ payload' \in {payload, frame.id}
    BY <1>6 DEF StoreStatus, StorePayload, HandlerStep
  <2>6. StoresOwnAnswer'
    BY <1>6, <2>1, <2>4
    DEF StoreStatus, StorePayload, HandlerStep, AnswerInv, StoresOwnAnswer, UnderWay
  <2>7. BitsAreFresh' /\ OwnAnswer'
    BY <2>1, <2>4, <2>5 DEF AnswerInv, BitsAreFresh, OwnAnswer, Matched, UnderWay
  <2>8. QED
    BY <2>3, <2>6, <2>7 DEF AnswerInv
<1>7. ASSUME NEW label, NEW b,
             \/ label = "signalConnected" /\ b = "Connected"
             \/ label = "signalError" /\ b = "Error"
             \/ label = "signalResponse" /\ b = "Response",
             Signal(label, b)
      PROVE  AnswerInv'
  <2>1. UNCHANGED <<pendingId, asked, answer, status, payload, frame, unanswered>>
    BY <1>7 DEF Signal
  <2>2. handler = label /\ handler' = "idle" /\ SetBits({b})
    BY <1>7 DEF Signal
  <2>3. FramesHaveIds' /\ StoresOwnAnswer'
    BY <2>2 DEF FramesHaveIds, StoresOwnAnswer, Storing
  <2>4. main' # main =>
          \/ main = "connecting" /\ main' = "attempted"
          \/ main = "awaiting" /\ main' = "answered"
    BY <2>2 DEF SetBits, Awaited, Continuation
  <2>5. NewIdIsUnused'
    BY <2>1, <2>2, <2>4 DEF AnswerInv, NewIdIsUnused, Outstanding, Storing
  <2>6. b = "Response" /\ UnderWay => Matched
    BY <1>7, <2>2 DEF AnswerInv, StoresOwnAnswer, Storing, Matched
  <2>7. b # "Response" \/ main \notin {"reset", "clear", "send"}
    BY <1>7, <2>2 DEF AnswerInv, NewIdIsUnused, StoresOwnAnswer, Outstanding, Storing, UnderWay
  <2>8. BitsAreFresh'
    <3>1. CASE Awaited \cap (bits \cup {b}) = {}
      <4>1. bits' = bits \cup {b} /\ UNCHANGED <<main, woken>>
        BY <2>2, <3>1 DEF SetBits
      <4>2. main = "awaiting" => b \notin {"Response", "Error"}
        BY <3>1 DEF Awaited
      <4>3. QED
        BY <2>1, <2>6, <2>7, <4>1, <4>2 DEF AnswerInv, BitsAreFresh, Matched, UnderWay
    <3>2. CASE Awaited \cap (bits \cup {b}) # {}
      <4>1. woken' = bits \cup {b} /\ main' = Continuation
        BY <2>2, <3>2 DEF SetBits
      <4>2. main \in {"connecting", "awaiting"}
        BY <3>2 DEF Awaited
      <4>3. QED
        BY <2>1, <2>6, <4>1, <4>2 DEF AnswerInv, BitsAreFresh, Matched, UnderWay, Continuation
    <3>3. QED
      BY <3>1, <3>2
  <2>9. OwnAnswer'
    BY <2>1, <2>2, <2>4 DEF AnswerInv, OwnAnswer, SetBits, Continuation
  <2>10. QED
    BY <2>3, <2>5, <2>8, <2>9 DEF AnswerInv
<1>8. QED
  BY <1>1, <1>2, <1>3, <1>4, <1>5, <1>6, <1>7 DEF WebSocketTask

LEMMA MainTaskAnswer ==
  ASSUME ~SlowHandler, TypeOK, PendingIsAsked, ConnectionHasPurpose, AnswerInv, MainTask
  PROVE  AnswerInv'
<1> USE DEF signalVars, answerVars, callVars
<1>1. CASE \/ DropConnected \/ ForgetRequest \/ StopClient
           \/ StartClient \/ StartFails \/ Attempted \/ CheckConnected \/ AwaitConnection
           \/ Refresh \/ EnsureQuoteStream \/ Disconnect
  <2>1. UNCHANGED <<handler, frame>>
    BY <1>1
    DEF DropConnected, ForgetRequest, StopClient, StartClient, StartFails, Attempted,
        CheckConnected, AwaitConnection, Refresh, EnsureQuoteStream, Disconnect
  <2>2. main' \in {"forget", "stop", "idle", "start", "started", "connecting", "attempted",
                   "check", "drop", "arm"}
    <3>1. CASE DropConnected \/ ForgetRequest \/ StopClient \/ StartClient \/ StartFails
      BY <3>1 DEF DropConnected, ForgetRequest, StopClient, StartClient, StartFails
    <3>2. CASE Attempted \/ CheckConnected \/ AwaitConnection
      BY <3>2 DEF Attempted, CheckConnected, CallFails, AwaitConnection, WaitBits, TimeOut,
                  Continuation, Go
    <3>3. CASE Refresh \/ EnsureQuoteStream \/ Disconnect
      BY <3>3 DEF Refresh, EnsureQuoteStream, Disconnect, Connect, Go
    <3>4. QED
      BY <1>1, <3>1, <3>2, <3>3
  <2>3. QED
    BY <2>1, <2>2, NoRequestKeepsAnswerInv
<1>2. CASE Arm
  <2>1. /\ UNCHANGED <<handler, frame, unanswered, bits, woken>>
        /\ main' = "reset" /\ ~Storing
        /\ asked' \notin Outstanding
    BY <1>2 DEF Arm
  <2>2. FramesHaveIds' /\ NewIdIsUnused' /\ StoresOwnAnswer'
    BY <2>1
    DEF AnswerInv, FramesHaveIds, NewIdIsUnused, StoresOwnAnswer, Outstanding, Storing
  <2>3. BitsAreFresh' /\ OwnAnswer'
    BY <2>1 DEF BitsAreFresh, OwnAnswer
  <2>4. QED
    BY <2>2, <2>3 DEF AnswerInv
<1>3. CASE ResetAnswer \/ ClearRequestBits
  <2>1. /\ UNCHANGED <<handler, frame, unanswered, asked>>
        /\ main \in {"reset", "clear"} /\ main' \in {"clear", "send"}
        /\ main' = "send" => "Response" \notin bits'
    BY <1>3 DEF ResetAnswer, ClearRequestBits
  <2>2. ~Storing
    BY <2>1 DEF AnswerInv, NewIdIsUnused, StoresOwnAnswer, Outstanding, UnderWay
  <2>3. FramesHaveIds' /\ NewIdIsUnused' /\ StoresOwnAnswer'
    BY <2>1, <2>2
    DEF AnswerInv, FramesHaveIds, NewIdIsUnused, StoresOwnAnswer, Outstanding, Storing
  <2>4. BitsAreFresh' /\ OwnAnswer'
    BY <2>1 DEF BitsAreFresh, OwnAnswer
  <2>5. QED
    BY <2>3, <2>4 DEF AnswerInv
<1>4. CASE Send
  <2>1. UNCHANGED <<handler, frame, bits, woken, status, payload, asked>> /\ main = "send"
    BY <1>4 DEF Send
  <2>2. CASE main' = "sent"
    BY <2>1, <2>2
    DEF AnswerInv, FramesHaveIds, NewIdIsUnused, StoresOwnAnswer, BitsAreFresh, OwnAnswer,
        Storing, UnderWay
  <2>3. CASE main' # "sent"
    <3>1. main' \in {"idle", "drop"}
      BY <1>4, <2>3 DEF Send, CallFails, Go
    <3>2. QED
      BY <2>1, <3>1, NoRequestKeepsAnswerInv
  <2>4. QED
    BY <2>2, <2>3
<1>5. CASE AwaitAnswer
  <2>1. /\ UNCHANGED <<handler, frame, status, payload, asked, answer>>
        /\ main \in {"sent", "awaiting"} /\ main' \in {"awaiting", "answered"}
    BY <1>5 DEF AwaitAnswer, WaitBits, TimeOut, Continuation
  <2>2. FramesHaveIds' /\ NewIdIsUnused' /\ StoresOwnAnswer'
    BY <2>1 DEF AnswerInv, FramesHaveIds, NewIdIsUnused, StoresOwnAnswer, Storing, UnderWay
  <2>3. BitsAreFresh'
    <3>1. CASE main = "sent"
      BY <1>5, <2>1, <3>1 DEF AwaitAnswer, WaitBits, AnswerInv, BitsAreFresh, Matched
    <3>2. CASE main = "awaiting"
      <4>1. main' = "answered" /\ woken' = bits
        BY <1>5, <3>2 DEF AwaitAnswer, TimeOut, Continuation
      <4>2. QED
        BY <3>2, <4>1 DEF AnswerInv, BitsAreFresh
    <3>3. QED
      BY <2>1, <3>1, <3>2
  <2>4. OwnAnswer'
    BY <2>1 DEF OwnAnswer
  <2>5. QED
    BY <2>2, <2>3, <2>4 DEF AnswerInv
<1>6. CASE RetireRequest
  <2>1. /\ UNCHANGED <<handler, frame, status, payload, asked, woken>>
        /\ main = "answered" /\ main' = "retired" /\ answer' = status
    BY <1>6 DEF RetireRequest
  <2>2. FramesHaveIds' /\ NewIdIsUnused' /\ StoresOwnAnswer' /\ BitsAreFresh'
    BY <2>1
    DEF AnswerInv, FramesHaveIds, NewIdIsUnused, StoresOwnAnswer, BitsAreFresh, Storing,
        UnderWay
  <2>3. OwnAnswer'
    BY <2>1 DEF AnswerInv, BitsAreFresh, Matched, OwnAnswer
  <2>4. QED
    BY <2>2, <2>3 DEF AnswerInv
<1>7. CASE TakeAnswer
  <2>1. UNCHANGED <<handler, frame>> /\ main = "retired"
    BY <1>7 DEF TakeAnswer
  <2>2. main' \in {"idle", "drop", "check", "ensure"}
    BY <1>7 DEF TakeAnswer, CallFails, CallSucceeds, Go
  <2>3. QED
    BY <2>1, <2>2, NoRequestKeepsAnswerInv
<1>8. QED
  BY <1>1, <1>2, <1>3, <1>4, <1>5, <1>6, <1>7 DEF MainTask

\* A request takes its own answer and no other, status and payload both, as long
\* as no callback is held up between two accesses until the next request: timeouts,
\* lost connections and the wrapping of ids notwithstanding.
THEOREM AnswersAreOwn ==
  ASSUME ~SlowHandler
  PROVE  Spec => []OwnAnswer
<1> DEFINE IInv == TypeOK /\ PendingIsAsked /\ ConnectionHasPurpose /\ AnswerInv
<1>1. Init => IInv
  <2>1. Init => AnswerInv
    BY DEF Init, AnswerInv, FramesHaveIds, NewIdIsUnused, StoresOwnAnswer, BitsAreFresh,
           OwnAnswer, Storing, UnderWay
  <2>2. QED
    BY <2>1, InitType, PendingInit
<1>2. IInv /\ [Next]_vars => IInv'
  <2> SUFFICES ASSUME IInv, [Next]_vars
               PROVE  IInv'
    OBVIOUS
  <2>1. TypeOK' /\ PendingIsAsked' /\ ConnectionHasPurpose'
    BY StepType, PendingStep
  <2>2. AnswerInv'
    <3>1. CASE UNCHANGED vars
      BY <3>1
      DEF vars, signalVars, answerVars, callVars, AnswerInv, FramesHaveIds, NewIdIsUnused,
          StoresOwnAnswer, BitsAreFresh, OwnAnswer, Outstanding, Storing, UnderWay, Matched
    <3>2. QED
      BY <3>1, WebSocketTaskAnswer, MainTaskAnswer DEF Next
  <2>3. QED
    BY <2>1, <2>2
<1>3. IInv => OwnAnswer
  BY DEF AnswerInv
<1>4. QED
  BY <1>1, <1>2, <1>3, PTL DEF Spec

-------------------------------------------------------------------------------
(* The connection *)

(***************************************************************************)
(* Why the flag is left set without a client by a late connection only.    *)
(* The flag is set by the first callback of a connection, and a connection *)
(* is made while main waits for it; or main has given it up, and is on its *)
(* way through disconnect, the last step of which waits for the callback   *)
(* to return.  A disconnect that goes on to the next connection has none   *)
(* to give up, so that connection starts with the flag not set.            *)
(***************************************************************************)
Awaiting == client = "connecting" \/ handler \in {"Connected", "signalConnected"}

Expected == main \in {"started", "connecting"} /\ bits \cap {"Connected", "Error"} = {}

GivenUp ==
  /\ late
  /\ \/ main = "attempted" /\ "Connected" \notin woken
     \/ main \in {"drop", "forget", "stop"} /\ next = "idle"

ConnectionInv ==
  /\ Awaiting => Expected \/ GivenUp
  /\ client \in {"none", "connecting"} => handler = "idle"
  /\ client = "connecting" => ~connected
  /\ FlagLeftSet => late
  /\ main \in {"forget", "stop"} /\ connected => late /\ next = "idle"
  /\ main = "start" => client = "none" /\ ~connected

LEMMA WebSocketTaskConnection ==
  ASSUME TypeOK, ConnectionInv, WebSocketTask
  PROVE  ConnectionInv'
<1> USE DEF signalVars, answerVars, callVars, FlagLeftSet, Awaiting, Expected, GivenUp
<1>1. CASE LinkUp \/ LinkFails \/ LinkDown \/ Garbage \/ \E id \in unanswered : Respond(id)
  BY <1>1 DEF ConnectionInv, LinkUp, LinkFails, LinkDown, Garbage, Respond, BeginHandler
<1>2. CASE OnConnected \/ OnDisconnected \/ ClearConnectedBit
  BY <1>2 DEF ConnectionInv, OnConnected, OnDisconnected, ClearConnectedBit, HandlerStep
<1>3. CASE MatchResponse \/ StoreStatus \/ StorePayload
  BY <1>3 DEF ConnectionInv, MatchResponse, StoreStatus, StorePayload, HandlerStep
<1>4. ASSUME NEW label, NEW b, label # "idle", Signal(label, b)
      PROVE  ConnectionInv'
  <2>1. /\ handler = label /\ handler' = "idle" /\ SetBits({b})
        /\ UNCHANGED <<connected, client, next, late>>
    BY <1>4 DEF Signal
  <2>2. main' \in {main, "attempted", "answered"}
    BY <2>1 DEF SetBits, Continuation
  <2>3. client \notin {"none", "connecting"}
    BY <1>4, <2>1 DEF ConnectionInv
  <2> QED
    BY <2>1, <2>2, <2>3 DEF ConnectionInv
<1> QED
  BY <1>1, <1>2, <1>3, <1>4 DEF WebSocketTask

LEMMA MainTaskConnection ==
  ASSUME TypeOK, ConnectionInv, MainTask
  PROVE  ConnectionInv'
<1> USE DEF signalVars, answerVars, callVars, FlagLeftSet, Awaiting, Expected, GivenUp
<1>1. CASE DropConnected \/ ForgetRequest \/ StopClient
  BY <1>1 DEF ConnectionInv, DropConnected, ForgetRequest, StopClient
<1>2. CASE StartClient \/ StartFails
  BY <1>2 DEF ConnectionInv, StartClient, StartFails
<1>3. CASE AwaitConnection
  <2>1. UNCHANGED <<connected, client, handler, next>>
    BY <1>3 DEF AwaitConnection
  <2>2. CASE /\ main = "started" /\ UNCHANGED late
             /\ WaitBits("connecting", "attempted", {"Connected", "Error"}, {})
    BY <2>1, <2>2 DEF WaitBits, ConnectionInv
  <2>3. CASE main = "connecting" /\ TimeOut("slowconnect") /\ late'
    <3>1. main' = "attempted" /\ woken' = bits
      BY <2>3 DEF TimeOut, Continuation
    <3> QED
      BY <2>1, <2>3, <3>1 DEF ConnectionInv
  <2> QED
    BY <1>3, <2>2, <2>3 DEF AwaitConnection
<1>4. CASE Attempted
  <2>1. UNCHANGED <<connected, client, handler, bits, late>> /\ main = "attempted"
    BY <1>4 DEF Attempted
  <2>2. \/ "Connected" \in woken /\ main' = "check"
        \/ "Connected" \notin woken /\ main' = "drop" /\ next' = "idle"
    BY <1>4 DEF Attempted, Go
  <2> QED
    BY <2>1, <2>2 DEF ConnectionInv
<1>5. CASE CheckConnected \/ Send \/ TakeAnswer
  <2>1. /\ UNCHANGED <<connected, client, handler, late>>
        /\ main \in {"check", "send", "retired"}
    BY <1>5 DEF CheckConnected, Send, TakeAnswer
  <2>2. main' \in {"check", "drop", "arm", "idle", "sent", "ensure"}
    BY <1>5 DEF CheckConnected, Send, TakeAnswer, CallFails, CallSucceeds, Go
  <2> QED
    BY <2>1, <2>2 DEF ConnectionInv
<1>6. CASE Arm \/ ResetAnswer \/ ClearRequestBits \/ AwaitAnswer \/ RetireRequest
  <2>1. /\ UNCHANGED <<connected, client, handler, late>>
        /\ main \in {"arm", "reset", "clear", "sent", "awaiting", "answered"}
    BY <1>6 DEF Arm, ResetAnswer, ClearRequestBits, AwaitAnswer, RetireRequest
  <2>2. main' \in {"reset", "clear", "send", "awaiting", "answered", "retired"}
    BY <1>6 DEF Arm, ResetAnswer, ClearRequestBits, AwaitAnswer, WaitBits, TimeOut,
                Continuation, RetireRequest
  <2> QED
    BY <2>1, <2>2 DEF ConnectionInv
<1>7. CASE Refresh \/ EnsureQuoteStream \/ Disconnect
  <2>1. UNCHANGED <<connected, client, handler, late>> /\ main \in {"idle", "ensure"}
    BY <1>7 DEF Refresh, EnsureQuoteStream, Disconnect
  <2>2. main' \in {"check", "drop", "idle"}
    BY <1>7 DEF Refresh, EnsureQuoteStream, Disconnect, Connect, Go
  <2> QED
    BY <2>1, <2>2 DEF ConnectionInv
<1> QED
  BY <1>1, <1>2, <1>3, <1>4, <1>5, <1>6, <1>7 DEF MainTask

\* quote_stream_connected() tells main of a connection without a client only after a
\* connection was made while main gave it up, its 15 s being over: whatever else goes
\* wrong, in any interleaving of the two tasks (disconnect, handle_websocket_event).
THEOREM ConnectedMeansClient == Spec => []ConnectedHasClient
<1> DEFINE IInv == TypeOK /\ PendingIsAsked /\ ConnectionHasPurpose /\ ConnectionInv
<1>1. Init => IInv
  <2>1. Init => ConnectionInv
    BY DEF Init, ConnectionInv, FlagLeftSet, Awaiting, Expected, GivenUp
  <2> QED
    BY <2>1, InitType, PendingInit
<1>2. IInv /\ [Next]_vars => IInv'
  <2> SUFFICES ASSUME IInv, [Next]_vars
               PROVE  IInv'
    OBVIOUS
  <2>1. TypeOK' /\ PendingIsAsked' /\ ConnectionHasPurpose'
    BY StepType, PendingStep
  <2>2. CASE UNCHANGED vars
    BY <2>1, <2>2 DEF vars, signalVars, answerVars, callVars, ConnectionInv, FlagLeftSet, Awaiting, Expected,
           GivenUp
  <2>3. CASE Next
    BY <2>1, <2>3, WebSocketTaskConnection, MainTaskConnection DEF Next
  <2> QED
    BY <2>2, <2>3
<1>3. IInv => ConnectedHasClient
  BY DEF ConnectionInv, ConnectedHasClient
<1> QED
  BY <1>1, <1>2, <1>3, PTL DEF Spec

===============================================================================
