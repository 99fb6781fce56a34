------------------------------ MODULE Receiver ------------------------------
(***************************************************************************)
(* What LongbridgeClient reads from its WebSocket, and what it writes, byte *)
(* for byte: the chunks of a message are put together, the frame and its   *)
(* payload decoded, and the outcome handed on.                             *)
(*                                                                         *)
(* The gateway and the WebSocket library are external.  The library hands  *)
(* over what is in its buffer: a message comes in chunks, each with its    *)
(* offset in the WebSocket frame; a message may be fragmented into several *)
(* such frames; and a control frame with a payload is an event like any    *)
(* other.                                                                  *)
(***************************************************************************)
EXTENDS Frames, QuoteCodec

CONSTANTS
  Symbols,        \* the symbols in use
  Spellings,      \* of each of them, the texts that name it
  PushPayloads,   \* the payloads the gateway sends in pushes: sequences of entries
  AnswerPayloads, \* ... in answers
  Ids,            \* the request ids in use
  PendingId,      \* pending_request_id_
  Token,          \* SocketToken::token, as bytes
  MaxSymbols,     \* bound: symbols in a request of the client
  Damages,        \* what may be wrong with a frame: see DamageNames
  MaxChunk        \* bound: the library's buffer

DamageNames == {"none", "type", "flag", "short"}

\* Request ids have 32 bits; kMaxSymbols is 500; the token fits into a frame.
ASSUME ReceiverAssumption ==
  /\ Ids \subseteq Nat /\ (\A id \in Ids : id \div 16777216 < 256) /\ PendingId \in Ids
  /\ Token \in Seq(Byte) /\ Len(Token) <= 16777000 /\ Len(Token) < Power[ValueBits]
  /\ MaxSymbols \in 0..500 /\ MaxChunk \in Nat \ {0}
  /\ "none" \in Damages /\ Damages \subseteq DamageNames

\* The symbols are as SecuritySymbol::parse makes them.
ASSUME SymbolsAssumption == None \notin Symbols /\ \A s \in Symbols :
  /\ s = [ticker |-> s.ticker, region |-> s.region]
  /\ s.region \in DOMAIN RegionText
  /\ s.ticker \in Seq(Byte) /\ ValidTicker(s.ticker) /\ Upper(s.ticker) = s.ticker

VARIABLES
  up,      \* the WebSocket is connected
  sent,    \* the message the gateway is sending or has sent: see Messages
  stream,  \* its bytes
  split,   \* where its second WebSocket frame starts, or 0
  taken,   \* how many of its bytes the library has handed over
  rx,      \* websocket_rx_
  outcome, \* what came of the last frame handled
  asked,   \* what the client last meant to send
  written  \* the bytes it gave to esp_websocket_client_send_bin

message == <<sent, stream, split, taken>>
vars == <<up, message, rx, outcome, asked, written>>

\* CommandIntent
Heartbeat == 1
Auth == 2
QuoteSubscribe == 6
QuoteUnsubscribe == 7
QuotePull == 11
QuotePush == 101

-------------------------------------------------------------------------------
(* The gateway *)

\* An entry is a field with a value of its wire type, or one that a decoder must
\* refuse: a key that is 0, a fixed32, a varint that is too long, and, as the last of
\* its payload, a text or a varint that is cut off.
EncodeEntry(e) ==
  CASE e.wire = "varint"    -> WriteNumber(e.field, e.number)
    [] e.wire = "delimited" -> WriteString(e.field, e.text)
    [] e.wire = "fixed32"   -> WriteKey(e.field, 5) \o <<0, 0, 0, 0>>
    [] e.wire = "overlong"  -> WriteKey(e.field, Varint) \o
                               [i \in 1..(ValueBits \div 7 + 1) |-> 128] \o <<0>>
    [] e.wire = "cut"       -> WriteKey(e.field, Delimited) \o <<2, 49>>
    [] e.wire = "open"      -> WriteKey(e.field, Varint) \o <<128>>

EncodeEntries(entries) ==
  LET First[n \in 0..Len(entries)] ==
        IF n = 0 THEN <<>> ELSE First[n - 1] \o EncodeEntry(entries[n])
  IN  First[Len(entries)]

\* The parts of an entry have the width of a number, of a field number or of a key.
Fits(e) ==
  /\ e.wire \in {"varint", "delimited", "fixed32", "overlong", "cut", "open"}
  /\ e.field \in Nat /\ e.field < Power[FieldBits] /\ 8 * e.field + 7 < Power[ValueBits]
  /\ e.wire = "varint" => e.number \in Nat /\ e.number < Power[ValueBits]
  /\ e.wire = "delimited" => e.text \in Seq(Byte) /\ Len(e.text) < Power[ValueBits]

IsPayload(p) ==
  /\ p = [i \in 1..Len(p) |-> p[i]] /\ Len(p) \in Nat
  /\ \A i \in 1..Len(p) : Fits(p[i]) /\ (p[i].wire \in {"cut", "open"} => i = Len(p))
  /\ Len(EncodeEntries(p)) < 16777216

\* An entry of an answer is a row, itself of entries.
IsAnswer(p) ==
  /\ IsPayload(p)
  /\ \A i \in 1..Len(p) :
       /\ p[i].field = 1 /\ p[i].wire = "delimited"
       /\ IsPayload(p[i].row) /\ p[i].text = EncodeEntries(p[i].row)

ASSUME PayloadsAssumption ==
  (\A p \in PushPayloads : IsPayload(p)) /\ (\A p \in AnswerPayloads : IsAnswer(p))

Message(type, command, id, entries, damage) ==
  [type |-> type, command |-> command, id |-> id, entries |-> entries, damage |-> damage]

\* Of a push with a command that means nothing, the payload is not looked at.
Messages ==
  {Message(PushPacket, QuotePush, 0, p, d) : p \in PushPayloads, d \in Damages}
  \cup {Message(PushPacket, QuotePush + 1, 0, p, "none") :
          p \in {q \in PushPayloads : Len(q) <= 1}}
  \cup {Message(Response, QuotePull, id, p, "none") : id \in Ids, p \in AnswerPayloads}
  \cup {Message(Request, command, id, <<>>, "none") :
          command \in {Heartbeat, Auth}, id \in Ids}

ASSUME MessagesAssumption == None \notin Messages

Damaged(bytes, damage) ==
  CASE damage = "none"  -> bytes
    [] damage = "type"  -> [bytes EXCEPT ![1] = @ + 4]
    [] damage = "flag"  -> [bytes EXCEPT ![1] = @ + 32]
    [] damage = "short" -> SubSeq(bytes, 1, Len(bytes) - 1)

Bytes(sending) ==
  Damaged(EncodeFrame(WireFrame(sending.type, sending.command, sending.id,
                                EncodeEntries(sending.entries))),
          sending.damage)

Idle == taken = Len(stream)

NoMessage == sent' = None /\ stream' = <<>> /\ split' = 0 /\ taken' = 0

Outcome(kind, value) == [kind |-> kind, value |-> value]

Nothing == Outcome("nothing", None)

\* What was sent, asked or made of it is done with.
Quiet == sent = None /\ asked = None /\ outcome = Nothing

StartMessage(new) ==
  /\ up /\ Quiet
  /\ sent' = new /\ stream' = Bytes(new) /\ taken' = 0
  /\ split' \in IF new.damage = "none" THEN 0..(Len(stream') - 1) ELSE {0}
  /\ UNCHANGED <<up, rx, outcome, asked, written>>

Finish ==
  /\ up /\ Idle /\ ~Quiet
  /\ NoMessage
  /\ outcome' = Nothing
  /\ asked' = None /\ written' = <<>>
  /\ UNCHANGED <<up, rx>>

-------------------------------------------------------------------------------
(* LongbridgeClient *)

SendFrame(frame, meant) ==
  /\ asked' = meant
  /\ written' = EncodeFrame(frame)

SendNothing == UNCHANGED <<asked, written>>

\* The rows of an answer are decoded by the main task, after its wait.
HandleResponse(frame) ==
  /\ outcome' = IF frame.requestId = PendingId
                THEN Outcome("answer", DecodeSecurityQuoteResponse(frame.payload))
                ELSE Outcome("ignored", None)
  /\ SendNothing

Meant(command, id, symbols) == [command |-> command, id |-> id, symbols |-> symbols]

\* Mutant of HandleHeartbeat: answered with an id of its own.
HandleHeartbeatOwnId(frame) ==
  /\ SendFrame(WireFrame(Response, Heartbeat, PendingId, frame.payload),
               Meant(Heartbeat, frame.requestId, <<>>))
  /\ outcome' = Outcome("heartbeat", frame.requestId)

HandleHeartbeat(frame) ==
  /\ SendFrame(WireFrame(Response, Heartbeat, frame.requestId, frame.payload),
               Meant(Heartbeat, frame.requestId, <<>>))
  /\ outcome' = Outcome("heartbeat", frame.requestId)

HandlePush(frame) ==
  /\ outcome' = IF DecodePushQuote(frame.payload) = None
                THEN Outcome("ignored", None)
                ELSE Outcome("delta", DecodePushQuote(frame.payload))
  /\ SendNothing

\* handle_websocket_message
HandleMessage(data) ==
  LET decoded == DecodeFrame(data, MaxPayload)
      frame   == decoded.frame
      Is(type, command) == frame.type = type /\ frame.command = command
  IN  \/ /\ decoded.status # "Ok"
         /\ outcome' = Outcome("error", None)
         /\ SendNothing
      \/ /\ decoded.status = "Ok"
         /\ \/ frame.type = Response /\ HandleResponse(frame)
            \/ Is(Request, Heartbeat) /\ HandleHeartbeat(frame)
            \/ Is(PushPacket, QuotePush) /\ HandlePush(frame)
            \/ /\ frame.type # Response
               /\ ~Is(Request, Heartbeat) /\ ~Is(PushPacket, QuotePush)
               /\ outcome' = Outcome("ignored", None)
               /\ SendNothing

\* Mutant of HandleData: what is there is kept at the start of a frame.
HandleDataKeeping(bytes, offset, length, fin) ==
  LET now == rx \o bytes
  IN  \/ /\ fin /\ Len(now) >= length
         /\ HandleMessage(now)
         /\ UNCHANGED rx
      \/ /\ ~(fin /\ Len(now) >= length)
         /\ rx' = now
         /\ UNCHANGED outcome /\ SendNothing

\* WEBSOCKET_EVENT_DATA: the frame of the event is data_len = Len(bytes) of its
\* payload_len = length bytes.
HandleData(bytes, offset, length, fin) ==
  LET now == (IF offset = 0 THEN <<>> ELSE rx) \o bytes
  IN  \/ /\ fin /\ Len(now) >= length
         /\ HandleMessage(now)
         /\ rx' = <<>>
      \/ /\ ~(fin /\ Len(now) >= length)
         /\ rx' = now
         /\ UNCHANGED outcome /\ SendNothing

\* The WebSocket frame the next bytes are from.
InSecond   == split # 0 /\ taken >= split
FrameStart == IF InSecond THEN split ELSE 0
FrameEnd   == IF split = 0 \/ InSecond THEN Len(stream) ELSE split

Chunk(n) ==
  /\ up /\ ~Idle
  /\ taken + n <= FrameEnd
  /\ taken' = taken + n
  /\ HandleData(SubSeq(stream, taken + 1, taken + n),
                taken - FrameStart, FrameEnd - FrameStart, split = 0 \/ InSecond)
  /\ UNCHANGED <<up, sent, stream, split>>

\* The close frame with the code 1000; then the connection ends.
CloseFrame == <<3, 232>>

Close ==
  /\ up /\ sent = None
  /\ UNCHANGED message
  /\ HandleData(CloseFrame, 0, Len(CloseFrame), TRUE)
  /\ up' = FALSE

Lose ==
  /\ up /\ ~Idle
  /\ up' = FALSE
  /\ NoMessage
  /\ UNCHANGED <<rx, outcome, asked, written>>

\* connect_quote_stream, which calls disconnect first.
Connect ==
  /\ ~up /\ up' = TRUE
  /\ rx' = <<>>
  /\ UNCHANGED <<message, outcome, asked, written>>

SymbolLists == UNION {[1..n -> Symbols] : n \in 0..MaxSymbols}

\* A subscription asks for a first push; the end of one is of the symbols named.
Payload(command, symbols) ==
  CASE command = Auth             -> EncodeAuth(Token)
    [] command = QuotePull        -> EncodeMultiSecurity(symbols)
    [] command = QuoteSubscribe   -> EncodeSubscription(symbols, TRUE)
    [] command = QuoteUnsubscribe -> EncodeSubscription(symbols, FALSE)

Timeout(command) == IF command = QuotePull THEN 10000 ELSE 5000

\* send_stream_request; nothing is asked about no symbols.
Ask(command, id, symbols) ==
  /\ up /\ Quiet
  /\ command = Auth <=> symbols = <<>>
  /\ SendFrame([WireFrame(Request, command, id, Payload(command, symbols))
                  EXCEPT !.timeout = Timeout(command)],
               Meant(command, id, symbols))
  /\ UNCHANGED <<up, message, rx, outcome>>

Init ==
  /\ up = TRUE
  /\ sent = None /\ stream = <<>> /\ split = 0 /\ taken = 0
  /\ rx = <<>>
  /\ outcome = Nothing
  /\ asked = None /\ written = <<>>

AskSomething ==
  \E command \in {Auth, QuotePull, QuoteSubscribe, QuoteUnsubscribe}, id \in Ids,
     symbols \in SymbolLists : Ask(command, id, symbols)

Next ==
  \/ \E new \in Messages : StartMessage(new)
  \/ Finish
  \/ \E n \in 1..MaxChunk : Chunk(n)
  \/ Close
  \/ Lose
  \/ Connect
  \/ AskSomething

Spec == Init /\ [][Next]_vars

-------------------------------------------------------------------------------
(* Properties *)

\* The bytes kept are those of the WebSocket frame that is being received: none is
\* left of an earlier message, of a lost connection or of a control frame.
RxIsOfThisFrame ==
  up => rx = IF Idle THEN <<>>
             ELSE IF taken = split /\ split # 0 THEN SubSeq(stream, 1, split)
             ELSE SubSeq(stream, FrameStart + 1, taken)

\* What the entries say, of the last of a field when it is there twice.
Places(entries, field, wire) ==
  {i \in DOMAIN entries : entries[i].field = field /\ entries[i].wire = wire}

TextOf(entries, field) ==
  LET places == Places(entries, field, "delimited")
  IN  IF places = {} THEN <<>> ELSE entries[Max(places)].text

NumberOf(entries, field) ==
  LET places == Places(entries, field, "varint")
  IN  IF places = {} THEN None ELSE entries[Max(places)].number

Readable(entries) ==
  \A i \in DOMAIN entries :
    entries[i].field # 0 /\ entries[i].wire \in {"varint", "delimited"}

SymbolOf(entries) ==
  LET named == {s \in Symbols : TextOf(entries, 1) \in Spellings[s]}
  IN  IF named = {} THEN None ELSE CHOOSE s \in named : TRUE

\* The text is the ticker, a dot and the region, in letters of any size and with blanks
\* around it and around the region.
Spells(text, symbol) ==
  LET upper == Upper(Trim(text))
      n     == Len(symbol.ticker)
  IN  /\ Len(upper) > n
      /\ SubSeq(upper, 1, n) = symbol.ticker
      /\ upper[n + 1] = Dot
      /\ Trim(SubSeq(upper, n + 2, Len(upper))) = RegionText[symbol.region]

\* What may name a symbol: the pushes, and the rows of the answers.
SentQuotes == PushPayloads \cup UNION {{p[i].row : i \in 1..Len(p)} : p \in AnswerPayloads}

\* No symbol is named but those in use, and Spellings has their names.
ASSUME SpellingsAssumption == \A quote \in SentQuotes :
  /\ ParseSymbol(TextOf(quote, 1)) \in Symbols \cup {None}
  /\ \A s \in Symbols : TextOf(quote, 1) \in Spellings[s] <=> Spells(TextOf(quote, 1), s)

Says(entries, schema) ==
  IF ~Readable(entries) THEN None
  ELSE IF SymbolOf(entries) = None THEN None
  ELSE [name \in Range(schema.names) |->
    LET field == CHOOSE i \in DOMAIN schema.names : schema.names[i] = name
    IN  CASE field = 1                  -> SymbolOf(entries)
          [] field \in Numbers(schema)  -> NumberOf(entries, field)
          [] field \in schema.decimals -> ParseDecimal(TextOf(entries, field))]

SaysRows(entries) ==
  LET rows == [i \in DOMAIN entries |-> Says(entries[i].row, QuoteSchema)]
  IN  IF None \in Range(rows) THEN None ELSE rows

Expected(said) ==
  LET tooLong == Len(EncodeEntries(said.entries)) > MaxPayload
      delta   == Says(said.entries, PushSchema)
  IN  IF said.damage # "none" \/ tooLong THEN Outcome("error", None)
      ELSE CASE said.type = Response ->
             IF said.id = PendingId
             THEN Outcome("answer", SaysRows(said.entries))
             ELSE Outcome("ignored", None)
        [] said.type = Request ->
             IF said.command = Heartbeat
             THEN Outcome("heartbeat", said.id)
             ELSE Outcome("ignored", None)
        [] said.type = PushPacket ->
             IF said.command # QuotePush \/ delta = None
             THEN Outcome("ignored", None)
             ELSE Outcome("delta", delta)

\* However a message is cut into chunks, the client makes of it what it says, and of
\* one that is damaged, too long or not decodable nothing: the last of repeated
\* fields counts, unknown ones are skipped, and a decimal that is not a number is
\* taken for absent.
OutcomeIsWhatWasSent ==
  (up /\ sent # None /\ Idle /\ split = 0) => outcome = Expected(sent)

\* Of a message fragmented into two WebSocket frames the client makes no quote and no
\* answer.
FragmentsMakeNothing ==
  (up /\ sent # None /\ Idle /\ split # 0) => outcome.kind \in {"error", "ignored"}

\* What a request says after its symbols.
Rest(command) ==
  LET Flag(n) == [field |-> 3, wire |-> Varint, value |-> n]
      Quotes  == [field |-> 2, wire |-> Varint, value |-> kSubTypeQuote]
  IN  CASE command = QuoteSubscribe   -> <<Quotes, Flag(1)>>
        [] command = QuoteUnsubscribe -> <<Quotes, Flag(0)>>
        [] OTHER                      -> <<>>

Names(f, symbol) == f.field = 1 /\ f.wire = Delimited /\ ParseSymbol(f.value) = symbol

Tells(fields, meant) ==
  LET n    == Len(meant.symbols)
      rest == Rest(meant.command)
  IN  IF meant.command = Auth
      THEN fields = <<[field |-> 1, wire |-> Delimited, value |-> Token]>>
      ELSE /\ fields # None
           /\ Len(fields) = n + Len(rest)
           /\ \A i \in 1..n : Names(fields[i], meant.symbols[i])
           /\ \A i \in 1..Len(rest) : fields[n + i] = rest[i]

\* The gateway reads in every frame the client writes the command, the id and the
\* timeout that the client meant, and in a request the token, or the symbols in their
\* order with what a subscription says of them, and nothing else.
WrittenIsWhatWasAsked ==
  asked # None =>
    LET decoded == DecodeFrame(written, Len(written))
    IN  /\ decoded.status = "Ok"
        /\ decoded.frame.command = asked.command
        /\ decoded.frame.requestId = asked.id
        /\ decoded.frame.timeout = Timeout(asked.command)
        /\ asked.command # Heartbeat => Tells(Fields(decoded.frame.payload), asked)

===============================================================================
