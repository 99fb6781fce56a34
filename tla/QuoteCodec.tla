----------------------------- MODULE QuoteCodec -----------------------------
(***************************************************************************)
(* longbridge/quote_codec.cpp: the protobuf payloads of requests, answers  *)
(* and pushes.                                                             *)
(*                                                                         *)
(* A payload is a sequence of fields, each a key (its number and its wire  *)
(* type) and a value.  Of decimals strtod knows the texts made of digits,  *)
(* and a status or session keeps its number.                               *)
(***************************************************************************)
EXTENDS SecuritySymbol

CONSTANTS
  ValueBits,  \* the width of a varint (64)
  FieldBits   \* the width of a field number (32)

ASSUME CodecAssumption ==
  ValueBits \in Nat /\ ValueBits >= 7 /\ FieldBits \in Nat /\ FieldBits >= 4

\* What is read of a field.
FieldRead == [field : Nat, wire : Nat, value : Nat \cup Seq(Nat)]

ASSUME NoneAssumption == None \notin DOMAIN RegionText \cup FieldRead \cup Seq(FieldRead)

\* 2 ^ n
Power[n \in 0..(ValueBits + FieldBits)] == IF n = 0 THEN 1 ELSE 2 * Power[n - 1]

\* Wire types
Varint == 0
Delimited == 2

-------------------------------------------------------------------------------
(* Writing *)

WriteVarint(value) ==
  LET Bytes[v \in 0..value] == IF v < 128 THEN <<v>> ELSE <<(v % 128) + 128>> \o Bytes[v \div 128]
  IN  Bytes[value]

WriteKey(field, wire) == WriteVarint(8 * field + wire)
WriteString(field, text) == WriteKey(field, Delimited) \o WriteVarint(Len(text)) \o text
WriteNumber(field, value) == WriteKey(field, Varint) \o WriteVarint(value)
WriteBool(field, flag) == WriteNumber(field, IF flag THEN 1 ELSE 0)

kSubTypeQuote == 1

EncodeAuth(token) == WriteString(1, token)

EncodeMultiSecurity(symbols) ==
  LET First[n \in 0..Len(symbols)] ==
        IF n = 0 THEN <<>> ELSE First[n - 1] \o WriteString(1, SymbolText(symbols[n]))
  IN  First[Len(symbols)]

\* The flag is is_first_push, or unsubscribe_all.
EncodeSubscription(symbols, flag) ==
  EncodeMultiSecurity(symbols) \o WriteNumber(2, kSubTypeQuote) \o WriteBool(3, flag)

-------------------------------------------------------------------------------
(* Reading: each operator has the bytes read and the cursor after them *)

Unread == [ok |-> FALSE, cursor |-> 0, value |-> None]
Read(cursor, value) == [ok |-> TRUE, cursor |-> cursor, value |-> value]

\* At most the bytes whose shift is below the width are read.
VarintEnds(data, cursor) ==
  {i \in (cursor + 1)..Len(data) :
     /\ 7 * (i - cursor - 1) < ValueBits
     /\ data[i] < 128
     /\ \A j \in (cursor + 1)..(i - 1) : data[j] >= 128}

\* Seven bits of each byte, the low ones first; what is beyond the width is lost.
VarintValue(bytes) ==
  LET After[i \in 0..Len(bytes)] ==
        IF i = Len(bytes) THEN 0 ELSE (128 * After[i + 1]) + (bytes[i + 1] % 128)
  IN  After[0] % Power[ValueBits]

ReadVarint(data, cursor) ==
  IF VarintEnds(data, cursor) = {} THEN Unread
  ELSE LET end == Min(VarintEnds(data, cursor))
       IN  Read(end, VarintValue(SubSeq(data, cursor + 1, end)))

\* Mutant of TextAfter: a length beyond the end stands for what there is.
TextAfterUnchecked(data, length) ==
  LET end == Min({length.cursor + length.value, Len(data)})
  IN  IF ~length.ok THEN Unread
      ELSE Read(end, SubSeq(data, length.cursor + 1, end))

TextAfter(data, length) ==
  LET end == length.cursor + length.value
  IN  IF ~length.ok THEN Unread
      ELSE IF end > Len(data) THEN Unread
      ELSE Read(end, SubSeq(data, length.cursor + 1, end))

ReadDelimited(data, cursor) == TextAfter(data, ReadVarint(data, cursor))

\* The value, or skip_field: a wire type that is not known cannot even be skipped.
ReadValue(data, cursor, wire) ==
  CASE wire = Varint    -> ReadVarint(data, cursor)
    [] wire = Delimited -> ReadDelimited(data, cursor)
    [] OTHER            -> Unread

\* What a key stands for.
FieldNumber(key) == (key.value \div 8) % Power[FieldBits]
WireType(key)    == key.value % 8

WithKey(key, read) ==
  IF ~read.ok THEN Unread
  ELSE Read(read.cursor, [field |-> FieldNumber(key), wire |-> WireType(key), value |-> read.value])

\* read_next_key and the value.
FieldAfter(data, key) ==
  IF ~key.ok THEN Unread
  ELSE IF FieldNumber(key) = 0 THEN Unread
  ELSE WithKey(key, ReadValue(data, key.cursor, WireType(key)))

ReadField(data, cursor) == FieldAfter(data, ReadVarint(data, cursor))

\* Nothing is made of a list of which an element is missing.
Prepend(first, rest) == IF first = None \/ rest = None THEN None ELSE <<first>> \o rest

\* The fields of a payload, or None if one of them cannot be read.
Fields(data) ==
  LET From[cursor \in 0..Len(data)] ==
        IF cursor = Len(data) THEN <<>>
        ELSE LET After(read) == IF read.ok THEN Prepend(read.value, From[read.cursor]) ELSE None
             IN  After(ReadField(data, cursor))
  IN  From[0]

\* parse_decimal
ParseDecimal(text) ==
  IF text # <<>> /\ \A i \in DOMAIN text : text[i] \in 48..57
  THEN FoldLeft(LAMBDA high, digit : 10 * high + digit - 48, 0, text)
  ELSE None

\* What the fields stand for, by their numbers, and which of them are decimals.
QuoteSchema ==
  [names    |-> <<"symbol", "last_price", "previous_close", "open", "high", "low",
                  "timestamp_ms", "volume", "turnover", "trade_status">>,
   decimals |-> {2, 3, 4, 5, 6, 9}]

PushSchema ==
  [names    |-> <<"symbol", "sequence", "last_price", "open", "high", "low",
                  "timestamp_ms", "volume", "turnover", "trade_status", "session">>,
   decimals |-> {3, 4, 5, 6, 9}]

Numbers(schema) == (DOMAIN schema.names) \ (schema.decimals \cup {1})

Blank(schema) ==
  [name \in Range(schema.names) |-> IF name = "symbol" THEN <<>> ELSE None]

\* A field of another number, or of the other wire type, is passed over.
Store(quote, f, schema) ==
  CASE f.wire = Delimited /\ f.field = 1 -> [quote EXCEPT !["symbol"] = f.value]
    [] f.wire = Delimited /\ f.field \in schema.decimals ->
         [quote EXCEPT ![schema.names[f.field]] = ParseDecimal(f.value)]
    [] f.wire = Varint /\ f.field \in Numbers(schema) ->
         [quote EXCEPT ![schema.names[f.field]] = f.value]
    [] OTHER -> quote

\* A quote whose symbol cannot be parsed is none.
WithSymbol(quote, symbol) ==
  IF symbol = None THEN None ELSE [quote EXCEPT !["symbol"] = symbol]

Checked(quote) == WithSymbol(quote, ParseSymbol(quote["symbol"]))

QuoteOf(fields, schema) ==
  LET After[n \in 0..Len(fields)] ==
        IF n = 0 THEN Blank(schema) ELSE Store(After[n - 1], fields[n], schema)
  IN  IF fields = None THEN None ELSE Checked(After[Len(fields)])

DecodePushQuote(data)     == QuoteOf(Fields(data), PushSchema)
DecodeSecurityQuote(data) == QuoteOf(Fields(data), QuoteSchema)

\* The rows of an answer; one that cannot be read spoils the answer.
RowsOf(fields) ==
  LET IsRow(f) == f.field = 1 /\ f.wire = Delimited
      Rows[n \in 0..Len(fields)] ==
        IF n = 0 THEN <<>>
        ELSE IF IsRow(fields[n]) THEN Append(Rows[n - 1], DecodeSecurityQuote(fields[n].value))
        ELSE Rows[n - 1]
  IN  IF fields = None THEN None
      ELSE IF None \in Range(Rows[Len(fields)]) THEN None
      ELSE Rows[Len(fields)]

DecodeSecurityQuoteResponse(data) == RowsOf(Fields(data))

===============================================================================
