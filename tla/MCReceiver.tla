----------------------------- MODULE MCReceiver -----------------------------
EXTENDS Receiver

US == <<46, 85, 83>>
HK == <<46, 72, 75>>

\* A.US and 7-B.HK, and what else names them: small letters and blanks around the
\* text or the region.
A == [ticker |-> <<65>>, region |-> "Us"]
B == [ticker |-> <<55, 45, 66>>, region |-> "Hk"]
TwoSymbols == {A, B}
SpellingsOf(s) ==
  IF s = A THEN {<<65>> \o US, <<32, 97, 46, 117, 115, 10>>, <<65, 46, 32, 85, 83>>}
  ELSE {<<55, 45, 66>> \o HK}
TheSpellings == [s \in TwoSymbols |-> SpellingsOf(s)]

\* No ticker, no region, no dot, another region, a ticker that ends with a dash or has
\* a blank in it, and one that is too long.
NoSymbols == {<<>>, US, <<65, 46>>, <<65>>, <<65, 46, 85>>, <<65, 45>> \o US,
              <<65, 32>> \o US, [i \in 1..17 |-> 65] \o US}

Entry(field, wire, number, text) ==
  [field |-> field, wire |-> wire, number |-> number, text |-> text]

Amount(field, number) == Entry(field, "varint", number, <<>>)
Text(field, text) == Entry(field, "delimited", 0, text)
Bad(field, wire) == Entry(field, wire, 0, <<>>)
Row(entries) == Text(1, EncodeEntries(entries)) @@ [row |-> entries]

OfA == Text(1, <<65>> \o US)
OfB == Text(1, <<55, 45, 66>> \o HK)

\* A price, another, one that is not a number; numbers of one and two bytes; a field
\* of the wrong type, one with a number of two bytes that nobody knows; a varint of
\* the full width; and three that cannot be read.
Entries == {
  Text(3, <<49>>), Text(3, <<50, 51>>), Text(4, <<120>>),
  Amount(2, 128), Amount(8, 1), Amount(3, 7), Amount(99, 5), Amount(7, 65535),
  Bad(0, "varint"), Bad(5, "fixed32"), Bad(6, "overlong")}

ShortPushes ==
  {<<Text(1, text)>> : text \in NoSymbols \cup UNION {TheSpellings[t] : t \in TwoSymbols}}
  \cup {<<>>, <<OfA, OfB>>, <<OfA, Bad(3, "cut")>>, <<OfA, Bad(8, "open")>>}
MediumPushes == {<<OfA, e>> : e \in Entries} \cup {<<e, OfB>> : e \in Entries}
LongPushes == {<<e, OfA, f>> : e \in Entries, f \in Entries}
SomePushes == ShortPushes \cup MediumPushes \cup LongPushes

Rows == {<<OfA, Text(2, <<49>>)>>, <<OfB, Amount(8, 300)>>, <<Text(3, <<49>>)>>,
         <<OfA, Bad(2, "cut")>>}
SomeAnswers ==
  {<<>>} \cup {<<Row(r)>> : r \in Rows} \cup {<<Row(r), Row(s)>> : r \in Rows, s \in Rows}

\* A token whose length takes two bytes.
SomeToken == [i \in 1..130 |-> 97]

SomeIds == {1, 258, 16909060}
AllDamages == DamageNames

===============================================================================
