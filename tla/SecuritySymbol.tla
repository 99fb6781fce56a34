--------------------------- MODULE SecuritySymbol ---------------------------
(***************************************************************************)
(* quotes/symbol.cpp: a symbol and its texts, as ASCII codes.               *)
(***************************************************************************)
EXTENDS Naturals, SequencesExt

CONSTANT None  \* std::nullopt

Space   == (9..13) \cup {32}
Letters == 65..90
Digits  == 48..57
Dot     == 46
Dash    == 45

Trim(text) ==
  LET inner == {i \in DOMAIN text : text[i] \notin Space}
  IN  IF inner = {} THEN <<>> ELSE SubSeq(text, Min(inner), Max(inner))

Upper(text) == [i \in DOMAIN text |-> IF text[i] \in 97..122 THEN text[i] - 32 ELSE text[i]]

\* to_string(MarketRegion): US, HK, SH and SZ.
RegionText ==
  [Us |-> <<85, 83>>, Hk |-> <<72, 75>>, Shanghai |-> <<83, 72>>, Shenzhen |-> <<83, 90>>]

ParseRegion(text) ==
  LET named == {region \in DOMAIN RegionText : RegionText[region] = Upper(Trim(text))}
  IN  IF named = {} THEN None ELSE CHOOSE region \in named : TRUE

ValidTicker(ticker) ==
  /\ Len(ticker) \in 1..16
  /\ Range(Upper(ticker)) \subseteq Letters \cup Digits \cup {Dot, Dash}
  /\ {Head(ticker), Last(ticker)} \cap {Dot, Dash} = {}

SecuritySymbol(ticker, region) == [ticker |-> Upper(Trim(ticker)), region |-> region]

\* SecuritySymbol::value
SymbolText(symbol) == symbol.ticker \o <<Dot>> \o RegionText[symbol.region]

\* SecuritySymbol::parse: the region is what follows the last dot.
ParseSymbol(text) ==
  LET normalized == Upper(Trim(text))
      dots   == {i \in DOMAIN normalized : normalized[i] = Dot}
      ticker == SubSeq(normalized, 1, Max(dots) - 1)
      region == ParseRegion(SubSeq(normalized, Max(dots) + 1, Len(normalized)))
  IN  IF dots = {} THEN None
      ELSE IF Max(dots) \in {1, Len(normalized)} THEN None
      ELSE IF region = None \/ ~ValidTicker(ticker) THEN None
      ELSE SecuritySymbol(ticker, region)

===============================================================================
