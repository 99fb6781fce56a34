------------------------------ MODULE Watchlist ------------------------------
(***************************************************************************)
(* Watchlist of quotes/symbol.cpp: the symbols the user watches, in the    *)
(* order in which they were added, without duplicates and at most          *)
(* kMaxSymbols of them.                                                    *)
(*                                                                         *)
(* A symbol has one canonical text (SecuritySymbol::value) and many that   *)
(* are read as it (SecuritySymbol::parse, which trims, raises the letters  *)
(* and splits at the last dot).                                            *)
(***************************************************************************)
EXTENDS Naturals, SequencesExt

CONSTANTS
  kMaxSymbols,
  Symbols,   \* of SecuritySymbol
  Texts,     \* what may stand where a symbol is expected
  Value,     \* SecuritySymbol::value
  Parse,     \* SecuritySymbol::parse
  Invalid    \* std::nullopt

ASSUME WatchlistAssumption ==
  /\ kMaxSymbols \in Nat
  /\ Invalid \notin Symbols
  /\ Value \in [Symbols -> Texts]
  /\ Parse \in [Texts -> Symbols \cup {Invalid}]
  /\ \A symbol \in Symbols : Parse[Value[symbol]] = symbol

AddResult(list, symbol) ==
  CASE Contains(list, symbol)     -> "AlreadyExists"
    [] Len(list) >= kMaxSymbols   -> "Full"
    [] OTHER                      -> "Added"

Added(list, symbol) ==
  IF AddResult(list, symbol) = "Added" THEN Append(list, symbol) ELSE list

\* std::remove and erase; no watchlist has a symbol twice.
Removed(list, symbol) ==
  IF Contains(list, symbol)
  THEN RemoveAt(list, CHOOSE i \in DOMAIN list : list[i] = symbol)
  ELSE list

\* Texts that are not of a symbol are skipped.
AddText(list, text) ==
  IF Parse[text] = Invalid THEN list ELSE Added(list, Parse[text])

\* A function of how many texts were read; it is FoldLeft(AddText, list, texts).
AddTexts(list, texts) ==
  LET after[n \in 0..Len(texts)] ==
        IF n = 0 THEN list ELSE AddText(after[n - 1], texts[n])
  IN  after[Len(texts)]

\* One symbol per line.
Serialize(list) == [i \in DOMAIN list |-> Value[list[i]]]

Deserialize(lines) == AddTexts(<<>>, lines)

\* What every watchlist is.
IsWatchlist(list) ==
  /\ Len(list) <= kMaxSymbols
  /\ \A i, j \in DOMAIN list : list[i] = list[j] => i = j
===============================================================================
