------------------------------ MODULE MCTerminal ------------------------------
(***************************************************************************)
(* Instances of Terminal for TLC: three symbols, of which the user can     *)
(* type two, one of them new; one character, so that a text is its length. *)
(***************************************************************************)
EXTENDS Terminal

CONSTANTS aapl, hk700, sh600, a

MCSymbols     == {aapl, hk700, sh600}
MCChars       == {a}
Text(n)       == [i \in 1..n |-> a]
MCTexts       == {Text(n) : n \in 0..3}
MCValue       == (sh600 :> Text(1) @@ aapl :> Text(2) @@ hk700 :> Text(3))
MCParse       == [text \in MCTexts |->
                    IF text = <<>> THEN Invalid
                    ELSE CHOOSE s \in MCSymbols : MCValue[s] = text]
MCMaxLength   == [i \in Inputs \cup {"symbol"} |-> IF i = "symbol" THEN 2 ELSE 1]
MCDefaultList == <<aapl>>
MCBootLists   == {<<aapl>>, <<hk700, aapl>>}
Complete      == [text |-> [i \in Inputs |-> Text(1)], endpoint |-> "Global"]
MCBootForms   == {Complete, [Complete EXCEPT !.text["app_key"] = <<>>]}
MCFaults      == FaultNames
===============================================================================
