------------------------------ MODULE MCSettings ------------------------------
(***************************************************************************)
(* Instances of Settings for TLC: symbols "a", "b" and "c" with a second   *)
(* spelling each of two of them, and files as the parser reads them.       *)
(***************************************************************************)
EXTENDS Settings, SettingsFile, TLC

FewSymbols == {"a", "b", "c"}
FewTexts   == {"A", "B", "C", "a ", "?"}
Canonical  == "a" :> "A" @@ "b" :> "B" @@ "c" :> "C"
Reading    == "A" :> "a" @@ "a " :> "a" @@ "B" :> "b" @@ "C" :> "c" @@ "?" :> "none"
Default    == <<"A", "B">>
FewValues  == {"", "global", "cn", "x", "y"}
OAuth      == {"oauth"}
TwoRegions == {"global", "cn"}

Line(key, value) == [key |-> key, value |-> value]

Entered(ssid, region, key, secret, token) ==
  [NewSettings EXCEPT !["wifi_ssid"] = ssid, !["lb_region"] = region,
                      !["api_key"] = key, !["api_secret"] = secret, !["api_token"] = token]

TwoSetups == {Entered("x", "global", "x", "x", "x"), Entered("y", "cn", "y", "y", "y")}

\* A complete file, one that omits the key, one of the OAuth days, one with a part
\* of a key.
Complete == <<Line("comment", ""), Line("wifi_ssid", "y"), Line("app_key", "y"),
              Line("app_secret", "y"), Line("api_token", "y"),
              Line("watchlist", <<"C", "?", "C">>), Line("symbol", "a ")>>
Keyless  == <<Line("endpoint", "cn"), Line("wifi_ssid", "y"), Line("symbol", "C")>>
Legacy   == <<Line("auth_mode", "oauth"), Line("wifi_ssid", "x"), Line("access_token", "y"),
              Line("watchlist", <<"A", "B", "C">>)>>
Partial  == <<Line("wifi_ssid", "y"), Line("app_key", "y"), Line("watchlist", <<"C">>)>>

SomeFiles == {ParseSettingsFile(lines) : lines \in {Complete, Keyless, Legacy, Partial}}
NoFiles   == {}
AllFaults == {"open", "read", "write"}
NoFaults    == {}
===============================================================================
