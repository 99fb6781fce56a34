----------------------------- MODULE SettingsFile -----------------------------
(***************************************************************************)
(* parse_settings_file: the settings file on the SD card.                  *)
(*                                                                         *)
(* A file is a sequence of lines.  A line is a key, which stands for all   *)
(* its spellings, and a value, already trimmed.  Warnings are left out.    *)
(***************************************************************************)
EXTENDS AppSettings

CONSTANTS
  Regions,       \* EndpointRegion
  LegacyModes    \* the values of auth_mode that mean OAuth

\* The field each key sets; "access_token" is an OAuth key in a legacy file.
FieldKeys == [wifi_ssid |-> "wifi_ssid", wifi_password |-> "wifi_pass",
              app_key |-> "api_key", app_secret |-> "api_secret",
              api_token |-> "api_token", access_token |-> "api_token"]

\* "client_id" stands for all keys that are ignored, "comment" for all lines that
\* are none: blank ones, comments, sections and those without '='.
LineKeys == DOMAIN FieldKeys \cup {"endpoint", "auth_mode", "watchlist", "symbol",
                                   "client_id", "comment"}

\* The first auth_mode line decides.
LegacyOauthMode(lines) ==
  \E i \in DOMAIN lines :
    /\ lines[i].key = "auth_mode" /\ lines[i].value \in LegacyModes
    /\ \A j \in 1..(i - 1) : lines[j].key # "auth_mode"

\* SettingsFileResult, with the locals of the parser.
NoLines == [settings |-> NewSettings, watchlist |-> <<>>, touched |-> FALSE,
            sawData |-> FALSE, invalidEndpoint |-> FALSE]

SetField(result, field, value) ==
  [result EXCEPT !.settings[field] = value,
                 !.touched = @ \/ field \in ApiFields,
                 !.sawData = TRUE]

\* A watchlist line adds to those before it: the list it would clear is empty.
ApplyLine(result, line, legacy) ==
  CASE line.key = "comment" -> result
    [] line.key = "endpoint" ->
         IF line.value \in Regions THEN SetField(result, "lb_region", line.value)
         ELSE [result EXCEPT !.invalidEndpoint = TRUE, !.sawData = TRUE]
    [] line.key = "watchlist" ->
         [result EXCEPT !.watchlist = AddTexts(@, line.value), !.sawData = TRUE]
    [] line.key = "symbol" ->
         [result EXCEPT !.watchlist = AddText(@, line.value), !.sawData = TRUE]
    [] line.key \in DOMAIN FieldKeys /\ ~(line.key = "access_token" /\ legacy) ->
         SetField(result, FieldKeys[line.key], line.value)
    [] OTHER -> [result EXCEPT !.sawData = TRUE]

FileStatus(result) ==
  CASE ~result.sawData         -> "Empty"
    [] result.invalidEndpoint  -> "InvalidEndpoint"
    [] result.watchlist = <<>> -> "InvalidWatchlist"
    [] ~OnboardingComplete(result.settings, result.watchlist) -> "MissingRequired"
    [] OTHER                   -> "Ok"

ParseSettingsFile(lines) ==
  LET legacy == LegacyOauthMode(lines)
      result == FoldLeft(LAMBDA done, line : ApplyLine(done, line, legacy), NoLines, lines)
  IN  [status |-> FileStatus(result), settings |-> result.settings,
       watchlist |-> result.watchlist, touched |-> result.touched]
===============================================================================
