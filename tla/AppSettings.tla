----------------------------- MODULE AppSettings -----------------------------
(***************************************************************************)
(* AppSettings of settings/app_settings.hpp.  Its fields but the watchlist *)
(* are a function from the NVS key of each field to its value; the         *)
(* watchlist goes beside it.                                               *)
(***************************************************************************)
EXTENDS Watchlist

CONSTANTS
  Values,  \* of fields
  Blank,   \* the empty string
  Global   \* EndpointRegion::Global

ApiFields == {"api_key", "api_secret", "api_token"}
Fields    == {"wifi_ssid", "wifi_pass", "lb_region"} \cup ApiFields

ASSUME AppSettingsAssumption == {Blank, Global} \subseteq Values /\ Blank # Global

NewSettings == [field \in Fields |-> IF field = "lb_region" THEN Global ELSE Blank]

ApiKey(settings) == [field \in ApiFields |-> settings[field]]
NoApiKey == [field \in ApiFields |-> Blank]

WifiComplete(settings) == settings["wifi_ssid"] # Blank
ApiComplete(settings)  == \A field \in ApiFields : settings[field] # Blank

OnboardingComplete(settings, list) ==
  WifiComplete(settings) /\ ApiComplete(settings) /\ list # <<>>
===============================================================================
