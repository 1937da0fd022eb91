--------------------------- MODULE MCGatewayPolicy ---------------------------
(***************************************************************************)
(* Small instances of GatewayPolicy: a custom model that falls back to a   *)
(* registered one, in two zones, and one administrator.                    *)
(***************************************************************************)
EXTENDS GatewayPolicy, TLC

CONSTANTS custom, static, secret

Zone == (custom :> "eu") @@ (static :> "us")
Chain == (custom :> <<static>>) @@ (static :> <<>>)

Permissive ==
    [k \in Policies |->
        CASE k \in ModelLayers \cup {"content"} -> Models
          [] k \in ResidencyRules -> Zones
          [] k = "dlp" -> "log"
          [] k \in {"dlpTeam", "pattern"} -> "unset"
          [] k = "downgrade" -> None
          [] k = "caching" -> TRUE]

Degrading == [Permissive EXCEPT !["downgrade"] = static]

\* Written policies: every kind of change that some check, the response
\* cache or the heal tells apart.
Changes ==
    ("orgModels" :> {{static}}) @@ ("teamModels" :> {{custom}}) @@ ("content" :> {{custom}})
    @@ ("orgResidency" :> {{"eu"}, Zones}) @@ ("teamResidency" :> {{"us"}})
    @@ ("dlp" :> {"block"}) @@ ("dlpTeam" :> {"redact"}) @@ ("pattern" :> {"redact", "unset"})
    @@ ("downgrade" :> {None})

=============================================================================
