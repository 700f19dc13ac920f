---------------------------- MODULE FeatureGates ----------------------------
(***************************************************************************)
(* Feature flags: the defaults, the two environment sources, the override  *)
(* layer, the toggle endpoint, and the two ways the middlewares ask        *)
(* whether a flag is on (featureflags/featureflags.go,                     *)
(* middleware/featureflags.go).                                            *)
(***************************************************************************)
EXTENDS Naturals

\* One flag whose name holds "subscriptions" and another one, which is among the
\* defaults and off, or which the program does not define.
FlagNames == {"subscriptions_enabled", "other"}

FlagValue == {"on", "off"}

LoadDefaultFlags == {[subscriptions_enabled |-> "on", other |-> v] : v \in {"off", "none"}}

VARIABLES
  flagsJson,    \* FEATURE_FLAGS, flag by flag: unset, on or off
  flagsFF,      \* FF_<NAME>: unset, on, off or what ParseBool rejects
  gateFlags,    \* m.flags: none, on or off
  gateDb,       \* m.db
  toggled       \* the flags toggled since the environment was read

gateVars == <<flagsJson, flagsFF, gateFlags, gateDb, toggled>>

GatesTypeOK ==
  /\ flagsJson \in [FlagNames -> FlagValue \cup {"unset"}]
  /\ flagsFF \in [FlagNames -> FlagValue \cup {"unset", "invalid"}]
  /\ gateFlags \in [FlagNames -> FlagValue \cup {"none"}]
  /\ gateDb \in [FlagNames -> FlagValue \cup {"unset"}]
  /\ toggled \subseteq FlagNames

\* A flag is on by FF_<NAME>, else by FEATURE_FLAGS, which may define it, else as
\* it was.
LoadFromEnvironment_JsonLast(flags) ==
  [f \in FlagNames |-> IF flagsJson[f] # "unset" THEN flagsJson[f]
                       ELSE IF flagsFF[f] \in FlagValue THEN flagsFF[f]
                       ELSE flags[f]]

LoadFromEnvironment(flags) ==
  [f \in FlagNames |-> IF flagsFF[f] \in FlagValue THEN flagsFF[f]
                       ELSE IF flagsJson[f] # "unset" THEN flagsJson[f]
                       ELSE flags[f]]

\* GetInstance: the defaults, then the environment.
GatesInit ==
  /\ flagsJson \in [FlagNames -> FlagValue \cup {"unset"}]
  /\ flagsFF \in [FlagNames -> FlagValue \cup {"unset", "invalid"}]
  /\ \E flags \in LoadDefaultFlags : gateFlags = LoadFromEnvironment(flags)
  /\ gateDb = [f \in FlagNames |-> "unset"]
  /\ toggled = {}

ReloadFromEnvironment ==
  /\ gateFlags' = LoadFromEnvironment(gateFlags)
  /\ toggled' = {f \in toggled : flagsFF[f] \notin FlagValue}
  /\ UNCHANGED <<flagsJson, flagsFF, gateDb>>

\* POST to the toggle endpoint; the order of two toggles is Responses' matter.
ToggleFlag(f) ==
  /\ gateFlags[f] # "none"
  /\ gateFlags' = [gateFlags EXCEPT ![f] = IF @ = "on" THEN "off" ELSE "on"]
  /\ toggled' = toggled \cup {f}
  /\ UNCHANGED <<flagsJson, flagsFF, gateDb>>

SetDBFlag(f, v) ==
  /\ gateDb' = [gateDb EXCEPT ![f] = v]
  /\ UNCHANGED <<flagsJson, flagsFF, gateFlags, toggled>>

GatesNext ==
  \/ ReloadFromEnvironment
  \/ \E f \in FlagNames : ToggleFlag(f) \/ \E v \in FlagValue : SetDBFlag(f, v)

-----------------------------------------------------------------------------
\* A flag of the configuration whose name holds "subscriptions" cannot be off.
IsEnabled(f) ==
  IF flagsFF[f] \in FlagValue THEN flagsFF[f] = "on"
  ELSE IF gateDb[f] # "unset" THEN gateDb[f] = "on"
  ELSE gateFlags[f] = "on" \/ f = "subscriptions_enabled"

IsEnabledWithDefault(f, defaultValue) ==
  IF gateFlags[f] = "none" THEN defaultValue ELSE gateFlags[f] = "on"

\* Which requests pass the middlewares; a conditional gate is only for the
\* requests its condition applies to.
FeatureFlagGate(f, defaultEnabled) == IsEnabledWithDefault(f, defaultEnabled)
ConditionalGate(f, applies) == applies => IsEnabled(f)
RequireAnyFeatureFlag(S)    == \E f \in S : IsEnabled(f)
RequireAllFeatureFlags(S)   == \A f \in S : IsEnabled(f)

-----------------------------------------------------------------------------
\* Why the two ways to ask may part: an override in m.db, a toggle of a flag that
\* the environment fixes, a subscriptions flag that IsEnabled keeps on, and a
\* default of TRUE for a flag that is not defined.
Apart(f, defaultEnabled) ==
  \/ gateDb[f] # "unset" /\ flagsFF[f] \notin FlagValue
  \/ f \in toggled /\ flagsFF[f] \in FlagValue
  \/ f = "subscriptions_enabled" /\ gateFlags[f] = "off"
  \/ gateFlags[f] = "none" /\ defaultEnabled

\* Without one of these reasons every gate in front of a route decides alike, the
\* combined ones included, after any order of toggles, overrides and reloads, and
\* for flags the program defines as for those only the environment does: the
\* order in which LoadFromEnvironment applies its sources is IsEnabled's order.
\* And a forced flag and an undefined one do part them, when nothing else decides.
GatesAgree ==
  /\ \A S \in SUBSET FlagNames \ {{}}, d \in BOOLEAN :
       (\A f \in S : ~Apart(f, d)) =>
         /\ \A f \in S : ConditionalGate(f, TRUE) = FeatureFlagGate(f, d)
         /\ RequireAnyFeatureFlag(S) = (\E f \in S : FeatureFlagGate(f, d))
         /\ RequireAllFeatureFlags(S) = (\A f \in S : FeatureFlagGate(f, d))
  /\ \A f \in FlagNames, d \in BOOLEAN :
       (gateDb[f] = "unset" /\ flagsFF[f] \notin FlagValue /\ Apart(f, d))
         => ConditionalGate(f, TRUE) # FeatureFlagGate(f, d)

==============================================================================
