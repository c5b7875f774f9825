----------------------------- MODULE Permissions -----------------------------
(***************************************************************************)
(* The layers that decide what a tool call may do, as functions of the     *)
(* environment: scopes (auth.py), the right of the session (rights.py),    *)
(* the console user (credentials.py) and the safety level of raw commands. *)
(***************************************************************************)
EXTENDS Integers, FiniteSets

Tiers == 0..5

\* OAUTH_TIER_SCOPES.
TierScopes == [t \in Tiers |->
    CASE t = 0 -> {"discover", "state:read"}
      [] t = 1 -> {"playback:go", "executor:control"}
      [] t = 2 -> {"programmer:write", "preset:update"}
      [] t = 3 -> {"cue:store", "sequence:edit", "group:store", "macro:edit",
                   "effect:edit", "filter:manage"}
      [] t = 4 -> {"setup:console", "network:config", "patch:write", "fixture:import"}
      [] t = 5 -> {"user:manage", "session:manage", "show:load", "system:admin"}]

Scopes == UNION {TierScopes[t] : t \in Tiers}

\* A tier:N token stands for the scopes of the tiers up to N; above 5 it stands for
\* all, and below 0 for none.
Cumulative(n) == UNION {TierScopes[t] : t \in {u \in Tiers : u <= n}}

\* get_granted_scopes(): GMA_SCOPE names tiers and single scopes.
Granted(tokens) == tokens.scopes \cup UNION {Cumulative(n) : n \in tokens.tiers}

\* The loops from tier 5 down to 0, which end at 0 in any case.
Highest(T) == IF T = {} THEN 0 ELSE CHOOSE t \in T : \A u \in T : u <= t

\* get_session_ma2_right(): the highest tier that is granted as a whole.
SessionTier(granted) == Highest({t \in Tiers : TierScopes[t] \subseteq granted})

\* Mutant: the loop of _max_tier runs upwards.
LowestUserTier(granted) ==
    LET T == {t \in Tiers : TierScopes[t] \cap granted # {}} IN
    IF T = {} THEN 0 ELSE CHOOSE t \in T : \A u \in T : t <= u

\* resolve_console_credentials() without GMA_USER, and the session's identity: the
\* user of the highest tier of which any scope is granted.  The right of the user
\* of a tier has the tier's number.
UserTier(granted) == Highest({t \in Tiers : TierScopes[t] \cap granted # {}})

-----------------------------------------------------------------------------
(* The tools of tools_community.py. *)

Reading == {"navigate_console", "get_console_location", "list_console_destination",
            "get_object_info", "query_object_list", "list_system_variables",
            "get_executor_state", "discover_fixture_type_attributes",
            "scan_page_executor_layout", "get_variable", "discover_object_names"}
Playing == {"execute_sequence", "playback_action", "release_executor"}
Programming == {"set_intensity", "clear_programmer", "set_attribute", "if_filter"}

Tools == Reading \cup {"get_executor_status"} \cup Playing \cup Programming
               \cup {"send_raw_command"}

\* @require_scope of each tool.
RequiredScope(tool) ==
    CASE tool \in Reading -> "discover"
      [] tool = "get_executor_status" -> "state:read"
      [] tool \in Playing -> "playback:go"
      [] tool \in Programming -> "programmer:write"
      [] tool = "send_raw_command" -> "cue:store"

\* _OPERATION_MIN_RIGHT, in tiers.
RequiredRight(tool) ==
    CASE tool \in Playing -> 1
      [] tool \in Programming -> 2
      [] tool = "send_raw_command" -> 3
      [] OTHER -> 0

\* require_scope, then the rights gate of _handle_errors; none of these tools needs
\* a licence.
Admitted(tool, env) ==
    /\ env.auth_bypass \/ RequiredScope(tool) \in env.granted
    /\ env.rights_bypass \/ RequiredRight(tool) <= SessionTier(env.granted)

\* send_raw_command: what the risk of the first word, the confirmation and
\* GMA_SAFETY_LEVEL let through.
RawAllowed(risk, confirm, level) ==
    /\ risk = "DESTRUCTIVE" => level = "admin" \/ confirm
    /\ level = "read-only" => risk = "SAFE_READ"
=============================================================================
