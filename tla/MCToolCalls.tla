----------------------------- MODULE MCToolCalls -----------------------------
(* Two calls under whole tiers, partly granted tiers and the bypasses.  Page 1 *)
(* has an executor of two slots; executor 2 is assigned on page 2 only.        *)
EXTENDS ToolCalls, TLC

CONSTANTS fixture, group

CallSymmetry == Permutations(Calls)

TheJobs ==
    [tool : {"set_attribute"}, target : {fixture, Nothing}]
    \cup [tool : {"set_intensity"}, target : {group}]
    \cup [tool : {"clear_programmer"}, mode : {"clear", "active"}]
    \cup [tool : {"playback_action"}, cue : Cues, seq : {Nothing},
          execs : {{}, {1}, {2}}, listed : {FALSE}]
    \cup [tool : {"playback_action"}, cue : Cues, seq : {Nothing}, execs : {{1}}, listed : {TRUE}]
    \cup [tool : {"playback_action"}, cue : Cues, seq : {1}, execs : {{}, {1}}, listed : {FALSE}]
    \cup [tool : {"scan_page_executor_layout"}, page : {1}, first : {1}, last : {0, 3}]
    \cup [tool : {"send_raw_command"}, confirm : {TRUE}, risk : {"DESTRUCTIVE", "SAFE_WRITE"}]
    \cup [tool : {"send_raw_command"}, confirm : {FALSE}, risk : {"DESTRUCTIVE", "UNKNOWN"}]
    \cup [tool : {"get_object_info"}]

\* Without GMA_AUTH_BYPASS, GMA_RIGHTS_BYPASS and GMA_SAFETY_LEVEL.
Standard(granted) ==
    [granted |-> granted, auth_bypass |-> FALSE, rights_bypass |-> FALSE, level |-> "standard"]

TheEnvironments ==
    {Standard(g) : g \in
        {{"cue:store"}, {"user:manage", "discover"}, Cumulative(1) \cup {"programmer:write"},
         Granted([tiers |-> {2}, scopes |-> {"cue:store"}])}}
    \cup {[Standard(Granted([tiers |-> {3}, scopes |-> {}])) EXCEPT !.level = l] :
             l \in {"admin", "read-only"}}
    \cup {[Standard({"discover"}) EXCEPT !.auth_bypass = TRUE, !.rights_bypass = b] :
             b \in BOOLEAN}

None == [seq |-> Nothing, width |-> 0]
TheAssignable == {None, [seq |-> 2, width |-> 2]}

TheLayouts ==
    {[p \in Pages |-> [e \in Executors |->
        IF p = 1 THEN (IF e = 1 THEN [seq |-> 1, width |-> 2] ELSE None)
        ELSE IF e = 2 THEN [seq |-> 2, width |-> 1] ELSE None]]}
=============================================================================
