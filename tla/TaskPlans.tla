------------------------------ MODULE TaskPlans ------------------------------
(***************************************************************************)
(* The plans of the task decomposer (task_decomposer.py): the templates of *)
(* its built-in rules, and the order in which the orchestrator takes the   *)
(* steps of a plan.  Prompts, inputs and the tools after the first one,    *)
(* which nothing calls, are left out.                                      *)
(***************************************************************************)
EXTENDS Naturals, Sequences, SequencesExt

CONSTANT NoTool     \* of a step whose mcp_tools is empty

\* A SubTask: its risk tier is "read", "write" or "destructive", its tool the
\* first of mcp_tools, its deps the names in depends_on.
Step(name, risk, tool, deps) ==
    [name |-> name, risk |-> risk, tool |-> tool, deps |-> deps, retryable |-> TRUE]

Names(steps) == {steps[i].name : i \in DOMAIN steps}

-----------------------------------------------------------------------------
(* The built-in templates. *)

WashLook == <<
    Step("select_wash_group", "write", "select_fixtures_by_group", {}),
    Step("apply_wash_color", "write", "apply_preset", {"select_wash_group"}),
    Step("set_wash_intensity", "write", "set_intensity", {"select_wash_group"}),
    Step("store_wash_cue", "destructive", "store_current_cue",
         {"apply_wash_color", "set_wash_intensity"}),
    Step("verify_wash_cue", "read", "list_sequence_cues", {"store_wash_cue"}) >>

BlackoutSequence == <<
    Step("read_current_cues", "read", "list_sequence_cues", {}),
    Step("store_blackout_cue", "destructive", "store_current_cue", {"read_current_cues"}) >>

GroupPresetLibrary == <<
    Step("discover_fixtures", "read", "list_fixtures", {}),
    Step("create_groups", "destructive", "create_fixture_group", {"discover_fixtures"}),
    Step("build_color_presets", "destructive", "store_new_preset", {"create_groups"}),
    Step("verify_library", "read", "list_preset_pool", {"build_color_presets"}) >>

InspectOnly == <<
    Step("read_system_state", "read", "list_system_variables", {}),
    Step("summarize_findings", "read", "get_object_info", {"read_system_state"}) >>

PlanOnly == <<
    Step("inspect_current_state", "read", "list_console_destination", {}),
    Step("preflight_rights_check", "read", "list_system_variables", {"inspect_current_state"}),
    Step("propose_change_plan", "read", NoTool, {"preflight_rights_check"}) >>

ColorSequence == <<
    Step("audit_color_presets", "read", "list_preset_pool", {}),
    Step("validate_target_sequence", "read", "query_object_list", {"audit_color_presets"}),
    Step("build_color_cues", "destructive", "store_current_cue", {"validate_target_sequence"}),
    Step("assign_to_executor", "destructive", "assign_object", {"build_color_cues"}),
    Step("verify_color_sequence", "read", "query_object_list", {"assign_to_executor"}) >>

PresetLibrary == <<
    Step("audit_existing_presets", "read", "list_preset_pool", {}),
    Step("store_dimmer_presets", "destructive", "store_new_preset", {"audit_existing_presets"}),
    Step("store_color_presets", "destructive", "store_new_preset", {"audit_existing_presets"}),
    Step("store_position_presets", "destructive", "store_new_preset", {"audit_existing_presets"}),
    Step("verify_preset_library", "read", "list_preset_pool",
         {"store_dimmer_presets", "store_color_presets", "store_position_presets"}) >>

PatchFixtures == <<
    Step("discover_fixture_types", "read", "list_console_destination", {}),
    Step("discover_patch", "read", "list_universes", {"discover_fixture_types"}),
    Step("import_fixture_types", "destructive", "import_fixture_type", {"discover_fixture_types"}),
    Step("patch_fixtures", "destructive", "patch_fixture",
         {"import_fixture_types", "discover_patch"}),
    Step("create_fixture_groups", "destructive", "store_object", {"patch_fixtures"}),
    Step("verify_patch", "read", "list_console_destination", {"create_fixture_groups"}) >>

EffectPlan == <<
    Step("inspect_effects", "read", "query_object_list", {}),
    Step("select_fixtures", "write", "select_fixtures", {"inspect_effects"}),
    Step("configure_effect", "destructive", "manage_effects", {"select_fixtures"}),
    Step("verify_effect", "read", "get_object_info", {"configure_effect"}) >>

ChaserPlan == <<
    Step("inspect_sequences", "read", "query_object_list", {}),
    Step("create_chaser", "destructive", "store_object", {"inspect_sequences"}),
    Step("set_chaser_timing", "write", "playback_action", {"create_chaser"}),
    Step("assign_executor", "destructive", "assign_object_to_executor", {"set_chaser_timing"}) >>

MacroPlan == <<
    Step("inspect_macros", "read", "query_object_list", {}),
    Step("create_macro", "destructive", "store_object", {"inspect_macros"}),
    Step("verify_macro", "read", "get_object_info", {"create_macro"}) >>

TimecodePlan == <<
    Step("inspect_timecode", "read", "query_object_list", {}),
    Step("create_timecode", "destructive", "store_object", {"inspect_timecode"}),
    Step("map_cue_triggers", "destructive", "store_current_cue", {"create_timecode"}),
    Step("verify_timecode", "read", "get_object_info", {"map_cue_triggers"}) >>

ImportPlan == <<
    Step("list_available_files", "read", "list_console_destination", {}),
    Step("import_content", "destructive", "import_objects", {"list_available_files"}),
    Step("verify_import", "read", "query_object_list", {"import_content"}) >>

ViewLayout == <<
    Step("inspect_views", "read", "query_object_list", {}),
    Step("create_layout", "destructive", "store_object", {"inspect_views"}),
    Step("verify_layout", "read", "get_object_info", {"create_layout"}) >>

\* No rule matches the goal.
Fallback == << Step("inspect_console", "read", "navigate_console", {}) >>

\* decompose(): what the rules can return.
BuiltIn ==
    {WashLook, BlackoutSequence, GroupPresetLibrary, InspectOnly, PlanOnly,
     ColorSequence, PresetLibrary, PatchFixtures, EffectPlan, ChaserPlan, MacroPlan,
     TimecodePlan, ImportPlan, ViewLayout, Fallback}

-----------------------------------------------------------------------------

\* Tiers of MA2 rights, from 0 (none) to 5 (administrator), that the tools of the
\* templates need; a tool the table does not know needs none.
MinRight(tool) ==
    CASE tool = "playback_action" -> 1
      [] tool \in {"select_fixtures_by_group", "apply_preset", "set_intensity",
                   "store_new_preset"} -> 2
      [] tool \in {"create_fixture_group", "store_current_cue", "assign_object",
                   "store_object"} -> 3
      [] tool \in {"import_objects", "import_fixture_type", "patch_fixture"} -> 4
      [] OTHER -> 0

\* One pass over what remains: a step whose dependencies stand before it is placed.
Pass(sorted, step) ==
    IF step.deps \subseteq Names(sorted.ordered)
    THEN [sorted EXCEPT !.ordered = Append(@, step)]
    ELSE [sorted EXCEPT !.remaining = Append(@, step)]

\* ordered_steps(): passes until nothing remains, or once more than there are
\* steps; steps of a cycle, or with unknown dependencies, come last.
OrderedSteps(steps) ==
    LET PassOver(sorted, pass) ==
            FoldLeft(Pass, [sorted EXCEPT !.remaining = <<>>], sorted.remaining)
        sorted == FoldLeft(PassOver, [ordered |-> <<>>, remaining |-> steps],
                           [pass \in 1..Len(steps) + 1 |-> pass])
    IN sorted.ordered \o sorted.remaining
=============================================================================
