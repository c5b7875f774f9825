--------------------------- MODULE MCOrchestrator ---------------------------
(* The Orchestrator run: the plans of the built-in rules, and of a registered *)
(* rule that lists a step before its dependencies and has one that must not   *)
(* be retried.                                                                *)
EXTENDS Orchestrator

CONSTANTS showA, showB

Scrambled == <<
    Step("verify", "read", "list_console_destination", {"patch"}),
    Step("patch", "destructive", "patch_fixture", {"import", "inspect"}),
    [Step("import", "destructive", "import_fixture_type", {"inspect"})
        EXCEPT !.retryable = FALSE],
    Step("inspect", "read", "list_universes", {}) >>

MCPlans == BuiltIn \cup {Scrambled}
=============================================================================
