---------------------------- MODULE SkillRegistry ----------------------------
(***************************************************************************)
(* The versioned skills of agent_memory.db (skill.py): playbooks promoted  *)
(* from sessions, new versions of them, the approval that a destructive    *)
(* one needs before an agent may use it, and deprecation.  Every method is *)
(* one transaction, and processes share the file.                          *)
(***************************************************************************)
EXTENDS Naturals, FiniteSets

CONSTANTS
    Skills,     \* ids, a fresh one for each row
    NoSkill,    \* no such row, no parent
    MaxWrites   \* bound: commits

Row == [version : Nat \ {0}, parent : Skills \cup {NoSkill},
        destructive : BOOLEAN, approved : BOOLEAN, deprecated : BOOLEAN]

ASSUME SkillsAssumption ==
    NoSkill \notin Skills /\ NoSkill \notin Row /\ MaxWrites \in Nat

VARIABLES
    rows,       \* the table skills
    vetted,     \* ghost: ids that an operator has called approve() on
    writes

registry == <<rows, vetted, writes>>

Stored == {s \in Skills : rows[s] # NoSkill}

RegistryInit ==
    /\ rows = [s \in Skills |-> NoSkill]
    /\ vetted = {}
    /\ writes = 0

\* A new row, with the columns that decide anything.
Insert(s, version, parent, destructive, approved) ==
    rows' = [rows EXCEPT ![s] =
        [version |-> version, parent |-> parent, destructive |-> destructive,
         approved |-> approved, deprecated |-> FALSE]]

\* A skill made from a session: approved at once unless it is destructive.
PromoteFromSession(s, destructive) ==
    /\ rows[s] = NoSkill
    /\ Insert(s, 1, NoSkill, destructive, ~destructive)
    /\ UNCHANGED vetted

\* Mutant: the approval is inherited like the other columns.
BumpVersionApproved(s, old) ==
    /\ rows[s] = NoSkill /\ old \in Stored
    /\ Insert(s, rows[old].version + 1, old, rows[old].destructive, rows[old].approved)
    /\ UNCHANGED vetted

\* A new version with another body; the old one stays as it is.
BumpVersion(s, old) ==
    /\ rows[s] = NoSkill /\ old \in Stored
    /\ Insert(s, rows[old].version + 1, old, rows[old].destructive,
              ~rows[old].destructive)
    /\ UNCHANGED vetted

Approve(s) ==
    /\ s \in Stored
    /\ rows' = [rows EXCEPT ![s].approved = TRUE]
    /\ vetted' = vetted \cup {s}

Deprecate(s) ==
    /\ s \in Stored
    /\ rows' = [rows EXCEPT ![s].deprecated = TRUE]
    /\ UNCHANGED vetted

RegistryNext ==
    /\ writes < MaxWrites
    /\ writes' = writes + 1
    /\ \E s \in Skills :
        \/ \E destructive \in BOOLEAN : PromoteFromSession(s, destructive)
        \/ \E old \in Skills : BumpVersion(s, old)
        \/ Approve(s)
        \/ Deprecate(s)

\* Skills an agent may be given: get_usable() does not look at deprecation.
Usable(s) == s \in Stored /\ (rows[s].approved \/ ~rows[s].destructive)

\* Skills that list_all() returns.
Listed == {s \in Stored : ~rows[s].deprecated}

-----------------------------------------------------------------------------
\* A version of a destructive skill is usable only when that very version was
\* approved, whatever was approved before it; and its versions count up along
\* its parents, so that get_lineage() ends ("DESTRUCTIVE skills are always
\* created with approved=False", bump_version()).
ApprovedVersionByVersion ==
    \A s \in Stored :
        /\ Usable(s) /\ rows[s].destructive => s \in vetted
        /\ rows[s].parent # NoSkill =>
              /\ rows[s].parent \in Stored
              /\ rows[rows[s].parent].version < rows[s].version
              /\ rows[rows[s].parent].destructive = rows[s].destructive
=============================================================================
