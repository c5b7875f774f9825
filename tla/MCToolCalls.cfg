SPECIFICATION Spec
CONSTANTS
    Calls = {c1, c2}
    Jobs <- TheJobs
    Environments <- TheEnvironments
    fixture = fixture
    group = group
    Targets = {fixture, group}
    Nothing = Nothing
    SequenceIds = {1, 2}
    Cues = {1}
    Executors = {1, 2, 3}
    Pages = {1, 2}
    Layouts <- TheLayouts
    Assignable <- TheAssignable
    MaxChanges = 1
SYMMETRY CallSymmetry
CHECK_DEADLOCK FALSE
INVARIANTS
    AdmittedWithinConsoleRights
PROPERTIES
    AppliedToOwnSelection
    GotoFindsCue
    FreeSlotsUnassigned

