SPECIFICATION Spec
CONSTANTS
    k1 = k1
    k2 = k2
    Skills = {k1, k2}
    NoSkill = NoSkill
    MaxWrites = 3
    Objects <- MCObjects
    Type <- MCType
    Owner <- MCOwner
    Labels = {1}
    Absent = 0
    Tools <- MCTools
    Impact <- MCImpact
    McpNodes <- MCMcpNodes
    McpEdges <- MCMcpEdges
    MaxChanges = 1
    MaxSyncs = 2
    MaxFaults = 1
SYMMETRY SkillSymmetry
CONSTRAINT FewEvents
INVARIANTS
    TypeOK
    FreshIsCurrent
    ApprovedVersionByVersion
PROPERTIES
    StaysReadable
CHECK_DEADLOCK FALSE
