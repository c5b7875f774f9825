SPECIFICATION FairSpec
CONSTANTS
    hook = hook
    batch = batch
    draft = draft
    text = text
    blank = blank
    Ingests = {hook, batch}
    Provider <- MCProvider
    MaxNew <- MCMaxNew
    Files = 2
    Contents = {draft, text, blank}
    Blank = {blank}
    Missing = Missing
    MaxEdits = 1
    MaxFaults = 1
INVARIANTS
    IndexedAsHashed
PROPERTIES
    RealOutlivesZero
    EveryFileIngested
