SPECIFICATION ImportsSpec
CONSTANTS
    o1 = o1
    o2 = o2
    s1 = s1
    s2 = s2
    Ops = {o1, o2}
    Slugs = {s1, s2}
    Kinds <- EveryKind
    MaxDeaths = 1
    Missing = Missing
INVARIANTS
    UploadInOrder
PROPERTIES
    CompletedIsWhole
    ArchivesNeverMix
    
CHECK_DEADLOCK FALSE
