SPECIFICATION IndexSpec
CONSTANTS
    t1 = t1
    t2 = t2
    v1 = v1
    v2 = v2
    hashing = hashing
    titan = titan
    Null = Null
    Table = {t1, t2}
    Version = {v1, v2}
    Model = {hashing, titan}
    Dim <- SmallDim
    Service = {service}
    Script = {script}
    MaxRuns = 3
    MaxAlters = 2
    MaxRestarts = 1
SYMMETRY Symmetry
INVARIANTS
    IndexTypeOK
    IndexIsExact
    OwnReindexIsSeen
PROPERTIES
    LiveTablesStay
CHECK_DEADLOCK FALSE
