SPECIFICATION IntrospectSpec
CONSTANTS
    orders = orders  values = values
    id = id  kind = kind  status = status  company = company  parent = parent
    pass = pass  draft = draft  long = long
    r1 = r1  r2 = r2  r3 = r3  itemtype = itemtype  unit = unit  note = note
    Table = {orders, values}
    Name = {id, kind, status, company, parent}
    Excluded = {}
    Curated = {values}
    Noise = {id, company}
    Enumish = {status}
    Comment = {note}
    Null = Null
    Type = {"integer", "int4", "character varying", "varchar", "USER-DEFINED",
            "order_status", "timestamp", "timestamptz"}
    Catalogues <- MCCatalogues
    LookupTarget <- MCTarget
    Value = {pass, draft, long}
    Cut <- MCCut
    Reference = {r1, r2, r3}
    CodeOf <- MCCodeOf
    KeyLimit = 2
    EnumFetch = 2
    EnumKeep = 1
    SampleRows = 2
    CodeFetch = 2
    ListedCodes = 2
    MaxReadings = 2
    MaxMigrations = 2
SYMMETRY Symmetry
INVARIANTS
    IntrospectTypeOK
    CatalogueExact
    EnumHintsComplete
    LookupHintsTrue
    ReembedsOnDrift
CHECK_DEADLOCK FALSE
