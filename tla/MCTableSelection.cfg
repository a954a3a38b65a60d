SPECIFICATION SelectionSpec
CONSTANTS
    items = items
    item_stocks = item_stocks
    item_thresholds = item_thresholds
    warehouses = warehouses
    entity_values = entity_values
    it = it
    ite = ite
    is = is
    ist = ist
    wa = wa
    war = war
    ev = ev
    eva = eva
    TableName = {items, item_stocks, item_thresholds, warehouses, entity_values}
    ByName <- SmallByName
    References <- SmallReferences
    Akin <- SmallAkin
    Lookup = {entity_values}
    Alias = {it, ite, is, ist, wa, war, ev, eva}
    Initials <- SmallInitials
    Growth <- SmallGrowth
    Reserved = {is}
    Similarities <- SmallSimilarities
    Matches = {0, 80}
    MaxLag = 1
    TopK = 2
    OverFetch = 2
    Missed = 1
    MinScore = 30
    Relevant = 50
    MaxTables = 3
    FkExpansion = TRUE
INVARIANTS
    SelectionTypeOK
    BestMatchesKept
    JoinsPossible
    AliasesUsable
CHECK_DEADLOCK FALSE
