SPECIFICATION QuerySpec
CONSTANTS
    stock = stock
    orders = orders
    acme = acme
    zeta = zeta
    Null = Null
    Table = {stock, orders}
    Company = {acme, zeta}
    Data <- SmallData
    Query <- SmallQueries
    Worker = {w1}
    Connection = {c1}
    MaxRows = 2
    MaxQueries = 2
    MaxScripts = 3
INVARIANTS
    QueryTypeOK
    
    AnswersComplete
    ProvisionedAfterRun
    StatementsApply
CHECK_DEADLOCK FALSE
