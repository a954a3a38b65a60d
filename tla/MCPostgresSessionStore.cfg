SPECIFICATION PgFairSpec
CONSTANTS
    c1 = c1  c2 = c2  double = double  huge = huge
    ta = ta  tb = tb  tc = tc  tx = tx
    Client = {c1, c2}
    Content = {double, huge}
    Topic = {ta, tb, tc, tx}
    TopicsOf <- MCTopicsOf
    TopicLength <- MCTopicLength
    DigestLimit = 8
    Session = {s1}
    User = {}
    Question = {q1}
    Null = Null
    Window = 1
    MessageId = {1, 2, 3, 4}
INVARIANTS
    PgTypeOK
    WindowIsNewest
    TurnsCounted
    DigestComplete
PROPERTIES
    ImplementsStore
    TransactionsEnd
