SPECIFICATION ChatFairSpec
CONSTANTS
    r1 = r1  r2 = r2  r3 = r3  acme = acme  globex = globex  u1 = u1
    AskText = AskText  DefaultText = DefaultText  BlankText = BlankText
    AnswerText = AnswerText  ErrorText = ErrorText
    Request = {r1, r2}
    Content = {r1, r2, r3, AskText, DefaultText, BlankText, AnswerText, ErrorText}
    Topic = {}
    TopicsOf <- MCTopicsOf
    TopicLength <- MCTopicLength
    DigestLimit = 0
    Session = {s1}
    User = {u1}
    Question = {AskText, DefaultText, BlankText}
    Null = Null
    Window = 2
    MessageId = {1, 2, 3, 4}
    Worker = {w1, w2}
    CompanyOf <- MCCompanyOf
    UserOf <- MCUserOf
    RouteReplies = {"sql", "garbage", "question", "odd_question"}
    RepairReplies = {"sql", "question", "odd_question"}
    Overlap = TRUE
    MaxCrashes = 1
    MaxExpiries = 0
CHECK_DEADLOCK FALSE
PROPERTIES EveryRequestEnds
INVARIANTS ChatTypeOK OnlyGuardedRuns OutcomeMatchesExecution TokensReported RepliesAreRemembered
