SPECIFICATION ChatSpec
CONSTANTS
    r1 = r1  r2 = r2  r3 = r3  acme = acme  globex = globex  u1 = u1
    AskText = AskText  DefaultText = DefaultText  BlankText = BlankText
    AnswerText = AnswerText  ErrorText = ErrorText
    Request = {r1, r2, r3}
    Content = {r1, r2, r3, AskText, DefaultText, BlankText, AnswerText, ErrorText}
    Topic = {}
    TopicsOf <- MCTopicsOf
    TopicLength <- MCTopicLength
    DigestLimit = 0
    Session = {s1}
    User = {u1}
    Question = {AskText, DefaultText, BlankText}
    Null = Null
    Window = 4
    MessageId = {1, 2, 3, 4, 5, 6}
    Worker = {w1}
    CompanyOf <- MCCompanyOf
    UserOf <- MCUserOf
    RouteReplies = {"sql", "bare_sql", "sql_missing", "garbage", "question", "no_question", "odd_question"}
    RepairReplies = {"sql", "bare_sql", "odd_question"}
    Overlap = FALSE
    MaxCrashes = 1
    MaxExpiries = 1
CHECK_DEADLOCK FALSE
INVARIANTS ClarificationResumes NoStaleClarification PromptShowsExchange
