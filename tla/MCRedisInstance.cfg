SPECIFICATION RedisSpec
CONSTANTS
    t1 = t1  t2 = t2  t3 = t3
    topic1 = topic1  topic2 = topic2  topic3 = topic3
    Content = {t1, t2}
    Topic = {topic1, topic2, topic3}
    TopicsOf <- MCTopicsOf
    TopicLength <- MCTopicLength
    DigestLimit = 10
    Session = {s1}
    User = {u1, u2}
    Question = {q1}
    Null = Null
    Window = 1
    MessageId = {1, 2, 3, 4}
    Client = {c1}
    MaxCrashes = 1
    KeysMayExpire = FALSE
INVARIANTS RedisTypeOK NothingForgotten
PROPERTIES ImplementsStore
