SPECIFICATION RedisSpec
CONSTANTS
    t1 = t1  t2 = t2  t3 = t3
    topic1 = topic1  topic2 = topic2  topic3 = topic3
    Content = {t1, t2, t3}
    Topic = {topic1, topic2, topic3}
    TopicsOf <- MCTopicsOf
    TopicLength <- MCTopicLength
    DigestLimit = 40
    Session = {s1}
    User = {u1}
    Question = {q1}
    Null = Null
    Window = 1
    MessageId = {1, 2, 3}
    Client = {c1, c2}
    MaxCrashes = 0
    KeysMayExpire = FALSE
INVARIANTS NothingForgotten
