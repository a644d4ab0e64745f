SPECIFICATION Spec
CONSTANTS
    pp = pp
    p1 = p1
    w1 = w1
    w2 = w2
    w3 = w3
    w4 = w4
    x1 = x1
    x2 = x2
    t1 = t1
    t2 = t2
    t3 = t3
    None = None
    Iid <- MCIid
    Parent <- MCParent
    TopicOf <- MCTopicOf
    Scenes <- TwoDeletersScenes
    Entities = {pp, p1, w1, w2, w3, w4, x1, x2}
    Topics = {x1, x2}
    Threads = {t1, t2}
INVARIANTS
    OneDeleter
CHECK_DEADLOCK FALSE
