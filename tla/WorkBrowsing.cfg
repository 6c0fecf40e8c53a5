SPECIFICATION FairSpec
CONSTANTS
    w1 = w1
    w2 = w2
    t1 = t1
    q1 = q1
    q2 = q2
    WorkIds = {w1, w2}
    Techs = {t1}
    TechsOf <- OneUsesIt
    Queries = {q1, q2}
    NoQuery = NoQuery
    MaxTyping = 2
    MaxSorts = 3
    MaxChanges = 2
INVARIANTS
    HitsAnswerTheTerm
    HiddenByNewcomersOnly
PROPERTIES
    SearchEnds
CHECK_DEADLOCK FALSE
