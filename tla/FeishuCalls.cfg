SPECIFICATION MCSpec
CONSTANTS
    c1 = c1  c2 = c2
    Calls <- TwoCalls
    Tokens = {t1}
    NoToken = NoToken
    Fresh = Fresh
    RootPages = 2
    Toolsets <- AllToolsets
    Workers = 1
    hq = hq  a = a  b = b
    u1 = u1  u2 = u2  u3 = u3
    Root = hq
    Charts <- SmallCharts
    Wanted = {u1, u2}
    Searches <- SmallSearches
    top = top  n1 = n1  n2 = n2  n3 = n3
    Top = top
    NoNode = NoNode
    Wikis <- SmallWikis
    NodePage = 2
    MaxPages = 2
    MaxNodes = 3
    RoleCount = 2
    TableCount = 2
    MaxScore = 2
CHECK_DEADLOCK FALSE
INVARIANTS TypeOK AnnouncedIsDone WholeOrNothing TokenOnce AnswerHolds BestIsFound
PROPERTIES NoCallAfterCancel EverythingEnds
