SPECIFICATION Spec
CONSTANTS
    m1 = m1
    n1 = n1
    m2 = m2
    m3 = m3
    p1 = p1
    q1 = q1
    p2 = p2
    p3 = p3
    ca = ca
    da = da
    cb = cb
    sa = sa
    sb = sb
    Messages = {m1, n1, m2}
    Parts = {p1, q1, p2}
    Message <- MCMessage
    Turn <- MCTurn
    Turns = 2
    Endings = {p1, p2}
    MaxVersion = 2
    Calls = {ca, cb}
    Sessions = {sa, sb}
    SessionOf <- MCSessionOf
    Main = sa
INVARIANTS CompletedTurnIsWhole FileToItsSession
PROPERTIES NoLateCopy
CHECK_DEADLOCK FALSE
