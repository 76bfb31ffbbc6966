SPECIFICATION Spec
CONSTANTS
    Chats = {c1, c2}
    Privates = {p1}
    Msgs = {m1, m2, m3, m4}
    MainSession = c1
    System = System Manual = Manual None = None
    MaxQueueSize = 2
    SteeringAll = FALSE
    MaxOthers = 1
    FewMsgs = 3
INVARIANTS TypeOK  ScopeIsolation  NothingStranded
 
\* The loop rests when no user sends anything.
CHECK_DEADLOCK FALSE
CONSTRAINT Affordable
SYMMETRY MsgSymmetry
