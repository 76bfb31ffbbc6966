SPECIFICATION Spec
CONSTANTS
    Chats = {c1, c2}
    Privates = {p1}
    Msgs = {m1, m2}
    MainSession = c1
    System = System Manual = Manual None = None
    MaxQueueSize = 1
    SteeringAll = FALSE
    MaxOthers = 0
    FewMsgs = 2
INVARIANT OtherChatsNotEchoed
\* The loop rests when no user sends anything.
CHECK_DEADLOCK FALSE
SYMMETRY MsgSymmetry
