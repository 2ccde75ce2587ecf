SPECIFICATION FairSpec
CONSTANTS
    p1 = p1  p2 = p2  q1 = q1
    Prompts <- ThreePrompts
    Questions <- OneQuestion
    MaxCalls = 2
    MaxEvents = 2
    MaxInputs = 4
CHECK_DEADLOCK FALSE
INVARIANTS
    TypeOK
    InputKept
    OneConversation
PROPERTIES
    QueueMoves
