SPECIFICATION FairSpec
CONSTANTS
    Workers = 2
    Answers = {0, 1, 3, 4}
    MaxLogins = 3
INVARIANTS TypeOK PingOfItsServer
PROPERTY PingsEnd
CHECK_DEADLOCK FALSE
