SPECIFICATION FairSpec
CONSTANTS
    Sender = {"a", "b"}
    Nobody = "nobody"
    MaxRequests = 5
    MaxDetails = 1
    MaxErrors = 1
    Script <- MCScript
PROPERTIES MessagesArrive
INVARIANTS TypeOK ReplyIsOwn KeptInOrder ListIsCurrent
CHECK_DEADLOCK FALSE
