\* Four applications, lists within lists, cancels at any time.
CONSTANTS
    HandlerSets <- MCHandlerSets
    Garbage <- MCGarbage
    Groups = {"g1"}
    Items = {"i1"}
    Elements = {"e1"}
    Zero = "zero"
    MaxDepth = 2
    UserErrors = {"error"}
SPECIFICATION Spec
INVARIANTS
    ThreadIsSound
    CallbackIsRight
    AnswerIsOwn
PROPERTIES
    Progress
CHECK_DEADLOCK FALSE
