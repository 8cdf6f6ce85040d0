CONSTANTS
    Nil = Nil
    Handlers = {h1}
    Rows = 2
    Names = {"a", "ab"}
    Words = {"a", "a."}
    Plain = {"a"}
    Part <- MCPart
    Hits <- MCHits
    Collections <- MCCollections
    MaxCalls = 4
    Keep = 1
SPECIFICATION Spec
CHECK_DEADLOCK FALSE
INVARIANTS
    EnginesAgree
    SearchesAgree
PROPERTIES
    BoltImplementsStore
    MongoImplementsStore
