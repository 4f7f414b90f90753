SPECIFICATION Spec
CONSTANTS
    Services = {"shipment", "team"}
    Documents <- MCDocuments
    ExcludedTags = {"Test"}
    Absent = Absent
    Torn = Torn
    MaxResolutionDepth = 7
    SchemaNames = {"A", "B"}
    Schemas <- MCSchemas
    Fields = {"p", "q", "x"}
    Places = {"0"}
    MaxNesting = 4
    MaxMarks = 2
    Components <- MCComponents
    Plain <- MCPlain
    Operations <- MCOperations
    Requests <- MCRequests
INVARIANTS TypeOK ExitCodeHonest OnlyAcceptedReplace RemovalsReported StillLoads RefusalJustified CheckedToTheCycle WriteToolAgrees
PROPERTY RunEnds
CHECK_DEADLOCK FALSE
