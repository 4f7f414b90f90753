SPECIFICATION Spec
CONSTANTS
    Services = {"shipment", "construction", "team", "konshub"}
    CommandTags = {"ShipmentCommand", "KonsHubShipmentCommand"}
    ExcludedTags = {"Test"}
    Documents <- MCDocuments
    OptIns <- MCOptIns
    ToolName <- MCToolName
    Curated <- CuratedTools
    Unknown <- MCUnknown
    FalseOnSuccess <- AlwaysReportsIsSuccessFalse
INVARIANTS ListsReturnTheirRows
CHECK_DEADLOCK FALSE
