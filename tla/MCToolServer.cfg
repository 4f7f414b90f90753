SPECIFICATION Spec
CONSTANTS
    Services = {"shipment", "construction", "team", "konshub"}
    CommandTags = {"ShipmentCommand", "KonsHubShipmentCommand"}
    ExcludedTags = {"Test"}
    Documents <- MCDocuments
    OptIns <- MCOptIns
    ToolName <- MCToolName
    Curated <- CuratedTools
    Unknown <- MCUnknown
    FalseOnSuccess <- AlwaysReportsIsSuccessFalse
INVARIANTS TypeOK EveryWriteHasItsTool Permitted NameMeansOperation NoFailureHidden NoSuccessHidden
CHECK_DEADLOCK FALSE
