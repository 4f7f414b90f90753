---------------------------- MODULE MCToolServer ----------------------------
(***************************************************************************)
(* The curated tools over slices of the vendored specs (specs/*.json: a    *)
(* path's answers are the shapes of Data its 200 declares), with a write   *)
(* or an excluded operation of the same service in each; and slices        *)
(* changed in the ways that make the start refuse, or a name ambiguous.    *)
(***************************************************************************)
EXTENDS ToolServer, CuratedTools

Path(service, tag, tail, answers) ==
    [service |-> service, route |-> "post", prefixed |-> TRUE,
     tag |-> tag, tail |-> tail, answers |-> answers]

PathsOf(service, tag, tails, answers) == {Path(service, tag, t, answers) : t \in tails}
Rows == {"rows", "no rows", "null"}

CreateShipment == Path("shipment", "ShipmentCommand", "CreateShipment", {"absent"})
GetUserData == Path("shipment", "Test", "GetUserData", {"object"})

Shipments ==
    PathsOf("shipment", "ShipmentQuery",
            {"SearchShipment", "GetShipmentsForListView", "GetShipmentComments",
             "GetEventLogs"}, Rows)
    \cup PathsOf("shipment", "ShipmentQuery",
            {"GetShipmentsCountForListView", "GetShipmentById",
             "GetShipmentForExternal", "GetCockpitWeeklyShipmentCounts"}, {"object"})
    \cup {Path("shipment", "TimelineQuery", "GetShipmentTimelineById", {"object"})}

Site ==
    PathsOf("shipment", "SiteEquipmentQuery", {"GetEquipmentTimelineListView"}, Rows)
    \cup PathsOf("shipment", "SiteEquipmentQuery", {"GetEquipmentListForGridView"}, {"object"})
    \cup PathsOf("shipment", "MaterialHandoverQuery", {"GetMaterialHandoverList"}, Rows)
    \cup PathsOf("shipment", "MaterialHandoverQuery", {"GetMaterialHandover"}, {"object"})
    \cup PathsOf("shipment", "IncidentQuery", {"GetIncidentList"}, Rows)
    \cup PathsOf("shipment", "IncidentQuery", {"GetIncidentDetail"}, {"object"})
    \cup PathsOf("shipment", "LeanCardQuery", {"GetWorkingPackages"}, Rows)
    \cup PathsOf("shipment", "LeanCardQuery", {"GetWorkingPackagesCount"}, {"object"})
    \cup PathsOf("shipment", "MeteomaticsQuery", {"GetWeatherInfoFromRange"}, Rows)

Construction ==
    PathsOf("construction", "ConstructionManagementQuery",
            {"GetMaterialList", "GetZones", "GetSiteLocations"}, Rows)
    \cup PathsOf("construction", "ConstructionManagementQuery",
            {"GetMaterialById", "GetMaterialUsagesById", "GetZoneById",
             "GetSiteStructuresBySite"}, {"object"})
    \cup {Path("construction", "WikiQuery", "SearchWikiContentByKeyword", Rows)}

Teams ==
    PathsOf("team", "ClmTeamQuery",
            {"GetTeamList", "GetTeamMembersForTeam", "GetVendorTeams",
             "GetJoinRequestList", "GetSiteResponsiblePersons", "GetInvitationList"}, Rows)
    \cup PathsOf("team", "ClmTeamQuery",
            {"GetJoinRequestDetails", "GetExtendPersonInfo"}, {"object"})

Hub ==
    PathsOf("konshub", "KonsHubShipmentQuery",
            {"GetDeliveriesTabShipmentList", "SearchDeliveriesShipment",
             "GetShipmentComments"}, Rows)
    \cup PathsOf("konshub", "KonsHubShipmentQuery",
            {"GetDashboardIncommingShipmentList", "GetDashboardOutgoingShipmentList"},
            {"rows inside"})
    \cup PathsOf("konshub", "KonsHubShipmentQuery", {"GetDeliveriesTabShipmentCount"}, {"object"})
    \cup PathsOf("konshub", "StorageCommissionQuery", {"GetStorageZones"}, Rows)
    \cup PathsOf("konshub", "WareHouseQuery", {"GetKonsHubZones"}, Rows)

SplitShipment ==
    Path("konshub", "KonsHubShipmentCommand", "SplitKonsHubShipment", Untyped)

GetComments == Path("shipment", "ShipmentQuery", "GetShipmentComments", Rows)

\* Another service with the same tag and tail.
Elsewhere(p) == [p EXCEPT !.service = "konshub"]

\* Another path or method with the same tag and tail in one service.
Again(p) == [p EXCEPT !.route = "get"]

Astray(p) == [p EXCEPT !.prefixed = FALSE]

MCDocuments ==
    {Shipments, Site, Construction, Teams, Hub \cup {SplitShipment},
     {CreateShipment, GetUserData, SplitShipment, GetComments},
     {CreateShipment, GetComments, Elsewhere(GetComments)},
     {CreateShipment, Elsewhere(CreateShipment), GetComments},
     {CreateShipment, Again(CreateShipment), GetUserData},
     {CreateShipment, [CreateShipment EXCEPT !.tail = "CreateSHIPMENT"], GetComments},
     {GetUserData, Again(GetUserData), GetComments},
     {GetComments, Astray(GetUserData)}}

MCOptIns == {{}, {"shipment"}, {"shipment", "konshub"}, {"shipping"}}

\* _snake_case forgets how a run of capitals was written.
MCToolName ==
    [w \in {Unqualified(p) : p \in UNION MCDocuments} |->
        IF w[2] = "CreateSHIPMENT" THEN <<w[1], "CreateShipment">> ELSE w]

MCUnknown == <<"HubQuery", "GetNothing">>
=============================================================================
