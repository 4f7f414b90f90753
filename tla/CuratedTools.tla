---------------------------- MODULE CuratedTools ----------------------------
(***************************************************************************)
(* The curated read tools, one set per module of src/clm_mcp/services/:    *)
(* the operation each asks for, by the name written there, whether it goes *)
(* through call_list or call_object, and what it settles first.            *)
(***************************************************************************)

ListTool(name, guards) == [name |-> name, lists |-> TRUE, guards |-> guards]
ObjectTool(name, guards) == [name |-> name, lists |-> FALSE, guards |-> guards]

ShipmentTools ==
    {ListTool(<<"ShipmentQuery", "SearchShipment">>, {"site"}),
     ListTool(<<"ShipmentQuery", "GetShipmentsForListView">>, {"site"}),
     ListTool(<<"ShipmentQuery", "GetShipmentComments">>, {}),
     ListTool(<<"ShipmentQuery", "GetEventLogs">>, {}),
     ObjectTool(<<"ShipmentQuery", "GetShipmentsCountForListView">>, {"site"}),
     ObjectTool(<<"ShipmentQuery", "GetShipmentById">>, {}),
     ObjectTool(<<"ShipmentQuery", "GetShipmentForExternal">>, {}),
     ObjectTool(<<"TimelineQuery", "GetShipmentTimelineById">>, {})}

CockpitTools ==
    {ObjectTool(<<"ShipmentQuery", "GetCockpitWeeklyShipmentCounts">>, {"site", "window"}),
     ListTool(<<"MeteomaticsQuery", "GetWeatherInfoFromRange">>, {"site"})}

EquipmentTools ==
    {ObjectTool(<<"SiteEquipmentQuery", "GetEquipmentListForGridView">>, {"site"}),
     ListTool(<<"SiteEquipmentQuery", "GetEquipmentTimelineListView">>, {"site"})}

HandoverTools ==
    {ListTool(<<"MaterialHandoverQuery", "GetMaterialHandoverList">>, {"site"}),
     ObjectTool(<<"MaterialHandoverQuery", "GetMaterialHandover">>, {})}

IncidentTools ==
    {ListTool(<<"IncidentQuery", "GetIncidentList">>, {}),
     ObjectTool(<<"IncidentQuery", "GetIncidentDetail">>, {})}

LeanCardTools ==
    {ListTool(<<"LeanCardQuery", "GetWorkingPackages">>, {"site", "enum"}),
     ObjectTool(<<"LeanCardQuery", "GetWorkingPackagesCount">>, {"site"})}

Management(tail) == <<"construction", "ConstructionManagementQuery", tail>>

ConstructionTools ==
    {ListTool(Management("GetMaterialList"), {"site"}),
     ListTool(Management("GetZones"), {"site"}),
     ListTool(Management("GetSiteLocations"), {"site"}),
     ListTool(<<"construction", "WikiQuery", "SearchWikiContentByKeyword">>, {}),
     ObjectTool(Management("GetMaterialById"), {}),
     ObjectTool(Management("GetMaterialUsagesById"), {}),
     ObjectTool(Management("GetZoneById"), {}),
     ObjectTool(Management("GetSiteStructuresBySite"), {"site"})}

Team(tail) == <<"team", "ClmTeamQuery", tail>>

TeamTools ==
    {ListTool(Team("GetTeamList"), {"site"}),
     ListTool(Team("GetTeamMembersForTeam"), {}),
     ListTool(Team("GetVendorTeams"), {"site"}),
     ListTool(Team("GetJoinRequestList"), {"site"}),
     ListTool(Team("GetSiteResponsiblePersons"), {"site"}),
     ListTool(Team("GetInvitationList"), {"site"}),
     ObjectTool(Team("GetJoinRequestDetails"), {}),
     ObjectTool(Team("GetExtendPersonInfo"), {})}

KonsHub(tail) == <<"konshub", "KonsHubShipmentQuery", tail>>

KonsHubTools ==
    {ListTool(KonsHub("GetDashboardIncommingShipmentList"), {"site"}),
     ListTool(KonsHub("GetDashboardOutgoingShipmentList"), {"site"}),
     ListTool(KonsHub("GetDeliveriesTabShipmentList"), {"site"}),
     ListTool(KonsHub("SearchDeliveriesShipment"), {"site"}),
     ListTool(KonsHub("GetShipmentComments"), {}),
     ListTool(<<"konshub", "StorageCommissionQuery", "GetStorageZones">>, {"site"}),
     ListTool(<<"konshub", "WareHouseQuery", "GetKonsHubZones">>, {}),
     ObjectTool(KonsHub("GetDeliveriesTabShipmentCount"), {"site"})}

CuratedTools ==
    ShipmentTools \cup CockpitTools \cup EquipmentTools \cup HandoverTools
      \cup IncidentTools \cup LeanCardTools \cup ConstructionTools
      \cup TeamTools \cup KonsHubTools

\* _ALWAYS_REPORTS_ISSUCCESS_FALSE_OPERATIONS
AlwaysReportsIsSuccessFalse == {Management("GetMaterialUsagesById")}

=============================================================================
