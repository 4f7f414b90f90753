----------------------------- MODULE ListPaging -----------------------------
(***************************************************************************)
(* A client that walks a list tool page by page: the page number a tool    *)
(* starts at (src/clm_mcp/tools/), the slice the API answers with, and the *)
(* byte budget that shape_list_response puts on every page of it.          *)
(*                                                                         *)
(* The two KonsHub dashboard lists are not here: they return no rows.      *)
(***************************************************************************)
EXTENDS ListShaping, FiniteSets, SequencesExt

CONSTANTS
    LargestRow,    \* bound: the bytes of the largest row
    RowSizes,      \* the bytes of a row as the API returns it
    PageSizes,     \* the page sizes a client begins with
    MaxPageSize    \* the page_size every tool is limited to

ASSUME PagingAssumption ==
    /\ LargestRow \in Nat \ {0}
    /\ RowSizes \subseteq 1..LargestRow
    /\ EmptyListSize + MaxRows * (LargestRow + 1) <= MaxSize
    /\ MaxPageSize \in Nat
    /\ PageSizes \subseteq 1..MaxPageSize

-----------------------------------------------------------------------------
(* The paged tools of each module and the first page_number they accept,   *)
(* which is also the one they default to                                   *)

Paged(tools, first) == [tools |-> tools, first |-> first]

\* As in the shipment module.
TeamPagesFromZero == Paged({"clm_list_teams", "clm_list_team_members",
                            "clm_list_join_requests", "clm_list_invitations"}, 0)

TeamPages == Paged({"clm_list_teams", "clm_list_team_members",
                    "clm_list_join_requests", "clm_list_invitations"}, 1)

KonshubPages == Paged({"clm_list_konshub_deliveries", "clm_search_konshub_deliveries"}, 1)

ConstructionPages == Paged({"clm_list_materials"}, 1)

\* As in the construction module.
ShipmentPagesFromOne == Paged({"clm_list_shipments"}, 1)

ShipmentPages == Paged({"clm_list_shipments"}, 0)

EquipmentPages == Paged({"clm_list_equipment_timeline"}, 0)

LeanCardPages == Paged({"clm_list_working_packages"}, 0)

PagedModules == {TeamPages, KonshubPages, ConstructionPages,
                 ShipmentPages, EquipmentPages, LeanCardPages}

FirstPages == [t \in UNION {m.tools : m \in PagedModules} |->
                 (CHOOSE m \in PagedModules : t \in m.tools).first]

\* The operations that compute skip = (PageNumber - 1) * PageSize, and answer
\* page 0 with a 500; the others compute PageNumber * PageSize.
CountsFromOne == {"clm_list_teams", "clm_list_team_members", "clm_list_join_requests",
                  "clm_list_invitations", "clm_list_materials",
                  "clm_list_konshub_deliveries", "clm_search_konshub_deliveries"}

VARIABLES
    tool,          \* the tool the client walks
    rows,          \* the sizes of all rows that match, in order
    page,          \* page_number of the call
    pageSize,      \* page_size of the call
    projected,     \* the client passes `fields`
    received,      \* the rows the client has been given, by their place
    marked,        \* a page the client went past said it was truncated
    walk           \* "walking", "ended", or "gave up": no row fits

walkVars == <<tool, rows, page, pageSize, projected, received, marked, walk>>
allVars == <<vars, walkVars>>

SmallestRow == 1

\* The API's answer to skip and take; a negative skip is the 500, without rows.
Slice(s, skip, n) ==
    IF skip < 0 THEN <<>> ELSE SubSeq(s, Min({skip, Len(s)}) + 1, Min({skip + n, Len(s)}))

Skip == (IF tool \in CountsFromOne THEN page - 1 ELSE page) * pageSize

\* The serialized forms of the prefixes of s: brackets, rows and commas.
PrefixSizes(s) ==
    LET bytes[k \in 0..Len(s)] ==
            IF k = 0 THEN EmptyListSize
                     ELSE bytes[k - 1] + (IF k = 1 THEN 0 ELSE 1) + s[k]
    IN  bytes

\* The call of the tool with the walk's new page, and the API's answer to it.
Called ==
    LET slice == Slice(rows', Skip', pageSize')
    IN  /\ count' = Len(slice)
        /\ size' = PrefixSizes(slice)
        /\ pc' = "measure"
        /\ low' = 0
        /\ high' = 0
        /\ response' = NoResponse
        /\ UNCHANGED budget

PagingInit ==
    /\ tool \in DOMAIN FirstPages
    /\ rows \in BoundedSeq(RowSizes, MaxRows)
    /\ pageSize \in PageSizes
    /\ page = FirstPages[tool]
    /\ projected = FALSE
    /\ received = <<>>
    /\ marked = FALSE
    /\ walk = "walking"
    /\ budget \in Budgets
    /\ LET slice == Slice(rows, Skip, pageSize)
       IN  /\ count = Len(slice)
           /\ size = PrefixSizes(slice)
    /\ pc = "measure"
    /\ low = 0
    /\ high = 0
    /\ response = NoResponse

Shape == (Measure \/ Probe \/ Finish) /\ UNCHANGED walkVars

Answered == walk = "walking" /\ pc = "done"

Given == [i \in 1..response.returned |-> Skip + i]

\* The client takes what it was given, whatever the note says, and asks for the
\* next page until the API's own count of the rows is reached.
TakePage ==
    /\ Answered
    /\ received' = received \o Given
    /\ marked' = (marked \/ response.truncated)
    /\ UNCHANGED <<tool, rows, pageSize, projected>>
    /\ IF Skip + pageSize >= Len(rows)
       THEN walk' = "ended" /\ UNCHANGED <<vars, page>>
       ELSE page' = page + 1 /\ walk' = walk /\ Called

StartOver ==
    /\ page' = FirstPages[tool]
    /\ received' = <<>>
    /\ marked' = FALSE
    /\ UNCHANGED <<tool, walk>>
    /\ Called

\* "Narrow your filters or page size to see the rest"
NarrowPageSize ==
    /\ Answered
    /\ response.note = "rows dropped"
    /\ pageSize' = response.returned
    /\ UNCHANGED <<rows, projected>>
    /\ StartOver

\* "Pass `fields` to request only the columns you need"; the columns are taken
\* to be the ones that make the rows smallest.
PassFields ==
    /\ Answered
    /\ response.note = "no row fits"
    /\ ~projected
    /\ projected' = TRUE
    /\ rows' = [i \in DOMAIN rows |-> SmallestRow]
    /\ UNCHANGED pageSize
    /\ StartOver

GiveUp ==
    /\ Answered
    /\ response.note = "no row fits"
    /\ projected
    /\ walk' = "gave up"
    /\ UNCHANGED <<vars, tool, rows, page, pageSize, projected, received, marked>>

PagingNext == Shape \/ TakePage \/ NarrowPageSize \/ PassFields \/ GiveUp

\* The shaping awaits nothing, and a client goes on with its walk.
PagingSpec == PagingInit /\ [][PagingNext]_allVars /\ WF_allVars(PagingNext)

-----------------------------------------------------------------------------
(* Correctness *)

\* Types of the walk; the page number is one the tool accepts and one the
\* operation behind it does not answer with a 500, the skip being no less than 0.
PagingTypeOK ==
    /\ TypeOK
    /\ tool \in DOMAIN FirstPages
    /\ page >= FirstPages[tool] /\ Skip >= 0
    /\ pageSize \in 1..MaxPageSize
    /\ projected \in BOOLEAN /\ marked \in BOOLEAN
    /\ walk \in {"walking", "ended", "gave up"}

\* A walk that was never told of a truncation has every row up to the page it
\* is at, each once and in order: no row falls between two pages, at the first
\* page a tool starts from or where the byte budget cuts a page short.
NoSilentGap ==
    /\ ~marked => received = [i \in 1..Len(received) |-> i]
    /\ ~marked /\ walk = "walking" => Len(received) = Min({Skip, Len(rows)})
    /\ ~marked /\ walk = "ended" => Len(received) = Len(rows)

\* The notes are good advice: a client that has narrowed the page and passed
\* `fields` as they say is left without its rows only if the smallest row alone,
\* or the empty list, is over the budget.
AdviceSuffices == walk = "gave up" => budget < EmptyListSize + SmallestRow

\* Every page is answered, also while the client starts over with smaller pages:
\* the search within a page ends, and so does the walk.
WalkEnds == <>(walk # "walking")

=============================================================================
