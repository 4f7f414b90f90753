----------------------------- MODULE ListShaping -----------------------------
(***************************************************************************)
(* src/clm_mcp/spec/shaping.py: shape_list_response and the binary search  *)
(* of _fit_to_byte_budget.  The rows are known by the sizes of their       *)
(* prefixes: size[k] is the _byte_size of the first k shaped rows, "[]"    *)
(* being two bytes and every row one at least.                             *)
(***************************************************************************)
EXTENDS Integers

CONSTANTS
    MaxRows,       \* bound: how many rows the API returns
    MaxSize,       \* bound: how many bytes they take
    Budgets        \* the values of max_bytes

ASSUME BoundAssumption == MaxRows \in Nat /\ MaxSize \in Nat
ASSUME BudgetAssumption == Budgets \subseteq Int

EmptyListSize == 2

Sizes(n) == {s \in [0..n -> EmptyListSize..MaxSize] :
                s[0] = EmptyListSize /\ \A i, j \in 0..n : i < j => s[i] < s[j]}

VARIABLES
    count,         \* original_count
    size,          \* the size of each prefix of the shaped rows
    budget,        \* max_bytes
    pc,            \* "measure", then perhaps "search", then "done"
    low, high,     \* the search's interval
    response       \* returned, truncated and note of the ShapedListResponse

vars == <<count, size, budget, pc, low, high, response>>

NoResponse == [returned |-> 0, truncated |-> FALSE, note |-> "no response"]
Notes == {"none", "rows dropped", "no row fits"}

TypeOK ==
    /\ count \in 0..MaxRows
    /\ size \in Sizes(count)
    /\ budget \in Budgets
    /\ pc \in {"measure", "search", "done"}
    /\ low \in 0..count
    /\ high \in 0..count
    /\ response \in [returned : 0..count, truncated : BOOLEAN, note : Notes]
                    \cup {NoResponse}

Init ==
    /\ count \in 0..MaxRows
    /\ size \in Sizes(count)
    /\ budget \in Budgets
    /\ pc = "measure"
    /\ low = 0
    /\ high = 0
    /\ response = NoResponse

\* The comparison is strict.
FitsBelow(k) == size[k] < budget

Fits(k) == size[k] <= budget

Respond(kept, isTruncated, text) ==
    /\ pc' = "done"
    /\ response' = [returned |-> kept, truncated |-> isTruncated, note |-> text]

Measure ==
    /\ pc = "measure"
    /\ IF Fits(count)
       THEN Respond(count, FALSE, "none") /\ UNCHANGED <<low, high>>
       ELSE /\ pc' = "search"
            /\ low' = 0
            /\ high' = count
            /\ UNCHANGED response
    /\ UNCHANGED <<count, size, budget>>

\* The usual rounding.
MidDown == (low + high) \div 2

Mid == (low + high + 1) \div 2

Probe ==
    /\ pc = "search"
    /\ low < high
    /\ IF Fits(Mid)
       THEN low' = Mid /\ UNCHANGED high
       ELSE high' = Mid - 1 /\ UNCHANGED low
    /\ UNCHANGED <<count, size, budget, pc, response>>

\* The note does not look at what was kept.
RowsDropped == Respond(low, TRUE, "rows dropped")

Truncate ==
    IF low > 0 THEN Respond(low, TRUE, "rows dropped") ELSE Respond(0, TRUE, "no row fits")

Finish ==
    /\ pc = "search"
    /\ low >= high
    /\ Truncate
    /\ UNCHANGED <<count, size, budget, low, high>>

Next == Measure \/ Probe \/ Finish

Spec == Init /\ [][Next]_vars

-----------------------------------------------------------------------------
(* Correctness *)

\* The response keeps as many rows as fit into the budget and not one less: a
\* prefix that fits and is no longer than the answer is all that is given up.
LargestPrefix ==
    pc = "done" =>
        /\ response.returned > 0 => size[response.returned] <= budget
        /\ \A k \in 1..count : size[k] <= budget => k <= response.returned

\* A response that says nothing was dropped is complete, and one that says so
\* says why: rows are missing, or the first one alone is over the budget.  A
\* budget of less than two bytes, which no list meets, is not judged.
NoteHonest ==
    pc = "done" /\ budget >= EmptyListSize =>
        /\ response.truncated <=> response.returned < count
        /\ response.note = "rows dropped" => response.returned \in 1..(count - 1)
        /\ response.note = "no row fits" => count > 0 /\ size[1] > budget

=============================================================================
