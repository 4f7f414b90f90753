------------------------- MODULE MCRefreshedServer -------------------------
(***************************************************************************)
(* Instances of RefreshedServer for TLC: two services, documents that add, *)
(* drop and repeat names, and two named schemas that refer to themselves   *)
(* and to each other in every way.                                         *)
(***************************************************************************)
EXTENDS RefreshedServer

Path(id, tag, tail) == [id |-> id, tag |-> tag, tail |-> tail, prefixed |-> TRUE]

Create == Path(1, "Command", "Create")
Get == Path(2, "Query", "Get")
Find == Path(3, "Query", "Find")

Document(paths) == [paths |-> paths, dangling |-> FALSE]

MCDocuments ==
    {Document({Create, Get}),
     Document({Find, [Create EXCEPT !.tag = "Test"]}),
     Document({Create, Find}),
     Document({Create, Path(4, "Command", "Create")}),
     Document({Create, [Find EXCEPT !.prefixed = FALSE]}),
     [Document({Create}) EXCEPT !.dangling = TRUE]}

\* What the properties of the two schemas are; B may be an enum instead.
Text == Typed("scalar", FALSE)
Targets == {Ref("A"), Ref("B")}
OfA == {Text, Typed("date", TRUE), ArrayOf(Text, TRUE)} \cup Targets
           \cup {ArrayOf(t, FALSE) : t \in Targets}
OfB == {Typed("scalar", TRUE), ArrayOf(Ref("A"), FALSE)} \cup Targets

One(s) == ObjectOf([n \in {"p"} |-> s])
Two(s, t) == ObjectOf([n \in {"p", "q"} |-> IF n = "p" THEN s ELSE t])

MCComponents ==
    {[A |-> a, B |-> b] :
        a \in {One(s) : s \in OfA}
                \cup {Two(s, Ref("B")) : s \in {Ref("B")} \cup {ArrayOf(t, FALSE) : t \in Targets}},
        b \in {One(s) : s \in OfB} \cup {Enum(TRUE)}}

MCSchemas == OfA \cup OfB \cup UNION {{c["A"], c["B"]} : c \in MCComponents}

MCOperations ==
    {[hasBody |-> TRUE, body |-> Ref("A"), parameters |-> {}],
     [hasBody |-> FALSE, body |-> Text, parameters |-> {"p"}],
     [hasBody |-> FALSE, body |-> Text, parameters |-> {}]}

\* Bound: the values have one branch and at most MaxNesting levels, and a null or
\* a date at most MaxMarks levels below the whole.
CONSTANTS MaxNesting, MaxMarks

Leaf(kind) == [path \in {<<>>} |-> kind]
Leaves == {Leaf("scalar"), Leaf("object")}
Marks == {Leaf("date"), Leaf("looseDate"), Leaf("null")}

\* The object or list that holds v and nothing else.
Around(kind, step, v) ==
    [path \in {<<>>} \cup {<<step>> \o q : q \in DOMAIN v} |->
        IF path = <<>> THEN kind ELSE v[Tail(path)]]

Nested(inmost) ==
    LET nested[n \in 0..MaxNesting] ==
            IF n = 0 THEN inmost
            ELSE inmost \cup {Around("object", f, v) : f \in {"p", "q"}, v \in nested[n - 1]}
                        \cup {Around("object", "x", v) : v \in inmost}
                        \cup {Around("list", "0", v) : v \in nested[n - 1]}
    IN  nested

MCPlain == [A |-> One(Text), B |-> Enum(TRUE)]

AllNested == Nested(Leaves)
AllMarked == Nested(Marks)

\* After a refresh, whose outcome the schemas do not bear on, only {} is called with.
MCRequests ==
    [c \in MCComponents |-> [o \in MCOperations |->
        LET Up(bound) == IF c = MCPlain THEN 0 ELSE IF o.hasBody THEN bound ELSE 1
        IN  {v \in AllNested[Up(MaxNesting)] \cup AllMarked[Up(MaxMarks)] : v[<<>>] = "object"}]]

=============================================================================
