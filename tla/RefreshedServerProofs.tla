----------------------- MODULE RefreshedServerProofs -----------------------
(***************************************************************************)
(* What becomes of the params of a call, for any documents, schemas and    *)
(* params: replacing every $ref refuses nothing that the document allows   *)
(* but nulls, and loses nothing of its checks before the cycle it cuts.    *)
(***************************************************************************)
EXTENDS RefreshedServer, SpecRefreshProofs, FiniteSetTheorems, SequenceTheorems

-----------------------------------------------------------------------------
(* Induction on the naturals, over a set of them *)

LEMMA Induction ==
  ASSUME NEW T, 0 \in T, \A n \in Nat : n \in T => n + 1 \in T
  PROVE  \A n \in Nat : n \in T
  <1> DEFINE B == Nat \ T
             below == {0..x : x \in B}
  <1>1. SUFFICES ASSUME B # {} PROVE FALSE
    OBVIOUS
  <1>2. \A x \in B : IsFiniteSet(0..x) /\ 0..x \subseteq Nat
    BY FS_Interval
  <1>3. below \subseteq FiniteSubsetsOf(Nat) /\ below # {}
    BY <1>1, <1>2 DEF FiniteSubsetsOf
  <1>4. PICK a \in below : \A b \in below : <<b, a>> \notin StrictSubsetOrdering(Nat)
    <2> HIDE DEF below
    <2> QED
      BY <1>3, FS_StrictSubsetOrderingWellFounded, WFMin, Zenon
  <1>5. PICK x \in B : a = 0..x
    OBVIOUS
  <1>6. x - 1 \in Nat /\ x - 1 \notin T
    BY <1>5
  <1>7. 0..(x - 1) \in below /\ 0..(x - 1) \subseteq 0..x /\ x \in 0..x /\ x \notin 0..(x - 1)
    BY <1>6
  <1>8. <<0..(x - 1), 0..x>> \in StrictSubsetOrdering(Nat)
    BY <1>7 DEF StrictSubsetOrdering
  <1> QED
    BY <1>4, <1>5, <1>7, <1>8

-----------------------------------------------------------------------------
(* The schemas of a document                                               *)

LEMMA SchemaKinds ==
  ASSUME NEW s \in Schemas
  PROVE  /\ s.kind \in {"scalar", "date", "enum", "ref", "array", "object"}
         /\ s.kind = "enum" => s = Enum(TRUE)
         /\ s.kind = "ref" => s.name \in SchemaNames
         /\ s.kind = "array" => s.items \in Schemas /\ s.items.kind # "array"
         /\ s.kind = "object" => \A p \in DOMAIN s.properties : s.properties[p] \in Schemas
  <1>1. Enum(TRUE).kind = "enum"
    BY DEF Enum
  <1> QED
    BY <1>1, ResolutionAssumption

\* What a $ref names is none.
LEMMA Named ==
  ASSUME NEW c, IsComponents(c), NEW s \in Schemas
  PROVE  /\ Follow(c, s) \in Schemas
         /\ s.kind # "ref" => Follow(c, s) = s
         /\ s.kind = "ref" => /\ s.name \in SchemaNames /\ Follow(c, s) = c[s.name]
                              /\ Follow(c, s).kind \in {"object", "enum"}
  BY SchemaKinds DEF Follow, IsComponents

-----------------------------------------------------------------------------
(* The resolver meets its recursive definition: a call that is not too deep *)
(* makes calls one and two levels further down only.                        *)

\* One level of it; one and two are what the levels below return.
Level(c, depth, one, two) ==
    [node \in Schemas |-> [seen \in SUBSET SchemaNames |->
        IF TooDeep(depth) THEN Placeholder
        ELSE IF node.kind = "ref"
        THEN IF node.name \in seen THEN Placeholder
             ELSE one[c[node.name]][Seen(seen, node.name)]
        ELSE IF TooDeep(depth + 1) THEN Malformed
        ELSE CASE node.kind = "object" ->
                     ObjectOf([p \in DOMAIN node.properties |-> two[node.properties[p]][seen]])
               [] node.kind = "array" -> ArrayOf(one[node.items][seen], node.nullable)
               [] node.kind = "enum" -> Enum(~TooDeep(depth + 2))
               [] node.kind \in {"scalar", "date"} -> node]]

\* Level for a depth that is too deep.
Cut == [node \in Schemas |-> [seen \in SUBSET SchemaNames |-> Placeholder]]

LEMMA ResolverExists ==
  ASSUME NEW c
  PROVE  \E f : f = [depth \in Nat |-> Level(c, depth, f[depth + 1], f[depth + 2])]
  <1> DEFINE Meets(f, d) == f[d] = Level(c, d, f[d + 1], f[d + 2])
             T == {k \in Nat : \E f : /\ DOMAIN f = Nat
                                      /\ f = [d \in Nat |-> f[d]]
                                      /\ \A d \in Nat : d + k > MaxResolutionDepth => Meets(f, d)}
  <1>1. 0 \in T
    <2> DEFINE f == [d \in Nat |-> Cut]
    <2>1. ASSUME NEW d \in Nat, d > MaxResolutionDepth PROVE Meets(f, d)
      BY <2>1 DEF Level, Cut, TooDeep
    <2>2. DOMAIN f = Nat /\ f = [d \in Nat |-> f[d]] /\ \A d \in Nat : d + 0 = d
      OBVIOUS
    <2> HIDE DEF Meets
    <2>3. \A d \in Nat : d + 0 > MaxResolutionDepth => Meets(f, d)
      BY <2>1, <2>2
    <2> HIDE DEF f
    <2> QED
      BY <2>2, <2>3
  <1>2. ASSUME NEW k \in Nat, k \in T PROVE k + 1 \in T
    <2>1. PICK f : /\ DOMAIN f = Nat
                   /\ \A d \in Nat : d + k > MaxResolutionDepth => Meets(f, d)
      BY <1>2
    <2> DEFINE e == MaxResolutionDepth - k
               g == [d \in Nat |-> IF d = e THEN Level(c, e, f[e + 1], f[e + 2]) ELSE f[d]]
    <2>2. ASSUME NEW d \in Nat, d + (k + 1) > MaxResolutionDepth PROVE Meets(g, d)
      <3>1. d >= e /\ d + 1 \in Nat /\ d + 2 \in Nat /\ d + 1 # e /\ d + 2 # e
        BY <2>2, ResolutionAssumption
      <3>2. g[d + 1] = f[d + 1] /\ g[d + 2] = f[d + 2]
        BY <3>1
      <3>3. CASE d = e
        BY <3>2, <3>3
      <3>4. CASE d # e
        <4>1. d + k > MaxResolutionDepth
          BY <3>1, <3>4, ResolutionAssumption
        <4>2. f[d] = Level(c, d, f[d + 1], f[d + 2])
          BY <2>1, <4>1
        <4> QED
          BY <3>2, <3>4, <4>2
      <3> QED
        BY <3>3, <3>4
    <2>3. DOMAIN g = Nat /\ g = [d \in Nat |-> g[d]]
      OBVIOUS
    <2> HIDE DEF Meets, g
    <2> QED
      BY <2>2, <2>3
  <1>3. MaxResolutionDepth + 1 \in T
    <2> HIDE DEF T
    <2>1. \A n \in Nat : n \in T
      BY <1>1, <1>2, Induction
    <2> QED
      BY <2>1, ResolutionAssumption
  <1>4. PICK f : /\ f = [d \in Nat |-> f[d]]
                 /\ \A d \in Nat : d + (MaxResolutionDepth + 1) > MaxResolutionDepth => Meets(f, d)
    BY <1>3
  <1>5. \A d \in Nat : Meets(f, d)
    <2> HIDE DEF Meets
    <2> QED
      BY <1>4, ResolutionAssumption
  <1> DEFINE h == [depth \in Nat |-> Level(c, depth, f[depth + 1], f[depth + 2])]
  <1>6. h = [d \in Nat |-> h[d]] /\ \A d \in Nat : h[d] = f[d]
    BY <1>5
  <1>7. f = h
    <2> HIDE DEF h, Meets
    <2> QED
      BY <1>4, <1>6
  <1> QED
    BY <1>7

LEMMA ResolverLevel ==
  ASSUME NEW c
  PROVE  \E r : /\ \A n, s, d : ResolveRef(c, n, s, d) = r[d][n][s]
                /\ \A d \in Nat : r[d] = Level(c, d, r[d + 1], r[d + 2])
  <1> DEFINE r == CHOOSE f : f = [d \in Nat |-> Level(c, d, f[d + 1], f[d + 2])]
  <1>1. r = [d \in Nat |-> Level(c, d, r[d + 1], r[d + 2])]
    BY ResolverExists
  <1>2. \A n, s, d : ResolveRef(c, n, s, d) = r[d][n][s]
    BY DEF ResolveRef, Level
  <1> HIDE DEF r
  <1>3. \A d \in Nat : r[d] = Level(c, d, r[d + 1], r[d + 2])
    BY <1>1
  <1> QED
    BY <1>2, <1>3

\* What it makes of a $ref.
LEMMA ResolvedRef ==
  ASSUME NEW c, NEW node \in Schemas, NEW seen \in SUBSET SchemaNames, NEW depth \in Nat,
         node.kind = "ref", ~TooDeep(depth)
  PROVE  ResolveRef(c, node, seen, depth) =
            IF node.name \in seen THEN Placeholder
            ELSE ResolveRef(c, c[node.name], Seen(seen, node.name), depth + 1)
  <1>1. PICK r : /\ \A n, s, d : ResolveRef(c, n, s, d) = r[d][n][s]
                 /\ \A d \in Nat : r[d] = Level(c, d, r[d + 1], r[d + 2])
    BY ResolverLevel
  <1>2. r[depth] = Level(c, depth, r[depth + 1], r[depth + 2])
    BY <1>1
  <1>3. r[depth][node][seen] = IF node.name \in seen THEN Placeholder
                               ELSE r[depth + 1][c[node.name]][Seen(seen, node.name)]
    BY <1>2 DEF Level
  <1> QED
    BY <1>1, <1>3

\* What it makes of a schema that says its type.
LEMMA ResolvedObject ==
  ASSUME NEW c, NEW node \in Schemas, NEW seen \in SUBSET SchemaNames, NEW depth \in Nat,
         node.kind = "object", ~TooDeep(depth), ~TooDeep(depth + 1)
  PROVE  ResolveRef(c, node, seen, depth) =
            ObjectOf([p \in DOMAIN node.properties |->
                        ResolveRef(c, node.properties[p], seen, depth + 2)])
  <1>1. PICK r : /\ \A n, s, d : ResolveRef(c, n, s, d) = r[d][n][s]
                 /\ \A d \in Nat : r[d] = Level(c, d, r[d + 1], r[d + 2])
    BY ResolverLevel
  <1>2. r[depth] = Level(c, depth, r[depth + 1], r[depth + 2])
    BY <1>1
  <1>3. r[depth][node][seen] =
           ObjectOf([p \in DOMAIN node.properties |-> r[depth + 2][node.properties[p]][seen]])
    BY <1>2 DEF Level
  <1> QED
    BY <1>1, <1>3

LEMMA ResolvedArray ==
  ASSUME NEW c, NEW node \in Schemas, NEW seen \in SUBSET SchemaNames, NEW depth \in Nat,
         node.kind = "array", ~TooDeep(depth), ~TooDeep(depth + 1)
  PROVE  ResolveRef(c, node, seen, depth) =
            ArrayOf(ResolveRef(c, node.items, seen, depth + 1), node.nullable)
  <1>1. PICK r : /\ \A n, s, d : ResolveRef(c, n, s, d) = r[d][n][s]
                 /\ \A d \in Nat : r[d] = Level(c, d, r[d + 1], r[d + 2])
    BY ResolverLevel
  <1>2. r[depth] = Level(c, depth, r[depth + 1], r[depth + 2])
    BY <1>1
  <1>3. r[depth][node][seen] =
           ArrayOf(r[depth + 1][node.items][seen], node.nullable)
    BY <1>2 DEF Level
  <1> QED
    BY <1>1, <1>3

LEMMA ResolvedEnum ==
  ASSUME NEW c, NEW node \in Schemas, NEW seen \in SUBSET SchemaNames, NEW depth \in Nat,
         node.kind = "enum", ~TooDeep(depth), ~TooDeep(depth + 1)
  PROVE  ResolveRef(c, node, seen, depth) = Enum(~TooDeep(depth + 2))
  <1>1. PICK r : /\ \A n, s, d : ResolveRef(c, n, s, d) = r[d][n][s]
                 /\ \A d \in Nat : r[d] = Level(c, d, r[d + 1], r[d + 2])
    BY ResolverLevel
  <1>2. r[depth] = Level(c, depth, r[depth + 1], r[depth + 2])
    BY <1>1
  <1>3. r[depth][node][seen] = Enum(~TooDeep(depth + 2))
    BY <1>2 DEF Level
  <1> QED
    BY <1>1, <1>3

LEMMA ResolvedScalar ==
  ASSUME NEW c, NEW node \in Schemas, NEW seen \in SUBSET SchemaNames, NEW depth \in Nat,
         node.kind \in {"scalar", "date"}, ~TooDeep(depth), ~TooDeep(depth + 1)
  PROVE  ResolveRef(c, node, seen, depth) = node
  <1>1. PICK r : /\ \A n, s, d : ResolveRef(c, n, s, d) = r[d][n][s]
                 /\ \A d \in Nat : r[d] = Level(c, d, r[d + 1], r[d + 2])
    BY ResolverLevel
  <1>2. r[depth] = Level(c, depth, r[depth + 1], r[depth + 2])
    BY <1>1
  <1>3. r[depth][node][seen] = node
    BY <1>2 DEF Level
  <1> QED
    BY <1>1, <1>3

\* What it makes of a schema that is too deep.
LEMMA ResolvedTooDeep ==
  ASSUME NEW c, NEW node \in Schemas, NEW seen \in SUBSET SchemaNames, NEW depth \in Nat
  PROVE  /\ TooDeep(depth) => ResolveRef(c, node, seen, depth) = Placeholder
         /\ ~TooDeep(depth) /\ TooDeep(depth + 1) /\ node.kind # "ref" =>
               ResolveRef(c, node, seen, depth) = Malformed
  <1>1. PICK r : /\ \A n, s, d : ResolveRef(c, n, s, d) = r[d][n][s]
                 /\ \A d \in Nat : r[d] = Level(c, d, r[d + 1], r[d + 2])
    BY ResolverLevel
  <1>2. r[depth] = Level(c, depth, r[depth + 1], r[depth + 2])
    BY <1>1
  <1>3. TooDeep(depth) => r[depth][node][seen] = Placeholder
    BY <1>2 DEF Level
  <1>4. ~TooDeep(depth) /\ TooDeep(depth + 1) /\ node.kind # "ref" =>
           r[depth][node][seen] = Malformed
    BY <1>2 DEF Level
  <1> QED
    BY <1>1, <1>3, <1>4

-----------------------------------------------------------------------------
(* The schemas that the parts of a value are checked against               *)

Governing(c, node, at, path) ==
    IF path = <<>> THEN node ELSE Member(Follow(c, at[Front(path)]), Last(path))

\* All but the last of a sequence's elements.
LEMMA FrontIsShorter ==
  ASSUME NEW S, NEW s \in Seq(S), s # <<>>
  PROVE  /\ Front(s) \in Seq(S)
         /\ Len(Front(s)) = Len(s) - 1
         /\ \A i \in 1..(Len(s) - 1) : Front(s)[i] = s[i]
  <1> DEFINE n == Len(s) - 1
  <1>1. n \in Nat /\ 1 \in Int /\ n \in Int
    BY EmptySeq
  <1>2. \A i \in 1..n : s[i] \in S
    BY <1>1, ElementOfSeq
  <1>3. Front(s) = SubSeq(s, 1, n)
    BY DEF Front
  <1> HIDE DEF n
  <1>4. /\ SubSeq(s, 1, n) \in Seq(S)
        /\ Len(SubSeq(s, 1, n)) = IF 1 <= n THEN n - 1 + 1 ELSE 0
        /\ \A i \in 1..(n - 1 + 1) : SubSeq(s, 1, n)[i] = s[1 + i - 1]
    BY <1>1, <1>2, SubSeqProperties
  <1>5. Len(SubSeq(s, 1, n)) = n /\ \A i \in 1..n : SubSeq(s, 1, n)[i] = s[i]
    BY <1>1, <1>4
  <1> QED
    BY <1>3, <1>4, <1>5 DEF n

\* A part other than the whole is inside one with a shorter path.
LEMMA Outer ==
  ASSUME NEW value, IsValue(value), NEW path \in DOMAIN value, path # <<>>
  PROVE  /\ Front(path) \in DOMAIN value
         /\ Len(path) \in Nat \ {0} /\ Len(Front(path)) = Len(path) - 1
         /\ value[Front(path)] = IF Last(path) \in Fields THEN "object" ELSE "list"
         /\ Last(path) \in Fields \cup Places
         /\ path \in Seq(Fields \cup Places)
  <1>1. path \in Seq(Fields \cup Places) /\ Front(path) \in DOMAIN value
        /\ value[Front(path)] = IF Last(path) \in Fields THEN "object" ELSE "list"
    BY DEF IsValue
  <1>2. Len(path) \in Nat \ {0}
    BY <1>1, EmptySeq
  <1>3. Len(Front(path)) = Len(path) - 1
    BY <1>1, <1>2, FrontIsShorter
  <1>4. Last(path) \in Fields \cup Places
    BY <1>1, <1>2 DEF Last
  <1> QED
    BY <1>1, <1>2, <1>3, <1>4

\* Every path has a length.
LEMMA Lengths ==
  ASSUME NEW value, IsValue(value), NEW path \in DOMAIN value
  PROVE  Len(path) \in Nat /\ (Len(path) = 0 => path = <<>>)
  <1>1. CASE path = <<>>
    BY <1>1
  <1>2. CASE path # <<>>
    BY <1>2, Outer
  <1> QED
    BY <1>1, <1>2

\* An induction from the whole to its parts.
LEMMA InductionOnParts ==
  ASSUME NEW value, IsValue(value), NEW T,
         <<>> \in T,
         \A path \in DOMAIN value \ {<<>>} : Front(path) \in T => path \in T
  PROVE  \A path \in DOMAIN value : path \in T
  <1> DEFINE L == {n \in Nat : \A path \in DOMAIN value : Len(path) = n => path \in T}
  <1>1. 0 \in L
    BY Lengths
  <1>2. ASSUME NEW n \in Nat, n \in L PROVE n + 1 \in L
    <2>1. ASSUME NEW path \in DOMAIN value, Len(path) = n + 1 PROVE path \in T
      <3>1. path # <<>>
        BY <2>1
      <3>2. Front(path) \in DOMAIN value /\ Len(Front(path)) = n
        BY <2>1, <3>1, Outer
      <3> QED
        BY <1>2, <3>1, <3>2
    <2> QED
      BY <2>1
  <1>3. \A n \in Nat : n \in L
    <2> HIDE DEF L
    <2> QED
      BY <1>1, <1>2, Induction
  <1> QED
    BY <1>3, Lengths

\* The recursive definition is met by some function: the ones that meet it up to
\* a length agree up to there, and together they meet it everywhere.
LEMMA GoverningExists ==
  ASSUME NEW c, NEW node, NEW value, IsValue(value)
  PROVE  \E f : f = [path \in DOMAIN value |-> Governing(c, node, f, path)]
  <1> DEFINE D == DOMAIN value
             Meets(f, n) == \A p \in D : Len(p) <= n => f[p] = Governing(c, node, f, p)
             T == {n \in Nat : \E f : Meets(f, n)}
  <1>1. 0 \in T
    <2> DEFINE f == [p \in D |-> node]
    <2>1. \A p \in D : Len(p) <= 0 => f[p] = Governing(c, node, f, p)
      BY Lengths DEF Governing
    <2> QED
      BY <2>1
  <1>2. ASSUME NEW n \in Nat, n \in T PROVE n + 1 \in T
    <2>1. PICK f : Meets(f, n)
      BY <1>2
    <2> DEFINE g == [p \in D |-> IF Len(p) <= n THEN f[p] ELSE Governing(c, node, f, p)]
    <2>2. ASSUME NEW p \in D, Len(p) <= n + 1 PROVE g[p] = Governing(c, node, g, p)
      <3>1. g[p] = Governing(c, node, f, p)
        BY <2>1
      <3>2. CASE p = <<>>
        BY <3>1, <3>2 DEF Governing
      <3>3. CASE p # <<>>
        <4>1. Front(p) \in D /\ Len(Front(p)) <= n
          BY <2>2, <3>3, Outer
        <4>2. g[Front(p)] = f[Front(p)]
          BY <4>1
        <4> QED
          BY <3>1, <4>2 DEF Governing
      <3> QED
        BY <3>2, <3>3
    <2> HIDE DEF g
    <2>3. Meets(g, n + 1)
      BY <2>2
    <2> QED
      BY <2>3
  <1>3. ASSUME NEW n \in T PROVE \E f : Meets(f, n)
    OBVIOUS
  <1>4. \A n \in Nat : \E f : Meets(f, n)
    <2> HIDE DEF T, Meets
    <2>1. \A n \in Nat : n \in T
      BY <1>1, <1>2, Induction
    <2> QED
      BY <1>3, <2>1
  <1> DEFINE F(n) == CHOOSE f : Meets(f, n)
  <1>5. \A n \in Nat : Meets(F(n), n)
    <2> HIDE DEF Meets
    <2> QED
      BY <1>4
  \* Two of them agree.
  <1>6. ASSUME NEW f, NEW g, NEW n \in Nat, Meets(f, n), Meets(g, n)
        PROVE  \A p \in D : Len(p) <= n => f[p] = g[p]
    <2> DEFINE A == {p \in D : Len(p) <= n => f[p] = g[p]}
    <2>1. <<>> \in A
      BY <1>6 DEF Governing, IsValue
    <2>2. ASSUME NEW p \in D \ {<<>>}, Front(p) \in A PROVE p \in A
      <3>1. SUFFICES ASSUME Len(p) <= n PROVE f[p] = g[p]
        OBVIOUS
      <3>2. Front(p) \in D /\ Len(Front(p)) <= n
        BY <3>1, Outer
      <3>3. f[Front(p)] = g[Front(p)]
        BY <2>2, <3>2
      <3>4. f[p] = Governing(c, node, f, p) /\ g[p] = Governing(c, node, g, p)
        BY <1>6, <3>1
      <3> QED
        BY <3>3, <3>4 DEF Governing
    <2>3. \A p \in D : p \in A
      <3> HIDE DEF A
      <3> QED
        BY <2>1, <2>2, InductionOnParts
    <2> QED
      BY <2>3
  <1> DEFINE h == [p \in D |-> F(Len(p))[p]]
  <1>7. ASSUME NEW p \in D PROVE h[p] = Governing(c, node, h, p)
    <2> HIDE DEF F
    <2>1. Len(p) \in Nat /\ h[p] = Governing(c, node, F(Len(p)), p)
      BY <1>5, Lengths
    <2>2. CASE p = <<>>
      BY <2>1, <2>2 DEF Governing
    <2>3. CASE p # <<>>
      <3> DEFINE q == Front(p)
                 m == Len(q)
      <3>1. q \in D /\ m \in Nat /\ m <= Len(p)
        BY <2>3, Outer
      <3>2. Meets(F(Len(p)), m)
        BY <1>5, <2>1, <3>1, Lengths
      <3>3. F(Len(p))[q] = F(m)[q]
        <4> HIDE DEF Meets, q
        <4> QED
          BY <1>5, <1>6, <3>1, <3>2
      <3>4. h[q] = F(Len(p))[q]
        BY <3>1, <3>3
      <3> QED
        BY <2>1, <3>4 DEF Governing
    <2> QED
      BY <2>2, <2>3
  <1> DEFINE k == [p \in D |-> Governing(c, node, h, p)]
  <1>8. h = [p \in D |-> h[p]] /\ k = [p \in D |-> k[p]] /\ \A p \in D : h[p] = k[p]
    <2>1. \A p \in D : k[p] = Governing(c, node, h, p)
      OBVIOUS
    <2>2. h = [p \in D |-> h[p]] /\ k = [p \in D |-> k[p]]
      OBVIOUS
    <2> HIDE DEF h, k
    <2> QED
      BY <1>7, <2>1, <2>2
  <1>9. h = k
    <2> HIDE DEF h, k
    <2> QED
      BY <1>8
  <1> HIDE DEF h
  <1> QED
    BY <1>9

\* The whole is checked against the schema itself, and a part against what the
\* schema around it says of that part.
LEMMA SchemasOfParts ==
  ASSUME NEW c, NEW node, NEW value, IsValue(value)
  PROVE  LET at == SchemasOf(c, node, value)
         IN  /\ at[<<>>] = node
             /\ \A path \in DOMAIN value \ {<<>>} :
                   at[path] = Member(Follow(c, at[Front(path)]), Last(path))
  <1> DEFINE at == SchemasOf(c, node, value)
  <1>1. at = CHOOSE f : f = [path \in DOMAIN value |-> Governing(c, node, f, path)]
    BY DEF SchemasOf, Governing
  <1>2. at = [path \in DOMAIN value |-> Governing(c, node, at, path)]
    <2> HIDE DEF at
    <2> QED
      BY <1>1, GoverningExists
  <1> HIDE DEF at
  <1>3. \A path \in DOMAIN value : at[path] = Governing(c, node, at, path)
    BY <1>2
  <1>4. at[<<>>] = node
    BY <1>3 DEF Governing, IsValue
  <1>5. \A path \in DOMAIN value \ {<<>>} :
           at[path] = Member(Follow(c, at[Front(path)]), Last(path))
    BY <1>3 DEF Governing
  <1> QED
    BY <1>4, <1>5 DEF at

-----------------------------------------------------------------------------
(* The ways into the schemas of a shallow body                             *)

AllWays == [schema : Schemas, names : SUBSET SchemaNames, depth : Nat]

Start(body) == [schema |-> body, names |-> {}, depth |-> 0]

\* A step leads from a way to a way, and deeper.
LEMMA OnwardLeadsDown ==
  ASSUME NEW c, IsComponents(c), NEW w \in AllWays, NEW v \in Onward(c, w)
  PROVE  v \in AllWays /\ v.depth > w.depth
  <1>0. w.schema \in Schemas /\ w.names \in SUBSET SchemaNames /\ w.depth \in Nat
    BY DEF AllWays
  <1>1. CASE w.schema.kind = "object"
    <2>1. PICK p \in DOMAIN w.schema.properties :
             v = [schema |-> w.schema.properties[p], names |-> w.names, depth |-> w.depth + 2]
      BY <1>1 DEF Onward
    <2>2. w.schema.properties[p] \in Schemas
      BY <1>0, <1>1, SchemaKinds
    <2> QED
      BY <1>0, <2>1, <2>2 DEF AllWays
  <1>2. CASE w.schema.kind = "array"
    <2>1. v = [schema |-> w.schema.items, names |-> w.names, depth |-> w.depth + 1]
      BY <1>2 DEF Onward
    <2>2. w.schema.items \in Schemas
      BY <1>0, <1>2, SchemaKinds
    <2> QED
      BY <1>0, <2>1, <2>2 DEF AllWays
  <1>3. CASE w.schema.kind = "ref" /\ w.schema.name \notin w.names
    <2>1. v = [schema |-> c[w.schema.name], names |-> w.names \cup {w.schema.name},
               depth |-> w.depth + 1]
      BY <1>3 DEF Onward
    <2>2. w.schema.name \in SchemaNames /\ c[w.schema.name] \in Schemas
      BY <1>0, <1>3, SchemaKinds DEF IsComponents
    <2> QED
      BY <1>0, <2>1, <2>2 DEF AllWays
  <1>4. CASE ~(\/ w.schema.kind = "object" \/ w.schema.kind = "array"
               \/ w.schema.kind = "ref" /\ w.schema.name \notin w.names)
    BY <1>4 DEF Onward
  <1> QED
    BY <1>1, <1>2, <1>3, <1>4

Widened(c, body, f, n) ==
    IF n = 0 THEN {Start(body)} ELSE UNION {Onward(c, way) : way \in f[n - 1]}

\* The ways met after n steps are defined, for every n that is looked at.
LEMMA WaysOnward ==
  ASSUME NEW c, NEW body
  PROVE  LET ways == Ways(c, body)
         IN  /\ DOMAIN ways = 0..(MaxResolutionDepth + 1)
             /\ ways[0] = {Start(body)}
             /\ \A n \in 0..MaxResolutionDepth :
                   ways[n + 1] = UNION {Onward(c, way) : way \in ways[n]}
  <1> DEFINE M == MaxResolutionDepth
             Meets(f, n) == \A k \in Nat : k <= n => f[k] = Widened(c, body, f, k)
             T == {n \in Nat : \E f : Meets(f, n)}
  <1>1. 0 \in T
    <2> DEFINE f == [k \in Nat |-> {Start(body)}]
    <2>1. Meets(f, 0)
      BY DEF Widened
    <2> QED
      BY <2>1
  <1>2. ASSUME NEW n \in Nat, n \in T PROVE n + 1 \in T
    <2>1. PICK f : Meets(f, n)
      BY <1>2
    <2> DEFINE g == [k \in Nat |-> IF k <= n THEN f[k] ELSE Widened(c, body, f, k)]
    <2>2. ASSUME NEW k \in Nat, k <= n + 1 PROVE g[k] = Widened(c, body, g, k)
      <3>1. g[k] = Widened(c, body, f, k)
        BY <2>1
      <3>2. k # 0 => g[k - 1] = f[k - 1]
        BY <2>2
      <3> QED
        BY <3>1, <3>2 DEF Widened
    <2> HIDE DEF g
    <2>3. Meets(g, n + 1)
      BY <2>2
    <2> QED
      BY <2>3
  <1>3. M + 1 \in T
    <2> HIDE DEF T
    <2>1. \A n \in Nat : n \in T
      BY <1>1, <1>2, Induction
    <2> QED
      BY <2>1, ResolutionAssumption
  <1>4. PICK f : Meets(f, M + 1)
    BY <1>3
  <1> DEFINE h == [k \in 0..(M + 1) |-> f[k]]
             i == [k \in 0..(M + 1) |-> Widened(c, body, h, k)]
  <1>5. ASSUME NEW k \in 0..(M + 1) PROVE h[k] = Widened(c, body, h, k)
    <2>1. M \in Nat /\ k \in Nat /\ k <= M + 1
      BY ResolutionAssumption
    <2>2. h[k] = Widened(c, body, f, k)
      BY <1>4, <2>1
    <2>3. k # 0 => h[k - 1] = f[k - 1]
      BY <2>1
    <2> QED
      BY <2>2, <2>3 DEF Widened
  <1>6. h = i
    <2>1. h = [k \in 0..(M + 1) |-> h[k]] /\ i = [k \in 0..(M + 1) |-> i[k]]
      OBVIOUS
    <2>2. \A k \in 0..(M + 1) : h[k] = i[k]
      BY <1>5
    <2> HIDE DEF h, i
    <2> QED
      BY <2>1, <2>2
  <1> HIDE DEF h
  <1>7. \E g : g = [k \in 0..(M + 1) |-> Widened(c, body, g, k)]
    BY <1>6
  <1> DEFINE ways == Ways(c, body)
  <1>8. ways = CHOOSE g : g = [k \in 0..(M + 1) |-> Widened(c, body, g, k)]
    BY DEF Ways, Widened, Start
  <1>9. ways = [k \in 0..(M + 1) |-> Widened(c, body, ways, k)]
    <2> HIDE DEF ways
    <2> QED
      BY <1>7, <1>8
  <1> HIDE DEF ways
  <1>10. DOMAIN ways = 0..(M + 1) /\ \A k \in 0..(M + 1) : ways[k] = Widened(c, body, ways, k)
    BY <1>9
  <1>11. ways[0] = {Start(body)}
    BY <1>10, ResolutionAssumption DEF Widened
  <1>12. ASSUME NEW n \in 0..M
         PROVE  ways[n + 1] = UNION {Onward(c, way) : way \in ways[n]}
    <2>1. n + 1 \in 0..(M + 1) /\ n + 1 # 0 /\ (n + 1) - 1 = n
      BY ResolutionAssumption
    <2> QED
      BY <1>10, <2>1 DEF Widened
  <1> QED
    BY <1>10, <1>11, <1>12 DEF ways

\* A way that the resolver is at with something left to look at: not too deep, and
\* below the objects it has followed names to.
Open(c, w) ==
    /\ w \in AllWays
    /\ ~TooDeep(w.depth)
    /\ w.schema.kind # "ref" => ~TooDeep(w.depth + 1)
    /\ w.schema.kind = "enum" => ~TooDeep(w.depth + 2)
    /\ w.schema.kind # "enum" => \A n \in w.names : c[n].kind = "object"

\* The levels that a schema takes below its own.
Levels(schema) == CASE schema.kind = "ref" -> 0 [] schema.kind = "enum" -> 2 [] OTHER -> 1

\* From a shallow body only such ways are reached: as every step leads deeper, the
\* ways that are looked at are all there are.
LEMMA ShallowIsOpen ==
  ASSUME NEW c, IsComponents(c), NEW operation, operation.hasBody,
         operation.body \in Schemas, Shallow(c, operation)
  PROVE  \E R : /\ Start(operation.body) \in R
                /\ \A w \in R : Open(c, w) /\ Onward(c, w) \subseteq R
  <1> DEFINE M == MaxResolutionDepth
             ways == Ways(c, operation.body)
             Seek(n, w) == /\ w \in AllWays /\ w.depth >= n
                           /\ w.schema.kind # "enum" => \A m \in w.names : c[m].kind = "object"
             T == {n \in Nat : n <= M + 1 => \A w \in ways[n] : Seek(n, w)}
             R == UNION {ways[n] : n \in 0..M}
  <1>1. /\ DOMAIN ways = 0..(M + 1)
        /\ ways[0] = {Start(operation.body)}
        /\ \A n \in 0..M : ways[n + 1] = UNION {Onward(c, way) : way \in ways[n]}
    BY WaysOnward
  <1>2. \A n \in 0..(M + 1) : \A way \in ways[n] :
            way.depth + Levels(way.schema) <= M
    BY <1>1 DEF Shallow, Levels
  <1> HIDE DEF ways
  <1>3. 0 \in T
    <2>1. Seek(0, Start(operation.body))
      BY DEF Start, AllWays
    <2> QED
      BY <1>1, <2>1
  <1>4. ASSUME NEW n \in Nat, n \in T PROVE n + 1 \in T
    <2>1. SUFFICES ASSUME n + 1 <= M + 1, NEW v \in ways[n + 1] PROVE Seek(n + 1, v)
      OBVIOUS
    <2>2. n \in 0..M
      BY <2>1, ResolutionAssumption
    <2>3. PICK w \in ways[n] : v \in Onward(c, w)
      BY <1>1, <2>2
    <2>4. Seek(n, w)
      BY <1>4, <2>2, ResolutionAssumption
    <2>5. v \in AllWays /\ v.depth >= n + 1
      <3>1. v \in AllWays /\ v.depth > w.depth /\ w.depth >= n
        BY <2>3, <2>4, OnwardLeadsDown
      <3>2. v.depth \in Nat /\ w.depth \in Nat
        BY <2>4, <3>1 DEF AllWays
      <3> QED
        BY <3>1, <3>2
    <2>6. ASSUME v.schema.kind # "enum", NEW m \in v.names PROVE c[m].kind = "object"
      <3>1. CASE m \in w.names
        <4>1. w.schema.kind # "enum"
          BY <2>3 DEF Onward
        <4> QED
          BY <2>4, <3>1, <4>1
      <3>2. CASE m \notin w.names
        <4>1. w.schema.kind = "ref" /\ m = w.schema.name /\ v.schema = c[w.schema.name]
          BY <2>3, <2>6, <3>2 DEF Onward
        <4>2. w.schema.name \in SchemaNames
          BY <2>4, <4>1, SchemaKinds DEF AllWays
        <4> QED
          BY <2>6, <4>1, <4>2 DEF IsComponents
      <3> QED
        BY <3>1, <3>2
    <2> QED
      BY <2>5, <2>6
  <1>5. \A n \in Nat : n \in T
    <2> HIDE DEF T
    <2> QED
      BY <1>3, <1>4, Induction
  <1>6. \A n \in 0..(M + 1) : \A w \in ways[n] : Seek(n, w)
    BY <1>5, ResolutionAssumption
  <1>7. ASSUME NEW n \in 0..M, NEW w \in ways[n] PROVE Open(c, w)
    <2>1. n \in 0..(M + 1) /\ M \in Nat
      BY ResolutionAssumption
    <2>2. Seek(n, w) /\ w.depth + Levels(w.schema) <= M
      BY <1>2, <1>6, <2>1
    <2>3. w.depth \in Nat
      BY <2>2 DEF AllWays
    <2> QED
      BY <2>1, <2>2, <2>3 DEF Open, TooDeep, Levels
  <1>8. ASSUME NEW n \in 0..M, NEW w \in ways[n] PROVE Onward(c, w) \subseteq R
    <2>1. SUFFICES ASSUME NEW v \in Onward(c, w) PROVE v \in R
      OBVIOUS
    <2>2. v \in ways[n + 1] /\ n + 1 \in 0..(M + 1) /\ M \in Nat
      BY <1>1, ResolutionAssumption
    <2>3. Seek(n + 1, v) /\ v.depth + Levels(v.schema) <= M
      BY <1>2, <1>6, <2>2
    <2>4. v.depth \in Nat
      BY <2>3 DEF AllWays
    <2>5. n + 1 <= M
      BY <2>2, <2>3, <2>4 DEF Levels
    <2> QED
      BY <2>2, <2>5
  <1>9. Start(operation.body) \in R
    BY <1>1, ResolutionAssumption
  <1>10. \A w \in R : Open(c, w) /\ Onward(c, w) \subseteq R
    <2> HIDE DEF Seek
    <2>1. \A w \in R : \E n \in 0..M : w \in ways[n]
      OBVIOUS
    <2> HIDE DEF R
    <2> QED
      BY <1>7, <1>8, <2>1
  <1> HIDE DEF R
  <1> QED
    BY <1>9, <1>10

-----------------------------------------------------------------------------
(* What the resolver makes of a schema on such a way                       *)

Made(c, w) == ResolveRef(c, w.schema, w.names, w.depth)

\* r is made of the schema s below the given names.
Leads(c, R, names, s, r) ==
    \E v \in R : v.schema = s /\ v.names = names /\ Made(c, v) = r

\* r is of the same type as s, and so on inside.
Like(c, R, names, s, r) ==
    \/ s.kind \in {"scalar", "date", "enum"} /\ r = s
    \/ /\ s.kind = "object" /\ r.kind = "object"
       /\ DOMAIN r.properties = DOMAIN s.properties
       /\ \A p \in DOMAIN s.properties : Leads(c, R, names, s.properties[p], r.properties[p])
    \/ s.kind = "array" /\ r.kind = "array" /\ Leads(c, R, names, s.items, r.items)

LEMMA MadeOfTyped ==
  ASSUME NEW c, IsComponents(c), NEW R, \A w \in R : Open(c, w) /\ Onward(c, w) \subseteq R,
         NEW w \in R, w.schema.kind # "ref"
  PROVE  Like(c, R, w.names, w.schema, Made(c, w))
  <1>1. /\ w.schema \in Schemas /\ w.names \in SUBSET SchemaNames /\ w.depth \in Nat
        /\ ~TooDeep(w.depth) /\ ~TooDeep(w.depth + 1) /\ Onward(c, w) \subseteq R
    BY DEF Open, AllWays
  <1>2. CASE w.schema.kind = "object"
    <2>1. Made(c, w) = ObjectOf([p \in DOMAIN w.schema.properties |->
                           ResolveRef(c, w.schema.properties[p], w.names, w.depth + 2)])
      BY <1>1, <1>2, ResolvedObject DEF Made
    <2>2. ASSUME NEW p \in DOMAIN w.schema.properties
          PROVE  Leads(c, R, w.names, w.schema.properties[p], Made(c, w).properties[p])
      <3> DEFINE v == [schema |-> w.schema.properties[p], names |-> w.names,
                       depth |-> w.depth + 2]
      <3>1. v \in R
        BY <1>1, <1>2 DEF Onward
      <3>2. v.schema = w.schema.properties[p] /\ v.names = w.names
        OBVIOUS
      <3>3. Made(c, v) = Made(c, w).properties[p]
        BY <2>1 DEF Made, ObjectOf
      <3> HIDE DEF v
      <3> QED
        BY <3>1, <3>2, <3>3 DEF Leads
    <2>3. /\ Made(c, w).kind = "object"
          /\ DOMAIN Made(c, w).properties = DOMAIN w.schema.properties
      BY <2>1 DEF ObjectOf
    <2> QED
      BY <1>2, <2>2, <2>3 DEF Like
  <1>3. CASE w.schema.kind = "array"
    <2>1. Made(c, w) = ArrayOf(ResolveRef(c, w.schema.items, w.names, w.depth + 1),
                               w.schema.nullable)
      BY <1>1, <1>3, ResolvedArray DEF Made
    <2> DEFINE v == [schema |-> w.schema.items, names |-> w.names, depth |-> w.depth + 1]
    <2>2. v \in R
      BY <1>1, <1>3 DEF Onward
    <2>3. v.schema = w.schema.items /\ v.names = w.names
      OBVIOUS
    <2>4. Made(c, w).kind = "array" /\ Made(c, v) = Made(c, w).items
      BY <2>1 DEF Made, ArrayOf
    <2> HIDE DEF v
    <2> QED
      BY <1>3, <2>2, <2>3, <2>4 DEF Like, Leads
  <1>4. CASE w.schema.kind \in {"scalar", "date"}
    <2>1. Made(c, w) = w.schema
      BY <1>1, <1>4, ResolvedScalar DEF Made
    <2> QED
      BY <1>4, <2>1 DEF Like
  <1>5. CASE w.schema.kind = "enum"
    <2>1. Made(c, w) = Enum(~TooDeep(w.depth + 2)) /\ ~TooDeep(w.depth + 2)
      BY <1>1, <1>5, ResolvedEnum DEF Made, Open
    <2>2. w.schema = Enum(TRUE)
      BY <1>1, <1>5, SchemaKinds
    <2> QED
      BY <1>5, <2>1, <2>2 DEF Like
  <1> QED
    BY <1>1, <1>2, <1>3, <1>4, <1>5, SchemaKinds

\* The names followed when the resolver looks inside what w leads to.
NamesInside(w) ==
    w.names \cup (IF w.schema.kind = "ref" THEN {w.schema.name} ELSE {})

\* A $ref becomes what it names, or the placeholder of an object if it leads back.
LEMMA MadeOf ==
  ASSUME NEW c, IsComponents(c), NEW R, \A w \in R : Open(c, w) /\ Onward(c, w) \subseteq R,
         NEW w \in R
  PROVE  \/ /\ w.schema.kind = "ref" /\ w.schema.name \in w.names
            /\ Made(c, w) = Placeholder /\ Follow(c, w.schema).kind = "object"
         \/ Like(c, R, NamesInside(w), Follow(c, w.schema), Made(c, w))
  <1>1. /\ w.schema \in Schemas /\ w.names \in SUBSET SchemaNames /\ w.depth \in Nat
        /\ ~TooDeep(w.depth) /\ Onward(c, w) \subseteq R
        /\ w.schema.kind # "enum" => \A n \in w.names : c[n].kind = "object"
    BY DEF Open, AllWays
  <1>2. CASE w.schema.kind # "ref"
    <2>1. NamesInside(w) = w.names /\ Follow(c, w.schema) = w.schema
      BY <1>2 DEF NamesInside, Follow
    <2> QED
      BY <1>2, <2>1, MadeOfTyped
  <1>3. CASE w.schema.kind = "ref" /\ w.schema.name \in w.names
    <2>1. Made(c, w) = Placeholder
      BY <1>1, <1>3, ResolvedRef DEF Made
    <2> QED
      BY <1>1, <1>3, <2>1 DEF Follow
  <1>4. CASE w.schema.kind = "ref" /\ w.schema.name \notin w.names
    <2> DEFINE v == [schema |-> c[w.schema.name], names |-> w.names \cup {w.schema.name},
                     depth |-> w.depth + 1]
    <2>1. v \in R
      BY <1>1, <1>4 DEF Onward
    <2>2. /\ v.schema = Follow(c, w.schema) /\ v.names = NamesInside(w)
          /\ Made(c, v) = ResolveRef(c, c[w.schema.name], Seen(w.names, w.schema.name), w.depth + 1)
      BY <1>4 DEF Follow, NamesInside, Made, Seen
    <2>3. Made(c, w) = Made(c, v)
      BY <1>1, <1>4, <2>2, ResolvedRef DEF Made
    <2>4. v.schema.kind # "ref"
      <3>1. w.schema.name \in SchemaNames
        BY <1>1, <1>4, SchemaKinds
      <3> QED
        BY <3>1 DEF IsComponents
    <2> HIDE DEF v
    <2>5. Like(c, R, v.names, v.schema, Made(c, v))
      BY <2>1, <2>4, MadeOfTyped
    <2> QED
      BY <2>2, <2>3, <2>5
  <1> QED
    BY <1>2, <1>3, <1>4

-----------------------------------------------------------------------------
(* What is made of a shallow body is a JSON Schema                         *)

Deeper(schema, f, n) == IF n = 0 THEN {schema} ELSE UNION {Held(s) : s \in f[n - 1]}

LEMMA InsideExists ==
  ASSUME NEW schema
  PROVE  \E f : f = [n \in 0..MaxResolutionDepth |-> Deeper(schema, f, n)]
  <1> DEFINE M == MaxResolutionDepth
             Meets(f, n) == \A k \in Nat : k <= n => f[k] = Deeper(schema, f, k)
             T == {n \in Nat : \E f : Meets(f, n)}
  <1>1. 0 \in T
    <2> DEFINE f == [k \in Nat |-> {schema}]
    <2>1. Meets(f, 0)
      BY DEF Deeper
    <2> QED
      BY <2>1
  <1>2. ASSUME NEW n \in Nat, n \in T PROVE n + 1 \in T
    <2>1. PICK f : Meets(f, n)
      BY <1>2
    <2> DEFINE g == [k \in Nat |-> IF k <= n THEN f[k] ELSE Deeper(schema, f, k)]
    <2>2. ASSUME NEW k \in Nat, k <= n + 1 PROVE g[k] = Deeper(schema, g, k)
      <3>1. g[k] = Deeper(schema, f, k)
        BY <2>1
      <3>2. k # 0 => g[k - 1] = f[k - 1]
        BY <2>2
      <3> QED
        BY <3>1, <3>2 DEF Deeper
    <2> HIDE DEF g
    <2>3. Meets(g, n + 1)
      BY <2>2
    <2> QED
      BY <2>3
  <1>3. M \in T
    <2> HIDE DEF T
    <2>1. \A n \in Nat : n \in T
      BY <1>1, <1>2, Induction
    <2> QED
      BY <2>1, ResolutionAssumption
  <1>4. PICK f : Meets(f, M)
    BY <1>3
  <1> DEFINE h == [k \in 0..M |-> f[k]]
             i == [k \in 0..M |-> Deeper(schema, h, k)]
  <1>5. ASSUME NEW k \in 0..M PROVE h[k] = Deeper(schema, h, k)
    <2>1. M \in Nat /\ k \in Nat /\ k <= M
      BY ResolutionAssumption
    <2>2. h[k] = Deeper(schema, f, k)
      BY <1>4, <2>1
    <2>3. k # 0 => h[k - 1] = f[k - 1]
      BY <2>1
    <2> QED
      BY <2>2, <2>3 DEF Deeper
  <1>6. h = i
    <2>1. h = [k \in 0..M |-> h[k]] /\ i = [k \in 0..M |-> i[k]]
      OBVIOUS
    <2>2. \A k \in 0..M : h[k] = i[k]
      BY <1>5
    <2> HIDE DEF h, i
    <2> QED
      BY <2>1, <2>2
  <1> HIDE DEF h
  <1> QED
    BY <1>6

\* A set of schemas closed under what they hold is free of malformed ones or not.
LEMMA ClosedIsWellFormed ==
  ASSUME NEW S, \A s \in S : Held(s) \subseteq S, Malformed \notin S, NEW schema \in S
  PROVE  WellFormed(schema)
  <1> DEFINE M == MaxResolutionDepth
             f == CHOOSE g : g = [n \in 0..M |-> Deeper(schema, g, n)]
             T == {n \in Nat : n <= M => f[n] \subseteq S}
  <1>1. f = [n \in 0..M |-> Deeper(schema, f, n)]
    BY InsideExists
  <1>2. WellFormed(schema) <=> \A n \in 0..M : Malformed \notin f[n]
    BY DEF WellFormed, Deeper
  <1> HIDE DEF f
  <1>3. \A n \in 0..M : f[n] = Deeper(schema, f, n)
    BY <1>1
  <1>4. 0 \in T
    <2>1. 0 \in 0..M
      BY ResolutionAssumption
    <2>2. f[0] = {schema}
      BY <1>3, <2>1 DEF Deeper
    <2> QED
      BY <2>2
  <1>5. ASSUME NEW n \in Nat, n \in T PROVE n + 1 \in T
    <2>1. SUFFICES ASSUME n + 1 <= M PROVE f[n + 1] \subseteq S
      OBVIOUS
    <2>2. n <= M /\ n + 1 \in 0..M /\ n + 1 # 0 /\ (n + 1) - 1 = n
      BY <2>1, ResolutionAssumption
    <2>3. f[n + 1] = UNION {Held(s) : s \in f[n]} /\ f[n] \subseteq S
      BY <1>3, <1>5, <2>2 DEF Deeper
    <2> QED
      BY <2>3
  <1>6. \A n \in Nat : n \in T
    <2> HIDE DEF T
    <2> QED
      BY <1>4, <1>5, Induction
  <1> QED
    BY <1>2, <1>6, ResolutionAssumption

LEMMA MadeIsWellFormed ==
  ASSUME NEW c, IsComponents(c), NEW R, \A w \in R : Open(c, w) /\ Onward(c, w) \subseteq R,
         NEW w \in R
  PROVE  WellFormed(Made(c, w))
  <1> DEFINE S == {Made(c, v) : v \in R}
  <1>1. ASSUME NEW v \in R PROVE Held(Made(c, v)) \subseteq S /\ Made(c, v) # Malformed
    <2> DEFINE s == Follow(c, v.schema)
               r == Made(c, v)
               names == NamesInside(v)
    <2>1. \A t, u : Leads(c, R, names, t, u) => u \in S
      BY DEF Leads
    <2>2. r = Placeholder \/ Like(c, R, names, s, r)
      BY MadeOf
    <2> HIDE DEF s, r, names, S
    <2>3. CASE r = Placeholder
      BY <2>3 DEF Placeholder, Malformed, Held, r
    <2>4. CASE s.kind \in {"scalar", "date", "enum"} /\ r = s
      BY <2>4 DEF Malformed, Held, r
    <2>5. CASE /\ r.kind = "object" /\ DOMAIN r.properties = DOMAIN s.properties
               /\ \A p \in DOMAIN s.properties :
                     Leads(c, R, names, s.properties[p], r.properties[p])
      <3>1. Held(r) = {r.properties[p] : p \in DOMAIN r.properties}
        BY <2>5 DEF Held
      <3>2. r # Malformed
        BY <2>5 DEF Malformed
      <3> QED
        BY <2>1, <2>5, <3>1, <3>2 DEF r
    <2>6. CASE r.kind = "array" /\ Leads(c, R, names, s.items, r.items)
      <3>1. Held(r) = {r.items}
        BY <2>6 DEF Held
      <3>2. r # Malformed
        BY <2>6 DEF Malformed
      <3> QED
        BY <2>1, <2>6, <3>1, <3>2 DEF r
    <2> QED
      BY <2>2, <2>3, <2>4, <2>5, <2>6 DEF Like
  <1>2. (\A t \in S : \E v \in R : t = Made(c, v)) /\ Made(c, w) \in S
    OBVIOUS
  <1> HIDE DEF S
  <1>3. (\A t \in S : Held(t) \subseteq S) /\ Malformed \notin S
    BY <1>1, <1>2
  <1> QED
    BY <1>2, <1>3, ClosedIsWellFormed

-----------------------------------------------------------------------------
(* A value against a schema, and against what is made of it                *)

\* What is made of a schema is no $ref, so it is looked at as it is.
LEMMA MadeIsFollowed ==
  ASSUME NEW c, IsComponents(c), NEW R, \A w \in R : Open(c, w) /\ Onward(c, w) \subseteq R,
         NEW w \in R
  PROVE  Follow(c, Made(c, w)) = Made(c, w)
  <1>1. \/ Made(c, w) = Placeholder
        \/ Like(c, R, NamesInside(w), Follow(c, w.schema), Made(c, w))
    BY MadeOf
  <1>2. Made(c, w).kind # "ref"
    BY <1>1 DEF Like, Placeholder
  <1> QED
    BY <1>2 DEF Follow

\* Of the same type, they admit the same.
LEMMA LikeAdmitsLike ==
  ASSUME NEW c, NEW R, NEW names, NEW s, NEW r, Like(c, R, names, s, r), NEW kind
  PROVE  Admits(s, kind) <=> Admits(r, kind)
  BY DEF Like, Admits

\* Inside a value that both admit, they have the same parts.
LEMMA LikeHasLikeMembers ==
  ASSUME NEW c, NEW R, NEW names, NEW s, NEW r, Like(c, R, names, s, r),
         NEW step \in Fields \cup Places,
         Admits(s, IF step \in Fields THEN "object" ELSE "list")
  PROVE  \/ Member(s, step) = Nothing /\ Member(r, step) = Nothing
         \/ Leads(c, R, names, Member(s, step), Member(r, step))
  <1>1. CASE s.kind \in {"scalar", "date", "enum"} /\ r = s
    BY <1>1 DEF Admits, Scalars
  <1>2. CASE /\ s.kind = "object" /\ r.kind = "object"
             /\ DOMAIN r.properties = DOMAIN s.properties
             /\ \A p \in DOMAIN s.properties :
                   Leads(c, R, names, s.properties[p], r.properties[p])
    <2>1. CASE step \in DOMAIN s.properties
      <3>1. Member(s, step) = s.properties[step] /\ Member(r, step) = r.properties[step]
        BY <1>2, <2>1 DEF Member
      <3> QED
        BY <1>2, <2>1, <3>1
    <2>2. CASE step \notin DOMAIN s.properties
      BY <1>2, <2>2 DEF Member
    <2> QED
      BY <2>1, <2>2
  <1>3. CASE s.kind = "array" /\ r.kind = "array" /\ Leads(c, R, names, s.items, r.items)
    <2>1. step \in Places
      BY <1>3 DEF Admits
    <2>2. Member(s, step) = s.items /\ Member(r, step) = r.items
      BY <1>3, <2>1 DEF Member
    <2> QED
      BY <1>3, <2>2
  <1> QED
    BY <1>1, <1>2, <1>3 DEF Like

\* What a schema allows, what is made of it allows too.
LEMMA MadeAllows ==
  ASSUME NEW c, IsComponents(c), NEW R, \A w \in R : Open(c, w) /\ Onward(c, w) \subseteq R,
         NEW start \in R, NEW value, IsValue(value), Valid(c, start.schema, value)
  PROVE  Valid(c, Made(c, start), value)
  <1> DEFINE D == SchemasOf(c, start.schema, value)
             E == SchemasOf(c, Made(c, start), value)
             T == {path \in DOMAIN value :
                      E[path] = Anything \/ \E w \in R : w.schema = D[path] /\ E[path] = Made(c, w)}
  <1>1. /\ D[<<>>] = start.schema /\ E[<<>>] = Made(c, start)
        /\ \A path \in DOMAIN value \ {<<>>} :
              /\ D[path] = Member(Follow(c, D[Front(path)]), Last(path))
              /\ E[path] = Member(Follow(c, E[Front(path)]), Last(path))
    BY SchemasOfParts
  <1>2. \A path \in DOMAIN value : Admits(Follow(c, D[path]), value[path])
    BY DEF Valid
  <1>3. Valid(c, Made(c, start), value) <=>
           \A path \in DOMAIN value : Admits(Follow(c, E[path]), value[path])
    BY DEF Valid
  <1> HIDE DEF D, E
  <1>4. <<>> \in T
    BY <1>1 DEF IsValue
  <1>5. ASSUME NEW path \in DOMAIN value \ {<<>>}, Front(path) \in T PROVE path \in T
    <2> DEFINE q == Front(path)
    <2>1. /\ q \in DOMAIN value /\ Last(path) \in Fields \cup Places
          /\ value[q] = IF Last(path) \in Fields THEN "object" ELSE "list"
      BY Outer
    <2>2. /\ D[path] = Member(Follow(c, D[q]), Last(path))
          /\ E[path] = Member(Follow(c, E[q]), Last(path))
      BY <1>1
    <2>3. q \in T
      BY <1>5
    <2> HIDE DEF q
    <2>4. CASE E[q] = Anything \/ E[q] = Placeholder
      <3>1. E[path] = Anything
        BY <2>2, <2>4 DEF Anything, Placeholder, Follow, Member
      <3> QED
        BY <3>1
    <2>5. ASSUME NEW w \in R, w.schema = D[q], E[q] = Made(c, w), E[q] # Placeholder
          PROVE  path \in T
      <3>1. Like(c, R, NamesInside(w), Follow(c, D[q]), E[q]) /\ Follow(c, E[q]) = E[q]
        BY <2>5, MadeOf, MadeIsFollowed
      <3>2. Admits(Follow(c, D[q]), IF Last(path) \in Fields THEN "object" ELSE "list")
        BY <1>2, <2>1
      <3>3. \/ D[path] = Nothing
            \/ Leads(c, R, NamesInside(w), D[path], E[path])
        BY <2>1, <2>2, <3>1, <3>2, LikeHasLikeMembers
      <3>4. D[path] # Nothing
        BY <1>2 DEF Nothing, Anything, Follow, Admits
      <3> QED
        BY <3>3, <3>4 DEF Leads
    <2> QED
      BY <2>3, <2>4, <2>5
  <1>6. \A path \in DOMAIN value : path \in T
    <2> HIDE DEF T
    <2> QED
      BY <1>4, <1>5, InductionOnParts
  <1>7. ASSUME NEW path \in DOMAIN value PROVE Admits(Follow(c, E[path]), value[path])
    <2>1. CASE E[path] = Anything
      BY <2>1 DEF Anything, Follow, Admits
    <2>2. ASSUME NEW w \in R, w.schema = D[path], E[path] = Made(c, w)
          PROVE  Admits(Follow(c, E[path]), value[path])
      <3>1. Follow(c, E[path]) = E[path] /\ Admits(Follow(c, D[path]), value[path])
        BY <1>2, <2>2, MadeIsFollowed
      <3>2. CASE E[path] = Placeholder /\ Follow(c, D[path]).kind = "object"
        BY <3>1, <3>2 DEF Placeholder, Admits
      <3>3. CASE Like(c, R, NamesInside(w), Follow(c, D[path]), E[path])
        BY <3>1, <3>3, LikeAdmitsLike
      <3> QED
        BY <2>2, <3>2, <3>3, MadeOf
    <2> QED
      BY <1>6, <2>1, <2>2
  <1> QED
    BY <1>3, <1>7

\* A prefix short of the whole is a prefix of the front.
LEMMA PrefixOfFront ==
  ASSUME NEW S, NEW s \in Seq(S), s # <<>>, NEW k \in 0..(Len(s) - 1)
  PROVE  SubSeq(s, 1, k) = SubSeq(Front(s), 1, k)
  <1> DEFINE t == Front(s)
  <1>1. /\ t \in Seq(S) /\ Len(t) = Len(s) - 1 /\ Len(s) \in Nat
        /\ \A i \in 1..(Len(s) - 1) : t[i] = s[i]
    BY FrontIsShorter, EmptySeq
  <1> HIDE DEF t
  <1>2. k \in Nat /\ k \in Int /\ 1 \in Int
    BY <1>1
  <1>3. \A i \in 1..k : s[i] \in S /\ t[i] = s[i]
    BY <1>1, <1>2, ElementOfSeq
  <1>4. /\ SubSeq(s, 1, k) \in Seq(S)
        /\ Len(SubSeq(s, 1, k)) = IF 1 <= k THEN k - 1 + 1 ELSE 0
        /\ \A i \in 1..(k - 1 + 1) : SubSeq(s, 1, k)[i] = s[1 + i - 1]
    BY <1>2, <1>3, SubSeqProperties
  <1>5. /\ SubSeq(t, 1, k) \in Seq(S)
        /\ Len(SubSeq(t, 1, k)) = IF 1 <= k THEN k - 1 + 1 ELSE 0
        /\ \A i \in 1..(k - 1 + 1) : SubSeq(t, 1, k)[i] = t[1 + i - 1]
    BY <1>2, <1>3, SubSeqProperties
  <1>6. /\ Len(SubSeq(s, 1, k)) = k /\ Len(SubSeq(t, 1, k)) = k
        /\ \A i \in 1..k : SubSeq(s, 1, k)[i] = SubSeq(t, 1, k)[i]
    BY <1>2, <1>3, <1>4, <1>5
  <1> QED
    BY <1>4, <1>5, <1>6, SeqEqual DEF t

\* What is made of a schema allows nothing more, of a value that enters no named
\* schema twice: such a value never gets to a placeholder, as a name followed on
\* the way to a part of it is the $ref of something around that part.
LEMMA UpToTheCycle ==
  ASSUME NEW c, IsComponents(c), NEW R, \A w \in R : Open(c, w) /\ Onward(c, w) \subseteq R,
         NEW start \in R, start.names = {}, NEW value, IsValue(value),
         ~Recurs(c, start.schema, value), Valid(c, Made(c, start), value)
  PROVE  Valid(c, start.schema, value)
  <1> DEFINE D == SchemasOf(c, start.schema, value)
             E == SchemasOf(c, Made(c, start), value)
             Around(path, m) == \E k \in 0..(Len(path) - 1) :
                                   /\ D[SubSeq(path, 1, k)].kind = "ref"
                                   /\ D[SubSeq(path, 1, k)].name = m
             Below(path, w) == /\ w.schema = D[path] /\ E[path] = Made(c, w)
                               /\ \A m \in w.names : Around(path, m)
             T == {path \in DOMAIN value : \E w \in R : Below(path, w)}
  <1>1. /\ D[<<>>] = start.schema /\ E[<<>>] = Made(c, start)
        /\ \A path \in DOMAIN value \ {<<>>} :
              /\ D[path] = Member(Follow(c, D[Front(path)]), Last(path))
              /\ E[path] = Member(Follow(c, E[Front(path)]), Last(path))
    BY SchemasOfParts
  <1>2. \A path \in DOMAIN value : Admits(Follow(c, E[path]), value[path])
    BY DEF Valid
  <1>3. Valid(c, start.schema, value) <=>
           \A path \in DOMAIN value : Admits(Follow(c, D[path]), value[path])
    BY DEF Valid
  <1>4. ASSUME NEW path \in DOMAIN value, D[path].kind = "ref", Around(path, D[path].name)
        PROVE  FALSE
    BY <1>4 DEF Recurs
  <1> HIDE DEF D, E
  \* At no placeholder, the value's part and what checks it are alike.
  <1>5. ASSUME NEW path \in DOMAIN value, NEW w \in R, Below(path, w)
        PROVE  Like(c, R, NamesInside(w), Follow(c, D[path]), E[path])
    <2>1. ~(w.schema.kind = "ref" /\ w.schema.name \in w.names)
      BY <1>4, <1>5
    <2> QED
      BY <1>5, <2>1, MadeOf
  <1>6. <<>> \in T
    <2>1. Below(<<>>, start)
      BY <1>1
    <2> QED
      BY <2>1 DEF IsValue
  <1>7. ASSUME NEW path \in DOMAIN value \ {<<>>}, Front(path) \in T PROVE path \in T
    <2> DEFINE q == Front(path)
    <2>1. /\ q \in DOMAIN value /\ Last(path) \in Fields \cup Places
          /\ value[q] = IF Last(path) \in Fields THEN "object" ELSE "list"
          /\ Len(path) \in Nat \ {0} /\ Len(q) = Len(path) - 1
          /\ path \in Seq(Fields \cup Places) /\ q = SubSeq(path, 1, Len(path) - 1)
      BY Outer DEF Front
    <2>2. /\ D[path] = Member(Follow(c, D[q]), Last(path))
          /\ E[path] = Member(Follow(c, E[q]), Last(path))
      BY <1>1
    <2>3. \A k \in 0..(Len(path) - 1) : SubSeq(path, 1, k) = SubSeq(q, 1, k)
      BY <2>1, PrefixOfFront
    <2> HIDE DEF q
    <2>4. PICK w \in R : Below(q, w)
      BY <1>7 DEF q
    <2>5. Like(c, R, NamesInside(w), Follow(c, D[q]), E[q]) /\ Follow(c, E[q]) = E[q]
      <3>1. Follow(c, E[q]) = E[q]
        BY <2>4, MadeIsFollowed
      <3> HIDE DEF Below
      <3>2. Like(c, R, NamesInside(w), Follow(c, D[q]), E[q])
        BY <1>5, <2>1, <2>4
      <3> QED
        BY <3>1, <3>2
    <2>6. Admits(Follow(c, D[q]), IF Last(path) \in Fields THEN "object" ELSE "list")
      BY <1>2, <2>1, <2>5, LikeAdmitsLike
    <2>7. \/ E[path] = Nothing
          \/ Leads(c, R, NamesInside(w), D[path], E[path])
      BY <2>1, <2>2, <2>5, <2>6, LikeHasLikeMembers
    <2>8. E[path] # Nothing
      BY <1>2 DEF Nothing, Anything, Follow, Admits
    <2>9. PICK v \in R : v.schema = D[path] /\ v.names = NamesInside(w) /\ Made(c, v) = E[path]
      BY <2>7, <2>8 DEF Leads
    <2>10. ASSUME NEW m \in v.names PROVE Around(path, m)
      <3>1. CASE m \in w.names
        <4>1. PICK k \in 0..(Len(q) - 1) : /\ D[SubSeq(q, 1, k)].kind = "ref"
                                           /\ D[SubSeq(q, 1, k)].name = m
          BY <2>4, <3>1
        <4>2. k \in 0..(Len(path) - 1)
          BY <2>1
        <4> QED
          BY <2>3, <4>1, <4>2
      <3>2. CASE m \notin w.names
        <4>1. D[q].kind = "ref" /\ D[q].name = m
          BY <2>4, <2>9, <2>10, <3>2 DEF NamesInside
        <4>2. Len(path) - 1 \in 0..(Len(path) - 1)
          BY <2>1
        <4> QED
          BY <2>1, <4>1, <4>2
      <3> QED
        BY <3>1, <3>2
    <2> QED
      BY <2>9, <2>10
  <1>8. \A path \in DOMAIN value : path \in T
    <2> HIDE DEF T
    <2> QED
      BY <1>6, <1>7, InductionOnParts
  <1>9. ASSUME NEW path \in DOMAIN value PROVE Admits(Follow(c, D[path]), value[path])
    <2>1. PICK w \in R : Below(path, w)
      BY <1>8
    <2>2. Like(c, R, NamesInside(w), Follow(c, D[path]), E[path]) /\ Follow(c, E[path]) = E[path]
      BY <1>5, <2>1, MadeIsFollowed
    <2> QED
      BY <1>2, <2>2, LikeAdmitsLike
  <1> QED
    BY <1>3, <1>9

-----------------------------------------------------------------------------
(* What the resolver makes of a schema, however deep                       *)

Resolution(c, r) ==
    \E node \in Schemas, seen \in SUBSET SchemaNames, depth \in Nat :
        r = ResolveRef(c, node, seen, depth)

\* If not cut, what is made of a schema is of the type of what the schema names.
Kinds(c, node, r) ==
    LET named == Follow(c, node)
    IN  \/ r \in {Placeholder, Malformed}
        \/ node.kind \in {"scalar", "date"} /\ r = node
        \/ named.kind = "enum" /\ r.kind = "enum"
        \/ /\ named.kind = "object" /\ r.kind = "object"
           /\ DOMAIN r.properties = DOMAIN named.properties
           /\ \A p \in DOMAIN named.properties :
                 /\ named.properties[p] \in Schemas
                 /\ \E seen \in SUBSET SchemaNames, depth \in Nat :
                       r.properties[p] = ResolveRef(c, named.properties[p], seen, depth)
        \/ /\ node.kind = "array" /\ r.kind = "array"
           /\ \E seen \in SUBSET SchemaNames, depth \in Nat :
                 r.items = ResolveRef(c, node.items, seen, depth)

LEMMA TypedKinds ==
  ASSUME NEW c, IsComponents(c), NEW node \in Schemas, NEW seen \in SUBSET SchemaNames,
         NEW depth \in Nat, node.kind # "ref"
  PROVE  Kinds(c, node, ResolveRef(c, node, seen, depth))
  <1> DEFINE r == ResolveRef(c, node, seen, depth)
  <1>0. Follow(c, node) = node
    BY DEF Follow
  <1>1. CASE TooDeep(depth) \/ TooDeep(depth + 1)
    BY <1>1, ResolvedTooDeep DEF Kinds
  <1>2. CASE ~TooDeep(depth) /\ ~TooDeep(depth + 1) /\ node.kind = "object"
    <2>1. r = ObjectOf([p \in DOMAIN node.properties |->
                           ResolveRef(c, node.properties[p], seen, depth + 2)])
      BY <1>2, ResolvedObject
    <2> HIDE DEF r
    <2>2. /\ r.kind = "object" /\ DOMAIN r.properties = DOMAIN node.properties
          /\ \A p \in DOMAIN node.properties :
                r.properties[p] = ResolveRef(c, node.properties[p], seen, depth + 2)
      BY <2>1 DEF ObjectOf
    <2>3. \A p \in DOMAIN node.properties : node.properties[p] \in Schemas
      BY <1>2, SchemaKinds
    <2>4. depth + 2 \in Nat
      OBVIOUS
    <2> QED
      BY <1>0, <1>2, <2>2, <2>3, <2>4 DEF Kinds, r
  <1>3. CASE ~TooDeep(depth) /\ ~TooDeep(depth + 1) /\ node.kind = "array"
    <2>1. r = ArrayOf(ResolveRef(c, node.items, seen, depth + 1), node.nullable)
      BY <1>3, ResolvedArray
    <2> HIDE DEF r
    <2>2. r.kind = "array" /\ r.items = ResolveRef(c, node.items, seen, depth + 1)
      BY <2>1 DEF ArrayOf
    <2> QED
      BY <1>3, <2>2 DEF Kinds, r
  <1>4. CASE ~TooDeep(depth) /\ ~TooDeep(depth + 1) /\ node.kind \in {"scalar", "date"}
    BY <1>4, ResolvedScalar DEF Kinds
  <1>5. CASE ~TooDeep(depth) /\ ~TooDeep(depth + 1) /\ node.kind = "enum"
    <2>1. r.kind = "enum"
      BY <1>5, ResolvedEnum DEF Enum
    <2> QED
      BY <1>0, <1>5, <2>1 DEF Kinds
  <1> QED
    BY <1>1, <1>2, <1>3, <1>4, <1>5, SchemaKinds

LEMMA ResolvedKinds ==
  ASSUME NEW c, IsComponents(c), NEW node \in Schemas, NEW seen \in SUBSET SchemaNames,
         NEW depth \in Nat
  PROVE  Kinds(c, node, ResolveRef(c, node, seen, depth))
  <1>1. CASE node.kind # "ref"
    BY <1>1, TypedKinds
  <1>2. CASE TooDeep(depth)
    BY <1>2, ResolvedTooDeep DEF Kinds
  <1>3. CASE node.kind = "ref" /\ ~TooDeep(depth)
    <2> DEFINE named == c[node.name]
               names == Seen(seen, node.name)
    <2>1. /\ node.name \in SchemaNames /\ named \in Schemas
          /\ named.kind \in {"object", "enum"}
          /\ names \in SUBSET SchemaNames
          /\ Follow(c, node) = named /\ Follow(c, named) = named
      BY <1>3, Named DEF Seen, Follow
    <2>2. \/ ResolveRef(c, node, seen, depth) = Placeholder
          \/ ResolveRef(c, node, seen, depth) = ResolveRef(c, named, names, depth + 1)
      BY <1>3, ResolvedRef
    <2> HIDE DEF named, names
    <2>3. Kinds(c, named, ResolveRef(c, named, names, depth + 1))
      BY <2>1, TypedKinds
    <2> QED
      BY <2>1, <2>2, <2>3 DEF Kinds
  <1> QED
    BY <1>1, <1>2, <1>3

\* No array becomes of what is none, and none is an array's item.
LEMMA ResolvedItems ==
  ASSUME NEW c, IsComponents(c), NEW r, Resolution(c, r), r.kind = "array"
  PROVE  Resolution(c, r.items) /\ r.items.kind # "array"
  <1>1. PICK node \in Schemas, seen \in SUBSET SchemaNames, depth \in Nat :
           r = ResolveRef(c, node, seen, depth)
    BY DEF Resolution
  <1>2. Kinds(c, node, r)
    BY <1>1, ResolvedKinds
  <1>3. PICK s \in SUBSET SchemaNames, d \in Nat : r.items = ResolveRef(c, node.items, s, d)
    BY <1>2 DEF Kinds, Placeholder, Malformed
  <1>4. node.items \in Schemas /\ node.items.kind # "array"
    <2>1. node.kind = "array"
      BY <1>2 DEF Kinds, Placeholder, Malformed
    <2> QED
      BY <2>1, SchemaKinds
  <1>5. Kinds(c, node.items, r.items)
    BY <1>3, <1>4, ResolvedKinds
  <1> QED
    BY <1>3, <1>4, <1>5 DEF Resolution, Kinds, Placeholder, Malformed

LEMMA ResolvedProperties ==
  ASSUME NEW c, IsComponents(c), NEW r, Resolution(c, r)
  PROVE  /\ \/ r \in {Placeholder, Malformed}
            \/ r.kind \in {"scalar", "date", "enum", "object", "array"}
         /\ r.kind = "object" => \A p \in DOMAIN r.properties : Resolution(c, r.properties[p])
         /\ Follow(c, r) = r
  <1>1. PICK node \in Schemas, seen \in SUBSET SchemaNames, depth \in Nat :
           r = ResolveRef(c, node, seen, depth)
    BY DEF Resolution
  <1>2. Kinds(c, node, r)
    BY <1>1, ResolvedKinds
  <1> QED
    BY <1>2 DEF Kinds, Placeholder, Malformed, Follow, Resolution

\* What says its type is cut by depth only.
LEMMA TypedIsNotCut ==
  ASSUME NEW c, NEW node \in Schemas, NEW seen \in SUBSET SchemaNames, NEW depth \in Nat,
         node.kind # "ref", ~TooDeep(depth)
  PROVE  ResolveRef(c, node, seen, depth) # Placeholder
  <1> DEFINE r == ResolveRef(c, node, seen, depth)
  <1>1. CASE TooDeep(depth + 1)
    <2>1. r = Malformed
      BY <1>1, ResolvedTooDeep
    <2> QED
      BY <2>1 DEF Placeholder, Malformed
  <1>2. CASE ~TooDeep(depth + 1) /\ node.kind = "object"
    <2>1. r = ObjectOf([p \in DOMAIN node.properties |->
                           ResolveRef(c, node.properties[p], seen, depth + 2)])
      BY <1>2, ResolvedObject
    <2> HIDE DEF r
    <2>2. r.kind = "object"
      BY <2>1 DEF ObjectOf
    <2> QED
      BY <2>2 DEF Placeholder, r
  <1>3. CASE ~TooDeep(depth + 1) /\ node.kind = "array"
    <2>1. r = ArrayOf(ResolveRef(c, node.items, seen, depth + 1), node.nullable)
      BY <1>3, ResolvedArray
    <2> HIDE DEF r
    <2>2. r.kind = "array"
      BY <2>1 DEF ArrayOf
    <2> QED
      BY <2>2 DEF Placeholder, r
  <1>4. CASE ~TooDeep(depth + 1) /\ node.kind \in {"scalar", "date", "enum"}
    <2>1. r.kind = node.kind
      BY <1>4, ResolvedEnum, ResolvedScalar DEF Enum
    <2> QED
      BY <1>4, <2>1 DEF Placeholder
  <1> QED
    BY <1>1, <1>2, <1>3, <1>4, SchemaKinds

\* A body is not cut at once: the cap is at least one, and no name is followed yet.
LEMMA BodyIsNotCut ==
  ASSUME NEW c, IsComponents(c), NEW body \in Schemas
  PROVE  ResolveRef(c, body, {}, 0) # Placeholder
  <1>1. ~TooDeep(0) /\ ~TooDeep(1) /\ 0 + 1 = 1
    BY ResolutionAssumption DEF TooDeep
  <1>2. CASE body.kind # "ref"
    BY <1>1, <1>2, TypedIsNotCut
  <1>3. CASE body.kind = "ref"
    <2> DEFINE named == c[body.name]
               names == Seen({}, body.name)
    <2>1. /\ named \in Schemas /\ named.kind # "ref"
          /\ names \in SUBSET SchemaNames
      BY <1>3, SchemaKinds DEF IsComponents, Seen
    <2>2. ResolveRef(c, body, {}, 0) = ResolveRef(c, named, names, 1)
      BY <1>1, <1>3, ResolvedRef
    <2> HIDE DEF named, names
    <2> QED
      BY <1>1, <2>1, <2>2, TypedIsNotCut
  <1> QED
    BY <1>2, <1>3

-----------------------------------------------------------------------------
(* clm_invoke and the write tool on the params of one call                 *)

\* What clm_invoke checks the params against.
LEMMA ShallowBody ==
  ASSUME NEW c, IsComponents(c), NEW operation, operation.hasBody,
         operation.body \in Schemas, Shallow(c, operation)
  PROVE  LET start == Start(operation.body)
         IN  /\ start.schema = operation.body /\ start.names = {}
             /\ RequestSchema(c, operation) = Made(c, start)
             /\ \E R : /\ start \in R
                      /\ \A w \in R : Open(c, w) /\ Onward(c, w) \subseteq R
  BY ShallowIsOpen DEF Start, RequestSchema, Made

\* jsonschema takes a null for nothing that a document has a schema for.
LEMMA NoNullIsValid ==
  ASSUME NEW c, IsComponents(c), NEW body \in Schemas, NEW params, IsValue(params),
         Valid(c, body, params)
  PROVE  ~HoldsNull(params)
  <1> DEFINE D == SchemasOf(c, body, params)
             T == {path \in DOMAIN params : D[path] \in Schemas}
  <1>1. /\ D[<<>>] = body
        /\ \A path \in DOMAIN params \ {<<>>} :
              D[path] = Member(Follow(c, D[Front(path)]), Last(path))
    BY SchemasOfParts
  <1>2. \A path \in DOMAIN params : Admits(Follow(c, D[path]), params[path])
    BY DEF Valid
  <1> HIDE DEF D
  <1>3. ASSUME NEW s \in Schemas
        PROVE  Follow(c, s) \in Schemas /\ Follow(c, s).kind # "ref"
    BY Named, SchemaKinds
  <1>4. <<>> \in T
    BY <1>1 DEF IsValue
  <1>5. ASSUME NEW path \in DOMAIN params \ {<<>>}, Front(path) \in T PROVE path \in T
    <2> DEFINE s == Follow(c, D[Front(path)])
    <2>1. s \in Schemas /\ D[path] = Member(s, Last(path))
      BY <1>1, <1>3, <1>5
    <2>2. D[path] # Nothing
      BY <1>2 DEF Nothing, Anything, Follow, Admits
    <2>3. s.kind \in {"scalar", "date", "enum", "ref", "array", "object"}
      BY <2>1, SchemaKinds
    <2> HIDE DEF s
    <2>4. D[path] \in Schemas
      BY <2>1, <2>2, <2>3, SchemaKinds DEF Member
    <2> QED
      BY <2>4
  <1>6. \A path \in DOMAIN params : path \in T
    <2> HIDE DEF T
    <2> QED
      BY <1>4, <1>5, InductionOnParts
  <1>7. ASSUME NEW path \in DOMAIN params PROVE params[path] # "null"
    <2> DEFINE s == Follow(c, D[path])
    <2>1. s \in Schemas /\ s.kind # "ref" /\ Admits(s, params[path])
      BY <1>2, <1>3, <1>6
    <2>2. s.kind \in {"scalar", "date", "enum", "array", "object"}
      BY <2>1, SchemaKinds
    <2> HIDE DEF s
    <2> QED
      BY <2>1, <2>2 DEF Admits, Scalars
  <1> QED
    BY <1>7 DEF HoldsNull

LEMMA AllowedIsSent ==
  ASSUME NEW c, IsComponents(c), NEW operation,
         operation.hasBody => operation.body \in Schemas, Shallow(c, operation),
         NEW params, IsValue(params), Allowed(c, operation, params), ~HoldsNull(params)
  PROVE  Validated(c, operation, params) = "sent"
  <1>1. CASE operation.hasBody
    <2> DEFINE start == Start(operation.body)
               schema == RequestSchema(c, operation)
    <2>1. PICK R : start \in R /\ \A w \in R : Open(c, w) /\ Onward(c, w) \subseteq R
      BY <1>1, ShallowBody
    <2>2. start.schema = operation.body /\ schema = Made(c, start)
      BY <1>1, ShallowBody
    <2>3. Valid(c, start.schema, params)
      BY <1>1, <2>2 DEF Allowed, Valid, Complies, HoldsNull
    <2> HIDE DEF start, schema
    <2>4. WellFormed(schema) /\ Valid(c, schema, params)
      BY <2>1, <2>2, <2>3, MadeIsWellFormed, MadeAllows
    <2> QED
      BY <1>1, <2>4 DEF Validated, schema
  <1>2. CASE ~operation.hasBody
    BY <1>2 DEF Allowed, Validated
  <1> QED
    BY <1>1, <1>2

LEMMA SentIsAllowed ==
  ASSUME NEW c, IsComponents(c), NEW operation, operation.hasBody,
         operation.body \in Schemas, Shallow(c, operation),
         NEW params, IsValue(params), Validated(c, operation, params) = "sent",
         ~Recurs(c, operation.body, params)
  PROVE  Allowed(c, operation, params) /\ ~HoldsNull(params)
  <1> DEFINE start == Start(operation.body)
             schema == RequestSchema(c, operation)
  <1>1. PICK R : start \in R /\ \A w \in R : Open(c, w) /\ Onward(c, w) \subseteq R
    BY ShallowBody
  <1>2. start.schema = operation.body /\ start.names = {} /\ schema = Made(c, start)
    BY ShallowBody
  <1>3. Valid(c, schema, params)
    BY DEF Validated
  <1>4. ~Recurs(c, start.schema, params)
    BY <1>2
  <1> HIDE DEF start, schema
  <1>5. Valid(c, operation.body, params)
    BY <1>1, <1>2, <1>3, <1>4, UpToTheCycle
  <1> QED
    BY <1>5, NoNullIsValid DEF Allowed, Valid, Complies

\* A field of params that passed clm_invoke's check passes its typed field, if it
\* is not to be a date and is none: at one level the two say the same otherwise,
\* the resolved items being no arrays.
LEMMA FieldAccepts ==
  ASSUME NEW c, IsComponents(c), NEW schema, NEW params, IsValue(params),
         Valid(c, schema, params),
         NEW f, <<f>> \in DOMAIN params,
         Resolution(c, SchemasOf(c, schema, params)[<<f>>]),
         SchemasOf(c, schema, params)[<<f>>].kind = "date" => params[<<f>>] # "scalar"
  PROVE  Accepts(Field(SchemasOf(c, schema, params)[<<f>>]), params, f)
  <1> DEFINE at == SchemasOf(c, schema, params)
             t == at[<<f>>]
             kind == params[<<f>>]
  <1>1. /\ \A path \in DOMAIN params \ {<<>>} :
              at[path] = Member(Follow(c, at[Front(path)]), Last(path))
        /\ \A path \in DOMAIN params : Admits(Follow(c, at[path]), params[path])
    BY SchemasOfParts DEF Valid
  <1> HIDE DEF at
  <1>2. Admits(t, kind) /\ Follow(c, t) = t
    BY <1>1, ResolvedProperties DEF at
  <1>3. t \in {Placeholder, Malformed} \/ t.kind \in {"scalar", "date", "enum", "object", "array"}
    BY ResolvedProperties DEF at
  <1>4. CASE t.kind # "array"
    <2>1. \/ t.kind \in {"scalar", "enum"} /\ kind \in Scalars
          \/ t.kind = "date" /\ kind \in {"date", "looseDate"}
          \/ t.kind \in {"object", "placeholder"} /\ kind = "object"
      BY <1>2, <1>3, <1>4 DEF Placeholder, Malformed, Anything, Admits, Scalars, at
    <2> HIDE DEF t
    <2>2. Accepts(Field(t), params, f)
      BY <2>1 DEF Field, Accepts
    <2> QED
      BY <2>2 DEF t, at
  <1>5. CASE t.kind = "array"
    <2>1. kind = "list"
      BY <1>2, <1>5 DEF Admits
    <2>2. Resolution(c, t.items) /\ t.items.kind # "array"
      BY <1>5, ResolvedItems DEF at
    <2> HIDE DEF t
    <2>3. /\ Follow(c, t.items) = t.items
          /\ \/ t.items \in {Placeholder, Malformed}
             \/ t.items.kind \in {"scalar", "date", "enum", "object"}
      BY <2>2, ResolvedProperties
    <2>4. ASSUME NEW path \in Elements(params, f) PROVE Admits(t.items, params[path])
      <3>1. path \in DOMAIN params /\ Len(path) = 2 /\ path[1] = f /\ path # <<>>
        BY DEF Elements
      <3>2. Front(path) = <<f>>
        <4>1. path \in Seq(Fields \cup Places)
          BY <3>1, Outer
        <4> DEFINE q == Front(path)
        <4>2. /\ q \in Seq(Fields \cup Places) /\ Len(q) = Len(path) - 1
              /\ \A i \in 1..(Len(path) - 1) : q[i] = path[i]
          BY <3>1, <4>1, FrontIsShorter
        <4> HIDE DEF q
        <4>3. Len(q) = 1 /\ q[1] = f /\ q \in Seq(Fields \cup Places)
          BY <3>1, <4>2
        <4>4. q = <<q[1]>>
          BY <4>3
        <4> QED
          BY <4>3, <4>4 DEF q
      <3>3. Last(path) \in Places
        BY <2>1, <3>1, <3>2, Outer
      <3>4. at[path] = t.items
        BY <1>1, <1>2, <1>5, <3>1, <3>2, <3>3 DEF Member, t
      <3> QED
        BY <1>1, <2>3, <3>1, <3>4
    <2>5. CASE t.items.kind \in {"scalar", "date", "enum"}
      <3>1. \A e \in Elements(params, f) : params[e] \in Scalars
        BY <2>4, <2>5 DEF Admits
      <3>2. Field(t) = "scalars"
        BY <1>5, <2>5 DEF Field, ItemsField
      <3> QED
        BY <2>1, <3>1, <3>2 DEF Accepts, t, at
    <2>6. CASE t.items.kind \notin {"scalar", "date", "enum"}
      <3>1. ASSUME NEW e \in Elements(params, f) PROVE params[e] = "object"
        BY <2>3, <2>4, <2>6 DEF Placeholder, Malformed, Anything, Admits
      <3>2. Field(t) = "objects"
        BY <1>5, <2>6 DEF Field, ItemsField
      <3> QED
        BY <2>1, <3>1, <3>2 DEF Accepts, t, at
    <2> QED
      BY <2>5, <2>6
  <1> QED
    BY <1>4, <1>5

\* What the document says of a field of the params, and what is made of that.
LEMMA FieldOfBody ==
  ASSUME NEW c, IsComponents(c), NEW body \in Schemas, NEW params, IsValue(params),
         NEW schema, schema = ResolveRef(c, body, {}, 0), schema.kind = "object",
         NEW f \in DOMAIN schema.properties, <<f>> \in DOMAIN params
  PROVE  LET s == SchemasOf(c, body, params)[<<f>>]
             r == schema.properties[f]
         IN  /\ s.kind = "date" => r.kind = "date" \/ r \in {Placeholder, Malformed}
             /\ r.kind = "date" => s.kind = "date"
  <1> DEFINE s == SchemasOf(c, body, params)[<<f>>]
             r == schema.properties[f]
             named == Follow(c, body)
  <1>1. Kinds(c, body, schema)
    <2>1. {} \in SUBSET SchemaNames /\ 0 \in Nat
      OBVIOUS
    <2> QED
      BY <2>1, ResolvedKinds
  <1>2. s = Member(named, f)
    <2>1. Front(<<f>>) = <<>> /\ Last(<<f>>) = f /\ <<f>> # <<>>
      BY DEF Front, Last
    <2> DEFINE at == SchemasOf(c, body, params)
    <2>2. at[<<>>] = body
          /\ \A path \in DOMAIN params \ {<<>>} :
                at[path] = Member(Follow(c, at[Front(path)]), Last(path))
      BY SchemasOfParts
    <2> HIDE DEF at
    <2>3. at[<<f>>] = Member(Follow(c, body), f)
      BY <2>1, <2>2
    <2> QED
      BY <2>3 DEF at
  <1> HIDE DEF s, named
  <1>3. /\ named.kind = "object" /\ f \in DOMAIN named.properties
        /\ named.properties[f] \in Schemas
        /\ \E seen \in SUBSET SchemaNames, depth \in Nat :
              r = ResolveRef(c, named.properties[f], seen, depth)
    <2>1. body.kind \in {"scalar", "date"} => schema # body
      OBVIOUS
    <2> QED
      BY <1>1, <2>1 DEF Kinds, Placeholder, Malformed, named
  <1>4. s = named.properties[f]
    BY <1>2, <1>3 DEF Member
  <1>5. s \in Schemas /\ Kinds(c, s, r)
    BY <1>3, <1>4, ResolvedKinds
  <1> HIDE DEF r
  <1>6. s.kind # "ref" => Follow(c, s) = s
    BY DEF Follow
  <1>7. s.kind = "ref" => Follow(c, s).kind # "date"
    BY <1>5, Named
  <1>8. s.kind = "date" => r.kind = "date" \/ r \in {Placeholder, Malformed}
    BY <1>5, <1>6 DEF Kinds
  <1>9. r.kind = "date" => s.kind = "date"
    BY <1>5 DEF Kinds, Placeholder, Malformed
  <1> QED
    BY <1>8, <1>9 DEF s, r

\* Every part of params is within a field that the schema has, so that the tool
\* dumps all of them, if it takes what is to be a date.
LEMMA SentIsDumped ==
  ASSUME NEW c, IsComponents(c), NEW operation, operation.hasBody,
         operation.body \in Schemas, NEW params, IsValue(params), params[<<>>] = "object",
         Validated(c, operation, params) = "sent"
  PROVE  LET dates == DatesOf(c, operation, params)
         IN  WriteBody(c, operation, params) =
                IF \E path \in dates : params[path] = "scalar" THEN {}
                ELSE {[path \in DOMAIN params |->
                         IF path \in dates THEN Rewritten(params[path]) ELSE params[path]]}
  <1> DEFINE schema == RequestSchema(c, operation)
             at == SchemasOf(c, schema, params)
             dates == DatesOf(c, operation, params)
             fields == FieldsOf(params) \cap
                          (IF schema.kind = "object" THEN DOMAIN schema.properties ELSE {})
             filled == {f \in fields : params[<<f>>] # "null"}
             parts == {path \in DOMAIN params : path = <<>> \/ path[1] \in filled}
             rewritten == {<<f>> : f \in {g \in filled : Field(schema.properties[g]) = "date"}}
  <1>0. schema = ResolveRef(c, operation.body, {}, 0)
    BY DEF RequestSchema
  <1>1. Resolution(c, schema) /\ schema # Placeholder
    <2>1. {} \in SUBSET SchemaNames /\ 0 \in Nat
      OBVIOUS
    <2> HIDE DEF schema
    <2> QED
      BY <1>0, <2>1, BodyIsNotCut DEF Resolution
  <1>2. Valid(c, schema, params)
    BY DEF Validated
  <1>3. WriteBody(c, operation, params) =
           IF \A f \in fields : Accepts(Field(schema.properties[f]), params, f)
           THEN {[path \in parts |-> IF path \in rewritten THEN Rewritten(params[path])
                                                         ELSE params[path]]}
           ELSE {}
    BY DEF WriteBody
  <1> HIDE DEF schema
  <1>4. /\ at[<<>>] = schema
        /\ \A path \in DOMAIN params \ {<<>>} :
              at[path] = Member(Follow(c, at[Front(path)]), Last(path))
        /\ \A path \in DOMAIN params : Admits(Follow(c, at[path]), params[path])
    BY <1>2, SchemasOfParts DEF Valid
  <1> HIDE DEF at
  <1>5. schema.kind = "object" /\ Follow(c, schema) = schema
        /\ \A p \in DOMAIN schema.properties : Resolution(c, schema.properties[p])
    <2>1. Follow(c, schema) = schema
          /\ \/ schema = Malformed
             \/ schema.kind \in {"scalar", "date", "enum", "object", "array"}
      BY <1>1, ResolvedProperties
    <2>2. Admits(schema, "object")
      BY <1>4, <2>1 DEF IsValue
    <2>3. schema.kind = "object"
      BY <2>1, <2>2 DEF Admits, Malformed, Scalars, Anything
    <2> QED
      BY <1>1, <2>1, <2>3, ResolvedProperties
  \* A field of params is one of the schema's, and is not null.
  <1>6. ASSUME NEW f, <<f>> \in DOMAIN params
        PROVE  f \in fields /\ f \in filled /\ at[<<f>>] = schema.properties[f]
               /\ Resolution(c, at[<<f>>]) /\ Admits(at[<<f>>], params[<<f>>])
    <2>1. Front(<<f>>) = <<>> /\ Last(<<f>>) = f
      BY DEF Front, Last
    <2>2. f \in Fields
      <3>1. <<f>> # <<>>
        OBVIOUS
      <3> QED
        BY <1>6, <2>1, <3>1, Outer
    <2>3. at[<<f>>] = Member(schema, f)
      BY <1>4, <1>5, <1>6, <2>1
    <2>4. at[<<f>>] # Nothing
      BY <1>4, <1>6 DEF Nothing, Anything, Follow, Admits
    <2>5. f \in DOMAIN schema.properties /\ at[<<f>>] = schema.properties[f]
      BY <1>5, <2>3, <2>4 DEF Member
    <2>6. f \in fields
      BY <1>5, <1>6, <2>2, <2>5 DEF FieldsOf
    <2>7. Resolution(c, at[<<f>>]) /\ Admits(at[<<f>>], params[<<f>>])
      <3>1. Resolution(c, at[<<f>>])
        BY <1>5, <2>5
      <3> QED
        BY <1>4, <1>6, <3>1, ResolvedProperties
    <2>8. params[<<f>>] # "null"
      BY <2>7, ResolvedProperties DEF Admits, Scalars, Placeholder, Malformed, Anything
    <2> QED
      BY <2>5, <2>6, <2>7, <2>8
  <1>7. \A path \in DOMAIN params : path \in parts
    <2>1. ASSUME NEW path \in DOMAIN params \ {<<>>}, Front(path) \in parts
          PROVE  path \in parts
      <3>1. path \in Seq(Fields \cup Places) /\ Len(path) \in Nat \ {0}
        BY Outer
      <3>2. Front(path) \in Seq(Fields \cup Places) /\ Len(Front(path)) = Len(path) - 1
            /\ \A i \in 1..(Len(path) - 1) : Front(path)[i] = path[i]
        BY <3>1, FrontIsShorter
      <3>3. CASE Front(path) = <<>>
        <4>1. Len(path) = 1
          BY <3>1, <3>2, <3>3
        <4>2. path = <<path[1]>>
          BY <3>1, <4>1
        <4> QED
          BY <1>6, <4>2
      <3>4. CASE Front(path) # <<>>
        <4>1. Len(path) - 1 >= 1
          BY <3>1, <3>2, <3>4, EmptySeq
        <4>2. Front(path)[1] = path[1]
          BY <3>1, <3>2, <4>1
        <4> QED
          BY <2>1, <3>4, <4>2
      <3> QED
        BY <3>3, <3>4
    <2>2. <<>> \in parts
      BY DEF IsValue
    <2> HIDE DEF parts
    <2> QED
      BY <2>1, <2>2, InductionOnParts
  \* What is made of a field that is a date is a date, or was cut to an object.
  <1>8. ASSUME NEW f \in fields
        PROVE  /\ <<f>> \in DOMAIN params
               /\ <<f>> \in dates => schema.properties[f].kind = "date" \/ params[<<f>>] = "object"
               /\ schema.properties[f].kind = "date" => <<f>> \in dates
    <2> DEFINE s == SchemasOf(c, operation.body, params)[<<f>>]
               r == schema.properties[f]
    <2>1. f \in FieldsOf(params) /\ <<f>> \in DOMAIN params /\ f \in DOMAIN schema.properties
      BY <1>5 DEF FieldsOf
    <2>2. /\ s.kind = "date" => r.kind = "date" \/ r \in {Placeholder, Malformed}
          /\ r.kind = "date" => s.kind = "date"
      BY <1>0, <1>5, <2>1, FieldOfBody DEF schema
    <2>3. Admits(r, params[<<f>>])
      BY <1>6, <2>1
    <2> HIDE DEF s, r
    <2>4. <<f>> \in dates <=> s.kind = "date"
      BY <2>1 DEF DatesOf, s
    <2>5. r \in {Placeholder, Malformed} => params[<<f>>] = "object"
      BY <2>3 DEF Admits, Placeholder, Malformed, Anything
    <2> QED
      BY <2>1, <2>2, <2>4, <2>5 DEF r
  <1>9. \A path \in dates : \E f \in fields : path = <<f>>
    BY <1>6 DEF DatesOf, FieldsOf
  <1>10. ASSUME NEW f \in fields
         PROVE  /\ Field(schema.properties[f]) = "date" <=> schema.properties[f].kind = "date"
                /\ Accepts(Field(schema.properties[f]), params, f)
                      <=> ~(schema.properties[f].kind = "date" /\ params[<<f>>] = "scalar")
    <2> DEFINE r == schema.properties[f]
    <2>1. <<f>> \in DOMAIN params
      BY <1>8
    <2>2. Resolution(c, r) /\ at[<<f>>] = r /\ Admits(r, params[<<f>>])
      BY <1>6, <2>1
    <2>3. ~(r.kind = "date" /\ params[<<f>>] = "scalar") => Accepts(Field(r), params, f)
      BY <1>2, <2>1, <2>2, FieldAccepts DEF at
    <2>4. \/ r.kind = "placeholder"
          \/ r.kind \in {"scalar", "date", "enum", "object", "array"}
      BY <2>2, ResolvedProperties DEF Admits, Placeholder, Malformed, Anything
    <2> HIDE DEF r
    <2>5. Field(r) = "date" <=> r.kind = "date"
      BY <2>4 DEF Field, ItemsField
    <2>6. r.kind = "date" /\ params[<<f>>] = "scalar" => ~Accepts(Field(r), params, f)
      BY <2>5 DEF Accepts
    <2> QED
      BY <2>3, <2>5, <2>6 DEF r
  <1>11. (\A f \in fields : Accepts(Field(schema.properties[f]), params, f))
            <=> ~\E path \in dates : params[path] = "scalar"
    <2> HIDE DEF fields, dates
    <2> QED
      BY <1>8, <1>9, <1>10
  <1>12. ASSUME NEW path \in DOMAIN params
         PROVE  (IF path \in rewritten THEN Rewritten(params[path]) ELSE params[path])
                   = (IF path \in dates THEN Rewritten(params[path]) ELSE params[path])
    <2>1. CASE \E f \in fields : path = <<f>>
      <3>1. PICK f \in fields : path = <<f>>
        BY <2>1
      <3>2. f \in filled
        BY <1>6, <3>1
      <3>3. path \in rewritten <=> schema.properties[f].kind = "date"
        <4> HIDE DEF filled
        <4>1. path \in rewritten <=> Field(schema.properties[f]) = "date"
          BY <3>1, <3>2
        <4> QED
          BY <1>10, <4>1
      <3> HIDE DEF rewritten, dates
      <3> QED
        BY <1>8, <3>1, <3>3 DEF Rewritten
    <2>2. CASE ~\E f \in fields : path = <<f>>
      <3>1. path \notin dates
        BY <1>9, <2>2
      <3>2. path \notin rewritten
        BY <2>2
      <3> QED
        BY <3>1, <3>2
    <2> QED
      BY <2>1, <2>2
  <1>13. parts = DOMAIN params
    BY <1>7
  <1> HIDE DEF fields, filled, parts, dates, rewritten
  <1>14. [path \in parts |-> IF path \in rewritten THEN Rewritten(params[path]) ELSE params[path]]
            = [path \in DOMAIN params |->
                  IF path \in dates THEN Rewritten(params[path]) ELSE params[path]]
    BY <1>12, <1>13
  <1> QED
    BY <1>3, <1>11, <1>14 DEF dates

-----------------------------------------------------------------------------
(* From a refresh to a request                                             *)

\* What the answer to a call was computed from is still what is served.
Answered ==
    call.made =>
        /\ call.operation \in Operations /\ call.params \in Requests[schemas][call.operation]
        /\ call.verdict = Validated(schemas, call.operation, call.params)
        /\ call.bodies = IF call.operation.hasBody
                         THEN WriteBody(schemas, call.operation, call.params) ELSE {}

ServerInv ==
    /\ IInv
    /\ schemas \in Components
    /\ server \in {"down", "serving", "refused"}
    /\ Answered

LEMMA InitServerInv == Init => ServerInv
  <1> SUFFICES ASSUME Init PROVE ServerInv
    OBVIOUS
  <1>1. /\ schemas \in Components /\ server = "down" /\ ~call.made
    BY ServedAssumption DEF Init, NoCall
  <1>2. CASE RefreshInit
    BY <1>1, <1>2, InitIInv DEF ServerInv, Answered
  <1>3. CASE NothingNew
    <2> USE <1>3 DEF NothingNew
    <2>1. RefreshTypeOK
      BY ServicesAssumption DEF RefreshTypeOK, Files, Over, AnyService
    <2>2. DOMAIN vendored = Services
      OBVIOUS
    <2>3. \A s \in Services : Alone(s, vendored[s])
      BY <2>2, TogetherMeansAlone
    <2>4. Turn /\ Untouched /\ Settled /\ Blamed
      BY <2>3 DEF Turn, Untouched, Settled, Blamed, AtWork, Checked
    <2>5. IInv
      BY <2>1, <2>4 DEF IInv, OnlyAcceptedReplace, RemovalsReported
    <2> QED
      BY <1>1, <2>5 DEF ServerInv, Answered
  <1> QED
    BY <1>2, <1>3 DEF Init

LEMMA NextServerInv == ServerInv /\ [Next]_serverVars => ServerInv'
  <1> SUFFICES ASSUME ServerInv, [Next]_serverVars PROVE ServerInv'
    OBVIOUS
  <1>1. CASE Refresh
    <2>1. IInv'
      BY <1>1, NextIInv DEF ServerInv, Refresh
    <2> QED
      BY <1>1, <2>1 DEF ServerInv, Refresh, Answered
  <1>2. CASE StartServer
    <2>1. IInv'
      BY <1>2, NextIInv DEF ServerInv, StartServer
    <2> QED
      BY <1>2, <2>1 DEF ServerInv, StartServer, Answered
  <1>3. ASSUME NEW operation \in Operations, NEW params \in Requests[schemas][operation],
               Call(operation, params)
        PROVE  ServerInv'
    <2>1. IInv'
      BY <1>3, NextIInv DEF ServerInv, Call
    <2> QED
      BY <1>3, <2>1 DEF ServerInv, Call, Answered
  <1>4. CASE UNCHANGED serverVars
    <2>1. IInv'
      BY <1>4, NextIInv DEF ServerInv, serverVars
    <2> QED
      BY <1>4, <2>1 DEF ServerInv, serverVars, Answered
  <1> QED
    BY <1>1, <1>2, <1>3, <1>4 DEF Next

THEOREM ServerInvariant == Spec => []ServerInv
<1> QED
  BY InitServerInv, NextServerInv, PTL DEF Spec

\* Types of a refresh, a server started on what it left, and its answer.
THEOREM ServerTypes == Spec => []TypeOK
<1>1. ASSUME ServerInv PROVE TypeOK
  <2>1. call.made => call.verdict \in {"sent", "refused", "crashed"}
    BY <1>1 DEF ServerInv, Answered, Validated
  <2> QED
    BY <1>1, <2>1 DEF ServerInv, IInv, TypeOK
<1> QED
  BY <1>1, ServerInvariant, PTL

\* clm_invoke refuses, and crashes on, no params that the document allows and that
\* hold no null: cutting cycles never makes a check stricter, nor the schema one that is no JSON Schema.
THEOREM NoUndueRefusal == Spec => []RefusalJustified
<1>1. ASSUME ServerInv PROVE RefusalJustified
  <2>1. SUFFICES ASSUME call.made, Shallow(schemas, call.operation),
                        Allowed(schemas, call.operation, call.params),
                        ~HoldsNull(call.params)
                 PROVE  call.verdict = "sent"
    BY DEF RefusalJustified
  <2>2. /\ call.verdict = Validated(schemas, call.operation, call.params)
        /\ IsComponents(schemas) /\ IsValue(call.params)
        /\ call.operation.hasBody => call.operation.body \in Schemas
    BY <1>1, <2>1, ServedAssumption DEF ServerInv, Answered
  <2> QED
    BY <2>1, <2>2, AllowedIsSent
<1> QED
  BY <1>1, ServerInvariant, PTL

\* Of params that enter no named schema twice, clm_invoke's verdict is the
\* document's own, but that it takes no null.
THEOREM NothingLostBeforeTheCycle == Spec => []CheckedToTheCycle
<1>1. ASSUME ServerInv PROVE CheckedToTheCycle
  <2>1. SUFFICES ASSUME call.made, Shallow(schemas, call.operation),
                        call.operation.hasBody,
                        ~Recurs(schemas, call.operation.body, call.params)
                 PROVE  call.verdict = "sent"
                            <=> /\ Allowed(schemas, call.operation, call.params)
                                /\ ~HoldsNull(call.params)
    BY DEF CheckedToTheCycle
  <2>2. /\ call.verdict = Validated(schemas, call.operation, call.params)
        /\ IsComponents(schemas) /\ IsValue(call.params)
        /\ call.operation.hasBody => call.operation.body \in Schemas
    BY <1>1, <2>1, ServedAssumption DEF ServerInv, Answered
  <2> QED
    BY <2>1, <2>2, AllowedIsSent, SentIsAllowed
<1> QED
  BY <1>1, ServerInvariant, PTL

\* What clm_invoke would send, the generated tool sends unchanged, however deep
\* the schema, but for dates at the top, which it writes anew or turns down.
THEOREM ToolSendsTheSame == Spec => []WriteToolAgrees
<1>1. ASSUME ServerInv PROVE WriteToolAgrees
  <2>1. SUFFICES ASSUME call.made, call.verdict = "sent", call.operation.hasBody
                 PROVE  WriteToolAgrees
    BY DEF WriteToolAgrees
  <2>2. /\ Validated(schemas, call.operation, call.params) = "sent"
        /\ call.bodies = WriteBody(schemas, call.operation, call.params)
        /\ IsComponents(schemas)
        /\ IsValue(call.params) /\ call.params[<<>>] = "object"
        /\ call.operation.body \in Schemas
    BY <1>1, <2>1, ServedAssumption DEF ServerInv, Answered
  <2> DEFINE operation == call.operation
             params == call.params
  <2>3. WriteBody(schemas, operation, params) =
           IF \E path \in DatesOf(schemas, operation, params) : params[path] = "scalar" THEN {}
           ELSE {[path \in DOMAIN params |->
                    IF path \in DatesOf(schemas, operation, params) THEN Rewritten(params[path])
                    ELSE params[path]]}
    <3>1. /\ operation.hasBody /\ operation.body \in Schemas /\ IsComponents(schemas)
          /\ IsValue(params) /\ params[<<>>] = "object"
          /\ Validated(schemas, operation, params) = "sent"
      BY <2>1, <2>2
    <3> HIDE DEF operation, params
    <3> QED
      BY <3>1, SentIsDumped
  <2> QED
    BY <2>2, <2>3 DEF WriteToolAgrees
<1> QED
  BY <1>1, ServerInvariant, PTL

\* With a server beside it, the run of the refresh keeps its promises: every step
\* of the whole is one of the run or none.
THEOREM RefreshOfTheServer ==
    Spec => [](ExitCodeHonest /\ OnlyAcceptedReplace /\ RemovalsReported /\ StillLoads)
<1>1. ASSUME ServerInv
      PROVE  ExitCodeHonest /\ OnlyAcceptedReplace /\ RemovalsReported /\ StillLoads
  BY <1>1, ExitIsHonest, LoadsAfterwards DEF ServerInv, IInv
<1> QED
  BY <1>1, ServerInvariant, PTL

=============================================================================
