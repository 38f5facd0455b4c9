---------------------------- MODULE PackageProofs ----------------------------
(* Proofs about Package, for any pools.  A reference means what its author   *)
(* declared; what is built, or accepted from somebody else, is a whole       *)
(* package; and what the specification gate has passed, the builder and the  *)
(* archive gate refuse for a limit or a caller's own relationship part only. *)
EXTENDS Package, SequenceTheorems, FiniteSetTheorems, TLAPS

----------------------------------------------------------------------------
(* Places                                                                   *)

(* What holds of 0, and of a number when it holds of the one before.         *)
LEMMA CountingUp ==
  ASSUME NEW n \in Nat, NEW F, 0 \in F, \A i \in 0..(n - 1) : i \in F => i + 1 \in F
  PROVE  n \in F
<1> DEFINE bad == {i \in 0..n : i \notin F}
           T == {X \in SUBSET Nat : \E i \in bad : X = 0..i}
<1> SUFFICES ASSUME n \notin F PROVE FALSE
  OBVIOUS
<1>1. \A i \in Nat : 0..i \in SUBSET Nat /\ IsFiniteSet(0..i)
  BY FS_Interval
<1>2. T \subseteq FiniteSubsetsOf(Nat)
  BY <1>1 DEF FiniteSubsetsOf
<1>3. n \in bad
  OBVIOUS
<1>4. T # {}
  BY <1>1, <1>3
<1>5. PICK X \in T : \A Y \in T : ~(<<Y, X>> \in StrictSubsetOrdering(Nat))
  <2> HIDE DEF T
  <2> QED
    BY <1>2, <1>4, FS_StrictSubsetOrderingWellFounded, WFMin
<1>6. PICK i \in bad : X = 0..i
  OBVIOUS
<1>7. i \in Nat /\ i # 0 /\ i <= n
  BY <1>6
<1>8. i - 1 \in 0..(n - 1) /\ i - 1 \in 0..n
  BY <1>7
<1>9. CASE i - 1 \in F
  BY <1>6, <1>7, <1>8, <1>9
<1>10. CASE i - 1 \notin F
  <2>1. 0..(i - 1) \in T
    BY <1>1, <1>8, <1>10
  <2>2. 0..(i - 1) \subseteq 0..i /\ 0..(i - 1) # 0..i
    <3>1. i \in 0..i /\ i \notin 0..(i - 1)
      BY <1>7
    <3>2. 0..(i - 1) \subseteq 0..i
      BY <1>7
    <3> QED
      BY <3>1, <3>2
  <2> QED
    BY <1>5, <1>6, <2>1, <2>2 DEF StrictSubsetOrdering
<1> QED
  BY <1>9, <1>10

(* Every place has a rank, and every rank its place.                         *)
LEMMA NthFacts ==
  ASSUME NEW m \in Nat, NEW places \in SUBSET (1..m)
  PROVE  /\ IsFiniteSet(places) /\ Cardinality(places) \in Nat
         /\ \A n \in 1..Cardinality(places) :
              /\ Nth(places, n) \in places
              /\ Cardinality({j \in places : j <= Nth(places, n)}) = n
         /\ \A i \in places :
              /\ Cardinality({j \in places : j <= i}) \in 1..Cardinality(places)
              /\ Nth(places, Cardinality({j \in places : j <= i})) = i
<1> DEFINE n == Cardinality(places)
           upto(i) == {k \in places : k <= i}
           rank == [i \in places |-> Cardinality(upto(i))]
<1>1. /\ IsFiniteSet(1..m) /\ Cardinality(1..m) = m
  BY FS_Interval
<1>2. /\ IsFiniteSet(places) /\ n \in Nat /\ n <= m
  BY <1>1, FS_Subset, FS_CardinalityType
<1>3. \A j : Nth(places, j) = CHOOSE i \in places : Cardinality(upto(i)) = j
  BY DEF Nth
<1>4. ASSUME NEW i \in places
      PROVE  /\ i \in upto(i) /\ upto(i) \subseteq places /\ IsFiniteSet(upto(i))
             /\ rank[i] = Cardinality(upto(i)) /\ rank[i] \in 1..n
  <2>1. i \in upto(i) /\ upto(i) \subseteq places
    OBVIOUS
  <2> HIDE DEF upto
  <2>2. IsFiniteSet(upto(i)) /\ Cardinality(upto(i)) <= n /\ Cardinality(upto(i)) \in Nat
    BY <1>2, <2>1, FS_Subset, FS_CardinalityType
  <2>3. Cardinality(upto(i)) # 0
    BY <2>1, <2>2, FS_EmptySet
  <2> QED
    BY <1>2, <2>1, <2>2, <2>3
<1>5. ASSUME NEW i \in places, NEW j \in places, i < j
      PROVE  rank[i] < rank[j]
  <2>0. places \subseteq Nat
    OBVIOUS
  <2>1. upto(i) \subseteq upto(j) /\ j \notin upto(i)
    <3>1. i \in Nat /\ j \in Nat
      BY <2>0
    <3>2. \A k \in places : k \in Nat
      BY <2>0
    <3>3. ASSUME NEW k \in upto(i) PROVE k \in upto(j)
      BY <1>5, <3>1, <3>2
    <3>4. ~(j <= i)
      BY <1>5, <3>1
    <3> QED
      BY <3>3, <3>4
  <2>2. j \in upto(j)
    BY <1>4
  <2> HIDE DEF upto, rank
  <2>3. /\ Cardinality(upto(i)) <= Cardinality(upto(j))
        /\ Cardinality(upto(i)) = Cardinality(upto(j)) => upto(i) = upto(j)
    BY <1>4, <2>1, FS_Subset
  <2>4. rank[i] \in 1..n /\ rank[j] \in 1..n
    BY <1>4
  <2> QED
    BY <1>2, <1>4, <2>1, <2>2, <2>3, <2>4
<1>6. \A i, j \in places : rank[i] = rank[j] => i = j
  <2> SUFFICES ASSUME NEW i \in places, NEW j \in places, rank[i] = rank[j] PROVE i = j
    OBVIOUS
  <2>1. i \in Nat /\ j \in Nat
    OBVIOUS
  <2>2. rank[i] \in Nat /\ rank[j] \in Nat
    <3>1. rank[i] \in 1..n /\ rank[j] \in 1..n
      BY <1>4
    <3> HIDE DEF rank, n
    <3> QED
      BY <1>2, <3>1
  <2> HIDE DEF rank
  <2> QED
    BY <1>5, <2>1, <2>2
<1>7. rank \in Injection(places, 1..n)
  <2>1. rank = [i \in places |-> rank[i]]
    OBVIOUS
  <2>2. rank \in [places -> 1..n]
    <3>1. \A i \in places : rank[i] \in 1..n
      BY <1>4
    <3> HIDE DEF n, upto, rank
    <3> QED
      BY <2>1, <3>1
  <2> HIDE DEF n, upto, rank
  <2> QED
    BY <1>6, <2>2 DEF Injection, IsInjective
<1>8. \A j \in 1..n : \E i \in places : rank[i] = j
  <2>1. IsFiniteSet(1..n) /\ Cardinality(1..n) = n
    BY <1>2, FS_Interval
  <2> HIDE DEF upto, rank
  <2>2. rank \in Surjection(places, 1..n)
    BY <1>2, <1>7, <2>1, FS_Injection
  <2> QED
    BY <2>2 DEF Surjection
<1>9. ASSUME NEW j \in 1..n PROVE Nth(places, j) \in places /\ Cardinality(upto(Nth(places, j))) = j
  <2>1. \E i \in places : Cardinality(upto(i)) = j
    BY <1>4, <1>8
  <2> HIDE DEF upto
  <2> QED
    BY <1>3, <2>1
<1>10. ASSUME NEW i \in places
       PROVE  Cardinality(upto(i)) \in 1..n /\ Nth(places, Cardinality(upto(i))) = i
  <2>1. Cardinality(upto(i)) \in 1..n /\ rank[i] = Cardinality(upto(i))
    BY <1>4
  <2>2. /\ Nth(places, Cardinality(upto(i))) \in places
        /\ Cardinality(upto(Nth(places, Cardinality(upto(i))))) = Cardinality(upto(i))
    BY <1>9, <2>1
  <2>3. rank[Nth(places, Cardinality(upto(i)))] = rank[i]
    BY <1>4, <2>1, <2>2
  <2> HIDE DEF rank, upto
  <2> QED
    BY <1>6, <2>1, <2>2, <2>3
<1> QED
  BY <1>2, <1>9, <1>10

----------------------------------------------------------------------------
(* Paths                                                                    *)

LEMMA Appended ==
  ASSUME NEW S, NEW e \in S, NEW d \in Seq(S)
  PROVE  Append(d, e) \in Seq(S)
OBVIOUS

LEMMA SameAppended ==
  ASSUME NEW S, NEW e \in S, NEW d \in Seq(S), NEW f \in Seq(S)
  PROVE  Append(d, e) = Append(f, e) <=> d = f
OBVIOUS

LEMMA RelsPath ==
  ASSUME NEW p \in Paths
  PROVE  /\ relsPathForPart(p) \in Paths
         /\ relsPathForPart(p).dir = Append(p.dir, "_rels")
         /\ relsPathForPart(p).base = p.base
         /\ relsPathForPart(p).rels = p.rels + 1 /\ relsPathForPart(p).rels # 0
         /\ relsPathForPart(p).upper = p.upper
<1> DEFINE d == Append(p.dir, "_rels")
<1>1. d \in Seq(Names)
  <2>1. \A f \in Seq(Names) : Append(f, "_rels") \in Seq(Names)
    BY NamesAssumption, Appended
  <2>2. p.dir \in Seq(Names)
    BY DEF Paths
  <2> QED
    BY <2>1, <2>2
<1>2. relsPathForPart(p) = [p EXCEPT !.dir = d, !.rels = p.rels + 1]
  BY DEF relsPathForPart
<1> HIDE DEF d
<1>3. relsPathForPart(p) = [dir |-> d, base |-> p.base, rels |-> p.rels + 1, upper |-> p.upper]
  BY <1>2 DEF Paths
<1>4. relsPathForPart(p) \in Paths
  BY <1>1, <1>3 DEF Paths
<1>5. p.rels + 1 # 0
  BY DEF Paths
<1> QED
  BY <1>3, <1>4, <1>5 DEF d

LEMMA FoldedPath ==
  ASSUME NEW p \in Paths, NEW q \in Paths
  PROVE  /\ Fold(p) = Fold(q) <=> p.dir = q.dir /\ p.base = q.base /\ p.rels = q.rels
BY DEF Paths, Fold

LEMMA FoldOfFolded ==
  ASSUME NEW p \in Paths, p.upper = FALSE
  PROVE  Fold(p) = p
<1>1. p = [dir |-> p.dir, base |-> p.base, rels |-> p.rels, upper |-> FALSE]
  BY DEF Paths
<1>2. Fold(p) = [dir |-> p.dir, base |-> p.base, rels |-> p.rels, upper |-> FALSE]
  BY DEF Paths, Fold
<1> QED
  BY <1>1, <1>2

LEMMA RelsPathFolds ==
  ASSUME NEW p \in Paths, NEW q \in Paths
  PROVE  Fold(relsPathForPart(p)) = Fold(relsPathForPart(q)) <=> Fold(p) = Fold(q)
<1> DEFINE r == relsPathForPart(p)
           s == relsPathForPart(q)
<1>1. p.dir \in Seq(Names) /\ q.dir \in Seq(Names) /\ p.rels \in Nat /\ q.rels \in Nat
  BY DEF Paths
<1>2. Append(p.dir, "_rels") = Append(q.dir, "_rels") <=> p.dir = q.dir
  <2>1. \A d, f \in Seq(Names) : Append(d, "_rels") = Append(f, "_rels") <=> d = f
    BY NamesAssumption, SameAppended
  <2> QED
    BY <1>1, <2>1
<1>3. /\ r \in Paths /\ s \in Paths
      /\ r.dir = Append(p.dir, "_rels") /\ s.dir = Append(q.dir, "_rels")
      /\ r.base = p.base /\ s.base = q.base
      /\ r.rels = p.rels + 1 /\ s.rels = q.rels + 1
  BY RelsPath
<1>4. p.rels + 1 = q.rels + 1 <=> p.rels = q.rels
  BY <1>1
<1> HIDE DEF r, s
<1>5. Fold(r) = Fold(s) <=> r.dir = s.dir /\ r.base = s.base /\ r.rels = s.rels
  BY <1>3, FoldedPath
<1>6. Fold(p) = Fold(q) <=> p.dir = q.dir /\ p.base = q.base /\ p.rels = q.rels
  BY FoldedPath
<1>7. Fold(r) = Fold(s) <=> Fold(p) = Fold(q)
  BY <1>2, <1>3, <1>4, <1>5, <1>6
<1> QED
  BY <1>7 DEF r, s

LEMMA SourceOfRelsPath ==
  ASSUME NEW p \in Paths
  PROVE  sourceForRels(relsPathForPart(p)) = p
<1> DEFINE r == relsPathForPart(p)
<1>1. /\ r \in Paths /\ r.dir = Append(p.dir, "_rels") /\ r.base = p.base
      /\ r.rels = p.rels + 1 /\ r.upper = p.upper
  BY RelsPath
<1>2. r.dir # <<>> /\ Last(r.dir) = "_rels"
  BY <1>1, AppendProperties DEF Last, Paths
<1>3. Front(r.dir) = p.dir
  BY <1>1 DEF Front, Paths
<1>4. IsRels(r)
  BY <1>1 DEF IsRels, Paths
<1> HIDE DEF r
<1>5. sourceForRels(r) = [r EXCEPT !.dir = Front(@), !.rels = @ - 1]
  BY <1>2, <1>4 DEF sourceForRels
<1>6. r.rels - 1 = p.rels
  BY <1>1 DEF Paths
<1>7. sourceForRels(r) = [dir |-> p.dir, base |-> p.base, rels |-> p.rels, upper |-> p.upper]
  BY <1>1, <1>3, <1>5, <1>6 DEF Paths
<1>8. p = [dir |-> p.dir, base |-> p.base, rels |-> p.rels, upper |-> p.upper]
  BY DEF Paths
<1> QED
  BY <1>7, <1>8 DEF r

LEMMA SameTarget ==
  ASSUME NEW p \in Paths, NEW q \in Paths, NEW a, NEW b,
         Fold(p) = Fold(q), a.mode = b.mode, a.target = b.target
  PROVE  internalTarget(p, a) = internalTarget(q, b)
<1>1. p.dir = q.dir
  BY FoldedPath
<1> QED
  BY <1>1 DEF internalTarget, resolveRelTarget

LEMMA EngineIsFolded ==
  /\ CONTENT_TYPES_PATH \in Paths /\ Fold(CONTENT_TYPES_PATH) = CONTENT_TYPES_PATH
  /\ CONTENT_TYPES_PATH.rels = 0
  /\ Root \in Paths /\ Root.base = "" /\ Root.rels = 0
  /\ PACKAGE_RELS_PATH \in Paths /\ Fold(PACKAGE_RELS_PATH) = PACKAGE_RELS_PATH
  /\ PACKAGE_RELS_PATH.base = "" /\ PACKAGE_RELS_PATH.rels # 0
<1>0. \A b \in Names : Path(<<>>, b) \in Paths
  BY DEF Path, Paths
<1>1. /\ CONTENT_TYPES_PATH \in Paths /\ CONTENT_TYPES_PATH.upper = FALSE
      /\ CONTENT_TYPES_PATH.rels = 0
  <2>1. CONTENT_TYPES_PATH \in Paths
    BY <1>0, NamesAssumption DEF CONTENT_TYPES_PATH
  <2> QED
    BY <2>1 DEF CONTENT_TYPES_PATH, Path
<1>2. Root \in Paths
  BY <1>0, NamesAssumption DEF Root
<1>3. Root.base = "" /\ Root.rels = 0 /\ Root.upper = FALSE
  BY DEF Root, Path
<1>4. /\ PACKAGE_RELS_PATH \in Paths /\ PACKAGE_RELS_PATH.base = ""
      /\ PACKAGE_RELS_PATH.rels # 0 /\ PACKAGE_RELS_PATH.upper = FALSE
  BY <1>2, <1>3, RelsPath DEF PACKAGE_RELS_PATH
<1>5. Fold(CONTENT_TYPES_PATH) = CONTENT_TYPES_PATH /\ Fold(PACKAGE_RELS_PATH) = PACKAGE_RELS_PATH
  BY <1>1, <1>4, FoldOfFolded
<1> QED
  BY <1>1, <1>2, <1>3, <1>4, <1>5

----------------------------------------------------------------------------
(* What the specification gate has passed                                   *)

PoolParts == {PartPool[i] : i \in DOMAIN PartPool}

Specs == [parts : Seq(PoolParts),
          packageRels : Seq({PackagePool[i] : i \in DOMAIN PackagePool}),
          partRels : Seq(PartRelPool)]

(* Everything is filed, sources name parts, and no part has a scope's path. *)
LEMMA PassedIsFiled ==
  ASSUME NEW s \in Specs, NEW m, validateSpec(s, m) = {}
  PROVE  /\ \A i \in DOMAIN s.parts :
              /\ s.parts[i].name \in Paths /\ s.parts[i].name.base # ""
              /\ i \in Filed(s.parts) /\ PathOk(s.parts[i].name) /\ s.parts[i].type # "bad"
         /\ Files(s) = PartNames(s)
<1>1. PartIssues(s) = {}
  BY DEF validateSpec
<1>2. ASSUME NEW i \in DOMAIN s.parts
      PROVE  /\ s.parts[i].name \in Paths /\ s.parts[i].name.base # ""
             /\ i \in Filed(s.parts) /\ PathOk(s.parts[i].name) /\ s.parts[i].type # "bad"
  <2>1. s.parts[i] \in PoolParts
    BY DEF Specs
  <2>2. s.parts[i].name \in Paths /\ s.parts[i].name.base # ""
    BY <2>1, PartPoolAssumption DEF PoolParts
  <2>3. PathOk(s.parts[i].name)
    BY <1>1 DEF PartIssues
  <2>4. i \in Filed(s.parts)
    BY <1>1, <2>3 DEF PartIssues
  <2>5. s.parts[i].type # "bad"
    BY <1>1, <2>3, <2>4 DEF PartIssues
  <2> QED
    BY <2>2, <2>3, <2>4, <2>5
<1>3. Filed(s.parts) = DOMAIN s.parts
  BY <1>2 DEF Filed
<1> QED
  BY <1>2, <1>3 DEF Files, PartNames

LEMMA PassedIsRelated ==
  ASSUME NEW s \in Specs, NEW m, validateSpec(s, m) = {}
  PROVE  /\ \A i \in DOMAIN s.packageRels : RelIssues(s.packageRels[i], Root, Files(s)) = {}
         /\ \A i \in DOMAIN s.partRels :
              /\ Has(Files(s), s.partRels[i].source)
              /\ RelIssues(s.partRels[i].rel, s.partRels[i].source, Files(s)) = {}
         /\ \A d \in Sources(s) : /\ d \in Paths /\ Has(Files(s), d)
                                  /\ ~Has(Files(s), relsPathForPart(d))
<1>1. DeclaredRelIssues(s) = {} /\ ScopeIssues(s) = {}
  BY DEF validateSpec
<1>2. \A i \in DOMAIN s.packageRels : RelIssues(s.packageRels[i], Root, Files(s)) = {}
  BY <1>1 DEF DeclaredRelIssues
<1>3. ASSUME NEW i \in DOMAIN s.partRels
      PROVE  /\ Has(Files(s), s.partRels[i].source)
             /\ RelIssues(s.partRels[i].rel, s.partRels[i].source, Files(s)) = {}
  <2>1. PartRelIssues(s, s.partRels[i]) = {}
    BY <1>1 DEF DeclaredRelIssues
  <2> QED
    BY <2>1 DEF PartRelIssues
<1>4. ASSUME NEW d \in Sources(s)
      PROVE  d \in Paths /\ Has(Files(s), d) /\ ~Has(Files(s), relsPathForPart(d))
  <2>1. PICK i \in DOMAIN s.partRels : s.partRels[i].source = d
    BY DEF Sources
  <2>2. s.partRels[i] \in PartRelPool
    BY DEF Specs
  <2>3. d \in Paths
    BY <2>1, <2>2, RelPoolsAssumption
  <2>4. Has(Files(s), d)
    BY <1>3, <2>1
  <2>5. ~Has(Files(s), relsPathForPart(d))
    BY <1>1, <2>4 DEF ScopeIssues
  <2> QED
    BY <2>3, <2>4, <2>5
<1> QED
  BY <1>2, <1>3, <1>4

----------------------------------------------------------------------------
(* The two gates agree                                                      *)

(* What the specification gate passes, the builder's own checks pass too:   *)
(* names, types, targets and the paths of the relationship scopes.          *)
LEMMA BuilderAgrees ==
  ASSUME NEW s \in Specs, NEW m, validateSpec(s, m) = {}
  PROVE  BuilderIssues(s) = {}
<1> DEFINE sources == {d \in Sources(s) : Has(PartNames(s), d)}
           scopes == {relsPathForPart(d) : d \in sources} \cup EngineOwned
<1>0. s.parts \in Seq(PoolParts)
  BY DEF Specs
<1>1. \A i \in DOMAIN s.parts : /\ i \in Filed(s.parts) /\ PathOk(s.parts[i].name)
                               /\ s.parts[i].type # "bad"
  BY PassedIsFiled
<1>2. ASSUME NEW i \in DOMAIN s.parts, NEW j \in DOMAIN s.parts,
             i # j, Fold(s.parts[i].name) = Fold(s.parts[j].name)
      PROVE  FALSE
  <2>1. i \in Nat /\ j \in Nat /\ (i \in 1..(j - 1) \/ j \in 1..(i - 1))
    BY <1>0, <1>2
  <2> QED
    BY <1>1, <1>2, <2>1 DEF Filed
<1>3. ASSUME NEW n \in PartNames(s), Has(scopes, n)
      PROVE  FALSE
  <2>1. PICK i \in DOMAIN s.parts : n = s.parts[i].name
    BY DEF PartNames
  <2>2. PICK x \in scopes : Fold(x) = Fold(n)
    BY <1>3 DEF Has
  <2>3. CASE x \in EngineOwned
    <3>1. Fold(x) \in EngineOwned
      BY <2>3, EngineIsFolded DEF EngineOwned
    <3> QED
      BY <1>1, <2>1, <2>2, <3>1 DEF Filed
  <2>4. CASE x \in {relsPathForPart(d) : d \in sources}
    <3>1. PICK d \in Sources(s) : x = relsPathForPart(d)
      BY <2>4
    <3>2. n \in Files(s)
      BY PassedIsFiled
    <3> QED
      BY <2>2, <3>1, <3>2, PassedIsRelated DEF Has
  <2> QED
    BY <2>3, <2>4
<1>4. \A i \in DOMAIN s.packageRels : RelIssues(s.packageRels[i], Root, PartNames(s)) = {}
  BY PassedIsFiled, PassedIsRelated
<1>5. \A i \in DOMAIN s.partRels :
        /\ s.partRels[i].source \in sources
        /\ RelIssues(s.partRels[i].rel, s.partRels[i].source, PartNames(s)) = {}
  BY PassedIsFiled, PassedIsRelated DEF Sources
<1> HIDE DEF sources
<1>6. \A n \in PartNames(s) : ~Has(scopes, n)
  BY <1>3
<1>7. UNION {IF s.partRels[i].source \in sources
             THEN RelIssues(s.partRels[i].rel, s.partRels[i].source, PartNames(s))
             ELSE {"E_REL_BAD_TARGET"} : i \in DOMAIN s.partRels} = {}
  BY <1>5
<1>8. UNION {RelIssues(s.packageRels[i], Root, PartNames(s)) : i \in DOMAIN s.packageRels} = {}
  BY <1>4
<1> HIDE DEF scopes
<1>9. ~\E i, j \in DOMAIN s.parts : i # j /\ Fold(s.parts[i].name) = Fold(s.parts[j].name)
  BY <1>2
<1>10. BuilderIssues(s) =
         UNION {
           IF \E i \in DOMAIN s.parts : ~PathOk(s.parts[i].name) THEN {"E_ZIP_PATH"} ELSE {},
           IF \E i, j \in DOMAIN s.parts : i # j /\ Fold(s.parts[i].name) = Fold(s.parts[j].name)
           THEN {"E_PACKAGE_DUP_PART"} ELSE {},
           IF \E i \in DOMAIN s.parts : s.parts[i].type = "bad"
           THEN {"E_CONTENTTYPE_BAD_TYPE"} ELSE {},
           IF \E n \in PartNames(s) : Has(scopes, n) THEN {"E_PACKAGE_DUP_PART"} ELSE {},
           UNION {RelIssues(s.packageRels[i], Root, PartNames(s)) : i \in DOMAIN s.packageRels},
           UNION {IF s.partRels[i].source \in sources
                  THEN RelIssues(s.partRels[i].rel, s.partRels[i].source, PartNames(s))
                  ELSE {"E_REL_BAD_TARGET"} : i \in DOMAIN s.partRels}}
  BY DEF BuilderIssues, sources, scopes
<1>11. BuilderIssues(s) = UNION {{}, {}, {}, {}, {}, {}}
  BY <1>1, <1>6, <1>7, <1>8, <1>9, <1>10
<1> QED
  BY <1>11

(* A scope is written next to the part it belongs to, whose spelling it     *)
(* takes.                                                                   *)
LEMMA ScopeOfPart ==
  ASSUME NEW s \in Specs, NEW m, validateSpec(s, m) = {}, NEW d \in Sources(s)
  PROVE  LET c == canonicalSource(s, d)
         IN /\ d \in Paths /\ c \in PartNames(s) /\ c \in Paths /\ c.base # ""
            /\ Fold(c) = Fold(d)
            /\ Fold(relsPathForPart(c)) = Fold(relsPathForPart(d))
<1> DEFINE c == canonicalSource(s, d)
<1>1. d \in Paths /\ Has(PartNames(s), d)
  BY PassedIsFiled, PassedIsRelated
<1>2. c \in PartNames(s) /\ Fold(c) = Fold(d)
  <2>1. \E n \in PartNames(s) : Fold(n) = Fold(d)
    BY <1>1 DEF Has
  <2> QED
    BY <2>1 DEF canonicalSource
<1>3. c \in Paths /\ c.base # ""
  BY <1>2, PassedIsFiled DEF PartNames
<1> HIDE DEF c
<1>4. Fold(relsPathForPart(c)) = Fold(relsPathForPart(d))
  BY <1>1, <1>2, <1>3, RelsPathFolds
<1> QED
  BY <1>1, <1>2, <1>3, <1>4 DEF c

(* The four kinds of entries the builder packs.                             *)
TypesEntry(s) == Entry(CONTENT_TYPES_PATH, TypesBody(s))
PackageEntry(s) == Entry(PACKAGE_RELS_PATH, RelsBody(s.packageRels))
ScopeEntry(s, d) == Entry(relsPathForPart(canonicalSource(s, d)), RelsBody(DeclaredRels(s, d)))
PartEntry(s, i) == Entry(s.parts[i].name, s.parts[i].body)

LEMMA EntriesByKind ==
  ASSUME NEW s
  PROVE  Entries(s) = {TypesEntry(s), PackageEntry(s)}
                      \cup {ScopeEntry(s, d) : d \in Sources(s)}
                      \cup {PartEntry(s, i) : i \in DOMAIN s.parts}
BY DEF Entries, TypesEntry, PackageEntry, ScopeEntry, PartEntry

LEMMA ScopesOfOnePart ==
  ASSUME NEW s \in Specs, NEW d \in Sources(s), NEW f \in Sources(s), Fold(d) = Fold(f)
  PROVE  ScopeEntry(s, d) = ScopeEntry(s, f)
<1>1. canonicalSource(s, d) = canonicalSource(s, f)
  BY DEF canonicalSource
<1>2. DeclaredRels(s, d) = DeclaredRels(s, f)
  BY DEF DeclaredRels
<1> QED
  BY <1>1, <1>2 DEF ScopeEntry

(* No two entries of a package the gate has passed are spellings of one     *)
(* name.                                                                    *)
LEMMA OneEntryToAName ==
  ASSUME NEW s \in Specs, NEW m, validateSpec(s, m) = {},
         NEW e \in Entries(s), NEW f \in Entries(s), Fold(e.name) = Fold(f.name)
  PROVE  e = f
<1>1. TypesEntry(s).name = CONTENT_TYPES_PATH /\ PackageEntry(s).name = PACKAGE_RELS_PATH
  BY DEF TypesEntry, PackageEntry, Entry
<1>2. CONTENT_TYPES_PATH # PACKAGE_RELS_PATH
  BY EngineIsFolded
<1>3. ASSUME NEW d \in Sources(s)
      PROVE  /\ ScopeEntry(s, d).name = relsPathForPart(canonicalSource(s, d))
             /\ Fold(ScopeEntry(s, d).name) = Fold(relsPathForPart(d))
             /\ Fold(ScopeEntry(s, d).name) \notin EngineOwned
  <2> DEFINE c == canonicalSource(s, d)
  <2>1. ScopeEntry(s, d).name = relsPathForPart(c)
    BY DEF ScopeEntry, Entry
  <2>2. c \in Paths /\ c.base # "" /\ Fold(relsPathForPart(c)) = Fold(relsPathForPart(d))
    BY ScopeOfPart
  <2> HIDE DEF c
  <2>3. /\ relsPathForPart(c) \in Paths /\ relsPathForPart(c).base # ""
        /\ relsPathForPart(c).rels # 0
    BY <2>2, RelsPath
  <2>4. Fold(relsPathForPart(c)) # Fold(CONTENT_TYPES_PATH)
    BY <2>3, EngineIsFolded, FoldedPath
  <2>5. Fold(relsPathForPart(c)) # Fold(PACKAGE_RELS_PATH)
    BY <2>3, EngineIsFolded, FoldedPath
  <2>6. Fold(relsPathForPart(c)) \notin EngineOwned
    BY <2>4, <2>5, EngineIsFolded DEF EngineOwned
  <2> QED
    BY <2>1, <2>2, <2>6 DEF c
<1>4. ASSUME NEW i \in DOMAIN s.parts
      PROVE  /\ PartEntry(s, i).name = s.parts[i].name
             /\ Fold(PartEntry(s, i).name) \notin EngineOwned
  BY PassedIsFiled DEF PartEntry, Entry, Filed
<1>5. ASSUME NEW d \in Sources(s), NEW g \in Sources(s),
             Fold(ScopeEntry(s, d).name) = Fold(ScopeEntry(s, g).name)
      PROVE  ScopeEntry(s, d) = ScopeEntry(s, g)
  <2>1. Fold(relsPathForPart(d)) = Fold(relsPathForPart(g))
    BY <1>3, <1>5
  <2>2. d \in Paths /\ g \in Paths
    BY PassedIsRelated
  <2>3. Fold(d) = Fold(g)
    BY <2>1, <2>2, RelsPathFolds
  <2> QED
    BY <2>3, ScopesOfOnePart
<1>6. ASSUME NEW i \in DOMAIN s.parts, NEW j \in DOMAIN s.parts,
             Fold(PartEntry(s, i).name) = Fold(PartEntry(s, j).name)
      PROVE  i = j
  <2>1. s.parts \in Seq(PoolParts)
    BY DEF Specs
  <2>2. SUFFICES ASSUME i # j PROVE FALSE
    OBVIOUS
  <2>3. i \in 1..(j - 1) \/ j \in 1..(i - 1)
    BY <2>1, <2>2
  <2> QED
    BY <1>4, <1>6, <2>3, PassedIsFiled DEF Filed
<1>7. ASSUME NEW d \in Sources(s), NEW i \in DOMAIN s.parts
      PROVE  Fold(ScopeEntry(s, d).name) # Fold(PartEntry(s, i).name)
  <2>1. ~Has(PartNames(s), relsPathForPart(d))
    BY PassedIsFiled, PassedIsRelated
  <2>2. s.parts[i].name \in PartNames(s)
    BY DEF PartNames
  <2> QED
    BY <1>3, <1>4, <2>1, <2>2 DEF Has
<1>8. \A x \in Entries(s) :
        \/ x = TypesEntry(s) \/ x = PackageEntry(s)
        \/ \E d \in Sources(s) : x = ScopeEntry(s, d)
        \/ \E i \in DOMAIN s.parts : x = PartEntry(s, i)
  BY EntriesByKind
<1>9. Fold(TypesEntry(s).name) = CONTENT_TYPES_PATH /\ Fold(PackageEntry(s).name) = PACKAGE_RELS_PATH
  BY <1>1, EngineIsFolded
<1>10. CONTENT_TYPES_PATH \in EngineOwned /\ PACKAGE_RELS_PATH \in EngineOwned
  BY DEF EngineOwned
<1>11. CASE e = TypesEntry(s) \/ e = PackageEntry(s)
  BY <1>2, <1>3, <1>4, <1>8, <1>9, <1>10, <1>11
<1>12. CASE f = TypesEntry(s) \/ f = PackageEntry(s)
  BY <1>2, <1>3, <1>4, <1>8, <1>9, <1>10, <1>12
<1>13. CASE \E d \in Sources(s) : e = ScopeEntry(s, d)
  <2>1. PICK d \in Sources(s) : e = ScopeEntry(s, d)
    BY <1>13
  <2>2. CASE \E g \in Sources(s) : f = ScopeEntry(s, g)
    BY <1>5, <2>1, <2>2
  <2>3. CASE \E i \in DOMAIN s.parts : f = PartEntry(s, i)
    BY <1>7, <2>1, <2>3
  <2> QED
    BY <1>8, <1>12, <2>2, <2>3
<1>14. CASE \E i \in DOMAIN s.parts : e = PartEntry(s, i)
  <2>1. PICK i \in DOMAIN s.parts : e = PartEntry(s, i)
    BY <1>14
  <2>2. CASE \E g \in Sources(s) : f = ScopeEntry(s, g)
    BY <1>7, <2>1, <2>2
  <2>3. CASE \E j \in DOMAIN s.parts : f = PartEntry(s, j)
    BY <1>6, <2>1, <2>3
  <2> QED
    BY <1>8, <1>12, <2>2, <2>3
<1> QED
  BY <1>8, <1>11, <1>13, <1>14

----------------------------------------------------------------------------
(* The inductive invariant: what the last gate has seen is what is there.   *)

GateInv == phase \in {"gated", "packed", "built"} => validateSpec(spec, main) = {}

ArchiveInv ==
  phase \in {"packed", "built"} =>
    archive.entries = Entries(spec) /\ ZipWriterIssues(Entries(spec)) = {}

IInv == spec \in Specs /\ GateInv /\ ArchiveInv

LEMMA InitInv == Init => IInv
<1> SUFFICES ASSUME Init PROVE IInv
  OBVIOUS
<1>1. spec \in Specs
  BY DEF Init, Specs
<1> QED
  BY <1>1 DEF Init, IInv, GateInv, ArchiveInv

LEMMA NextInv == IInv /\ [Next]_vars => IInv'
<1> SUFFICES ASSUME IInv, [Next]_vars PROVE IInv'
  OBVIOUS
<1> USE DEF IInv, GateInv, ArchiveInv
<1>1. CASE DeclarePart
  <2>1. PICK i \in DOMAIN PartPool : spec' = [spec EXCEPT !.parts = Append(@, PartPool[i])]
    BY <1>1 DEF DeclarePart, Later
  <2>2. PartPool[i] \in PoolParts /\ spec.parts \in Seq(PoolParts)
    BY DEF PoolParts, Specs
  <2>3. Append(spec.parts, PartPool[i]) \in Seq(PoolParts)
    BY <2>2, Appended
  <2>4. spec' \in Specs
    BY <2>1, <2>3 DEF Specs
  <2> QED
    BY <1>1, <2>4 DEF DeclarePart, MayDeclare
<1>2. CASE DeclarePackageRel
  <2> DEFINE rels == {PackagePool[i] : i \in DOMAIN PackagePool}
  <2>1. PICK i \in DOMAIN PackagePool :
          spec' = [spec EXCEPT !.packageRels = Append(@, PackagePool[i])]
    BY <1>2 DEF DeclarePackageRel, Later
  <2>2. PackagePool[i] \in rels /\ spec.packageRels \in Seq(rels)
    BY DEF Specs
  <2>3. Append(spec.packageRels, PackagePool[i]) \in Seq(rels)
    BY <2>2, Appended
  <2>4. spec' \in Specs
    BY <2>1, <2>3 DEF Specs
  <2> QED
    BY <1>2, <2>4 DEF DeclarePackageRel, MayDeclare
<1>3. CASE DeclarePartRel
  <2>1. PICK d \in PartRelPool : spec' = [spec EXCEPT !.partRels = Append(@, d)]
    BY <1>3 DEF DeclarePartRel
  <2>2. spec.partRels \in Seq(PartRelPool)
    BY DEF Specs
  <2>3. Append(spec.partRels, d) \in Seq(PartRelPool)
    BY <2>2, Appended
  <2>4. spec' \in Specs
    BY <2>1, <2>3 DEF Specs
  <2> QED
    BY <1>3, <2>4 DEF DeclarePartRel, MayDeclare
<1>4. CASE ValidateSpec
  BY <1>4 DEF ValidateSpec
<1>5. CASE Pack
  BY <1>5 DEF Pack
<1>6. CASE ValidateBuilt
  BY <1>6 DEF ValidateBuilt
<1>7. CASE Alter
  BY <1>7 DEF Alter
<1>8. CASE ValidateForeign
  BY <1>8 DEF ValidateForeign
<1>9. CASE UNCHANGED vars
  BY <1>9 DEF vars
<1> QED
  BY <1>1, <1>2, <1>3, <1>4, <1>5, <1>6, <1>7, <1>8, <1>9 DEF Next

LEMMA Invariance == Spec => []IInv
BY InitInv, NextInv, PTL DEF Spec

----------------------------------------------------------------------------
(* Theorems                                                                 *)

(* Whatever was declared, the n-th relationship of a part is the rIdn of    *)
(* that part's own relationship part in the archive that is handed out:     *)
(* RelScope, canonicalSource and the packing of package.ts.                 *)
THEOREM ReferencesKeepTheirMeaning == Spec => []ReferencesMeanWhatWasDeclared
<1>1. IInv => ReferencesMeanWhatWasDeclared
  <2> DEFINE Declared(d) ==
               {k \in DOMAIN spec.partRels : Fold(spec.partRels[k].source) = Fold(d)}
             Written(e, d, k) ==
               \E i \in DOMAIN e.body.rels :
                 /\ e.body.rels[i].id = Cardinality({j \in Declared(d) : j <= k})
                 /\ internalTarget(sourceForRels(e.name), e.body.rels[i]) =
                      internalTarget(d, spec.partRels[k].rel)
                 /\ e.body.rels[i].type = spec.partRels[k].rel.type
  <2>0. SUFFICES ASSUME IInv, NEW d \in Sources(spec), phase = "built"
                 PROVE  \E e \in EntriesAt(relsPathForPart(d)) :
                          /\ EntriesAt(relsPathForPart(d)) = {e}
                          /\ DOMAIN e.body.rels = 1..Cardinality(Declared(d))
                          /\ \A k \in Declared(d) : Written(e, d, k)
    BY DEF ReferencesMeanWhatWasDeclared
  <2> DEFINE own == EntriesAt(relsPathForPart(d))
  <2>1. spec \in Specs /\ validateSpec(spec, main) = {} /\ archive.entries = Entries(spec)
    BY <2>0 DEF IInv, GateInv, ArchiveInv
  <2>2. PICK c : c = canonicalSource(spec, d)
    OBVIOUS
  <2>3. /\ d \in Paths /\ c \in Paths /\ Fold(c) = Fold(d)
        /\ Fold(relsPathForPart(c)) = Fold(relsPathForPart(d))
    BY <2>1, <2>2, ScopeOfPart
  <2>4. PICK e : e = ScopeEntry(spec, d)
    OBVIOUS
  <2>5. PICK rels : rels = DeclaredRels(spec, d)
    OBVIOUS
  <2>6. e.name = relsPathForPart(c) /\ e.body.rels = NumberedRels(rels)
    BY <2>2, <2>4, <2>5 DEF ScopeEntry, Entry, RelsBody
  <2>7. e \in archive.entries
    BY <2>1, <2>4, EntriesByKind
  <2>8. e \in own
    BY <2>3, <2>6, <2>7 DEF EntriesAt
  <2>9. own = {e}
    <3>1. ASSUME NEW f \in own PROVE f = e
      <4>1. f \in Entries(spec) /\ e \in Entries(spec) /\ Fold(f.name) = Fold(e.name)
        BY <2>1, <2>3, <2>6, <2>7 DEF EntriesAt
      <4> QED
        BY <2>1, <4>1, OneEntryToAName
    <3> QED
      BY <2>8, <3>1
  <2>10. PICK at : at = Declared(d)
    OBVIOUS
  <2>11. rels = [n \in 1..Cardinality(at) |-> spec.partRels[Nth(at, n)].rel]
    BY <2>5, <2>10 DEF DeclaredRels
  <2>12. DOMAIN e.body.rels = 1..Cardinality(at)
    BY <2>6, <2>11 DEF NumberedRels
  <2>13. ASSUME NEW k \in at PROVE Written(e, d, k)
    <3> DEFINE n == Cardinality({j \in at : j <= k})
    <3>1. at \in SUBSET (1..Len(spec.partRels)) /\ Len(spec.partRels) \in Nat
      BY <2>1, <2>10 DEF Specs
    <3>2. n \in 1..Cardinality(at) /\ Nth(at, n) = k
      BY <3>1, NthFacts
    <3>3. n = Cardinality({j \in Declared(d) : j <= k})
      BY <2>10
    <3> HIDE DEF n
    <3>4. n \in DOMAIN rels /\ rels[n] = spec.partRels[k].rel
      BY <2>11, <3>2
    <3>5. n \in DOMAIN e.body.rels
      BY <2>12, <3>2
    <3>6. e.body.rels[n] = [id |-> n, type |-> rels[n].type,
                            target |-> rels[n].target, mode |-> rels[n].mode]
      BY <2>6, <3>4 DEF NumberedRels
    <3>7. /\ e.body.rels[n].id = n /\ e.body.rels[n].type = spec.partRels[k].rel.type
          /\ e.body.rels[n].mode = spec.partRels[k].rel.mode
          /\ e.body.rels[n].target = spec.partRels[k].rel.target
      BY <3>4, <3>6
    <3>8. sourceForRels(e.name) = c
      BY <2>3, <2>6, SourceOfRelsPath
    <3>9. internalTarget(c, e.body.rels[n]) = internalTarget(d, spec.partRels[k].rel)
      BY <2>3, <3>7, SameTarget
    <3> QED
      BY <3>3, <3>5, <3>7, <3>8, <3>9
  <2>14. /\ own = {e} /\ DOMAIN e.body.rels = 1..Cardinality(Declared(d))
         /\ \A k \in Declared(d) : Written(e, d, k)
    <3> HIDE DEF Written, Declared, own
    <3> QED
      BY <2>9, <2>10, <2>12, <2>13
  <2> HIDE DEF Written, Declared
  <2> QED
    BY <2>8, <2>14
<1> QED
  BY <1>1, Invariance, PTL

(* The builder refuses nothing the specification gate has passed, but an    *)
(* archive of too many entries: of the two halves of build() the second     *)
(* repeats the checks of the first and never contradicts them.              *)
PackRefusesOnlySize == [][Pack => issues' \subseteq {"E_ZIP_LIMIT"}]_vars

THEOREM FirstGateCoversTheBuilder == Spec => PackRefusesOnlySize
<1>1. IInv /\ [Next]_vars => [Pack => issues' \subseteq {"E_ZIP_LIMIT"}]_vars
  <2> SUFFICES ASSUME IInv, Pack PROVE issues' \subseteq {"E_ZIP_LIMIT"}
    OBVIOUS
  <2>1. spec \in Specs /\ validateSpec(spec, main) = {}
    BY DEF IInv, GateInv, Pack
  <2>2. BuilderIssues(spec) = {}
    BY <2>1, BuilderAgrees
  <2>3. issues' = ZipWriterIssues(Entries(spec))
    BY <2>2 DEF Pack
  <2>4. ~\E e, f \in Entries(spec) : e # f /\ Fold(e.name) = Fold(f.name)
    BY <2>1, OneEntryToAName
  <2> QED
    BY <2>3, <2>4 DEF ZipWriterIssues
<1> QED
  BY <1>1, Invariance, PTL DEF Spec, PackRefusesOnlySize

----------------------------------------------------------------------------
(* What the archive gate lets through                                       *)

Flaws == DOMAIN FatalCode \cup DOMAIN HeaderCode \cup DOMAIN ContentCode

PackedEntries == [name : Paths, body : Bodies, flaw : Flaws]

(* An archive the builder packed, altered or not: only relationship parts    *)
(* have relationships in their text, what is no relationship part has a name *)
(* at the end of its path, and the table of types is the engine's, whatever  *)
(* it has lost.                                                              *)
WellFormedEntry(e) ==
  /\ ~IsRels(e.name) => e.name.base # "" /\ e.body.rels = <<>>
  /\ Fold(e.name) = CONTENT_TYPES_PATH =>
       /\ e.body.refs = {}
       /\ \A o \in e.body.overrides : o.type \in MediaTypes

WellFormed(a) ==
  /\ a \in [flaw : DOMAIN FrameCode, entries : SUBSET PackedEntries]
  /\ IsFiniteSet(a.entries)
  /\ \A e \in a.entries : WellFormedEntry(e)

(* The gate found nothing, in an archive that need not be its engine's.      *)
Accepted(a, engineBuilt, m) ==
  /\ WellFormed(a)
  /\ engineBuilt => \A e \in a.entries : e.flaw # "bomb"
  /\ validateZipBytes(a, engineBuilt, m) = {}

LEMMA NothingIsReported ==
  ASSUME NEW a, NEW b, NEW m, validateZipBytes(a, b, m) = {}
  PROVE  LET table == ContentTypes(a)
             edges == ArchiveEdges(a, table)
         IN /\ inspectZip(a, b) = {} /\ EntryIssues(a) = {} /\ ContentTypesIssues(a) = {}
            /\ checkContentTypeCoverage(a, table) = {}
            /\ \A e \in Parsed(a, table) : decodeXmlPart(e) = {}
            /\ RelsPartIssues(a, table) = {}
            /\ checkMainRelationship(edges, m) = {}
            /\ checkReachability({e.name : e \in a.entries}, edges) = {}
            /\ checkRelationshipReferences(a, table) = {}
<1> DEFINE table == ContentTypes(a)
           edges == ArchiveEdges(a, table)
<1>1. inspectZip(a, b) = {}
  BY DEF validateZipBytes
<1>2. UNION {EntryIssues(a), ContentTypesIssues(a),
             checkContentTypeCoverage(a, table),
             UNION {decodeXmlPart(e) : e \in Parsed(a, table)},
             RelsPartIssues(a, table),
             checkMainRelationship(edges, m),
             checkReachability({e.name : e \in a.entries}, edges),
             checkRelationshipReferences(a, table),
             UNION {checkWordOrder(e.body) :
                      e \in Documents(a, table) \ RelsParts(a, table)}} = {}
  BY <1>1 DEF validateZipBytes
<1> HIDE DEF table, edges
<1>3. /\ EntryIssues(a) = {} /\ ContentTypesIssues(a) = {}
      /\ checkContentTypeCoverage(a, table) = {}
      /\ UNION {decodeXmlPart(e) : e \in Parsed(a, table)} = {}
      /\ RelsPartIssues(a, table) = {}
      /\ checkMainRelationship(edges, m) = {}
      /\ checkReachability({e.name : e \in a.entries}, edges) = {}
      /\ checkRelationshipReferences(a, table) = {}
  BY <1>2
<1>4. \A e \in Parsed(a, table) : decodeXmlPart(e) = {}
  BY <1>3
<1> QED
  BY <1>1, <1>3, <1>4 DEF table, edges

(* The frame is sound, every entry can be read, and no two are spellings of  *)
(* one name.                                                                 *)
LEMMA EveryEntryIsRead ==
  ASSUME NEW a, NEW b \in BOOLEAN, NEW m, Accepted(a, b, m)
  PROVE  /\ a.flaw = "none"
         /\ \A e \in a.entries : e.flaw \in {"none", "descriptor", "encoding"} /\ Readable(e)
         /\ \A e, f \in a.entries : Fold(e.name) = Fold(f.name) => e = f
         /\ EngineOwned \subseteq {e.name : e \in a.entries}
<1>1. WellFormed(a) /\ inspectZip(a, b) = {} /\ EntryIssues(a) = {}
  BY NothingIsReported DEF Accepted
<1>2. a.flaw \in DOMAIN FrameCode /\ a.entries \in SUBSET PackedEntries
  BY <1>1 DEF WellFormed
<1>3. a.flaw = "none"
  BY <1>1, <1>2 DEF inspectZip, FrameCode
<1>4. \A e \in a.entries : Fatal(e, b) => FatalCode[e.flaw] = {}
  BY <1>1, <1>3 DEF inspectZip
<1>5. \A e \in a.entries : e.flaw \notin DOMAIN FatalCode
  BY <1>4 DEF Fatal, FatalCode, Accepted
<1>6. \A e \in a.entries : e.flaw \in DOMAIN HeaderCode => HeaderCode[e.flaw] = {}
  BY <1>1 DEF EntryIssues
<1>7. \A e \in a.entries : e.flaw \in DOMAIN ContentCode => ContentCode[e.flaw] = {}
  BY <1>1 DEF EntryIssues
<1>8. \A e \in a.entries : e.flaw \notin DOMAIN ContentCode
  BY <1>7 DEF ContentCode
<1>9. ASSUME NEW e \in a.entries
      PROVE  e.flaw \in {"none", "descriptor", "encoding"} /\ Readable(e)
  <2>1. e.flaw \in DOMAIN HeaderCode
    BY <1>2, <1>5, <1>8 DEF PackedEntries, Flaws
  <2>2. HeaderCode[e.flaw] = {}
    BY <1>6, <2>1
  <2>3. e.flaw \in {"none", "descriptor", "encoding"}
    BY <2>1, <2>2 DEF HeaderCode
  <2> QED
    BY <2>3 DEF Readable
<1>10. \A e, f \in a.entries : Fold(e.name) = Fold(f.name) => e = f
  BY <1>1 DEF EntryIssues
<1>11. EngineOwned \subseteq {e.name : e \in a.entries}
  BY <1>1 DEF EntryIssues
<1> QED
  BY <1>3, <1>9, <1>10, <1>11

(* The table is the one entry of its name, and is read as it stands.         *)
LEMMA TableIsRead ==
  ASSUME NEW a, NEW b \in BOOLEAN, NEW m, Accepted(a, b, m)
  PROVE  \E t \in a.entries :
           /\ t.name = CONTENT_TYPES_PATH
           /\ \A e \in a.entries : Fold(e.name) = CONTENT_TYPES_PATH => e = t
           /\ decodeXmlPart(t) = {}
           /\ ContentTypes(a).defaults = t.body.defaults
           /\ ContentTypes(a).overrides = t.body.overrides
           /\ \A x, y \in t.body.overrides : Fold(x.name) = Fold(y.name) => x = y
<1>1. CONTENT_TYPES_PATH \in {e.name : e \in a.entries}
  BY EveryEntryIsRead DEF EngineOwned
<1>2. PICK t \in a.entries : t.name = CONTENT_TYPES_PATH
  BY <1>1
<1>3. \A e \in a.entries : Fold(e.name) = CONTENT_TYPES_PATH => e = t
  BY <1>2, EveryEntryIsRead, EngineIsFolded
<1>4. Tables(a) = {t}
  <2>1. Readable(t)
    BY EveryEntryIsRead
  <2>2. \A e \in a.entries : e.name = CONTENT_TYPES_PATH => e = t
    BY <1>3, EngineIsFolded
  <2> QED
    BY <1>2, <2>1, <2>2 DEF Tables
<1>5. ContentTypesIssues(a) = {}
  BY NothingIsReported DEF Accepted
<1>6. decodeXmlPart(t) = {} /\ t.body.root = "Types"
  BY <1>4, <1>5 DEF ContentTypesIssues
<1>7. {e \in Tables(a) : decodeXmlPart(e) = {} /\ e.body.root = "Types"} = {t}
  BY <1>4, <1>6
<1>8. /\ ContentTypes(a).defaults = UNION {e.body.defaults : e \in {t}}
      /\ ContentTypes(a).overrides = UNION {e.body.overrides : e \in {t}}
  BY <1>7 DEF ContentTypes
<1>9. /\ ContentTypes(a).defaults = t.body.defaults
      /\ ContentTypes(a).overrides = t.body.overrides
  BY <1>8
<1>10. \A x, y \in ContentTypes(a).overrides : Fold(x.name) = Fold(y.name) => x = y
  BY <1>5 DEF ContentTypesIssues
<1> QED
  BY <1>2, <1>3, <1>6, <1>9, <1>10

----------------------------------------------------------------------------
(* What is read of an archive that is accepted                              *)

LEMMA FoldTwice ==
  ASSUME NEW p \in Paths
  PROVE  Fold(p) \in Paths /\ Fold(Fold(p)) = Fold(p)
<1>1. Fold(p) \in Paths
  BY DEF Paths, Fold
<1>2. Fold(p).upper = FALSE
  BY DEF Paths, Fold
<1> QED
  BY <1>1, <1>2, FoldOfFolded

LEMMA Unfolded ==
  ASSUME NEW p \in Paths
  PROVE  /\ Fold(p).dir = p.dir /\ Fold(p).base = p.base /\ Fold(p).rels = p.rels
         /\ IsRels(Fold(p)) <=> IsRels(p)
         /\ Extension(Fold(p)) = Extension(p)
<1>1. Fold(p).dir = p.dir /\ Fold(p).base = p.base /\ Fold(p).rels = p.rels
  BY DEF Paths, Fold
<1> QED
  BY <1>1 DEF Extension, IsRels

(* No part is without a type, and no relationship part without its own.      *)
LEMMA EveryPartHasAType ==
  ASSUME NEW a, NEW b \in BOOLEAN, NEW m, Accepted(a, b, m),
         NEW e \in a.entries, Fold(e.name) # CONTENT_TYPES_PATH
  PROVE  /\ contentTypeFor(e.name, ContentTypes(a)) # "none"
         /\ IsRels(e.name) => contentTypeFor(e.name, ContentTypes(a)) = "rels"
<1> DEFINE table == ContentTypes(a)
           Said(p) == LET type == contentTypeFor(p, table)
                      IN IF type = "none" THEN {"E_CONTENTTYPE_UNCOVERED"}
                         ELSE IF IsRels(p) /\ type # "rels" THEN {"E_CONTENTTYPE_BAD_TYPE"}
                         ELSE {}
<1>1. checkContentTypeCoverage(a, table) = {}
  BY NothingIsReported DEF Accepted
<1>2. UNION {Said(f.name) : f \in {g \in a.entries : Fold(g.name) # CONTENT_TYPES_PATH}} = {}
  BY <1>1 DEF checkContentTypeCoverage
<1> HIDE DEF Said
<1>3. Said(e.name) = {}
  BY <1>2
<1> QED
  BY <1>3 DEF Said

(* An Override wins, then the Default of the extension.                      *)
LEMMA TypeOfAPart ==
  ASSUME NEW table, NEW p,
         \A x, y \in table.overrides : Fold(x.name) = Fold(y.name) => x = y
  PROVE  /\ \A o \in table.overrides : Fold(o.name) = Fold(p) => contentTypeFor(p, table) = o.type
         /\ (\A o \in table.overrides : Fold(o.name) # Fold(p)) =>
              contentTypeFor(p, table) =
                IF Extension(p) \in table.defaults THEN Extension(p) ELSE "none"
<1> DEFINE own == {o \in table.overrides : Fold(o.name) = Fold(p)}
<1>1. contentTypeFor(p, table) =
        IF own # {} THEN (CHOOSE o \in own : TRUE).type
        ELSE IF Extension(p) \in table.defaults THEN Extension(p) ELSE "none"
  BY DEF contentTypeFor
<1>2. ASSUME NEW o \in table.overrides, Fold(o.name) = Fold(p)
      PROVE  contentTypeFor(p, table) = o.type
  <2>1. o \in own /\ \A x \in own : x = o
    BY <1>2
  <2> HIDE DEF own
  <2>2. (CHOOSE x \in own : TRUE) = o
    BY <2>1
  <2> QED
    BY <1>1, <2>1, <2>2
<1>3. (\A o \in table.overrides : Fold(o.name) # Fold(p)) => own = {}
  OBVIOUS
<1> QED
  BY <1>1, <1>2, <1>3

(* What is XML, by its Override or its extension, is parsed without a fault. *)
LEMMA XmlIsRead ==
  ASSUME NEW b \in BOOLEAN, NEW m, Accepted(archive, b, m),
         NEW e \in archive.entries, IsXml(e)
  PROVE  /\ decodeXmlPart(e) = {}
         /\ Fold(e.name) # CONTENT_TYPES_PATH =>
              e \in Documents(archive, ContentTypes(archive))
<1>1. PICK table : table = ContentTypes(archive)
  OBVIOUS
<1>2. PICK t \in archive.entries :
        /\ t.name = CONTENT_TYPES_PATH
        /\ \A f \in archive.entries : Fold(f.name) = CONTENT_TYPES_PATH => f = t
        /\ decodeXmlPart(t) = {}
        /\ table.defaults = t.body.defaults /\ table.overrides = t.body.overrides
        /\ \A x, y \in t.body.overrides : Fold(x.name) = Fold(y.name) => x = y
  BY <1>1, TableIsRead
<1>3. Fold(t.name) = CONTENT_TYPES_PATH
  BY <1>2, EngineIsFolded
<1>4. CASE Fold(e.name) = CONTENT_TYPES_PATH
  BY <1>2, <1>4
<1>5. CASE Fold(e.name) # CONTENT_TYPES_PATH
  <2>1. PICK u \in archive.entries :
          /\ u.name = CONTENT_TYPES_PATH
          /\ \/ \E o \in u.body.overrides : Fold(o.name) = Fold(e.name) /\ o.type # "binary"
             \/ Extension(e.name) = "rels"
             \/ /\ ~\E o \in u.body.overrides : Fold(o.name) = Fold(e.name)
                /\ Extension(e.name) = "xml"
    BY DEF IsXml
  <2>2. u = t
    BY <1>2, <2>1, EngineIsFolded
  <2>3. \A o \in table.overrides : o.type \in MediaTypes
    BY <1>2, <1>3 DEF Accepted, WellFormed, WellFormedEntry
  <2>4. contentTypeFor(e.name, table) # "none"
    BY <1>1, <1>5, EveryPartHasAType
  <2>5. /\ \A o \in table.overrides :
             Fold(o.name) = Fold(e.name) => contentTypeFor(e.name, table) = o.type
        /\ (\A o \in table.overrides : Fold(o.name) # Fold(e.name)) =>
             contentTypeFor(e.name, table) =
               IF Extension(e.name) \in table.defaults THEN Extension(e.name) ELSE "none"
    BY <1>2, TypeOfAPart
  <2>6. IsRels(e.name) \/ contentTypeFor(e.name, table) \in {"xml", "rels"}
    <3>1. CASE \E o \in u.body.overrides : Fold(o.name) = Fold(e.name) /\ o.type # "binary"
      BY <1>2, <2>2, <2>3, <2>5, <3>1 DEF MediaTypes
    <3>2. CASE Extension(e.name) = "rels"
      BY <3>2 DEF Extension
    <3>3. CASE /\ ~\E o \in u.body.overrides : Fold(o.name) = Fold(e.name)
               /\ Extension(e.name) = "xml"
      BY <1>2, <2>2, <2>4, <2>5, <3>3
    <3> QED
      BY <2>1, <3>1, <3>2, <3>3
  <2>7. Readable(e)
    BY EveryEntryIsRead
  <2>8. e \in Parsed(archive, table)
    BY <1>5, <2>6, <2>7 DEF Parsed
  <2>9. decodeXmlPart(e) = {}
    BY <1>1, <2>8, NothingIsReported DEF Accepted
  <2> QED
    BY <1>1, <2>8, <2>9 DEF Documents
<1> QED
  BY <1>4, <1>5

(* What the gate reads of the text of a relationship part.                   *)
LEMMA CheckedRelationships ==
  ASSUME NEW e, NEW names, checkRelationships(e, names) = {}
  PROVE  /\ e.body.root = "Relationships" /\ ReadRels(e.body) = DOMAIN e.body.rels
         /\ \A i \in DOMAIN e.body.rels :
              RelIssues(e.body.rels[i], sourceForRels(e.name), names) = {}
<1>1. e.body.root = "Relationships"
  BY DEF checkRelationships
<1> DEFINE Said(i) ==
             IF i \in ReadRels(e.body)
             THEN RelIssues(e.body.rels[i], sourceForRels(e.name), names)
             ELSE IF e.body.rels[i].id = 0 THEN {"E_REL_BAD_TARGET"} ELSE {"E_REL_DUP_RID"}
<1>2. UNION {Said(i) : i \in DOMAIN e.body.rels} = {}
  BY <1>1 DEF checkRelationships
<1> HIDE DEF Said
<1>3. \A i \in DOMAIN e.body.rels : Said(i) = {}
  BY <1>2
<1>4. \A i \in DOMAIN e.body.rels :
        i \in ReadRels(e.body) /\ RelIssues(e.body.rels[i], sourceForRels(e.name), names) = {}
  BY <1>3 DEF Said
<1>5. ReadRels(e.body) \subseteq DOMAIN e.body.rels
  BY DEF ReadRels
<1> QED
  BY <1>1, <1>4, <1>5

(* Every relationship part is read to its last relationship, and belongs to  *)
(* the package or to a part of it.                                           *)
LEMMA RelsAreRead ==
  ASSUME NEW a, NEW b \in BOOLEAN, NEW m, Accepted(a, b, m),
         NEW e \in a.entries, IsRels(e.name), NEW names, names = {f.name : f \in a.entries}
  PROVE  /\ e \in RelsParts(a, ContentTypes(a))
         /\ sourceForRels(e.name) # Nowhere
         /\ Fold(sourceForRels(e.name)) = Root \/ Has(names, sourceForRels(e.name))
         /\ ReadRels(e.body) = DOMAIN e.body.rels /\ e.body.root = "Relationships"
         /\ \A i \in DOMAIN e.body.rels :
              RelIssues(e.body.rels[i], sourceForRels(e.name), names) = {}
<1>1. PICK table : table = ContentTypes(a)
  OBVIOUS
<1>2. e.name \in Paths
  BY DEF Accepted, WellFormed, PackedEntries
<1>3. Fold(e.name) # CONTENT_TYPES_PATH
  <2>1. e.name.rels # 0
    BY <1>2 DEF IsRels, Paths
  <2> QED
    BY <1>2, <2>1, EngineIsFolded, Unfolded
<1>4. e \in Parsed(a, table)
  BY <1>3, EveryEntryIsRead DEF Parsed
<1>5. e \in RelsParts(a, table)
  BY <1>1, <1>4, NothingIsReported DEF Accepted, RelsParts, Documents
<1> DEFINE Said(f) ==
      IF sourceForRels(f.name) = Nowhere THEN {"E_REL_BAD_TARGET"}
      ELSE checkRelationships(f, names)
           \cup (IF Fold(sourceForRels(f.name)) = Root \/ Has(names, sourceForRels(f.name))
                 THEN {} ELSE {"E_REL_BAD_TARGET"})
<1>6. UNION {Said(f) : f \in RelsParts(a, table)} = {}
  <2>1. RelsPartIssues(a, table) = {}
    BY <1>1, NothingIsReported DEF Accepted
  <2> QED
    BY <2>1 DEF RelsPartIssues
<1> HIDE DEF Said
<1>7. Said(e) = {}
  BY <1>5, <1>6
<1>8. /\ sourceForRels(e.name) # Nowhere
      /\ checkRelationships(e, names) = {}
      /\ Fold(sourceForRels(e.name)) = Root \/ Has(names, sourceForRels(e.name))
  BY <1>7 DEF Said
<1> QED
  BY <1>1, <1>5, <1>8, CheckedRelationships

----------------------------------------------------------------------------
(* What relationships lead to                                               *)

(* One more step along the edges.                                            *)
Onward(edges, before) == before \cup {e.to : e \in {d \in edges : d.from \in before}}

IsReach(a, edges, n) ==
  a = [i \in 0..n |-> IF i = 0 THEN {Root} ELSE Onward(edges, a[i - 1])]

LEMMA ReachExists ==
  ASSUME NEW edges, NEW n \in Nat
  PROVE  \E a : IsReach(a, edges, n)
<1> DEFINE F == {k \in Nat : \E a : IsReach(a, edges, k)}
<1>1. 0 \in F
  <2> DEFINE a == [i \in 0..0 |-> {Root}]
  <2>1. a = [i \in 0..0 |-> IF i = 0 THEN {Root} ELSE Onward(edges, a[i - 1])]
    OBVIOUS
  <2> HIDE DEF a
  <2> QED
    BY <2>1 DEF IsReach
<1>2. ASSUME NEW k \in 0..(n - 1), k \in F PROVE k + 1 \in F
  <2>1. PICK a : IsReach(a, edges, k)
    BY <1>2
  <2>2. /\ a = [i \in 0..k |-> IF i = 0 THEN {Root} ELSE Onward(edges, a[i - 1])]
        /\ k \in Nat /\ k + 1 \in Nat
    <3>1. a = [i \in 0..k |-> IF i = 0 THEN {Root} ELSE Onward(edges, a[i - 1])]
      BY <2>1, Zenon DEF IsReach
    <3>2. k \in Nat /\ k + 1 \in Nat
      OBVIOUS
    <3> HIDE DEF F
    <3> QED
      BY <3>1, <3>2
  <2> DEFINE b == [i \in 0..(k + 1) |-> IF i = k + 1 THEN Onward(edges, a[k]) ELSE a[i]]
             r(i) == IF i = 0 THEN {Root} ELSE Onward(edges, b[i - 1])
  <2>3. ASSUME NEW i \in 0..(k + 1) PROVE b[i] = r(i)
    <3>1. CASE i = k + 1
      <4>1. b[i] = Onward(edges, a[k]) /\ b[k] = a[k] /\ i # 0 /\ i - 1 = k
        BY <2>2, <3>1
      <4> QED
        BY <3>1, <4>1
    <3>2. CASE i # k + 1
      <4>1. i \in 0..k /\ b[i] = a[i]
        BY <2>2, <3>2
      <4>2. CASE i = 0
        BY <2>2, <4>1, <4>2
      <4>3. CASE i # 0
        <5>1. a[i] = Onward(edges, a[i - 1])
          BY <2>2, <4>1, <4>3
        <5>2. i - 1 \in 0..(k + 1) /\ i - 1 # k + 1
          BY <2>2, <4>1, <4>3
        <5>3. b[i - 1] = a[i - 1]
          BY <5>2
        <5> QED
          BY <4>1, <4>3, <5>1, <5>3
      <4> QED
        BY <4>2, <4>3
    <3> QED
      BY <3>1, <3>2
  <2>4. b = [i \in 0..(k + 1) |-> b[i]]
    OBVIOUS
  <2>5. b = [i \in 0..(k + 1) |-> r(i)]
    BY <2>3, <2>4
  <2>6. b = [i \in 0..(k + 1) |-> IF i = 0 THEN {Root} ELSE Onward(edges, b[i - 1])]
    BY <2>5
  <2> HIDE DEF b, r
  <2> QED
    BY <2>2, <2>6 DEF IsReach
<1> HIDE DEF F
<1>3. n \in F
  BY <1>1, <1>2, CountingUp
<1> QED
  BY <1>3 DEF F

(* A set that holds the package, and with the source of an edge what it      *)
(* leads to, holds all that is reached.                                      *)
LEMMA ReachedWithin ==
  ASSUME NEW edges, IsFiniteSet(edges), NEW S, Root \in S,
         \A x \in edges : x.from \in S => x.to \in S
  PROVE  Reached(edges) \subseteq S
<1> DEFINE n == Cardinality(edges)
           a == CHOOSE f : IsReach(f, edges, n)
<1>1. n \in Nat
  BY FS_CardinalityType
<1>2. IsReach(a, edges, n)
  BY <1>1, ReachExists
<1>3. Reached(edges) = a[n]
  BY DEF Reached, IsReach, Onward
<1> HIDE DEF a, n
<1>4. a = [i \in 0..n |-> IF i = 0 THEN {Root} ELSE Onward(edges, a[i - 1])]
  BY <1>2 DEF IsReach
<1> DEFINE F == {k \in 0..n : a[k] \subseteq S}
<1>5. 0 \in F
  <2>1. a[0] = {Root}
    BY <1>1, <1>4
  <2> QED
    BY <1>1, <2>1
<1>6. ASSUME NEW k \in 0..(n - 1), k \in F PROVE k + 1 \in F
  <2>1. k + 1 \in 0..n /\ k + 1 # 0 /\ (k + 1) - 1 = k
    BY <1>1
  <2>2. a[k + 1] = Onward(edges, a[k])
    BY <1>4, <2>1
  <2>3. a[k] \subseteq S
    BY <1>6
  <2>4. Onward(edges, a[k]) \subseteq S
    BY <2>3 DEF Onward
  <2> QED
    BY <2>1, <2>2, <2>4
<1> HIDE DEF F
<1>7. n \in F
  BY <1>1, <1>5, <1>6, CountingUp
<1> QED
  BY <1>3, <1>7 DEF F

LEMMA ImageIsFinite ==
  ASSUME NEW f, IsFiniteSet(DOMAIN f)
  PROVE  IsFiniteSet({f[x] : x \in DOMAIN f})
<1> DEFINE T == {f[x] : x \in DOMAIN f}
           g == [x \in DOMAIN f |-> f[x]]
<1>1. g \in Surjection(DOMAIN f, T)
  BY DEF Surjection
<1> HIDE DEF g
<1> QED
  BY <1>1, FS_Surjection

LEMMA EdgesAreFinite ==
  ASSUME NEW a, WellFormed(a), NEW table
  PROVE  IsFiniteSet(ArchiveEdges(a, table))
<1> DEFINE sources == {f \in RelsParts(a, table) : sourceForRels(f.name) # Nowhere}
           Read(e) == {Edge(sourceForRels(e.name), e.body.rels[i]) : i \in ReadRels(e.body)}
           reads == [e \in sources |-> Read(e)]
<1>1. sources \subseteq a.entries
  BY DEF RelsParts, Documents, Parsed
<1>2. IsFiniteSet(sources)
  BY <1>1, FS_Subset DEF WellFormed
<1>3. ASSUME NEW e \in sources PROVE IsFiniteSet(Read(e))
  <2> DEFINE edge == [i \in ReadRels(e.body) |-> Edge(sourceForRels(e.name), e.body.rels[i])]
  <2>1. e.body.rels \in Seq(WrittenRels)
    BY <1>1 DEF WellFormed, PackedEntries, Bodies
  <2>2. /\ Len(e.body.rels) \in Nat /\ DOMAIN e.body.rels = 1..Len(e.body.rels)
    BY <2>1
  <2>3. IsFiniteSet(1..Len(e.body.rels))
    BY <2>2, FS_Interval
  <2>4. ReadRels(e.body) \subseteq 1..Len(e.body.rels)
    BY <2>2 DEF ReadRels
  <2>5. IsFiniteSet(ReadRels(e.body))
    BY <2>3, <2>4, FS_Subset
  <2>6. DOMAIN edge = ReadRels(e.body)
    OBVIOUS
  <2>7. Read(e) = {edge[i] : i \in DOMAIN edge}
    OBVIOUS
  <2> HIDE DEF edge, Read
  <2> QED
    BY <2>5, <2>6, <2>7, ImageIsFinite
<1>4. ArchiveEdges(a, table) = UNION {reads[e] : e \in DOMAIN reads}
  BY DEF ArchiveEdges
<1>5. DOMAIN reads = sources /\ \A e \in sources : reads[e] = Read(e)
  OBVIOUS
<1> HIDE DEF reads, Read, sources
<1>6. IsFiniteSet({reads[e] : e \in DOMAIN reads})
  BY <1>2, <1>5, ImageIsFinite
<1>7. \A T \in {reads[e] : e \in DOMAIN reads} : IsFiniteSet(T)
  BY <1>3, <1>5
<1> QED
  BY <1>4, <1>6, <1>7, FS_UNION

(* An edge is a relationship of a relationship part that belongs somewhere.  *)
LEMMA EdgesAreRelationships ==
  ASSUME NEW a, NEW table, NEW x \in ArchiveEdges(a, table)
  PROVE  \E e \in RelsParts(a, table) : \E i \in ReadRels(e.body) :
           x = Edge(sourceForRels(e.name), e.body.rels[i])
BY DEF ArchiveEdges

----------------------------------------------------------------------------
(* What is accepted is whole                                                *)

LEMMA RootAndNowhere ==
  /\ Root.base = "" /\ Root.dir = <<>> /\ Nowhere.base = "" /\ Nowhere.rels = 0
  /\ Root # Nowhere
<1>1. Root.base = "" /\ Root.dir = <<>>
  BY DEF Root, Path
<1>2. Nowhere.base = "" /\ Nowhere.rels = 0 /\ Nowhere.dir = <<"..">>
  BY DEF Nowhere, Path
<1>3. <<>> # <<"..">>
  OBVIOUS
<1> QED
  BY <1>1, <1>2, <1>3

LEMMA EntriesAreSound ==
  ASSUME NEW b \in BOOLEAN, NEW m, Accepted(archive, b, m), NEW e \in archive.entries
  PROVE  Sound(e) /\ EntriesAt(e.name) = {e}
<1>1. e.flaw \in {"none", "descriptor", "encoding"}
  BY EveryEntryIsRead
<1>2. e.flaw = "encoding" => ~IsXml(e)
  <2> SUFFICES ASSUME e.flaw = "encoding", IsXml(e) PROVE FALSE
    OBVIOUS
  <2>1. decodeXmlPart(e) = {}
    BY XmlIsRead
  <2> QED
    BY <2>1 DEF decodeXmlPart
<1>3. \A f \in archive.entries : Fold(f.name) = Fold(e.name) => f = e
  BY EveryEntryIsRead
<1> QED
  BY <1>1, <1>2, <1>3 DEF Sound, EntriesAt

(* Parts, by their key.                                                      *)
PartKeys ==
  {Fold(e.name) : e \in {f \in archive.entries :
                           ~IsRels(f.name) /\ Fold(f.name) # CONTENT_TYPES_PATH}}

LEMMA PartsAreTyped ==
  ASSUME NEW b \in BOOLEAN, NEW m, Accepted(archive, b, m), NEW p \in PartKeys
  PROVE  \E t \in EntriesAt(CONTENT_TYPES_PATH) :
           Extension(p) = "xml" \/ \E o \in t.body.overrides : Fold(o.name) = p
<1>1. PICK table : table = ContentTypes(archive)
  OBVIOUS
<1>2. PICK t \in archive.entries :
        /\ t.name = CONTENT_TYPES_PATH
        /\ table.defaults = t.body.defaults /\ table.overrides = t.body.overrides
        /\ \A x, y \in t.body.overrides : Fold(x.name) = Fold(y.name) => x = y
  BY <1>1, TableIsRead
<1>3. t \in EntriesAt(CONTENT_TYPES_PATH) /\ Fold(t.name) = CONTENT_TYPES_PATH
  BY <1>2, EngineIsFolded DEF EntriesAt
<1>4. PICK e \in archive.entries :
        p = Fold(e.name) /\ ~IsRels(e.name) /\ Fold(e.name) # CONTENT_TYPES_PATH
  BY DEF PartKeys
<1>5. e.name \in Paths
  BY DEF Accepted, WellFormed, PackedEntries
<1>6. Extension(p) = Extension(e.name) /\ Extension(e.name) # "rels"
  BY <1>4, <1>5, Unfolded DEF Extension
<1>7. contentTypeFor(e.name, table) # "none"
  BY <1>1, <1>4, EveryPartHasAType
<1>8. (\A o \in table.overrides : Fold(o.name) # Fold(e.name)) =>
        contentTypeFor(e.name, table) =
          IF Extension(e.name) \in table.defaults THEN Extension(e.name) ELSE "none"
  BY <1>2, TypeOfAPart
<1>9. table.defaults \subseteq {"rels", "xml"}
  BY <1>2 DEF Accepted, WellFormed, PackedEntries, Bodies
<1>10. (\A o \in table.overrides : Fold(o.name) # Fold(e.name)) => Extension(e.name) = "xml"
  BY <1>6, <1>7, <1>8, <1>9
<1> QED
  BY <1>2, <1>3, <1>4, <1>6, <1>10

(* The source of a relationship part is the package, or the key of a part.   *)
LEMMA SourcesArePlaces ==
  ASSUME NEW b \in BOOLEAN, NEW m, Accepted(archive, b, m),
         NEW e \in archive.entries, IsRels(e.name)
  PROVE  /\ sourceForRels(e.name) \in Paths
         /\ Fold(sourceForRels(e.name)) # Nowhere
         /\ e.name.dir = Append(sourceForRels(e.name).dir, "_rels")
         /\ e.name.base = sourceForRels(e.name).base
         /\ e.name.rels = sourceForRels(e.name).rels + 1
<1>1. PICK names : names = {f.name : f \in archive.entries}
  OBVIOUS
<1>2. PICK q : q = sourceForRels(e.name)
  OBVIOUS
<1>3. q # Nowhere /\ (Fold(q) = Root \/ Has(names, q))
  BY <1>1, <1>2, RelsAreRead
<1>4. e.name \in Paths
  BY DEF Accepted, WellFormed, PackedEntries
<1>5. /\ e.name.dir # <<>> /\ Last(e.name.dir) = "_rels"
      /\ q = [e.name EXCEPT !.dir = Front(@), !.rels = @ - 1]
  BY <1>2, <1>3 DEF sourceForRels
<1>6. PICK d \in Seq(Names) : e.name.dir = Append(d, "_rels") /\ Front(e.name.dir) = d
  <2>1. e.name.dir \in Seq(Names)
    BY <1>4 DEF Paths
  <2>2. /\ Front(e.name.dir) \in Seq(Names)
        /\ e.name.dir = Append(Front(e.name.dir), Last(e.name.dir))
    <3>1. Len(e.name.dir) # 0
      BY <1>5, <2>1
    <3> DEFINE l == Len(e.name.dir)
               f == SubSeq(e.name.dir, 1, l - 1)
    <3>2. f \in Seq(Names) /\ Len(f) = l - 1 /\ \A i \in 1..(l - 1) : f[i] = e.name.dir[i]
      BY <2>1, <3>1
    <3>3. Append(f, e.name.dir[l]) = e.name.dir
      BY <2>1, <3>1, <3>2
    <3> QED
      BY <3>2, <3>3 DEF Front, Last
  <2> QED
    BY <1>5, <2>2
<1>7. e.name.rels \in Nat /\ e.name.rels > 0
  BY <1>4 DEF Paths, IsRels
<1>8. /\ q = [dir |-> d, base |-> e.name.base, rels |-> e.name.rels - 1, upper |-> e.name.upper]
  BY <1>4, <1>5, <1>6 DEF Paths
<1>9. q \in Paths /\ q.dir = d /\ q.base = e.name.base /\ q.rels = e.name.rels - 1
  BY <1>4, <1>7, <1>8 DEF Paths
<1>10. Fold(q) # Nowhere
  <2>1. CASE Fold(q) = Root
    BY <2>1, RootAndNowhere
  <2>2. CASE Has(names, q)
    <3>1. PICK f \in archive.entries : Fold(f.name) = Fold(q)
      BY <1>1, <2>2 DEF Has
    <3>2. f.name \in Paths /\ WellFormedEntry(f)
      BY DEF Accepted, WellFormed, PackedEntries
    <3>3. f.name.base = Fold(q).base /\ f.name.rels = Fold(q).rels
      BY <3>1, <3>2, Unfolded
    <3>4. ASSUME Fold(q) = Nowhere PROVE FALSE
      <4>1. f.name.base = ""
        BY <3>3, <3>4, RootAndNowhere
      <4>2. f.name.rels = 0
        BY <3>3, <3>4, RootAndNowhere
      <4>3. ~IsRels(f.name)
        BY <4>2 DEF IsRels
      <4> QED
        BY <3>2, <4>1, <4>3 DEF WellFormedEntry
    <3> QED
      BY <3>4
  <2> QED
    BY <1>3, <2>1, <2>2
<1>11. e.name.rels = q.rels + 1
  BY <1>7, <1>9
<1> QED
  BY <1>2, <1>6, <1>9, <1>10, <1>11

(* A closed set of parts holds all that relationships lead to, so each part. *)
LEMMA PartsAreReached ==
  ASSUME NEW b \in BOOLEAN, NEW m, Accepted(archive, b, m),
         NEW reached \in SUBSET PartKeys, Closed(reached)
  PROVE  reached = PartKeys
<1>1. PICK table : table = ContentTypes(archive)
  OBVIOUS
<1>2. PICK edges : edges = ArchiveEdges(archive, table)
  OBVIOUS
<1>3. IsFiniteSet(edges)
  BY <1>2, EdgesAreFinite DEF Accepted
<1>4. ASSUME NEW x \in edges, x.from \in reached \cup {Root, Nowhere}
      PROVE  x.to \in reached \cup {Root, Nowhere}
  <2>1. PICK e \in RelsParts(archive, table) : \E i \in ReadRels(e.body) :
          x = Edge(sourceForRels(e.name), e.body.rels[i])
    BY <1>2, EdgesAreRelationships
  <2>2. PICK i \in ReadRels(e.body) : x = Edge(sourceForRels(e.name), e.body.rels[i])
    BY <2>1
  <2>3. e \in archive.entries /\ IsRels(e.name)
    BY DEF RelsParts, Documents, Parsed
  <2>4. i \in DOMAIN e.body.rels
    BY DEF ReadRels
  <2>5. /\ x.from = Fold(sourceForRels(e.name))
        /\ x.to = internalTarget(sourceForRels(e.name), e.body.rels[i])
    BY <2>2 DEF Edge
  <2>6. Fold(sourceForRels(e.name)) # Nowhere
    BY <2>3, SourcesArePlaces
  <2>7. Fold(sourceForRels(e.name)) \in reached \cup {Root}
    BY <1>4, <2>5, <2>6
  <2> QED
    BY <2>3, <2>4, <2>5, <2>7 DEF Closed
<1>5. Reached(edges) \subseteq reached \cup {Root, Nowhere}
  BY <1>3, <1>4, ReachedWithin
<1>6. checkReachability({e.name : e \in archive.entries}, edges) = {}
  BY <1>1, <1>2, NothingIsReported DEF Accepted
<1>7. ASSUME NEW p \in PartKeys PROVE p \in reached
  <2>1. PICK e \in archive.entries :
          p = Fold(e.name) /\ ~IsRels(e.name) /\ Fold(e.name) # CONTENT_TYPES_PATH
    BY DEF PartKeys
  <2>2. Fold(e.name) \in Reached(edges)
    BY <1>6, <2>1 DEF checkReachability
  <2>3. e.name \in Paths /\ e.name.base # ""
    BY <2>1 DEF Accepted, WellFormed, PackedEntries, WellFormedEntry
  <2>4. p.base # ""
    BY <2>1, <2>3, Unfolded
  <2>5. p # Root /\ p # Nowhere
    BY <2>4, RootAndNowhere
  <2> QED
    BY <1>5, <2>1, <2>2, <2>5
<1> QED
  BY <1>7

(* An internal relationship has its target in the package.                   *)
LEMMA TargetsAreThere ==
  ASSUME NEW b \in BOOLEAN, NEW m, Accepted(archive, b, m),
         NEW e \in archive.entries, NEW i \in DOMAIN e.body.rels,
         e.body.rels[i].mode = "internal"
  PROVE  EntriesAt(internalTarget(sourceForRels(e.name), e.body.rels[i])) # {}
<1>1. PICK names : names = {f.name : f \in archive.entries}
  OBVIOUS
<1>2. PICK q : q = sourceForRels(e.name)
  OBVIOUS
<1>3. PICK rel : rel = e.body.rels[i]
  OBVIOUS
<1>4. IsRels(e.name)
  <2>1. WellFormedEntry(e)
    BY DEF Accepted, WellFormed
  <2>2. e.body.rels # <<>>
    OBVIOUS
  <2> QED
    BY <2>1, <2>2 DEF WellFormedEntry
<1>5. RelIssues(rel, q, names) = {}
  BY <1>1, <1>2, <1>3, <1>4, RelsAreRead
<1>6. rel.mode = "internal" /\ rel.target.form \notin {"external", "drive"}
  BY <1>3, <1>5 DEF RelIssues
<1>7. checkInternalTarget(q, rel.target, names) = {}
  BY <1>5, <1>6 DEF RelIssues
<1>8. PICK hit : hit = resolveRelTarget(q, rel.target)
  OBVIOUS
<1>9. hit # Nowhere /\ Has(names, hit)
  BY <1>7, <1>8 DEF checkInternalTarget
<1>10. internalTarget(q, rel) = Fold(hit)
  BY <1>6, <1>8 DEF internalTarget
<1>11. PICK f \in archive.entries : Fold(f.name) = Fold(hit)
  BY <1>1, <1>9 DEF Has
<1>12. f.name \in Paths
  BY DEF Accepted, WellFormed, PackedEntries
<1>13. Fold(Fold(hit)) = Fold(f.name)
  BY <1>11, <1>12, FoldTwice
<1>14. f \in EntriesAt(Fold(hit))
  BY <1>13 DEF EntriesAt
<1> QED
  BY <1>2, <1>3, <1>10, <1>14

(* A document's reference is to one relationship of its own.                 *)
LEMMA ReferencesAreThere ==
  ASSUME NEW b \in BOOLEAN, NEW m, Accepted(archive, b, m),
         NEW e \in archive.entries, IsXml(e), ~IsRels(e.name), NEW r \in e.body.refs
  PROVE  \E s \in EntriesAt(relsPathForPart(e.name)) :
           Cardinality({i \in DOMAIN s.body.rels : s.body.rels[i].id = r}) = 1
<1>1. PICK table : table = ContentTypes(archive)
  OBVIOUS
<1>2. Fold(e.name) # CONTENT_TYPES_PATH
  BY DEF Accepted, WellFormed, WellFormedEntry
<1>3. e \in Documents(archive, table) \ RelsParts(archive, table)
  BY <1>1, <1>2, XmlIsRead DEF RelsParts
<1>4. checkRelationshipReferences(archive, table) = {}
  BY <1>1, NothingIsReported DEF Accepted
<1>5. PICK s \in RelsParts(archive, table) :
        /\ Fold(s.name) = Fold(relsPathForPart(e.name))
        /\ \E i \in ReadRels(s.body) : s.body.rels[i].id = r
  BY <1>3, <1>4 DEF checkRelationshipReferences
<1>6. PICK i \in ReadRels(s.body) : s.body.rels[i].id = r
  BY <1>5
<1>7. s \in archive.entries /\ IsRels(s.name)
  BY DEF RelsParts, Documents, Parsed
<1>8. ReadRels(s.body) = DOMAIN s.body.rels /\ s.body.root = "Relationships"
  BY <1>7, RelsAreRead
<1>9. \A j \in DOMAIN s.body.rels : \A k \in 1..(j - 1) : s.body.rels[k].id # s.body.rels[j].id
  BY <1>8 DEF ReadRels
<1>10. s.body.rels \in Seq(WrittenRels)
  BY <1>7 DEF Accepted, WellFormed, PackedEntries, Bodies
<1>11. ASSUME NEW j \in DOMAIN s.body.rels, s.body.rels[j].id = r PROVE j = i
  <2>1. i \in Nat /\ j \in Nat /\ i >= 1 /\ j >= 1
    BY <1>8, <1>10
  <2>2. ~(j \in 1..(i - 1)) /\ ~(i \in 1..(j - 1))
    BY <1>6, <1>8, <1>9, <1>11
  <2> QED
    BY <2>1, <2>2
<1>12. {j \in DOMAIN s.body.rels : s.body.rels[j].id = r} = {i}
  BY <1>6, <1>8, <1>11
<1>13. Cardinality({j \in DOMAIN s.body.rels : s.body.rels[j].id = r}) = 1
  BY <1>12, FS_Singleton
<1>14. s \in EntriesAt(relsPathForPart(e.name))
  BY <1>5, <1>7 DEF EntriesAt
<1> QED
  BY <1>13, <1>14

(* The main relationship that was required is among the package's own.       *)
LEMMA MainIsThere ==
  ASSUME NEW b \in BOOLEAN, Accepted(archive, b, main), main # NoMain
  PROVE  \E s \in EntriesAt(PACKAGE_RELS_PATH) : \E i \in DOMAIN s.body.rels :
           /\ internalTarget(Root, s.body.rels[i]) = Fold(resolveRelTarget(Root, main.target))
           /\ s.body.rels[i].type = main.type
<1>1. PICK table : table = ContentTypes(archive)
  OBVIOUS
<1>2. PICK edges : edges = ArchiveEdges(archive, table)
  OBVIOUS
<1>3. checkMainRelationship(edges, main) = {}
  BY <1>1, <1>2, NothingIsReported DEF Accepted
<1>4. PICK x \in edges : /\ x.from = Root
                         /\ x.to = Fold(resolveRelTarget(Root, main.target))
                         /\ x.type = main.type
  BY <1>3 DEF checkMainRelationship
<1>5. PICK s \in RelsParts(archive, table) : \E i \in ReadRels(s.body) :
        x = Edge(sourceForRels(s.name), s.body.rels[i])
  BY <1>2, EdgesAreRelationships
<1>6. PICK i \in ReadRels(s.body) : x = Edge(sourceForRels(s.name), s.body.rels[i])
  BY <1>5
<1>7. s \in archive.entries /\ IsRels(s.name) /\ i \in DOMAIN s.body.rels
  BY DEF RelsParts, Documents, Parsed, ReadRels
<1>8. PICK q : q = sourceForRels(s.name)
  OBVIOUS
<1>9. /\ Fold(q) = Root /\ x.to = internalTarget(q, s.body.rels[i])
      /\ s.body.rels[i].type = main.type
  BY <1>4, <1>6, <1>8 DEF Edge
<1>10. /\ q \in Paths /\ s.name.dir = Append(q.dir, "_rels")
       /\ s.name.base = q.base /\ s.name.rels = q.rels + 1
  BY <1>7, <1>8, SourcesArePlaces
<1>11. Root \in Paths /\ Fold(Root) = Fold(q)
  <2>1. Root \in Paths
    BY EngineIsFolded
  <2>2. Fold(Root) = Root
    BY <1>9, <1>10, FoldTwice
  <2> QED
    BY <1>9, <2>1, <2>2
<1>12. s.name \in Paths
  BY <1>7 DEF Accepted, WellFormed, PackedEntries
<1>13. Fold(s.name) = Fold(PACKAGE_RELS_PATH)
  <2>1. Fold(s.name) = Fold(relsPathForPart(q))
    <3>1. PICK z : z = relsPathForPart(q)
      OBVIOUS
    <3>2. z \in Paths /\ z.dir = Append(q.dir, "_rels") /\ z.base = q.base /\ z.rels = q.rels + 1
      BY <1>10, <3>1, RelsPath
    <3>3. s.name.dir = z.dir /\ s.name.base = z.base /\ s.name.rels = z.rels
      BY <1>10, <3>2
    <3> QED
      BY <1>12, <3>1, <3>2, <3>3, FoldedPath
  <2>2. Fold(relsPathForPart(q)) = Fold(relsPathForPart(Root))
    BY <1>10, <1>11, RelsPathFolds
  <2> QED
    BY <2>1, <2>2 DEF PACKAGE_RELS_PATH
<1>14. s \in EntriesAt(PACKAGE_RELS_PATH)
  BY <1>7, <1>13 DEF EntriesAt
<1>15. internalTarget(Root, s.body.rels[i]) = internalTarget(q, s.body.rels[i])
  BY <1>10, <1>11, SameTarget
<1> QED
  BY <1>4, <1>7, <1>9, <1>14, <1>15

LEMMA AcceptedAreWhole ==
  ASSUME NEW b \in BOOLEAN, Accepted(archive, b, main)
  PROVE  Whole
<1>1. archive.flaw = "none" /\ EngineOwned \subseteq {e.name : e \in archive.entries}
  BY EveryEntryIsRead
<1>2. \A e \in archive.entries : Sound(e) /\ EntriesAt(e.name) = {e}
  BY EntriesAreSound
<1>3. \A p \in PartKeys : \E t \in EntriesAt(CONTENT_TYPES_PATH) :
        Extension(p) = "xml" \/ \E o \in t.body.overrides : Fold(o.name) = p
  BY PartsAreTyped
<1>4. \A reached \in SUBSET PartKeys : Closed(reached) => reached = PartKeys
  BY PartsAreReached
<1>5. \A e \in archive.entries : \A i \in DOMAIN e.body.rels :
        e.body.rels[i].mode = "internal" =>
          EntriesAt(internalTarget(sourceForRels(e.name), e.body.rels[i])) # {}
  BY TargetsAreThere
<1>6. \A e \in {f \in archive.entries : IsXml(f) /\ ~IsRels(f.name)} :
        \A r \in e.body.refs : \E s \in EntriesAt(relsPathForPart(e.name)) :
          Cardinality({i \in DOMAIN s.body.rels : s.body.rels[i].id = r}) = 1
  BY ReferencesAreThere
<1>7. main = NoMain \/ \E s \in EntriesAt(PACKAGE_RELS_PATH) : \E i \in DOMAIN s.body.rels :
        /\ internalTarget(Root, s.body.rels[i]) = Fold(resolveRelTarget(Root, main.target))
        /\ s.body.rels[i].type = main.type
  BY MainIsThere
<1> QED
  BY <1>1, <1>2, <1>3, <1>4, <1>5, <1>6, <1>7, Zenon DEF Whole, PartKeys

----------------------------------------------------------------------------
(* An altered archive is well formed                                        *)

LEMMA WithOverrides ==
  ASSUME NEW e \in PackedEntries, WellFormedEntry(e),
         NEW os \in SUBSET [name : Paths, type : Types],
         \A o \in os : o \in e.body.overrides \/ o.type \in MediaTypes,
         NEW f, f = [e EXCEPT !.body.overrides = os]
  PROVE  f \in PackedEntries /\ WellFormedEntry(f)
<1>1. PICK o : o = [e.body EXCEPT !.overrides = os]
  OBVIOUS
<1>2. e.body \in Bodies
  BY DEF PackedEntries
<1>3. /\ o \in Bodies /\ o.refs = e.body.refs /\ o.rels = e.body.rels
      /\ o.defaults = e.body.defaults /\ o.overrides = os
  BY <1>1, <1>2 DEF Bodies
<1>4. f = [e EXCEPT !.body = o]
  BY <1>1
<1>5. f \in PackedEntries /\ f.name = e.name /\ f.body = o
  BY <1>3, <1>4 DEF PackedEntries
<1> QED
  BY <1>3, <1>5 DEF WellFormedEntry

LEMMA WithRels ==
  ASSUME NEW e \in PackedEntries, WellFormedEntry(e), e.body.rels # <<>>,
         NEW rels \in Seq(WrittenRels), NEW f, f = [e EXCEPT !.body.rels = rels]
  PROVE  f \in PackedEntries /\ WellFormedEntry(f)
<1>1. PICK o : o = [e.body EXCEPT !.rels = rels]
  OBVIOUS
<1>2. e.body \in Bodies
  BY DEF PackedEntries
<1>3. /\ o \in Bodies /\ o.refs = e.body.refs
      /\ o.defaults = e.body.defaults /\ o.overrides = e.body.overrides
  BY <1>1, <1>2 DEF Bodies
<1>4. f = [e EXCEPT !.body = o]
  BY <1>1
<1>5. f \in PackedEntries /\ f.name = e.name /\ f.body = o
  BY <1>3, <1>4 DEF PackedEntries
<1> QED
  BY <1>3, <1>5 DEF WellFormedEntry

LEMMA Respelled ==
  ASSUME NEW e \in PackedEntries, WellFormedEntry(e), NEW f, f = [e EXCEPT !.name.upper = ~@]
  PROVE  f \in PackedEntries /\ WellFormedEntry(f)
<1>1. PICK n : n = [e.name EXCEPT !.upper = ~@]
  OBVIOUS
<1>2. e.name \in Paths
  BY DEF PackedEntries
<1>3. n \in Paths
  BY <1>1, <1>2 DEF Paths
<1>4. n.dir = e.name.dir /\ n.base = e.name.base /\ n.rels = e.name.rels
  BY <1>1, <1>2 DEF Paths
<1>5. Fold(n) = Fold(e.name)
  BY <1>2, <1>3, <1>4, FoldedPath
<1>6. f = [e EXCEPT !.name = n]
  BY <1>1
<1>7. f \in PackedEntries /\ f.name = n /\ f.body = e.body
  BY <1>3, <1>6 DEF PackedEntries
<1> QED
  BY <1>4, <1>5, <1>7 DEF WellFormedEntry, IsRels

LEMMA Misplaced ==
  ASSUME NEW e \in PackedEntries, WellFormedEntry(e),
         NEW f, f = [e EXCEPT !.name.dir = Append(@, "else")]
  PROVE  f \in PackedEntries /\ WellFormedEntry(f)
<1>1. e.name \in Paths /\ e.name.dir \in Seq(Names)
  BY DEF PackedEntries, Paths
<1>2. PICK d : d = Append(e.name.dir, "else")
  OBVIOUS
<1>3. "else" \in Names
  BY NamesAssumption
<1>4. d \in Seq(Names) /\ d # <<>>
  BY <1>1, <1>2, <1>3
<1>5. PICK n : n = [e.name EXCEPT !.dir = d]
  OBVIOUS
<1>6. n \in Paths /\ n.dir = d /\ n.base = e.name.base /\ n.rels = e.name.rels
  BY <1>1, <1>4, <1>5 DEF Paths
<1>7. CONTENT_TYPES_PATH.dir = <<>>
  BY DEF CONTENT_TYPES_PATH, Path
<1>8. Fold(n) # CONTENT_TYPES_PATH
  BY <1>4, <1>6, <1>7, Unfolded
<1>9. f = [e EXCEPT !.name = n]
  BY <1>2, <1>5
<1>10. f \in PackedEntries /\ f.name = n /\ f.body = e.body
  BY <1>6, <1>9 DEF PackedEntries
<1> QED
  BY <1>6, <1>8, <1>10 DEF WellFormedEntry, IsRels

LEMMA FlawIsAFlaw ==
  ASSUME NEW e \in PackedEntries, WellFormedEntry(e),
         NEW w \in Flaws, NEW f, f = [e EXCEPT !.flaw = w]
  PROVE  f \in PackedEntries /\ WellFormedEntry(f)
<1>1. f \in PackedEntries /\ f.name = e.name /\ f.body = e.body
  BY DEF PackedEntries
<1> QED
  BY <1>1 DEF WellFormedEntry

LEMMA Shortened ==
  ASSUME NEW e \in PackedEntries, WellFormedEntry(e), e.body.rels # <<>>,
         NEW f, f = [e EXCEPT !.body.rels = Front(@)]
  PROVE  f \in PackedEntries /\ WellFormedEntry(f)
<1>1. PICK rels : rels = e.body.rels
  OBVIOUS
<1>2. rels \in Seq(WrittenRels) /\ Len(rels) # 0
  BY <1>1 DEF PackedEntries, Bodies
<1>3. PICK front : front = SubSeq(rels, 1, Len(rels) - 1)
  OBVIOUS
<1>4. front \in Seq(WrittenRels)
  BY <1>2, <1>3
<1>5. Front(rels) = front
  BY <1>3 DEF Front
<1>6. f = [e EXCEPT !.body.rels = front]
  BY <1>1, <1>5
<1> QED
  BY <1>4, <1>6, WithRels

LEMMA Rewritten ==
  ASSUME NEW e \in PackedEntries, WellFormedEntry(e), e.body.rels # <<>>,
         NEW r \in WrittenRels, NEW f, f = [e EXCEPT !.body.rels[Len(e.body.rels)] = r]
  PROVE  f \in PackedEntries /\ WellFormedEntry(f)
<1>1. PICK rels : rels = e.body.rels
  OBVIOUS
<1>2. rels \in Seq(WrittenRels) /\ Len(rels) \in 1..Len(rels)
  BY <1>1 DEF PackedEntries, Bodies
<1>3. PICK others : others = [rels EXCEPT ![Len(rels)] = r]
  OBVIOUS
<1>4. others \in Seq(WrittenRels)
  BY <1>2, <1>3, ExceptSeq
<1>5. f = [e EXCEPT !.body.rels = others]
  BY <1>1, <1>3
<1> QED
  BY <1>4, <1>5, WithRels

LEMMA LastIsWritten ==
  ASSUME NEW e \in PackedEntries, e.body.rels # <<>>
  PROVE  e.body.rels[Len(e.body.rels)] \in WrittenRels
<1>1. e.body.rels \in Seq(WrittenRels)
  BY DEF PackedEntries, Bodies
<1> QED
  BY <1>1

LEMMA RewrittenField ==
  ASSUME NEW e \in PackedEntries, WellFormedEntry(e), e.body.rels # <<>>
  PROVE  /\ \A n \in Nat : \A f : f = [e EXCEPT !.body.rels[Len(e.body.rels)].id = n] =>
              f \in PackedEntries /\ WellFormedEntry(f)
         /\ \A t \in RelTypes : \A f : f = [e EXCEPT !.body.rels[Len(e.body.rels)].type = t] =>
              f \in PackedEntries /\ WellFormedEntry(f)
<1>1. PICK last : last = e.body.rels[Len(e.body.rels)]
  OBVIOUS
<1>2. last \in WrittenRels
  BY <1>1, LastIsWritten
<1>3. ASSUME NEW n \in Nat, NEW f, f = [e EXCEPT !.body.rels[Len(e.body.rels)].id = n]
      PROVE  f \in PackedEntries /\ WellFormedEntry(f)
  <2>1. PICK r : r = [last EXCEPT !.id = n]
    OBVIOUS
  <2>2. r \in WrittenRels
    BY <1>2, <2>1 DEF WrittenRels
  <2>3. f = [e EXCEPT !.body.rels[Len(e.body.rels)] = r]
    BY <1>1, <1>3, <2>1
  <2> QED
    BY <2>2, <2>3, Rewritten
<1>4. ASSUME NEW t \in RelTypes, NEW f, f = [e EXCEPT !.body.rels[Len(e.body.rels)].type = t]
      PROVE  f \in PackedEntries /\ WellFormedEntry(f)
  <2>1. PICK r : r = [last EXCEPT !.type = t]
    OBVIOUS
  <2>2. r \in WrittenRels
    BY <1>2, <2>1 DEF WrittenRels
  <2>3. f = [e EXCEPT !.body.rels[Len(e.body.rels)] = r]
    BY <1>1, <1>4, <2>1
  <2> QED
    BY <2>2, <2>3, Rewritten
<1> QED
  BY <1>3, <1>4

LEMMA AlteredEntryIsWellFormed ==
  ASSUME NEW e \in PackedEntries, WellFormedEntry(e), NEW f \in AlteredEntries(e)
  PROVE  f \in PackedEntries /\ WellFormedEntry(f)
<1>1. CASE f = [e EXCEPT !.name.upper = ~@]
  BY <1>1, Respelled
<1>2. CASE f = [e EXCEPT !.name.dir = Append(@, "else")]
  BY <1>2, Misplaced
<1>3. CASE f \in {[e EXCEPT !.flaw = w] :
                    w \in DOMAIN FatalCode \cup DOMAIN HeaderCode \cup DOMAIN ContentCode}
  <2>1. PICK w \in Flaws : f = [e EXCEPT !.flaw = w]
    BY <1>3 DEF Flaws
  <2> QED
    BY <2>1, FlawIsAFlaw
<1>0. e.body.overrides \in SUBSET [name : Paths, type : Types]
  BY DEF PackedEntries, Bodies
<1>4. CASE f \in {[e EXCEPT !.body.overrides = @ \ {o}] : o \in e.body.overrides}
  <2>1. PICK o \in e.body.overrides : f = [e EXCEPT !.body.overrides = @ \ {o}]
    BY <1>4
  <2>2. PICK os : os = e.body.overrides \ {o}
    OBVIOUS
  <2>3. f = [e EXCEPT !.body.overrides = os]
    BY <2>1, <2>2
  <2>4. os \in SUBSET [name : Paths, type : Types] /\ \A x \in os : x \in e.body.overrides
    BY <1>0, <2>2
  <2> QED
    BY <2>3, <2>4, WithOverrides
<1>5. CASE f \in {[e EXCEPT !.body.overrides = (@ \ {o}) \cup {[o EXCEPT !.type = t]}] :
                    o \in e.body.overrides, t \in MediaTypes}
  <2>1. PICK o \in e.body.overrides, t \in MediaTypes :
          f = [e EXCEPT !.body.overrides = (@ \ {o}) \cup {[o EXCEPT !.type = t]}]
    BY <1>5
  <2>2. PICK x : x = [o EXCEPT !.type = t]
    OBVIOUS
  <2>3. x \in [name : Paths, type : Types] /\ x.type \in MediaTypes
    BY <1>0, <2>2 DEF Types
  <2>4. PICK os : os = (e.body.overrides \ {o}) \cup {x}
    OBVIOUS
  <2>5. f = [e EXCEPT !.body.overrides = os]
    BY <2>1, <2>2, <2>4
  <2>6. /\ os \in SUBSET [name : Paths, type : Types]
        /\ \A y \in os : y \in e.body.overrides \/ y.type \in MediaTypes
    BY <1>0, <2>3, <2>4
  <2> QED
    BY <2>5, <2>6, WithOverrides
<1>6. CASE /\ e.body.rels # <<>>
           /\ f = [e EXCEPT !.body.rels = Front(@)]
  BY <1>6, Shortened
<1>7. CASE /\ e.body.rels # <<>>
           /\ f \in {[e EXCEPT !.body.rels[Len(e.body.rels)].id = n] : n \in 0..2}
  <2>1. PICK n \in 0..2 : f = [e EXCEPT !.body.rels[Len(e.body.rels)].id = n]
    BY <1>7
  <2>2. n \in Nat
    OBVIOUS
  <2> QED
    BY <1>7, <2>1, <2>2, RewrittenField
<1>8. CASE /\ e.body.rels # <<>>
           /\ f \in {[e EXCEPT !.body.rels[Len(e.body.rels)].type = t] : t \in RelTypes}
  <2>1. PICK t \in RelTypes : f = [e EXCEPT !.body.rels[Len(e.body.rels)].type = t]
    BY <1>8
  <2> QED
    BY <1>8, <2>1, RewrittenField
<1> QED
  <2>1. CASE f \in Renamed(e)
    BY <1>1, <1>2, <2>1 DEF Renamed
  <2>2. CASE f \in Flawed(e)
    BY <1>3, <2>2 DEF Flawed
  <2>3. CASE f \in Retyped(e)
    BY <1>4, <1>5, <2>3 DEF Retyped
  <2>4. CASE e.body.rels # <<>> /\ f \in Redirected(e)
    BY <1>6, <1>7, <1>8, <2>4 DEF Redirected
  <2> QED
    BY <2>1, <2>2, <2>3, <2>4 DEF AlteredEntries

(* An alteration of the archive is one of its frame, the loss of an entry,   *)
(* the alteration of one, or a second entry of one name.                     *)
LEMMA AlterationsByKind ==
  ASSUME NEW x \in Alterations
  PROVE  \/ \E f \in DOMAIN FrameCode : x = [archive EXCEPT !.flaw = f]
         \/ \E e \in archive.entries :
              \/ x = [archive EXCEPT !.entries = @ \ {e}]
              \/ \E f \in AlteredEntries(e) :
                   \/ x = [archive EXCEPT !.entries = (@ \ {e}) \cup {f}]
                   \/ x = [archive EXCEPT !.entries = @ \cup {f}]
<1> DEFINE Some(e) ==
             {[archive EXCEPT !.entries = @ \ {e}],
              [archive EXCEPT !.entries = @ \cup {[e EXCEPT !.name.upper = ~@]}]}
             \cup {[archive EXCEPT !.entries = (@ \ {e}) \cup {f}] : f \in AlteredEntries(e)}
<1>1. Alterations = {[archive EXCEPT !.flaw = f] : f \in DOMAIN FrameCode \ {"none"}}
                    \cup UNION {Some(e) : e \in archive.entries}
  BY Zenon DEF Alterations
<1>2. ASSUME NEW e \in archive.entries, x \in Some(e)
      PROVE  \/ x = [archive EXCEPT !.entries = @ \ {e}]
             \/ \E f \in AlteredEntries(e) :
                  \/ x = [archive EXCEPT !.entries = (@ \ {e}) \cup {f}]
                  \/ x = [archive EXCEPT !.entries = @ \cup {f}]
  <2>1. PICK up : up = [e EXCEPT !.name.upper = ~@]
    OBVIOUS
  <2>2. up \in AlteredEntries(e)
    BY <2>1 DEF AlteredEntries, Renamed
  <2>3. CASE x = [archive EXCEPT !.entries = @ \cup {up}]
    BY <2>2, <2>3
  <2>4. CASE \/ x = [archive EXCEPT !.entries = @ \ {e}]
             \/ \E f \in AlteredEntries(e) : x = [archive EXCEPT !.entries = (@ \ {e}) \cup {f}]
    BY <2>4, Zenon
  <2> QED
    BY <1>2, <2>1, <2>3, <2>4
<1> HIDE DEF Some
<1> QED
  BY <1>1, <1>2

LEMMA AlteredIsWellFormed ==
  ASSUME WellFormed(archive), NEW x \in Alterations
  PROVE  WellFormed(x)
<1>1. /\ archive \in [flaw : DOMAIN FrameCode, entries : SUBSET PackedEntries]
      /\ IsFiniteSet(archive.entries) /\ \A e \in archive.entries : WellFormedEntry(e)
  BY DEF WellFormed
<1>2. ASSUME NEW w \in DOMAIN FrameCode, x = [archive EXCEPT !.flaw = w] PROVE WellFormed(x)
  BY <1>1, <1>2 DEF WellFormed
<1>3. ASSUME NEW E \in SUBSET PackedEntries, IsFiniteSet(E), x = [archive EXCEPT !.entries = E],
             \A e \in E : WellFormedEntry(e)
      PROVE  WellFormed(x)
  BY <1>1, <1>3 DEF WellFormed
<1>4. ASSUME NEW e \in archive.entries, x = [archive EXCEPT !.entries = @ \ {e}]
      PROVE  WellFormed(x)
  <2>1. PICK E : E = archive.entries \ {e}
    OBVIOUS
  <2>2. E \subseteq archive.entries /\ E \in SUBSET PackedEntries
    BY <1>1, <2>1
  <2>3. IsFiniteSet(E)
    BY <1>1, <2>2, FS_Subset
  <2> QED
    BY <1>1, <1>3, <1>4, <2>1, <2>2, <2>3
<1>5. ASSUME NEW e \in archive.entries, NEW f \in AlteredEntries(e),
             x = [archive EXCEPT !.entries = (@ \ {e}) \cup {f}] \/ x = [archive EXCEPT !.entries = @ \cup {f}]
      PROVE  WellFormed(x)
  <2>1. f \in PackedEntries /\ WellFormedEntry(f)
    BY <1>1, AlteredEntryIsWellFormed
  <2>2. PICK E : /\ x = [archive EXCEPT !.entries = E]
                 /\ E = (archive.entries \ {e}) \cup {f} \/ E = archive.entries \cup {f}
    BY <1>5
  <2>3. E \in SUBSET PackedEntries /\ \A g \in E : WellFormedEntry(g)
    BY <1>1, <2>1, <2>2
  <2>4. E \subseteq archive.entries \cup {f}
    BY <2>2
  <2>5. IsFiniteSet(archive.entries \cup {f})
    BY <1>1, FS_AddElement
  <2>6. IsFiniteSet(E)
    BY <2>4, <2>5, FS_Subset
  <2> QED
    BY <1>3, <2>2, <2>3, <2>6
<1> QED
  BY <1>2, <1>4, <1>5, AlterationsByKind

----------------------------------------------------------------------------
(* What the builder packs is well formed                                    *)

LEMMA NumberedTyped ==
  ASSUME NEW rels \in Seq(Rels)
  PROVE  NumberedRels(rels) \in Seq(WrittenRels)
<1> DEFINE w(i) == [id |-> i, type |-> rels[i].type, target |-> rels[i].target,
                    mode |-> rels[i].mode]
<1>1. Len(rels) \in Nat /\ DOMAIN rels = 1..Len(rels)
  OBVIOUS
<1>2. ASSUME NEW i \in 1..Len(rels) PROVE w(i) \in WrittenRels
  <2>1. rels[i] \in Rels /\ i \in Nat
    BY <1>1
  <2> QED
    BY <2>1 DEF Rels, WrittenRels
<1>3. NumberedRels(rels) = [i \in 1..Len(rels) |-> w(i)]
  BY <1>1 DEF NumberedRels
<1> HIDE DEF w
<1>4. [i \in 1..Len(rels) |-> w(i)] \in Seq(WrittenRels)
  BY <1>1, <1>2, IsASeq
<1> QED
  BY <1>3, <1>4

LEMMA RelsBodyTyped ==
  ASSUME NEW rels \in Seq(Rels)
  PROVE  RelsBody(rels) \in Bodies
<1>1. PICK w : w = NumberedRels(rels)
  OBVIOUS
<1>2. w \in Seq(WrittenRels)
  BY <1>1, NumberedTyped
<1> QED
  BY <1>1, <1>2 DEF RelsBody, Bodies

LEMMA DeclaredTyped ==
  ASSUME NEW s \in Specs, NEW d
  PROVE  DeclaredRels(s, d) \in Seq(Rels)
<1> DEFINE at == {i \in DOMAIN s.partRels : Fold(s.partRels[i].source) = Fold(d)}
<1>1. s.partRels \in Seq(PartRelPool) /\ Len(s.partRels) \in Nat
  BY DEF Specs
<1>2. at \in SUBSET (1..Len(s.partRels))
  BY <1>1
<1>3. DeclaredRels(s, d) = [n \in 1..Cardinality(at) |-> s.partRels[Nth(at, n)].rel]
  BY DEF DeclaredRels
<1> HIDE DEF at
<1>4. Cardinality(at) \in Nat /\ \A n \in 1..Cardinality(at) : Nth(at, n) \in at
  BY <1>1, <1>2, NthFacts
<1> DEFINE r(n) == s.partRels[Nth(at, n)].rel
<1>5. ASSUME NEW n \in 1..Cardinality(at) PROVE r(n) \in Rels
  <2>1. Nth(at, n) \in 1..Len(s.partRels)
    BY <1>2, <1>4
  <2>2. s.partRels[Nth(at, n)] \in PartRelPool
    BY <1>1, <2>1
  <2> QED
    BY <2>2, RelPoolsAssumption
<1>6. DeclaredRels(s, d) = [n \in 1..Cardinality(at) |-> r(n)]
  BY <1>3
<1> HIDE DEF r
<1>7. [n \in 1..Cardinality(at) |-> r(n)] \in Seq(Rels)
  BY <1>4, <1>5, IsASeq
<1> QED
  BY <1>6, <1>7

LEMMA EntriesAreFinite ==
  ASSUME NEW s \in Specs
  PROVE  IsFiniteSet(Entries(s)) /\ IsFiniteSet(Sources(s))
<1> DEFINE source == [i \in DOMAIN s.partRels |-> s.partRels[i].source]
           scope == [d \in Sources(s) |-> ScopeEntry(s, d)]
           part == [i \in DOMAIN s.parts |-> PartEntry(s, i)]
<1>1. /\ Len(s.partRels) \in Nat /\ DOMAIN s.partRels = 1..Len(s.partRels)
      /\ Len(s.parts) \in Nat /\ DOMAIN s.parts = 1..Len(s.parts)
  BY DEF Specs
<1>2. IsFiniteSet(DOMAIN s.partRels) /\ IsFiniteSet(DOMAIN s.parts)
  BY <1>1, FS_Interval
<1>3. /\ DOMAIN source = DOMAIN s.partRels /\ DOMAIN scope = Sources(s)
      /\ DOMAIN part = DOMAIN s.parts
  OBVIOUS
<1>4. Sources(s) = {source[i] : i \in DOMAIN source}
  BY DEF Sources
<1>5. {ScopeEntry(s, d) : d \in Sources(s)} = {scope[d] : d \in DOMAIN scope}
  OBVIOUS
<1>6. {PartEntry(s, i) : i \in DOMAIN s.parts} = {part[i] : i \in DOMAIN part}
  OBVIOUS
<1> HIDE DEF source, scope, part
<1>7. IsFiniteSet(Sources(s))
  BY <1>2, <1>3, <1>4, ImageIsFinite
<1>8. IsFiniteSet({scope[d] : d \in DOMAIN scope})
  BY <1>3, <1>7, ImageIsFinite
<1>9. IsFiniteSet({part[i] : i \in DOMAIN part})
  BY <1>2, <1>3, ImageIsFinite
<1> DEFINE engine == {TypesEntry(s), PackageEntry(s)}
           scopes == {scope[d] : d \in DOMAIN scope}
           parts == {part[i] : i \in DOMAIN part}
<1>10. Entries(s) = engine \cup scopes \cup parts
  BY <1>5, <1>6, EntriesByKind
<1>11. IsFiniteSet(engine)
  <2>1. engine = {TypesEntry(s)} \cup {PackageEntry(s)}
    OBVIOUS
  <2>2. IsFiniteSet({TypesEntry(s)})
    BY FS_Singleton
  <2> QED
    BY <2>1, <2>2, FS_AddElement
<1>12. IsFiniteSet(scopes) /\ IsFiniteSet(parts)
  BY <1>8, <1>9
<1> HIDE DEF engine, scopes, parts
<1>13. IsFiniteSet(engine \cup scopes)
  BY <1>11, <1>12, FS_Union
<1>14. IsFiniteSet((engine \cup scopes) \cup parts)
  BY <1>12, <1>13, FS_Union
<1> QED
  BY <1>7, <1>10, <1>14

LEMMA TypesBodyTyped ==
  ASSUME NEW s \in Specs
  PROVE  TypesBody(s) \in Bodies
<1> DEFINE os == {[name |-> s.parts[i].name, type |-> s.parts[i].type] : i \in DOMAIN s.parts}
<1>1. ASSUME NEW i \in DOMAIN s.parts
      PROVE  s.parts[i].name \in Paths /\ s.parts[i].type \in Types
  <2>1. s.parts[i] \in PoolParts
    BY DEF Specs
  <2> QED
    BY <2>1, PartPoolAssumption DEF PoolParts
<1>2. os \in SUBSET [name : Paths, type : Types]
  BY <1>1
<1>3. TypesBody(s).overrides = os
  BY DEF TypesBody
<1> HIDE DEF os
<1>4. TypesBody(s) = [root |-> "Types", xml |-> "good", ordered |-> TRUE, refs |-> {},
                      rels |-> <<>>, defaults |-> {"rels", "xml"}, overrides |-> os]
  BY DEF TypesBody, os
<1>5. <<>> \in Seq(WrittenRels)
  OBVIOUS
<1> QED
  BY <1>2, <1>4, <1>5 DEF Bodies

LEMMA PackedTyped ==
  ASSUME NEW n \in Paths, NEW body \in Bodies, NEW e, e = Entry(n, body)
  PROVE  e \in PackedEntries /\ e.name = n /\ e.body = body /\ e.flaw = "none"
<1>1. "none" \in Flaws
  BY DEF Flaws, HeaderCode
<1> QED
  BY <1>1 DEF Entry, PackedEntries

LEMMA EntriesAreWellFormed ==
  ASSUME NEW s \in Specs, NEW m, validateSpec(s, m) = {}, NEW e \in Entries(s)
  PROVE  e \in PackedEntries /\ WellFormedEntry(e) /\ e.flaw = "none"
<1>1. CASE e = TypesEntry(s)
  <2>0. /\ e = Entry(CONTENT_TYPES_PATH, TypesBody(s))
        /\ CONTENT_TYPES_PATH \in Paths /\ TypesBody(s) \in Bodies
    BY <1>1, TypesBodyTyped, EngineIsFolded DEF TypesEntry
  <2>1. /\ e \in PackedEntries /\ e.flaw = "none"
        /\ e.name = CONTENT_TYPES_PATH /\ e.body = TypesBody(s)
    BY <2>0, PackedTyped
  <2>2. /\ TypesBody(s).rels = <<>> /\ TypesBody(s).refs = {}
        /\ TypesBody(s).overrides =
             {[name |-> s.parts[i].name, type |-> s.parts[i].type] : i \in DOMAIN s.parts}
    BY DEF TypesBody
  <2>3. CONTENT_TYPES_PATH.base = "[Content_Types].xml"
    BY DEF CONTENT_TYPES_PATH, Path
  <2>4. CONTENT_TYPES_PATH.base # ""
    BY <2>3
  <2>5. ASSUME NEW i \in DOMAIN s.parts PROVE s.parts[i].type \in MediaTypes
    <3>1. s.parts[i] \in PoolParts
      BY DEF Specs
    <3>2. s.parts[i].type \in Types
      BY <3>1, PartPoolAssumption DEF PoolParts
    <3>3. s.parts[i].type # "bad"
      BY PassedIsFiled
    <3> QED
      BY <3>2, <3>3 DEF Types
  <2>6. \A o \in e.body.overrides : o.type \in MediaTypes
    <3>1. ASSUME NEW o \in TypesBody(s).overrides PROVE o.type \in MediaTypes
      <4>1. PICK i \in DOMAIN s.parts : o = [name |-> s.parts[i].name, type |-> s.parts[i].type]
        BY <2>2
      <4> QED
        BY <2>5, <4>1
    <3> QED
      BY <2>1, <3>1
  <2>7. e.name.base # "" /\ e.body.rels = <<>> /\ e.body.refs = {}
    BY <2>1, <2>2, <2>4
  <2> QED
    BY <2>1, <2>6, <2>7 DEF WellFormedEntry
<1>2. ASSUME NEW n \in Paths, NEW rels \in Seq(Rels), n.rels # 0, e = Entry(n, RelsBody(rels))
      PROVE  e \in PackedEntries /\ WellFormedEntry(e) /\ e.flaw = "none"
  <2>1. e \in PackedEntries /\ e.flaw = "none" /\ e.name = n
    BY <1>2, PackedTyped, RelsBodyTyped
  <2>2. n.rels \in Nat
    BY DEF Paths
  <2>3. IsRels(n)
    BY <1>2, <2>2 DEF IsRels
  <2>4. Fold(n) # CONTENT_TYPES_PATH
    BY <1>2, EngineIsFolded, Unfolded
  <2> QED
    BY <2>1, <2>3, <2>4 DEF WellFormedEntry
<1>3. CASE e = PackageEntry(s)
  <2>1. s.packageRels \in Seq({PackagePool[i] : i \in DOMAIN PackagePool})
    BY DEF Specs
  <2>2. {PackagePool[i] : i \in DOMAIN PackagePool} \subseteq Rels
    BY RelPoolsAssumption
  <2>3. s.packageRels \in Seq(Rels)
    BY <2>1, <2>2, SeqMonotonic
  <2> QED
    BY <1>2, <1>3, <2>3, EngineIsFolded DEF PackageEntry
<1>4. CASE \E d \in Sources(s) : e = ScopeEntry(s, d)
  <2>1. PICK d \in Sources(s) : e = ScopeEntry(s, d)
    BY <1>4
  <2>2. PICK c : c = canonicalSource(s, d)
    OBVIOUS
  <2>3. c \in Paths
    BY <2>2, ScopeOfPart
  <2>4. PICK n : n = relsPathForPart(c)
    OBVIOUS
  <2>5. n \in Paths /\ n.rels # 0
    BY <2>3, <2>4, RelsPath
  <2>6. PICK rels : rels = DeclaredRels(s, d)
    OBVIOUS
  <2>7. rels \in Seq(Rels)
    BY <2>6, DeclaredTyped
  <2>8. e = Entry(n, RelsBody(rels))
    BY <2>1, <2>2, <2>4, <2>6 DEF ScopeEntry
  <2> QED
    BY <1>2, <2>5, <2>7, <2>8
<1>5. CASE \E i \in DOMAIN s.parts : e = PartEntry(s, i)
  <2>1. PICK i \in DOMAIN s.parts : e = PartEntry(s, i)
    BY <1>5
  <2>2. s.parts[i] \in PoolParts
    BY DEF Specs
  <2>3. PICK p : p = s.parts[i]
    OBVIOUS
  <2>4. /\ p.name \in Paths /\ p.body \in Bodies /\ p.name.base # ""
        /\ p.body.rels # <<>> => p.name.rels > 0
    BY <2>2, <2>3, PartPoolAssumption DEF PoolParts
  <2>5. Fold(p.name) \notin EngineOwned
    BY <2>3, PassedIsFiled DEF Filed
  <2>6. Fold(p.name) # CONTENT_TYPES_PATH
    BY <2>5 DEF EngineOwned
  <2>7. PICK n, body : n = p.name /\ body = p.body
    OBVIOUS
  <2>8. e = Entry(n, body) /\ n \in Paths /\ body \in Bodies
    BY <2>1, <2>3, <2>4, <2>7 DEF PartEntry
  <2>9. e \in PackedEntries /\ e.flaw = "none" /\ e.name = n /\ e.body = body
    BY <2>8, PackedTyped
  <2>10. e.name = p.name /\ e.body = p.body
    BY <2>7, <2>9
  <2> QED
    <3>1. ~IsRels(e.name) => e.body.rels = <<>>
      BY <2>4, <2>10 DEF IsRels
    <3>2. e.name.base # "" /\ Fold(e.name) # CONTENT_TYPES_PATH
      BY <2>4, <2>6, <2>10
    <3> QED
      BY <2>9, <3>1, <3>2 DEF WellFormedEntry
<1> QED
  BY <1>1, <1>3, <1>4, <1>5, EntriesByKind

----------------------------------------------------------------------------
(* What is handed out, and what is accepted                                 *)

(* The archive is well formed whoever had it, and the gate found nothing in  *)
(* what it let through.                                                      *)
GatedInv ==
  /\ WellFormed(archive)
  /\ phase = "built" => validateZipBytes(archive, TRUE, main) = {}
  /\ phase = "accepted" => validateZipBytes(archive, FALSE, main) = {}

LEMMA NothingIsWellFormed == WellFormed(NoArchive)
<1>1. "none" \in DOMAIN FrameCode
  BY DEF FrameCode
<1>2. IsFiniteSet({})
  BY FS_EmptySet
<1> QED
  BY <1>1, <1>2 DEF NoArchive, WellFormed

LEMMA PackedIsWellFormed ==
  ASSUME NEW s \in Specs, NEW m, validateSpec(s, m) = {},
         NEW a, a = [flaw |-> "none", entries |-> Entries(s)]
  PROVE  WellFormed(a)
<1>1. "none" \in DOMAIN FrameCode
  BY DEF FrameCode
<1>2. Entries(s) \in SUBSET PackedEntries /\ \A e \in Entries(s) : WellFormedEntry(e)
  BY EntriesAreWellFormed
<1>3. IsFiniteSet(Entries(s))
  BY EntriesAreFinite
<1>4. a \in [flaw : DOMAIN FrameCode, entries : SUBSET PackedEntries] /\ a.entries = Entries(s)
  BY <1>1, <1>2
<1> QED
  BY <1>2, <1>3, <1>4 DEF WellFormed

LEMMA InitGated == Init => GatedInv
BY NothingIsWellFormed DEF Init, GatedInv

LEMMA NextGated == IInv /\ GatedInv /\ [Next]_vars => GatedInv'
<1> SUFFICES ASSUME IInv, GatedInv, [Next]_vars PROVE GatedInv'
  OBVIOUS
<1>0. spec \in Specs /\ WellFormed(archive)
  BY DEF IInv, GatedInv
<1>1. CASE DeclarePart
  BY <1>1 DEF DeclarePart, MayDeclare, GatedInv
<1>2. CASE DeclarePackageRel
  BY <1>2 DEF DeclarePackageRel, MayDeclare, GatedInv
<1>3. CASE DeclarePartRel
  BY <1>3 DEF DeclarePartRel, MayDeclare, GatedInv
<1>4. CASE ValidateSpec
  <2>1. archive' = archive /\ phase' \in {"gated", "refused"}
    BY <1>4 DEF ValidateSpec
  <2> QED
    BY <1>0, <2>1 DEF GatedInv
<1>5. CASE Pack
  <2>1. validateSpec(spec, main) = {}
    BY <1>5 DEF Pack, IInv, GateInv
  <2>2. /\ phase' \in {"packed", "failed"}
        /\ archive' \in {[flaw |-> "none", entries |-> Entries(spec)], NoArchive}
    BY <1>5 DEF Pack
  <2>3. WellFormed(archive')
    BY <1>0, <2>1, <2>2, PackedIsWellFormed, NothingIsWellFormed
  <2> QED
    BY <2>2, <2>3 DEF GatedInv
<1>6. CASE ValidateBuilt
  <2>1. /\ archive' = archive /\ main' = main
        /\ phase' = "built" \/ phase' = "failed"
        /\ phase' = "built" => validateZipBytes(archive, TRUE, main) = {}
    BY <1>6 DEF ValidateBuilt
  <2> QED
    BY <1>0, <2>1 DEF GatedInv
<1>7. CASE Alter
  <2>1. archive' \in Alterations /\ phase' = "altered"
    BY <1>7 DEF Alter
  <2>2. WellFormed(archive')
    BY <1>0, <2>1, AlteredIsWellFormed
  <2> QED
    BY <2>1, <2>2 DEF GatedInv
<1>8. CASE ValidateForeign
  <2>1. /\ archive' = archive /\ main' = main
        /\ phase' = "accepted" \/ phase' = "rejected"
        /\ phase' = "accepted" => validateZipBytes(archive, FALSE, main) = {}
    BY <1>8 DEF ValidateForeign
  <2> QED
    BY <1>0, <2>1 DEF GatedInv
<1>9. CASE UNCHANGED vars
  BY <1>9 DEF vars, GatedInv
<1> QED
  BY <1>1, <1>2, <1>3, <1>4, <1>5, <1>6, <1>7, <1>8, <1>9 DEF Next

LEMMA Gated == Spec => []GatedInv
BY InitGated, NextGated, Invariance, PTL DEF Spec

(* What ArchiveInv says of the entries of a built archive: none is a bomb,   *)
(* which the gate does not look for in the engine's own bytes.               *)
LEMMA BuiltIsAccepted ==
  ASSUME IInv, GatedInv, phase = "built"
  PROVE  Accepted(archive, TRUE, main)
<1>1. spec \in Specs /\ validateSpec(spec, main) = {} /\ archive.entries = Entries(spec)
  BY DEF IInv, GateInv, ArchiveInv
<1>2. \A e \in archive.entries : e.flaw = "none"
  BY <1>1, EntriesAreWellFormed
<1> QED
  BY <1>2 DEF GatedInv, Accepted

(* No archive is handed out that a reader would have to repair, whatever was *)
(* declared: the checks of build() in package.ts and validateZipBytes.       *)
THEOREM BuiltPackagesAreWhole == Spec => []BuiltIsWhole
<1>1. IInv /\ GatedInv => BuiltIsWhole
  BY BuiltIsAccepted, AcceptedAreWhole DEF BuiltIsWhole
<1> QED
  BY <1>1, Invariance, Gated, PTL

(* Nor is one accepted that was altered after it was built, in any of the    *)
(* ways the model alters it: validateZipBytes reads all it is given.         *)
THEOREM AcceptedPackagesAreWhole == Spec => []AcceptedIsWhole
<1>1. GatedInv => AcceptedIsWhole
  <2> SUFFICES ASSUME GatedInv, phase = "accepted" PROVE Whole
    BY DEF AcceptedIsWhole
  <2>1. Accepted(archive, FALSE, main)
    BY DEF GatedInv, Accepted
  <2> QED
    BY <2>1, AcceptedAreWhole
<1> QED
  BY <1>1, Gated, PTL

(* The option is one of those on offer, and a build ends refused, failed or  *)
(* rejected when and only when there is an issue to report.                  *)
TypedInv ==
  /\ main \in MainOptions
  /\ phase \in {"declaring", "refused", "gated", "packed", "failed", "built",
                "altered", "accepted", "rejected"}
  /\ phase \in {"refused", "failed", "rejected"} <=> issues # {}

LEMMA NextTyped == TypedInv /\ [Next]_vars => TypedInv'
<1> SUFFICES ASSUME TypedInv, [Next]_vars PROVE TypedInv'
  OBVIOUS
<1> USE DEF TypedInv
<1>1. CASE DeclarePart
  BY <1>1 DEF DeclarePart, MayDeclare
<1>2. CASE DeclarePackageRel
  BY <1>2 DEF DeclarePackageRel, MayDeclare
<1>3. CASE DeclarePartRel
  BY <1>3 DEF DeclarePartRel, MayDeclare
<1>4. CASE ValidateSpec
  BY <1>4 DEF ValidateSpec
<1>5. CASE Pack
  BY <1>5 DEF Pack
<1>6. CASE ValidateBuilt
  BY <1>6 DEF ValidateBuilt
<1>7. CASE Alter
  BY <1>7 DEF Alter
<1>8. CASE ValidateForeign
  BY <1>8 DEF ValidateForeign
<1>9. CASE UNCHANGED vars
  BY <1>9 DEF vars
<1> QED
  BY <1>1, <1>2, <1>3, <1>4, <1>5, <1>6, <1>7, <1>8, <1>9 DEF Next

(* TypeOK: the inputs are those of the pools, and a refusal says why.        *)
THEOREM PackagesStayTyped == Spec => []TypeOK
<1>1. Init => TypedInv
  BY MainAssumption DEF Init, TypedInv
<1>2. TypedInv /\ IInv /\ GatedInv => TypeOK
  <2> SUFFICES ASSUME TypedInv, IInv, GatedInv PROVE TypeOK
    OBVIOUS
  <2>1. spec \in Specs
    BY DEF IInv
  <2>2. \A i \in DOMAIN spec.parts : spec.parts[i] \in {PartPool[j] : j \in DOMAIN PartPool}
    BY <2>1 DEF Specs, PoolParts
  <2>3. \A i \in DOMAIN spec.partRels : spec.partRels[i] \in PartRelPool
    BY <2>1 DEF Specs
  <2>4. archive.flaw \in DOMAIN FrameCode
    BY DEF GatedInv, WellFormed
  <2> QED
    BY <2>2, <2>3, <2>4 DEF TypedInv, TypeOK
<1> QED
  BY <1>1, <1>2, NextTyped, Invariance, Gated, PTL DEF Spec

----------------------------------------------------------------------------
(* What the specification gate has passed, the archive gate passes          *)

LEMMA PassedIsRead ==
  ASSUME NEW s \in Specs, NEW m, validateSpec(s, m) = {}
  PROVE  /\ \A i \in DOMAIN s.parts :
              s.parts[i].body.xml = "good" /\ checkWordOrder(s.parts[i].body) = {}
         /\ ReferenceIssues(s) = {}
         /\ checkMainRelationship(SpecEdges(s), m) = {}
         /\ checkReachability(Files(s), SpecEdges(s)) = {}
<1>1. /\ PartIssues(s) = {} /\ ReferenceIssues(s) = {}
      /\ checkMainRelationship(SpecEdges(s), m) = {}
      /\ checkReachability(Files(s), SpecEdges(s)) = {}
  BY DEF validateSpec
<1> DEFINE Said(i) ==
      IF ~PathOk(s.parts[i].name) THEN {"E_ZIP_PATH"}
      ELSE IF i \notin Filed(s.parts) THEN {"E_PACKAGE_DUP_PART"}
      ELSE parseXml(s.parts[i].body)
           \cup (IF s.parts[i].body.xml = "good"
                 THEN checkWordOrder(s.parts[i].body) ELSE {})
           \cup (IF s.parts[i].type = "bad" THEN {"E_CONTENTTYPE_BAD_TYPE"} ELSE {})
<1>2. UNION {Said(i) : i \in DOMAIN s.parts} = {}
  BY <1>1 DEF PartIssues
<1>3. ASSUME NEW i \in DOMAIN s.parts
      PROVE  s.parts[i].body.xml = "good" /\ checkWordOrder(s.parts[i].body) = {}
  <2>1. Said(i) = {}
    <3> HIDE DEF Said
    <3> QED
      BY <1>2
  <2>2. PathOk(s.parts[i].name) /\ i \in Filed(s.parts)
    BY PassedIsFiled
  <2>3. parseXml(s.parts[i].body) = {}
    BY <2>1, <2>2
  <2>4. s.parts[i].body.xml = "good"
    BY <2>3 DEF parseXml
  <2> QED
    BY <2>1, <2>2, <2>4
<1> QED
  BY <1>1, <1>3

(* Numbered from 1 on, every relationship counts, and says what it said.     *)
LEMMA NumberedAreRead ==
  ASSUME NEW rels \in Seq(Rels), NEW body, body = RelsBody(rels)
  PROVE  /\ body.root = "Relationships" /\ body.xml = "good"
         /\ DOMAIN body.rels = DOMAIN rels /\ ReadRels(body) = DOMAIN rels
         /\ \A i \in DOMAIN rels :
              /\ body.rels[i].id = i /\ body.rels[i].type = rels[i].type
              /\ body.rels[i].mode = rels[i].mode /\ body.rels[i].target = rels[i].target
<1>1. body.root = "Relationships" /\ body.xml = "good" /\ body.rels = NumberedRels(rels)
  BY DEF RelsBody
<1>2. Len(rels) \in Nat /\ DOMAIN rels = 1..Len(rels)
  OBVIOUS
<1>3. DOMAIN body.rels = DOMAIN rels
  BY <1>1 DEF NumberedRels
<1>4. ASSUME NEW i \in DOMAIN rels
      PROVE  /\ body.rels[i].id = i /\ body.rels[i].type = rels[i].type
             /\ body.rels[i].mode = rels[i].mode /\ body.rels[i].target = rels[i].target
  <2>1. body.rels[i] = [id |-> i, type |-> rels[i].type,
                        target |-> rels[i].target, mode |-> rels[i].mode]
    BY <1>1 DEF NumberedRels
  <2> QED
    BY <2>1
<1>5. ASSUME NEW i \in DOMAIN rels PROVE i \in ReadRels(body)
  <2>1. i \in Nat /\ i # 0
    BY <1>2
  <2>2. ASSUME NEW j \in 1..(i - 1) PROVE body.rels[j].id # body.rels[i].id
    <3>1. j \in DOMAIN rels /\ j # i
      BY <1>2, <2>1
    <3> QED
      BY <1>4, <3>1
  <2>3. body.rels[i].id # 0
    BY <1>4, <2>1
  <2> QED
    BY <1>1, <1>3, <2>2, <2>3 DEF ReadRels
<1>6. ReadRels(body) \subseteq DOMAIN rels
  BY <1>3 DEF ReadRels
<1> QED
  BY <1>1, <1>3, <1>4, <1>5, <1>6

(* A relationship that is sound is sound where there are more names.         *)
LEMMA MoreNames ==
  ASSUME NEW p \in Paths, NEW q \in Paths, Fold(p) = Fold(q),
         NEW x, NEW y, x.mode = y.mode, x.target = y.target,
         NEW names, NEW more, names \subseteq more, RelIssues(x, p, names) = {}
  PROVE  RelIssues(y, q, more) = {}
<1>1. p.dir = q.dir
  BY FoldedPath
<1>2. resolveRelTarget(p, x.target) = resolveRelTarget(q, y.target)
  BY <1>1 DEF resolveRelTarget
<1>3. checkInternalTarget(p, x.target, names) = {} => checkInternalTarget(q, y.target, more) = {}
  BY <1>2 DEF checkInternalTarget, Has
<1> QED
  BY <1>3 DEF RelIssues

(* What both gates say of the relationships of one place.                    *)
LEMMA ScopeIsRead ==
  ASSUME NEW s \in Specs, NEW m, validateSpec(s, m) = {}, NEW d \in Sources(s),
         NEW names, PartNames(s) \subseteq names, NEW e, e = ScopeEntry(s, d)
  PROVE  /\ e.name \in Paths /\ IsRels(e.name) /\ Fold(e.name) = Fold(relsPathForPart(d))
         /\ PathOk(e.name) /\ e.flaw = "none" /\ e.body = RelsBody(DeclaredRels(s, d))
         /\ sourceForRels(e.name) \in PartNames(s) /\ sourceForRels(e.name) \in Paths
         /\ Fold(sourceForRels(e.name)) = Fold(d)
         /\ sourceForRels(e.name) # Nowhere
         /\ checkRelationships(e, names) = {}
<1>1. PICK c : c = canonicalSource(s, d)
  OBVIOUS
<1>2. /\ d \in Paths /\ c \in PartNames(s) /\ c \in Paths /\ c.base # ""
      /\ Fold(c) = Fold(d) /\ Fold(relsPathForPart(c)) = Fold(relsPathForPart(d))
  BY <1>1, ScopeOfPart
<1>3. PICK n : n = relsPathForPart(c)
  OBVIOUS
<1>4. /\ n \in Paths /\ n.base = c.base /\ n.rels # 0 /\ Fold(n) = Fold(relsPathForPart(d))
      /\ sourceForRels(n) = c
  BY <1>2, <1>3, RelsPath, SourceOfRelsPath
<1>5. PICK rels : rels = DeclaredRels(s, d)
  OBVIOUS
<1>6. rels \in Seq(Rels)
  BY <1>5, DeclaredTyped
<1>7. e = Entry(n, RelsBody(rels))
  BY <1>1, <1>3, <1>5 DEF ScopeEntry
<1>8. e.name = n /\ e.body = RelsBody(rels) /\ e.flaw = "none"
  BY <1>7 DEF Entry
<1>9. IsRels(n)
  <2>1. n.rels \in Nat
    BY <1>4 DEF Paths
  <2> QED
    BY <1>4, <2>1 DEF IsRels
<1>10. PathOk(n)
  <2>1. PathOk(c)
    BY <1>2, PassedIsFiled DEF PartNames
  <2> QED
    BY <1>4, <2>1 DEF PathOk
<1>11. c # Nowhere
  BY <1>2, RootAndNowhere
<1>12. PICK at : at = {k \in DOMAIN s.partRels : Fold(s.partRels[k].source) = Fold(d)}
  OBVIOUS
<1>13. rels = [k \in 1..Cardinality(at) |-> s.partRels[Nth(at, k)].rel]
  BY <1>5, <1>12 DEF DeclaredRels
<1>14. \A k \in 1..Cardinality(at) : Nth(at, k) \in at
  <2>1. at \in SUBSET (1..Len(s.partRels)) /\ Len(s.partRels) \in Nat
    BY <1>12 DEF Specs
  <2> QED
    BY <2>1, NthFacts
<1>15. ASSUME NEW i \in DOMAIN rels PROVE RelIssues(e.body.rels[i], c, names) = {}
  <2>1. PICK k \in at : rels[i] = s.partRels[k].rel
    BY <1>13, <1>14
  <2>2. k \in DOMAIN s.partRels /\ Fold(s.partRels[k].source) = Fold(c)
    BY <1>2, <1>12
  <2>3. RelIssues(s.partRels[k].rel, s.partRels[k].source, PartNames(s)) = {}
    BY <2>2, PassedIsFiled, PassedIsRelated
  <2>4. s.partRels[k].source \in Paths
    BY <2>2, PassedIsRelated DEF Sources
  <2>5. /\ e.body.rels[i].mode = s.partRels[k].rel.mode
        /\ e.body.rels[i].target = s.partRels[k].rel.target
    BY <1>6, <1>8, <2>1, NumberedAreRead
  <2>6. PICK p, x, y : p = s.partRels[k].source /\ x = s.partRels[k].rel /\ y = e.body.rels[i]
    OBVIOUS
  <2>7. /\ p \in Paths /\ Fold(p) = Fold(c) /\ RelIssues(x, p, PartNames(s)) = {}
        /\ x.mode = y.mode /\ x.target = y.target
    BY <2>2, <2>3, <2>4, <2>5, <2>6
  <2>8. c \in Paths /\ PartNames(s) \subseteq names
    BY <1>2
  <2>9. RelIssues(y, c, names) = {}
    <3>1. PICK few : few = PartNames(s)
      OBVIOUS
    <3> QED
      BY <2>7, <2>8, <3>1, MoreNames
  <2> QED
    BY <2>6, <2>9
<1>16. /\ e.body.root = "Relationships" /\ DOMAIN e.body.rels = DOMAIN rels
       /\ ReadRels(e.body) = DOMAIN rels
  BY <1>6, <1>8, NumberedAreRead
<1>17. checkRelationships(e, names) = {}
  BY <1>4, <1>8, <1>15, <1>16 DEF checkRelationships
<1> QED
  BY <1>2, <1>4, <1>5, <1>8, <1>9, <1>10, <1>11, <1>17

LEMMA PackageScopeIsRead ==
  ASSUME NEW s \in Specs, NEW m, validateSpec(s, m) = {},
         NEW names, PartNames(s) \subseteq names, NEW e, e = PackageEntry(s)
  PROVE  /\ e.name = PACKAGE_RELS_PATH /\ e.name \in Paths /\ IsRels(e.name)
         /\ Fold(e.name) = PACKAGE_RELS_PATH
         /\ PathOk(e.name) /\ e.flaw = "none" /\ e.body = RelsBody(s.packageRels)
         /\ s.packageRels \in Seq(Rels)
         /\ sourceForRels(e.name) = Root /\ Root # Nowhere /\ Fold(Root) = Root
         /\ checkRelationships(e, names) = {}
<1>1. /\ e.name = PACKAGE_RELS_PATH /\ e.body = RelsBody(s.packageRels) /\ e.flaw = "none"
  BY DEF PackageEntry, Entry
<1>2. /\ Root \in Paths /\ PACKAGE_RELS_PATH \in Paths
      /\ Fold(PACKAGE_RELS_PATH) = PACKAGE_RELS_PATH
      /\ PACKAGE_RELS_PATH.base = "" /\ PACKAGE_RELS_PATH.rels # 0
  BY EngineIsFolded
<1>3. IsRels(e.name)
  <2>1. PACKAGE_RELS_PATH.rels \in Nat
    BY <1>2 DEF Paths
  <2>2. PACKAGE_RELS_PATH.rels # 0
    BY <1>2
  <2>3. PACKAGE_RELS_PATH.rels > 0
    BY <2>1, <2>2
  <2> QED
    BY <1>1, <2>3 DEF IsRels
<1>4. PathOk(e.name)
  BY <1>1, <1>2, BasesAssumption DEF PathOk
<1>5. sourceForRels(e.name) = Root
  BY <1>1, <1>2, SourceOfRelsPath DEF PACKAGE_RELS_PATH
<1>6. Root.upper = FALSE
  BY DEF Root, Path
<1>7. Fold(Root) = Root
  BY <1>2, <1>6, FoldOfFolded
<1>8. PICK rels : rels = s.packageRels
  OBVIOUS
<1>9. rels \in Seq(Rels)
  <2>1. s.packageRels \in Seq({PackagePool[i] : i \in DOMAIN PackagePool})
    BY DEF Specs
  <2>2. {PackagePool[i] : i \in DOMAIN PackagePool} \subseteq Rels
    BY RelPoolsAssumption
  <2> QED
    BY <1>8, <2>1, <2>2, SeqMonotonic
<1>10. ASSUME NEW i \in DOMAIN rels PROVE RelIssues(e.body.rels[i], Root, names) = {}
  <2>1. RelIssues(rels[i], Root, PartNames(s)) = {}
    BY <1>8, PassedIsFiled, PassedIsRelated
  <2>2. e.body.rels[i].mode = rels[i].mode /\ e.body.rels[i].target = rels[i].target
    BY <1>1, <1>8, <1>9, NumberedAreRead
  <2>3. PICK p, x, y : p = Root /\ x = rels[i] /\ y = e.body.rels[i]
    OBVIOUS
  <2>4. /\ p \in Paths /\ Fold(p) = Fold(p) /\ RelIssues(x, p, PartNames(s)) = {}
        /\ x.mode = y.mode /\ x.target = y.target
    BY <1>2, <2>1, <2>2, <2>3
  <2>5. RelIssues(y, p, names) = {}
    BY <2>4, MoreNames
  <2> QED
    BY <2>3, <2>5
<1>11. /\ e.body.root = "Relationships" /\ DOMAIN e.body.rels = DOMAIN rels
       /\ ReadRels(e.body) = DOMAIN rels
  BY <1>1, <1>8, <1>9, NumberedAreRead
<1>12. checkRelationships(e, names) = {}
  BY <1>5, <1>10, <1>11 DEF checkRelationships
<1> QED
  BY <1>1, <1>2, <1>3, <1>4, <1>5, <1>7, <1>8, <1>9, <1>12, RootAndNowhere

(* A package that the gate has passed and the builder packed, no part of     *)
(* which is a relationship part of the caller's own.                         *)
Passed(s, m, a) ==
  /\ s \in Specs /\ validateSpec(s, m) = {}
  /\ a = [flaw |-> "none", entries |-> Entries(s)]
  /\ \A n \in PartNames(s) : ~IsRels(n)

(* An entry is the type table, a relationship part of the engine or a part.  *)
LEMMA KindsOfEntries ==
  ASSUME NEW s, NEW e \in Entries(s)
  PROVE  \/ e = TypesEntry(s) \/ e = PackageEntry(s)
         \/ \E d \in Sources(s) : e = ScopeEntry(s, d)
         \/ \E i \in DOMAIN s.parts : e = PartEntry(s, i)
BY EntriesByKind

LEMMA EveryKindIsThere ==
  ASSUME NEW s
  PROVE  /\ TypesEntry(s) \in Entries(s) /\ PackageEntry(s) \in Entries(s)
         /\ \A d \in Sources(s) : ScopeEntry(s, d) \in Entries(s)
         /\ \A i \in DOMAIN s.parts : PartEntry(s, i) \in Entries(s)
BY EntriesByKind

LEMMA TypesEntryIsSound ==
  ASSUME NEW s, NEW e, e = TypesEntry(s)
  PROVE  /\ e.name = CONTENT_TYPES_PATH /\ e.flaw = "none" /\ e.body = TypesBody(s)
         /\ e.body.xml = "good" /\ checkWordOrder(e.body) = {} /\ e.body.root = "Types"
         /\ e.body.refs = {}
         /\ e.body.defaults = {"rels", "xml"}
         /\ e.body.overrides = {[name |-> s.parts[i].name, type |-> s.parts[i].type]
                                : i \in DOMAIN s.parts}
<1>1. e.name = CONTENT_TYPES_PATH /\ e.flaw = "none" /\ e.body = TypesBody(s)
  BY DEF TypesEntry, Entry
<1> QED
  BY <1>1 DEF TypesBody, checkWordOrder

LEMMA PartEntryIsSound ==
  ASSUME NEW s \in Specs, NEW m, validateSpec(s, m) = {},
         NEW i \in DOMAIN s.parts, NEW e, e = PartEntry(s, i)
  PROVE  /\ e.name = s.parts[i].name /\ e.flaw = "none" /\ e.body = s.parts[i].body
         /\ e.body.xml = "good" /\ checkWordOrder(e.body) = {}
         /\ e.name \in Paths /\ PathOk(e.name) /\ e.name \in PartNames(s)
<1>1. e.name = s.parts[i].name /\ e.flaw = "none" /\ e.body = s.parts[i].body
  BY DEF PartEntry, Entry
<1>2. s.parts[i].body.xml = "good" /\ checkWordOrder(s.parts[i].body) = {}
  BY PassedIsRead
<1>3. s.parts[i].name \in Paths /\ PathOk(s.parts[i].name)
  BY PassedIsFiled
<1> QED
  BY <1>1, <1>2, <1>3 DEF PartNames

(* Nothing is wrong with an entry by itself.                                 *)
LEMMA PackedEntriesAreSound ==
  ASSUME NEW s \in Specs, NEW m, validateSpec(s, m) = {}, NEW e \in Entries(s)
  PROVE  /\ e.flaw = "none" /\ Readable(e) /\ decodeXmlPart(e) = {}
         /\ checkWordOrder(e.body) = {} /\ PathOk(e.name) /\ e.name \in Paths
<1>1. e.flaw = "none" /\ e.name \in Paths
  BY EntriesAreWellFormed DEF PackedEntries
<1>2. e.body.xml = "good" /\ checkWordOrder(e.body) = {} /\ PathOk(e.name)
  <2>1. CASE e = TypesEntry(s)
    <3>1. PathOk(CONTENT_TYPES_PATH)
      BY BasesAssumption DEF PathOk, CONTENT_TYPES_PATH, Path
    <3> QED
      BY <2>1, <3>1, TypesEntryIsSound
  <2>2. ASSUME NEW rels, e.body = RelsBody(rels)
        PROVE  e.body.xml = "good" /\ checkWordOrder(e.body) = {}
    BY <2>2 DEF RelsBody, checkWordOrder
  <2>3. CASE e = PackageEntry(s)
    <3>1. e.body = RelsBody(s.packageRels) /\ PathOk(e.name)
      <4>1. PICK names : names = PartNames(s)
        OBVIOUS
      <4> QED
        BY <2>3, <4>1, PackageScopeIsRead
    <3> QED
      BY <2>2, <3>1
  <2>4. CASE \E d \in Sources(s) : e = ScopeEntry(s, d)
    <3>1. PICK d \in Sources(s) : e = ScopeEntry(s, d)
      BY <2>4
    <3>2. e.body = RelsBody(DeclaredRels(s, d)) /\ PathOk(e.name)
      <4>1. PICK names : names = PartNames(s)
        OBVIOUS
      <4> QED
        BY <3>1, <4>1, ScopeIsRead
    <3> QED
      BY <2>2, <3>2
  <2>5. CASE \E i \in DOMAIN s.parts : e = PartEntry(s, i)
    BY <2>5, PartEntryIsSound
  <2> QED
    BY <2>1, <2>3, <2>4, <2>5, KindsOfEntries
<1>3. Readable(e)
  BY <1>1 DEF Readable
<1>4. decodeXmlPart(e) = {}
  BY <1>1, <1>2 DEF decodeXmlPart, parseXml
<1> QED
  BY <1>1, <1>2, <1>3, <1>4

(* Nor with the frame and the names.                                         *)
LEMMA FrameIsSound ==
  ASSUME NEW s, NEW m, NEW a, Passed(s, m, a), NEW b, Cardinality(Entries(s)) <= MaxEntries
  PROVE  inspectZip(a, b) = {} /\ EntryIssues(a) = {}
<1>1. /\ s \in Specs /\ validateSpec(s, m) = {}
      /\ a.flaw = "none" /\ a.entries = Entries(s)
  BY DEF Passed
<1>2. \A e \in a.entries : e.flaw = "none" /\ PathOk(e.name) /\ e.name \in Paths
  BY <1>1, PackedEntriesAreSound
<1>3. inspectZip(a, b) = {}
  <2>1. ~(Cardinality(a.entries) > MaxEntries)
    <3>1. Cardinality(Entries(s)) \in Nat
      BY <1>1, EntriesAreFinite, FS_CardinalityType
    <3> QED
      BY <1>1, <3>1, EntriesAssumption
  <2>2. {f \in a.entries : Fatal(f, b)} = {}
    BY <1>2 DEF Fatal, FatalCode
  <2> QED
    BY <1>1, <2>1, <2>2 DEF inspectZip
<1>4. UNION {HeaderCode[e.flaw] : e \in {f \in a.entries : f.flaw \in DOMAIN HeaderCode}} = {}
  <2>1. HeaderCode["none"] = {}
    BY DEF HeaderCode
  <2> QED
    BY <1>2, <2>1
<1>5. {f \in a.entries : f.flaw \in DOMAIN ContentCode} = {}
  BY <1>2 DEF ContentCode
<1>6. {f \in a.entries : ~PathOk(f.name)} = {}
  BY <1>2
<1>7. {f \in a.entries : \E g \in a.entries : g # f /\ Fold(g.name) = Fold(f.name)} = {}
  BY <1>1, OneEntryToAName
<1>8. EngineOwned \ {e.name : e \in a.entries} = {}
  <2>1. TypesEntry(s) \in a.entries /\ TypesEntry(s).name = CONTENT_TYPES_PATH
    BY <1>1, EveryKindIsThere, TypesEntryIsSound
  <2>2. PackageEntry(s) \in a.entries /\ PackageEntry(s).name = PACKAGE_RELS_PATH
    BY <1>1, EveryKindIsThere DEF PackageEntry, Entry
  <2> QED
    BY <2>1, <2>2 DEF EngineOwned
<1>9. EntryIssues(a) = {}
  BY <1>4, <1>5, <1>6, <1>7, <1>8 DEF EntryIssues
<1> QED
  BY <1>3, <1>9

(* The type table that is read back is the one that was written.             *)
LEMMA TableIsWritten ==
  ASSUME NEW s, NEW m, NEW a, Passed(s, m, a)
  PROVE  /\ ContentTypes(a).defaults = {"rels", "xml"}
         /\ ContentTypes(a).overrides =
              {[name |-> s.parts[i].name, type |-> s.parts[i].type] : i \in DOMAIN s.parts}
         /\ ContentTypesIssues(a) = {}
         /\ \A x, y \in ContentTypes(a).overrides : Fold(x.name) = Fold(y.name) => x = y
<1>1. s \in Specs /\ validateSpec(s, m) = {} /\ a.entries = Entries(s)
  BY DEF Passed
<1>2. PICK t : t = TypesEntry(s)
  OBVIOUS
<1>3. /\ t \in a.entries /\ t.name = CONTENT_TYPES_PATH /\ Readable(t)
      /\ decodeXmlPart(t) = {} /\ t.body.root = "Types"
  BY <1>1, <1>2, EveryKindIsThere, TypesEntryIsSound, PackedEntriesAreSound
<1>4. \A e \in a.entries : e.name = CONTENT_TYPES_PATH => e = t
  BY <1>1, <1>3, OneEntryToAName
<1>5. Tables(a) = {t}
  BY <1>3, <1>4 DEF Tables
<1>6. {e \in Tables(a) : decodeXmlPart(e) = {} /\ e.body.root = "Types"} = {t}
  BY <1>3, <1>5
<1>7. ContentTypes(a).defaults = t.body.defaults /\ ContentTypes(a).overrides = t.body.overrides
  BY <1>6 DEF ContentTypes
<1>8. ContentTypes(a).defaults = {"rels", "xml"}
  BY <1>2, <1>7, TypesEntryIsSound
<1>9. ContentTypes(a).overrides =
        {[name |-> s.parts[i].name, type |-> s.parts[i].type] : i \in DOMAIN s.parts}
  BY <1>2, <1>7, TypesEntryIsSound
<1>10. ASSUME NEW x \in ContentTypes(a).overrides, NEW y \in ContentTypes(a).overrides,
              Fold(x.name) = Fold(y.name)
       PROVE  x = y
  <2>1. PICK i \in DOMAIN s.parts : x = [name |-> s.parts[i].name, type |-> s.parts[i].type]
    BY <1>9
  <2>2. PICK j \in DOMAIN s.parts : y = [name |-> s.parts[j].name, type |-> s.parts[j].type]
    BY <1>9
  <2>3. Fold(s.parts[i].name) = Fold(s.parts[j].name)
    BY <1>10, <2>1, <2>2
  <2>4. i \in Filed(s.parts) /\ j \in Filed(s.parts)
    BY <1>1, PassedIsFiled
  <2>5. i \in Nat /\ j \in Nat
    BY <1>1 DEF Specs
  <2>6. i \notin 1..(j - 1) /\ j \notin 1..(i - 1)
    BY <2>3, <2>4 DEF Filed
  <2>7. i >= 1 /\ j >= 1
    BY <1>1 DEF Specs
  <2>8. i = j
    BY <2>5, <2>6, <2>7
  <2> QED
    BY <2>1, <2>2, <2>8
<1>11. ContentTypesIssues(a) = {}
  <2>1. UNION {decodeXmlPart(e) : e \in Tables(a)} = {}
    BY <1>3, <1>5
  <2>2. {f \in Tables(a) : f.body.root # "Types"} = {}
    BY <1>3, <1>5
  <2>3. {x \in ContentTypes(a).overrides :
           \E y \in ContentTypes(a).overrides : x # y /\ Fold(x.name) = Fold(y.name)} = {}
    BY <1>10
  <2> QED
    BY <2>1, <2>2, <2>3 DEF ContentTypesIssues
<1> QED
  BY <1>8, <1>9, <1>10, <1>11

(* The relationship parts of such a package are the engine's own.            *)
LEMMA RelsEntries ==
  ASSUME NEW s, NEW m, NEW a, Passed(s, m, a)
  PROVE  /\ \A e \in a.entries :
              IsRels(e.name) <=> \/ e = PackageEntry(s)
                                 \/ \E d \in Sources(s) : e = ScopeEntry(s, d)
         /\ \A e \in a.entries :
              ~IsRels(e.name) /\ Fold(e.name) # CONTENT_TYPES_PATH =>
                \E i \in DOMAIN s.parts : e = PartEntry(s, i)
         /\ \A e \in a.entries : IsRels(e.name) => Fold(e.name) # CONTENT_TYPES_PATH
<1>1. s \in Specs /\ validateSpec(s, m) = {} /\ a.entries = Entries(s)
  BY DEF Passed
<1>2. \A i \in DOMAIN s.parts : ~IsRels(PartEntry(s, i).name)
  BY <1>1, PartEntryIsSound DEF Passed
<1>3. ~IsRels(CONTENT_TYPES_PATH) /\ TypesEntry(s).name = CONTENT_TYPES_PATH
      /\ Fold(CONTENT_TYPES_PATH) = CONTENT_TYPES_PATH
  <2>1. CONTENT_TYPES_PATH.rels = 0
    BY EngineIsFolded
  <2>2. ~IsRels(CONTENT_TYPES_PATH)
    BY <2>1 DEF IsRels
  <2>3. TypesEntry(s).name = CONTENT_TYPES_PATH
    BY TypesEntryIsSound
  <2> QED
    BY <2>2, <2>3, EngineIsFolded
<1>4. PICK names : names = PartNames(s)
  OBVIOUS
<1>5. IsRels(PackageEntry(s).name)
  BY <1>1, <1>4, PackageScopeIsRead
<1>6. \A d \in Sources(s) : IsRels(ScopeEntry(s, d).name)
  BY <1>1, <1>4, ScopeIsRead
<1>7. ASSUME NEW e \in a.entries
      PROVE  IsRels(e.name) <=> \/ e = PackageEntry(s)
                                \/ \E d \in Sources(s) : e = ScopeEntry(s, d)
  BY <1>1, <1>2, <1>3, <1>5, <1>6, KindsOfEntries
<1>8. ASSUME NEW e \in a.entries, ~IsRels(e.name), Fold(e.name) # CONTENT_TYPES_PATH
      PROVE  \E i \in DOMAIN s.parts : e = PartEntry(s, i)
  BY <1>1, <1>3, <1>5, <1>6, <1>8, KindsOfEntries
<1>9. ASSUME NEW e \in a.entries, IsRels(e.name) PROVE Fold(e.name) # CONTENT_TYPES_PATH
  <2>1. e.name \in Paths
    BY <1>1, PackedEntriesAreSound
  <2>2. IsRels(Fold(e.name))
    BY <1>9, <2>1, Unfolded
  <2> QED
    BY <1>3, <2>2
<1> QED
  BY <1>7, <1>8, <1>9

(* Every part has a type, and every relationship part that of relationships. *)
LEMMA EveryEntryIsCovered ==
  ASSUME NEW s, NEW m, NEW a, Passed(s, m, a), NEW table, table = ContentTypes(a)
  PROVE  checkContentTypeCoverage(a, table) = {}
<1>1. s \in Specs /\ validateSpec(s, m) = {} /\ a.entries = Entries(s)
  BY DEF Passed
<1>2. /\ table.defaults = {"rels", "xml"}
      /\ table.overrides =
           {[name |-> s.parts[i].name, type |-> s.parts[i].type] : i \in DOMAIN s.parts}
      /\ \A x, y \in table.overrides : Fold(x.name) = Fold(y.name) => x = y
  BY TableIsWritten
<1>3. {x \in table.overrides : ~Has({e.name : e \in a.entries}, x.name)} = {}
  <2> SUFFICES ASSUME NEW x \in table.overrides PROVE Has({e.name : e \in a.entries}, x.name)
    OBVIOUS
  <2>1. PICK i \in DOMAIN s.parts : x.name = s.parts[i].name
    BY <1>2
  <2>2. PartEntry(s, i) \in a.entries /\ PartEntry(s, i).name = x.name
    BY <1>1, <2>1, EveryKindIsThere DEF PartEntry, Entry
  <2> QED
    BY <2>2 DEF Has
<1> DEFINE Said(e) ==
      LET type == contentTypeFor(e.name, table)
      IN IF type = "none" THEN {"E_CONTENTTYPE_UNCOVERED"}
         ELSE IF IsRels(e.name) /\ type # "rels" THEN {"E_CONTENTTYPE_BAD_TYPE"}
         ELSE {}
<1>4. ASSUME NEW e \in a.entries, Fold(e.name) # CONTENT_TYPES_PATH PROVE Said(e) = {}
  <2>0. e.name \in Paths
    BY <1>1, PackedEntriesAreSound
  <2>1. CASE IsRels(e.name)
    <3>1. ASSUME NEW o \in table.overrides PROVE Fold(o.name) # Fold(e.name)
      <4>1. PICK i \in DOMAIN s.parts : o.name = s.parts[i].name
        BY <1>2
      <4>2. o.name \in Paths /\ ~IsRels(o.name)
        BY <1>1, <4>1, PassedIsFiled DEF Passed, PartNames
      <4>3. IsRels(Fold(e.name)) /\ ~IsRels(Fold(o.name))
        BY <2>0, <2>1, <4>2, Unfolded
      <4> QED
        BY <4>3
    <3>2. Extension(e.name) = "rels"
      BY <2>1 DEF Extension
    <3>3. contentTypeFor(e.name, table) =
            IF Extension(e.name) \in table.defaults THEN Extension(e.name) ELSE "none"
      <4>1. PICK p : p = e.name
        OBVIOUS
      <4> QED
        BY <1>2, <3>1, <4>1, TypeOfAPart
    <3>4. contentTypeFor(e.name, table) = "rels"
      BY <1>2, <3>2, <3>3
    <3> QED
      BY <3>4
  <2>2. CASE ~IsRels(e.name)
    <3>1. PICK i \in DOMAIN s.parts : e = PartEntry(s, i)
      BY <1>4, <2>2, RelsEntries
    <3>2. PICK o \in table.overrides : o = [name |-> s.parts[i].name, type |-> s.parts[i].type]
      BY <1>2
    <3>3. o.name = e.name /\ o.type = s.parts[i].type
      BY <3>1, <3>2 DEF PartEntry, Entry
    <3>4. contentTypeFor(e.name, table) = o.type
      <4>1. PICK p : p = e.name
        OBVIOUS
      <4> QED
        BY <1>2, <3>3, <4>1, TypeOfAPart
    <3>5. s.parts[i] \in PoolParts /\ s.parts[i].type # "bad"
      <4>1. s.parts[i].type # "bad"
        BY <1>1, PassedIsFiled
      <4> QED
        BY <1>1, <4>1 DEF Specs
    <3>6. s.parts[i].type \in MediaTypes
      BY <3>5, PartPoolAssumption DEF PoolParts, Types
    <3>7. contentTypeFor(e.name, table) # "none"
      BY <3>3, <3>4, <3>6 DEF MediaTypes
    <3> QED
      BY <2>2, <3>7
  <2> QED
    BY <2>1, <2>2
<1>5. UNION {Said(e) : e \in {f \in a.entries : Fold(f.name) # CONTENT_TYPES_PATH}} = {}
  <2> HIDE DEF Said
  <2> QED
    BY <1>4
<1> QED
  BY <1>3, <1>5 DEF checkContentTypeCoverage

(* What is parsed is sound, and the relationship parts are all parsed.       *)
LEMMA EveryRelsPartIsRead ==
  ASSUME NEW s, NEW m, NEW a, Passed(s, m, a), NEW table, table = ContentTypes(a)
  PROVE  /\ \A e \in Parsed(a, table) : decodeXmlPart(e) = {}
         /\ RelsParts(a, table) = {PackageEntry(s)} \cup {ScopeEntry(s, d) : d \in Sources(s)}
         /\ \A f \in Documents(a, table) \ RelsParts(a, table) :
              \E i \in DOMAIN s.parts : f = PartEntry(s, i)
         /\ UNION {checkWordOrder(e.body) :
                     e \in Documents(a, table) \ RelsParts(a, table)} = {}
<1>1. s \in Specs /\ validateSpec(s, m) = {} /\ a.entries = Entries(s)
  BY DEF Passed
<1>2. \A e \in a.entries : decodeXmlPart(e) = {} /\ Readable(e) /\ checkWordOrder(e.body) = {}
  BY <1>1, PackedEntriesAreSound
<1>3. \A e \in Parsed(a, table) : decodeXmlPart(e) = {}
  BY <1>2 DEF Parsed
<1>4. \A e \in a.entries : IsRels(e.name) => e \in RelsParts(a, table)
  BY <1>2, RelsEntries DEF RelsParts, Documents, Parsed
<1>5. \A e \in RelsParts(a, table) : e \in a.entries /\ IsRels(e.name)
  BY DEF RelsParts, Documents, Parsed
<1>6. PackageEntry(s) \in a.entries /\ \A d \in Sources(s) : ScopeEntry(s, d) \in a.entries
  BY <1>1, EveryKindIsThere
<1>7. RelsParts(a, table) = {PackageEntry(s)} \cup {ScopeEntry(s, d) : d \in Sources(s)}
  <2>1. \A e \in RelsParts(a, table) :
          e = PackageEntry(s) \/ \E d \in Sources(s) : e = ScopeEntry(s, d)
    BY <1>5, RelsEntries
  <2>2. PackageEntry(s) \in RelsParts(a, table)
    BY <1>4, <1>6, RelsEntries
  <2>3. \A d \in Sources(s) : ScopeEntry(s, d) \in RelsParts(a, table)
    BY <1>4, <1>6, RelsEntries
  <2> QED
    BY <2>1, <2>2, <2>3
<1>8. ASSUME NEW f \in Documents(a, table) \ RelsParts(a, table)
      PROVE  f \in a.entries /\ \E i \in DOMAIN s.parts : f = PartEntry(s, i)
  <2>1. f \in a.entries /\ Fold(f.name) # CONTENT_TYPES_PATH
    BY DEF Documents, Parsed
  <2>2. ~IsRels(f.name)
    BY <1>4, <2>1
  <2> QED
    BY <2>1, <2>2, RelsEntries
<1>9. \A e \in Documents(a, table) \ RelsParts(a, table) : checkWordOrder(e.body) = {}
  BY <1>2, <1>8
<1> QED
  BY <1>3, <1>7, <1>8, <1>9

(* The relationship parts pass, each checked for its own source.             *)
LEMMA RelsPartsAreSound ==
  ASSUME NEW s, NEW m, NEW a, Passed(s, m, a), NEW table, table = ContentTypes(a)
  PROVE  RelsPartIssues(a, table) = {}
<1>1. s \in Specs /\ validateSpec(s, m) = {} /\ a.entries = Entries(s)
  BY DEF Passed
<1>2. PICK names : names = {e.name : e \in a.entries}
  OBVIOUS
<1>3. PartNames(s) \subseteq names
  <2>1. ASSUME NEW i \in DOMAIN s.parts PROVE s.parts[i].name \in names
    <3>1. PartEntry(s, i) \in a.entries /\ PartEntry(s, i).name = s.parts[i].name
      BY <1>1, EveryKindIsThere DEF PartEntry, Entry
    <3> QED
      BY <1>2, <3>1
  <2> QED
    BY <2>1 DEF PartNames
<1> DEFINE Said(e) ==
      IF sourceForRels(e.name) = Nowhere THEN {"E_REL_BAD_TARGET"}
      ELSE checkRelationships(e, names)
           \cup (IF Fold(sourceForRels(e.name)) = Root \/ Has(names, sourceForRels(e.name))
                 THEN {} ELSE {"E_REL_BAD_TARGET"})
<1>4. ASSUME NEW e \in RelsParts(a, table) PROVE Said(e) = {}
  <2>1. CASE e = PackageEntry(s)
    <3>1. /\ sourceForRels(e.name) = Root /\ Root # Nowhere /\ Fold(Root) = Root
          /\ checkRelationships(e, names) = {}
      BY <1>1, <1>3, <2>1, PackageScopeIsRead
    <3> QED
      BY <3>1
  <2>2. ASSUME NEW d \in Sources(s), e = ScopeEntry(s, d) PROVE Said(e) = {}
    <3>1. /\ sourceForRels(e.name) \in PartNames(s) /\ sourceForRels(e.name) # Nowhere
          /\ checkRelationships(e, names) = {}
      BY <1>1, <1>3, <2>2, ScopeIsRead
    <3>2. Has(names, sourceForRels(e.name))
      BY <1>3, <3>1 DEF Has
    <3> QED
      BY <3>1, <3>2
  <2>3. e = PackageEntry(s) \/ \E d \in Sources(s) : e = ScopeEntry(s, d)
    BY EveryRelsPartIsRead
  <2> QED
    BY <2>1, <2>2, <2>3
<1>5. UNION {Said(e) : e \in RelsParts(a, table)} = {}
  <2> HIDE DEF Said
  <2> QED
    BY <1>4
<1> QED
  BY <1>2, <1>5 DEF RelsPartIssues

(* A relationship that was declared for a part is in its scope's entry, at   *)
(* its rank, and nothing else is.                                            *)
LEMMA DeclaredAreScoped ==
  ASSUME NEW s \in Specs, NEW d, NEW rels, rels = DeclaredRels(s, d)
  PROVE  /\ \A i \in DOMAIN rels : \E k \in DOMAIN s.partRels :
              Fold(s.partRels[k].source) = Fold(d) /\ rels[i] = s.partRels[k].rel
         /\ \A k \in DOMAIN s.partRels : Fold(s.partRels[k].source) = Fold(d) =>
              \E i \in DOMAIN rels : rels[i] = s.partRels[k].rel
<1>1. PICK at : at = {k \in DOMAIN s.partRels : Fold(s.partRels[k].source) = Fold(d)}
  OBVIOUS
<1>2. rels = [n \in 1..Cardinality(at) |-> s.partRels[Nth(at, n)].rel]
  BY <1>1 DEF DeclaredRels
<1>3. at \in SUBSET (1..Len(s.partRels)) /\ Len(s.partRels) \in Nat
  BY <1>1 DEF Specs
<1>4. \A n \in 1..Cardinality(at) : Nth(at, n) \in at
  BY <1>3, NthFacts
<1>5. \A i \in at : \E n \in 1..Cardinality(at) : Nth(at, n) = i
  BY <1>3, NthFacts
<1>6. ASSUME NEW i \in DOMAIN rels
      PROVE  \E k \in DOMAIN s.partRels :
               Fold(s.partRels[k].source) = Fold(d) /\ rels[i] = s.partRels[k].rel
  <2>1. i \in 1..Cardinality(at) /\ rels[i] = s.partRels[Nth(at, i)].rel
    BY <1>2
  <2> QED
    BY <1>1, <1>4, <2>1
<1>7. ASSUME NEW k \in DOMAIN s.partRels, Fold(s.partRels[k].source) = Fold(d)
      PROVE  \E i \in DOMAIN rels : rels[i] = s.partRels[k].rel
  <2>1. PICK n \in 1..Cardinality(at) : Nth(at, n) = k
    BY <1>1, <1>5, <1>7
  <2>2. n \in DOMAIN rels /\ rels[n] = s.partRels[k].rel
    BY <1>2, <2>1
  <2> QED
    BY <2>2
<1> QED
  BY <1>6, <1>7

LEMMA SameEdge ==
  ASSUME NEW p \in Paths, NEW q \in Paths, Fold(p) = Fold(q),
         NEW x, NEW y, x.mode = y.mode, x.target = y.target, x.type = y.type
  PROVE  Edge(p, x) = Edge(q, y)
BY SameTarget DEF Edge

LEMMA EdgesOfAScope ==
  ASSUME NEW s \in Specs, NEW m, validateSpec(s, m) = {}, NEW d \in Sources(s),
         NEW e, e = ScopeEntry(s, d)
  PROVE  {Edge(sourceForRels(e.name), e.body.rels[i]) : i \in ReadRels(e.body)} =
           {Edge(s.partRels[k].source, s.partRels[k].rel) :
              k \in {j \in DOMAIN s.partRels : Fold(s.partRels[j].source) = Fold(d)}}
<1>1. PICK c, body, rels :
        c = sourceForRels(e.name) /\ body = e.body /\ rels = DeclaredRels(s, d)
  OBVIOUS
<1>2. c \in Paths /\ Fold(c) = Fold(d) /\ body = RelsBody(rels)
  <2>1. PICK names : names = PartNames(s)
    OBVIOUS
  <2> QED
    BY <1>1, <2>1, ScopeIsRead
<1>3. rels \in Seq(Rels)
  BY <1>1, DeclaredTyped
<1>4. /\ ReadRels(body) = DOMAIN rels
      /\ \A i \in DOMAIN rels :
           /\ body.rels[i].type = rels[i].type
           /\ body.rels[i].mode = rels[i].mode /\ body.rels[i].target = rels[i].target
  BY <1>2, <1>3, NumberedAreRead
<1>5. /\ \A i \in DOMAIN rels : \E k \in DOMAIN s.partRels :
           Fold(s.partRels[k].source) = Fold(d) /\ rels[i] = s.partRels[k].rel
      /\ \A k \in DOMAIN s.partRels : Fold(s.partRels[k].source) = Fold(d) =>
           \E i \in DOMAIN rels : rels[i] = s.partRels[k].rel
  BY <1>1, DeclaredAreScoped
<1>6. \A k \in DOMAIN s.partRels : s.partRels[k].source \in Paths
  BY PassedIsRelated DEF Sources
<1>7. ASSUME NEW i \in DOMAIN rels, NEW k \in DOMAIN s.partRels,
             Fold(s.partRels[k].source) = Fold(d), rels[i] = s.partRels[k].rel
      PROVE  Edge(c, body.rels[i]) = Edge(s.partRels[k].source, s.partRels[k].rel)
  <2>1. PICK q, x, y : q = s.partRels[k].source /\ x = body.rels[i] /\ y = s.partRels[k].rel
    OBVIOUS
  <2>2. /\ q \in Paths /\ Fold(c) = Fold(q)
        /\ x.mode = y.mode /\ x.target = y.target /\ x.type = y.type
    BY <1>2, <1>4, <1>6, <1>7, <2>1
  <2>3. Edge(c, x) = Edge(q, y)
    BY <1>2, <2>2, SameEdge
  <2> QED
    BY <2>1, <2>3
<1>8. ASSUME NEW i \in ReadRels(body)
      PROVE  Edge(c, body.rels[i]) \in
               {Edge(s.partRels[k].source, s.partRels[k].rel) :
                  k \in {j \in DOMAIN s.partRels : Fold(s.partRels[j].source) = Fold(d)}}
  <2>1. i \in DOMAIN rels
    BY <1>4
  <2>2. PICK k \in DOMAIN s.partRels :
          Fold(s.partRels[k].source) = Fold(d) /\ rels[i] = s.partRels[k].rel
    BY <1>5, <2>1
  <2> QED
    BY <1>7, <2>1, <2>2
<1>9. ASSUME NEW k \in DOMAIN s.partRels, Fold(s.partRels[k].source) = Fold(d)
      PROVE  Edge(s.partRels[k].source, s.partRels[k].rel) \in
               {Edge(c, body.rels[i]) : i \in ReadRels(body)}
  <2>1. PICK i \in DOMAIN rels : rels[i] = s.partRels[k].rel
    BY <1>5, <1>9
  <2> QED
    BY <1>4, <1>7, <1>9, <2>1
<1>10. {Edge(c, body.rels[i]) : i \in ReadRels(body)} =
         {Edge(s.partRels[k].source, s.partRels[k].rel) :
            k \in {j \in DOMAIN s.partRels : Fold(s.partRels[j].source) = Fold(d)}}
  BY <1>8, <1>9
<1> QED
  BY <1>1, <1>10

LEMMA EdgesOfThePackage ==
  ASSUME NEW s \in Specs, NEW m, validateSpec(s, m) = {}, NEW e, e = PackageEntry(s)
  PROVE  {Edge(sourceForRels(e.name), e.body.rels[i]) : i \in ReadRels(e.body)} =
           {Edge(Root, s.packageRels[i]) : i \in DOMAIN s.packageRels}
<1>1. PICK c, body, rels :
        c = sourceForRels(e.name) /\ body = e.body /\ rels = s.packageRels
  OBVIOUS
<1>2. c = Root /\ body = RelsBody(rels) /\ rels \in Seq(Rels)
  <2>1. PICK names : names = PartNames(s)
    OBVIOUS
  <2> QED
    BY <1>1, <2>1, PackageScopeIsRead
<1>3. /\ ReadRels(body) = DOMAIN rels
      /\ \A i \in DOMAIN rels :
           /\ body.rels[i].type = rels[i].type
           /\ body.rels[i].mode = rels[i].mode /\ body.rels[i].target = rels[i].target
  BY <1>2, NumberedAreRead
<1>4. \A i \in DOMAIN rels : Edge(c, body.rels[i]) = Edge(Root, rels[i])
  BY <1>2, <1>3 DEF Edge, internalTarget
<1>5. {Edge(c, body.rels[i]) : i \in ReadRels(body)} = {Edge(Root, rels[i]) : i \in DOMAIN rels}
  BY <1>3, <1>4
<1>6. {Edge(sourceForRels(e.name), e.body.rels[i]) : i \in ReadRels(e.body)} =
        {Edge(c, body.rels[i]) : i \in ReadRels(body)}
  BY <1>1
<1>7. {Edge(Root, s.packageRels[i]) : i \in DOMAIN s.packageRels} =
        {Edge(Root, rels[i]) : i \in DOMAIN rels}
  BY <1>1
<1> QED
  BY <1>5, <1>6, <1>7

(* The archive's relationships lead where those that were declared led.      *)
LEMMA EdgesAreDeclared ==
  ASSUME NEW s, NEW m, NEW a, Passed(s, m, a), NEW table, table = ContentTypes(a)
  PROVE  ArchiveEdges(a, table) = SpecEdges(s)
<1>1. s \in Specs /\ validateSpec(s, m) = {} /\ a.entries = Entries(s)
  BY DEF Passed
<1> DEFINE Of(e) == {Edge(sourceForRels(e.name), e.body.rels[i]) : i \in ReadRels(e.body)}
           From(d) == {Edge(s.partRels[k].source, s.partRels[k].rel) :
                         k \in {j \in DOMAIN s.partRels : Fold(s.partRels[j].source) = Fold(d)}}
<1>2. \A e \in RelsParts(a, table) : sourceForRels(e.name) # Nowhere
  <2>1. PICK names : names = PartNames(s)
    OBVIOUS
  <2>2. sourceForRels(PackageEntry(s).name) # Nowhere
    BY <1>1, <2>1, PackageScopeIsRead
  <2>3. \A d \in Sources(s) : sourceForRels(ScopeEntry(s, d).name) # Nowhere
    BY <1>1, <2>1, ScopeIsRead
  <2> QED
    BY <2>2, <2>3, EveryRelsPartIsRead
<1>3. ArchiveEdges(a, table) = UNION {Of(e) : e \in RelsParts(a, table)}
  <2>1. {f \in RelsParts(a, table) : sourceForRels(f.name) # Nowhere} = RelsParts(a, table)
    BY <1>2
  <2> QED
    BY <2>1 DEF ArchiveEdges
<1>4. Of(PackageEntry(s)) = {Edge(Root, s.packageRels[i]) : i \in DOMAIN s.packageRels}
  BY <1>1, EdgesOfThePackage
<1>5. \A d \in Sources(s) : Of(ScopeEntry(s, d)) = From(d)
  BY <1>1, EdgesOfAScope
<1>6. RelsParts(a, table) = {PackageEntry(s)} \cup {ScopeEntry(s, d) : d \in Sources(s)}
  BY EveryRelsPartIsRead
<1>7. ArchiveEdges(a, table) = Of(PackageEntry(s)) \cup UNION {Of(ScopeEntry(s, d)) : d \in Sources(s)}
  <2> HIDE DEF Of
  <2> QED
    BY <1>3, <1>6
<1>8. UNION {Of(ScopeEntry(s, d)) : d \in Sources(s)} = UNION {From(d) : d \in Sources(s)}
  <2> HIDE DEF Of, From
  <2> QED
    BY <1>5
<1>9. UNION {From(d) : d \in Sources(s)} =
        {Edge(s.partRels[k].source, s.partRels[k].rel) : k \in DOMAIN s.partRels}
  BY DEF Sources
<1> QED
  BY <1>4, <1>7, <1>8, <1>9 DEF SpecEdges

(* Every part is reached in the archive, as it was in the specification.     *)
LEMMA EveryPartIsReached ==
  ASSUME NEW s, NEW m, NEW a, Passed(s, m, a), NEW table, table = ContentTypes(a)
  PROVE  /\ checkMainRelationship(ArchiveEdges(a, table), m) = {}
         /\ checkReachability({e.name : e \in a.entries}, ArchiveEdges(a, table)) = {}
<1>1. s \in Specs /\ validateSpec(s, m) = {} /\ a.entries = Entries(s)
  BY DEF Passed
<1>2. PICK edges : edges = ArchiveEdges(a, table)
  OBVIOUS
<1>3. edges = SpecEdges(s)
  BY <1>2, EdgesAreDeclared
<1>4. /\ checkMainRelationship(edges, m) = {}
      /\ checkReachability(Files(s), edges) = {}
  BY <1>1, <1>3, PassedIsRead
<1>5. ASSUME NEW e \in a.entries, ~IsRels(e.name), Fold(e.name) # CONTENT_TYPES_PATH
      PROVE  Fold(e.name) \in Reached(edges)
  <2>1. PICK i \in DOMAIN s.parts : e = PartEntry(s, i)
    BY <1>5, RelsEntries
  <2>2. e.name \in Files(s)
    BY <1>1, <2>1, PartEntryIsSound, PassedIsFiled
  <2> QED
    BY <1>4, <1>5, <2>2 DEF checkReachability
<1>6. checkReachability({e.name : e \in a.entries}, edges) = {}
  BY <1>5 DEF checkReachability
<1> QED
  BY <1>2, <1>4, <1>6

(* A document's references were counted before they were numbered.           *)
LEMMA EveryReferenceIsThere ==
  ASSUME NEW s, NEW m, NEW a, Passed(s, m, a), NEW table, table = ContentTypes(a)
  PROVE  checkRelationshipReferences(a, table) = {}
<1>1. s \in Specs /\ validateSpec(s, m) = {} /\ a.entries = Entries(s)
  BY DEF Passed
<1>2. ASSUME NEW f \in Documents(a, table) \ RelsParts(a, table), NEW r \in f.body.refs
      PROVE  \E e \in RelsParts(a, table) :
               /\ Fold(e.name) = Fold(relsPathForPart(f.name))
               /\ \E i \in ReadRels(e.body) : e.body.rels[i].id = r
  <2>1. PICK j \in DOMAIN s.parts : f = PartEntry(s, j)
    BY EveryRelsPartIsRead
  <2>2. PICK n : n = s.parts[j].name
    OBVIOUS
  <2>3. f.name = n /\ f.body = s.parts[j].body /\ n \in Paths
    BY <1>1, <2>1, <2>2, PartEntryIsSound
  <2>4. j \in Filed(s.parts) /\ s.parts[j].body.xml = "good" /\ ReferenceIssues(s) = {}
    BY <1>1, PassedIsFiled, PassedIsRead
  <2>5. s.parts[j].body.refs \subseteq DOMAIN DeclaredRels(s, n)
    BY <2>2, <2>4 DEF ReferenceIssues
  <2>6. r \in DOMAIN DeclaredRels(s, n)
    BY <1>2, <2>3, <2>5
  <2>7. PICK rels : rels = DeclaredRels(s, n)
    OBVIOUS
  <2>8. PICK k \in DOMAIN s.partRels : Fold(s.partRels[k].source) = Fold(n)
    BY <1>1, <2>6, <2>7, DeclaredAreScoped
  <2>9. PICK d \in Sources(s) : d = s.partRels[k].source
    BY DEF Sources
  <2>10. Fold(d) = Fold(n)
    BY <2>8, <2>9
  <2>11. rels = DeclaredRels(s, d) /\ rels \in Seq(Rels)
    BY <1>1, <2>7, <2>10, DeclaredTyped DEF DeclaredRels
  <2>12. PICK e : e = ScopeEntry(s, d)
    OBVIOUS
  <2>13. /\ Fold(e.name) = Fold(relsPathForPart(d)) /\ e.body = RelsBody(DeclaredRels(s, d))
    <3>1. PICK names : names = PartNames(s)
      OBVIOUS
    <3> QED
      BY <1>1, <2>12, <3>1, ScopeIsRead
  <2>14. d \in Paths
    BY <1>1, PassedIsRelated
  <2>15. Fold(e.name) = Fold(relsPathForPart(f.name))
    BY <2>3, <2>10, <2>13, <2>14, RelsPathFolds
  <2>16. e \in RelsParts(a, table)
    BY <2>12, EveryRelsPartIsRead
  <2>17. PICK body : body = e.body
    OBVIOUS
  <2>18. body = RelsBody(rels) /\ r \in DOMAIN rels
    BY <2>6, <2>7, <2>11, <2>13, <2>17
  <2>19. r \in ReadRels(body) /\ body.rels[r].id = r
    BY <2>11, <2>18, NumberedAreRead
  <2> QED
    BY <2>15, <2>16, <2>17, <2>19
<1>3. {f \in Documents(a, table) \ RelsParts(a, table) :
         \E r \in f.body.refs :
           ~\E e \in RelsParts(a, table) :
              /\ Fold(e.name) = Fold(relsPathForPart(f.name))
              /\ \E i \in ReadRels(e.body) : e.body.rels[i].id = r} = {}
  BY <1>2
<1> QED
  BY <1>3 DEF checkRelationshipReferences

(* So the archive gate has nothing to add.                                   *)
LEMMA NothingIsLeftToReport ==
  ASSUME NEW s, NEW m, NEW a, Passed(s, m, a), NEW b, Cardinality(Entries(s)) <= MaxEntries
  PROVE  validateZipBytes(a, b, m) = {}
<1>1. PICK table : table = ContentTypes(a)
  OBVIOUS
<1>2. PICK edges : edges = ArchiveEdges(a, table)
  OBVIOUS
<1>3. inspectZip(a, b) = {} /\ EntryIssues(a) = {}
  BY FrameIsSound
<1>4. ContentTypesIssues(a) = {}
  BY TableIsWritten
<1>5. checkContentTypeCoverage(a, table) = {}
  BY <1>1, EveryEntryIsCovered
<1>6. /\ UNION {decodeXmlPart(e) : e \in Parsed(a, table)} = {}
      /\ UNION {checkWordOrder(e.body) :
                  e \in Documents(a, table) \ RelsParts(a, table)} = {}
  BY <1>1, EveryRelsPartIsRead
<1>7. RelsPartIssues(a, table) = {}
  BY <1>1, RelsPartsAreSound
<1>8. /\ checkMainRelationship(edges, m) = {}
      /\ checkReachability({e.name : e \in a.entries}, edges) = {}
  BY <1>1, <1>2, EveryPartIsReached
<1>9. checkRelationshipReferences(a, table) = {}
  BY <1>1, EveryReferenceIsThere
<1> QED
  BY <1>1, <1>2, <1>3, <1>4, <1>5, <1>6, <1>7, <1>8, <1>9 DEF validateZipBytes

(* What waits for the archive gate is what the builder packed.               *)
PackedInv == phase = "packed" => archive = [flaw |-> "none", entries |-> Entries(spec)]

LEMMA NextLast ==
  IInv /\ PackedInv /\ FirstGateIsLast /\ [Next]_vars => PackedInv' /\ FirstGateIsLast'
<1> SUFFICES ASSUME IInv, PackedInv, FirstGateIsLast, [Next]_vars
             PROVE  PackedInv' /\ FirstGateIsLast'
  OBVIOUS
<1>1. CASE DeclarePart
  BY <1>1 DEF DeclarePart, MayDeclare, PackedInv, FirstGateIsLast
<1>2. CASE DeclarePackageRel
  BY <1>2 DEF DeclarePackageRel, MayDeclare, PackedInv, FirstGateIsLast
<1>3. CASE DeclarePartRel
  BY <1>3 DEF DeclarePartRel, MayDeclare, PackedInv, FirstGateIsLast
<1>4. CASE ValidateSpec
  BY <1>4 DEF ValidateSpec, PackedInv, FirstGateIsLast
<1>5. CASE Pack
  <2>1. spec \in Specs /\ validateSpec(spec, main) = {}
    BY <1>5 DEF Pack, IInv, GateInv
  <2>2. /\ issues' = ZipWriterIssues(Entries(spec)) /\ spec' = spec
        /\ phase' = IF issues' = {} THEN "packed" ELSE "failed"
        /\ archive' = IF issues' = {} THEN [flaw |-> "none", entries |-> Entries(spec)]
                      ELSE NoArchive
    <3>1. BuilderIssues(spec) = {}
      BY <2>1, BuilderAgrees
    <3> QED
      BY <1>5, <3>1 DEF Pack
  <2>3. ~\E e, f \in Entries(spec) : e # f /\ Fold(e.name) = Fold(f.name)
    BY <2>1, OneEntryToAName
  <2>4. ZipWriterIssues(Entries(spec)) =
          IF Cardinality(Entries(spec)) > MaxEntries THEN {"E_ZIP_LIMIT"} ELSE {}
    BY <2>3 DEF ZipWriterIssues
  <2>5. PackedInv'
    BY <2>2 DEF PackedInv
  <2>6. FirstGateIsLast'
    BY <2>2, <2>4 DEF FirstGateIsLast
  <2> QED
    BY <2>5, <2>6
<1>6. CASE ValidateBuilt
  <2>1. /\ phase = "packed" /\ spec' = spec
        /\ issues' = validateZipBytes(archive, TRUE, main)
        /\ phase' = IF issues' = {} THEN "built" ELSE "failed"
    BY <1>6 DEF ValidateBuilt
  <2>2. /\ spec \in Specs /\ validateSpec(spec, main) = {}
        /\ archive = [flaw |-> "none", entries |-> Entries(spec)]
    BY <2>1 DEF IInv, GateInv, PackedInv
  <2>3. Cardinality(Entries(spec)) <= MaxEntries
    <3>1. ~(Cardinality(Entries(spec)) > MaxEntries)
      BY <2>1 DEF IInv, ArchiveInv, ZipWriterIssues
    <3>2. Cardinality(Entries(spec)) \in Nat
      BY <2>2, EntriesAreFinite, FS_CardinalityType
    <3> QED
      BY <3>1, <3>2, EntriesAssumption
  <2>4. CASE \A n \in PartNames(spec) : ~IsRels(n)
    <3>1. PICK s, m, a : s = spec /\ m = main /\ a = archive
      OBVIOUS
    <3>2. Passed(s, m, a)
      BY <2>2, <2>4, <3>1 DEF Passed
    <3>3. Cardinality(Entries(s)) <= MaxEntries
      BY <2>3, <3>1
    <3>4. validateZipBytes(a, TRUE, m) = {}
      BY <3>2, <3>3, NothingIsLeftToReport
    <3>5. phase' = "built"
      BY <2>1, <3>1, <3>4
    <3> QED
      BY <3>5 DEF PackedInv, FirstGateIsLast
  <2>5. CASE \E n \in PartNames(spec) : IsRels(n)
    <3>1. \E n \in PartNames(spec') : IsRels(n)
      BY <2>1, <2>5
    <3>2. phase' # "packed"
      BY <2>1
    <3> QED
      BY <3>1, <3>2 DEF PackedInv, FirstGateIsLast, PartNames
  <2> QED
    BY <2>4, <2>5
<1>7. CASE Alter
  BY <1>7 DEF Alter, PackedInv, FirstGateIsLast
<1>8. CASE ValidateForeign
  BY <1>8 DEF ValidateForeign, PackedInv, FirstGateIsLast
<1>9. CASE UNCHANGED vars
  BY <1>9 DEF vars, PackedInv, FirstGateIsLast
<1> QED
  BY <1>1, <1>2, <1>3, <1>4, <1>5, <1>6, <1>7, <1>8, <1>9 DEF Next

(* Whatever is declared, once validateSpec has passed it only the engine's   *)
(* own entries break the limit of the writer, and the archive gate refuses   *)
(* nothing unless the caller brought a relationship part of its own.         *)
THEOREM NothingElseIsRefusedLate == Spec => []FirstGateIsLast
<1>1. Init => PackedInv /\ FirstGateIsLast
  BY DEF Init, PackedInv, FirstGateIsLast
<1> QED
  BY <1>1, NextLast, Invariance, PTL DEF Spec
=============================================================================
