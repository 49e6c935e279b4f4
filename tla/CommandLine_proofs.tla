-------------------------- MODULE CommandLine_proofs --------------------------
(***************************************************************************)
(* Proofs about CommandLine, for any commands, terminals, files, scopes and*)
(* numbers of edits and kills: what a scope selects is in order and within *)
(* its rules, a manifest is of one discovery, the topics are those of the  *)
(* rows, and a replay reports what it published.                           *)
(***************************************************************************)
EXTENDS CommandLine, SequenceTheorems, FiniteSetTheorems, WellFoundedInduction, TLAPS

(***************************************************************************)
(* Sets of numbers and their orderings.  The inductions are over the finite*)
(* sets themselves: their inclusion is well founded.                       *)
(***************************************************************************)
LEMMA LargestOfFinite ==
  ASSUME NEW S \in SUBSET Nat, IsFiniteSet(S), S # {}
  PROVE  \E m \in S : \A x \in S : x <= m
<1> DEFINE Bad == {T \in FiniteSubsetsOf(Nat) : T # {} /\ ~ \E m \in T : \A x \in T : x <= m}
<1>1. ASSUME Bad # {} PROVE FALSE
  <2>1. PICK T \in Bad : \A U \in Bad : <<U, T>> \notin StrictSubsetOrdering(Nat)
    <3>1. Bad \subseteq FiniteSubsetsOf(Nat)
      OBVIOUS
    <3> HIDE DEF Bad
    <3> QED
      BY <1>1, <3>1, FS_StrictSubsetOrderingWellFounded, WFMin
  <2>2. T \in SUBSET Nat /\ IsFiniteSet(T) /\ T # {}
    BY DEF FiniteSubsetsOf
  <2>3. PICK t \in T : TRUE
    BY <2>2
  <2> DEFINE U == T \ {t}
  <2>4. U \in FiniteSubsetsOf(Nat)
    BY <2>2, FS_Subset DEF FiniteSubsetsOf
  <2>5. U \notin Bad
    BY <2>1, <2>2, <2>3 DEF StrictSubsetOrdering
  <2>6. U = {} \/ \E m \in U : \A x \in U : x <= m
    BY <2>4, <2>5
  <2> QED
    BY <2>2, <2>3, <2>6
<1>2. S \in FiniteSubsetsOf(Nat)
  BY DEF FiniteSubsetsOf
<1> QED
  BY <1>1, <1>2

(* A bound is reached one step at a time.                                  *)
LEMMA ReachesBound ==
  ASSUME NEW n \in Nat, NEW Good \in SUBSET Nat, 0 \in Good,
         \A k \in Good : k < n => k + 1 \in Good
  PROVE  n \in Good
<1> DEFINE Below == Good \cap (0..n)
<1>1. IsFiniteSet(Below) /\ Below \in SUBSET Nat /\ 0 \in Below
  <2>1. IsFiniteSet(0..n)
    BY FS_Interval
  <2>2. Below \in SUBSET (0..n)
    OBVIOUS
  <2>3. IsFiniteSet(Below)
    BY <2>1, <2>2, FS_Subset
  <2> QED
    BY <2>3
<1>2. PICK m \in Below : \A x \in Below : x <= m
  <2> HIDE DEF Below
  <2> QED
    BY <1>1, LargestOfFinite
<1>3. CASE m = n
  BY <1>2, <1>3
<1>4. CASE m # n
  <2>1. m < n /\ m \in Good /\ m \in Nat
    BY <1>2, <1>4
  <2>2. m + 1 \in Below
    BY <2>1
  <2>3. m + 1 <= m
    BY <1>2, <2>2
  <2> QED
    BY <2>1, <2>3
<1> QED
  BY <1>3, <1>4

IsOrdering(s, S) ==
    /\ s \in [1..Cardinality(S) -> S]
    /\ \A i, j \in 1..Cardinality(S) : i < j => s[i] < s[j]

LEMMA OrderingExists ==
  ASSUME NEW S \in SUBSET Nat, IsFiniteSet(S)
  PROVE  \E s : IsOrdering(s, S)
<1> DEFINE Bad == {T \in FiniteSubsetsOf(Nat) : ~ \E s : IsOrdering(s, T)}
<1>1. ASSUME Bad # {} PROVE FALSE
  <2>1. PICK T \in Bad : \A U \in Bad : <<U, T>> \notin StrictSubsetOrdering(Nat)
    <3>1. Bad \subseteq FiniteSubsetsOf(Nat)
      OBVIOUS
    <3> HIDE DEF Bad
    <3> QED
      BY <1>1, <3>1, FS_StrictSubsetOrderingWellFounded, WFMin
  <2>2. T \in SUBSET Nat /\ IsFiniteSet(T)
    BY DEF FiniteSubsetsOf
  <2>3. CASE T = {}
    <3>1. Cardinality(T) = 0
      BY <2>3, FS_EmptySet
    <3> DEFINE e == [i \in 1..0 |-> i]
    <3>a. 1..0 = {}
      OBVIOUS
    <3>b. e \in [1..0 -> T]
      BY <3>a
    <3>2. IsOrdering(e, T)
      BY <3>1, <3>a, <3>b DEF IsOrdering
    <3> QED
      BY <3>2
  <2>4. CASE T # {}
    <3>1. PICK m \in T : \A x \in T : x <= m
      BY <2>2, <2>4, LargestOfFinite
    <3> DEFINE U == T \ {m}
    <3>2. U \in FiniteSubsetsOf(Nat)
      BY <2>2, FS_Subset DEF FiniteSubsetsOf
    <3>3. U \notin Bad
      BY <2>1, <2>2, <3>1 DEF StrictSubsetOrdering
    <3>4. PICK s : IsOrdering(s, U)
      BY <3>2, <3>3
    <3>5. PICK k \in Nat : k = Cardinality(U) /\ Cardinality(T) = k + 1
      <4>1. Cardinality(U) = Cardinality(T) - 1 /\ IsFiniteSet(U)
        BY <2>2, <3>1, FS_RemoveElement
      <4>2. Cardinality(U) \in Nat /\ Cardinality(T) \in Nat
        BY <2>2, <4>1, FS_CardinalityType
      <4> QED
        BY <4>1, <4>2
    <3>6. s \in [1..k -> U] /\ \A i, j \in 1..k : i < j => s[i] < s[j]
      BY <3>4, <3>5 DEF IsOrdering
    <3> DEFINE r == [i \in 1..(k + 1) |-> IF i = k + 1 THEN m ELSE s[i]]
    <3>7. \A i \in 1..k : s[i] \in T /\ s[i] \in Nat /\ s[i] < m
      <4>1. \A x \in U : x \in T /\ x \in Nat /\ m \in Nat /\ x <= m /\ x # m
        BY <2>2, <3>1
      <4>2. \A x \in U : x \in T /\ x \in Nat /\ x < m
        BY <4>1
      <4> HIDE DEF U
      <4> QED
        BY <3>6, <4>2
    <3>8. r \in [1..(k + 1) -> T]
      BY <3>1, <3>7
    <3>9. ASSUME NEW i \in 1..(k + 1), NEW j \in 1..(k + 1), i < j PROVE r[i] < r[j]
      <4>1. i \in 1..k /\ r[i] = s[i]
        BY <3>9
      <4>2. CASE j = k + 1
        BY <3>7, <4>1, <4>2
      <4>3. CASE j # k + 1
        BY <3>6, <3>9, <4>1, <4>3
      <4> QED
        BY <4>2, <4>3
    <3>10. IsOrdering(r, T)
      <4> HIDE DEF r
      <4> QED
        BY <3>5, <3>8, <3>9 DEF IsOrdering
    <3> QED
      BY <3>10
  <2> QED
    BY <2>3, <2>4
<1>2. S \in FiniteSubsetsOf(Nat)
  BY DEF FiniteSubsetsOf
<1> QED
  BY <1>1, <1>2

Ascends(s) == \A i, j \in DOMAIN s : i < j => s[i] < s[j]

LEMMA InOrderIs ==
  ASSUME NEW S \in SUBSET Files
  PROVE  /\ InOrder(S) \in Seq(Files) /\ Range(InOrder(S)) \subseteq S
         /\ Ascends(InOrder(S))
<1>1. IsFiniteSet(S) /\ S \in SUBSET Nat
  BY CpgAssumption, FilesAreOrdered, FS_Subset
<1>2. IsOrdering(InOrder(S), S)
  BY <1>1, OrderingExists DEF InOrder, IsOrdering
<1>3. PICK k \in Nat : k = Cardinality(S)
  BY <1>1, FS_CardinalityType
<1>4. PICK s : s = InOrder(S)
  OBVIOUS
<1>5. s \in [1..k -> S] /\ \A i, j \in 1..k : i < j => s[i] < s[j]
  BY <1>2, <1>3, <1>4 DEF IsOrdering
<1>6. s \in Seq(Files) /\ DOMAIN s = 1..k
  BY <1>5
<1> QED
  BY <1>4, <1>5, <1>6 DEF Range, Ascends

-----------------------------------------------------------------------------
LEMMA RangeIsCounted ==
  ASSUME NEW T, NEW s \in Seq(T)
  PROVE  /\ Range(s) \subseteq T /\ IsFiniteSet(Range(s))
         /\ Cardinality(Range(s)) \in Nat /\ Cardinality(Range(s)) <= Len(s)
<1>1. DOMAIN s = 1..Len(s) /\ Len(s) \in Nat /\ \A i \in 1..Len(s) : s[i] \in T
  OBVIOUS
<1>2. Range(s) \subseteq T
  BY <1>1 DEF Range
<1>3. s \in Surjection(1..Len(s), Range(s))
  BY <1>1 DEF Surjection, Range
<1>4. IsFiniteSet(1..Len(s)) /\ Cardinality(1..Len(s)) = Len(s)
  <2>1. PICK n \in Nat : n = Len(s)
    BY <1>1
  <2>2. IsFiniteSet(1..n) /\ Cardinality(1..n) = IF 1 > n THEN 0 ELSE n - 1 + 1
    BY FS_Interval
  <2>3. Cardinality(1..n) = n
    BY <2>2
  <2> QED
    BY <2>1, <2>2, <2>3
<1>5. IsFiniteSet(Range(s)) /\ Cardinality(Range(s)) <= Len(s)
  BY <1>3, <1>4, FS_Surjection
<1> QED
  BY <1>2, <1>5, FS_CardinalityType

LEMMA PrefixIs ==
  ASSUME NEW T, NEW s \in Seq(T), NEW n \in Nat
  PROVE  /\ Prefix(s, n) \in Seq(T) /\ Range(Prefix(s, n)) \subseteq Range(s)
         /\ Len(Prefix(s, n)) <= n
<1> DEFINE k == IF n < Len(s) THEN n ELSE Len(s)
<1>0. Len(s) \in Nat
  OBVIOUS
<1>1. k \in 0..Len(s) /\ k <= n /\ Len(s) \in Nat
  BY <1>0
<1>2. Prefix(s, n) = SubSeq(s, 1, k)
  BY DEF Prefix
<1> HIDE DEF k
<1>3. /\ SubSeq(s, 1, k) \in Seq(T) /\ Len(SubSeq(s, 1, k)) = k
      /\ \A i \in 1..k : SubSeq(s, 1, k)[i] = s[i]
  BY <1>1
<1>4. DOMAIN SubSeq(s, 1, k) = 1..k
  BY <1>1, <1>3
<1>5. \A i \in 1..k : i \in DOMAIN s
  BY <1>1
<1> QED
  BY <1>1, <1>2, <1>3, <1>4, <1>5 DEF Range

-----------------------------------------------------------------------------
(***************************************************************************)
(* Scopes.  Scope and Rules are recursive along extends, which the depth of*)
(* FiltersAssumption bounds: each is built for the scopes of a depth below *)
(* n, one depth after the other.                                           *)
(***************************************************************************)
Extends(name) == "extends" \in DOMAIN Filters[name]

IsDepth(depth) ==
    /\ depth \in [DOMAIN Filters -> 0..Cardinality(DOMAIN Filters)]
    /\ \A name \in DOMAIN Filters : Extends(name) =>
         /\ Filters[name].extends \in DOMAIN Filters
         /\ depth[Filters[name].extends] < depth[name]

LEMMA DepthExists ==
  /\ Cardinality(DOMAIN Filters) \in Nat
  /\ \E depth : IsDepth(depth)
<1>1. Cardinality(DOMAIN Filters) \in Nat
  BY FiltersAssumption, FS_CardinalityType
<1> QED
  BY <1>1, FiltersAssumption DEF IsDepth, Extends

(* The keys of a scope over those of the one it extends.                   *)
Overrides(raw, parent) ==
    [k \in (DOMAIN raw \cup DOMAIN parent) \ {"extends"} |->
        IF k \in DOMAIN raw THEN raw[k] ELSE parent[k]]

IsScope(s, D) ==
    s = [name \in D |-> IF Extends(name)
                        THEN Overrides(Filters[name], s[Filters[name].extends])
                        ELSE Filters[name]]

LEMMA ScopeDefined == IsScope(Scope, DOMAIN Filters)
<1>1. PICK depth : IsDepth(depth)
  BY DepthExists
<1>2. PICK top \in Nat : top = Cardinality(DOMAIN Filters)
  BY DepthExists
<1>3. \A name \in DOMAIN Filters : depth[name] \in Nat /\ depth[name] < top + 1
  <2>1. \A name \in DOMAIN Filters : depth[name] \in 0..top
    BY <1>1, <1>2 DEF IsDepth
  <2> QED
    BY <2>1
<1> DEFINE D(n) == {name \in DOMAIN Filters : depth[name] < n}
           Good == {n \in Nat : \E s : IsScope(s, D(n))}
<1>4. 0 \in Good
  <2>1. D(0) = {}
    BY <1>3
  <2>2. IsScope([name \in {} |-> name], D(0))
    BY <2>1 DEF IsScope
  <2> QED
    BY <2>2
<1>5. ASSUME NEW n \in Good PROVE n + 1 \in Good
  <2>1. PICK s : IsScope(s, D(n))
    OBVIOUS
  <2> DEFINE r == [name \in D(n + 1) |->
                     IF Extends(name)
                     THEN Overrides(Filters[name], s[Filters[name].extends])
                     ELSE Filters[name]]
  <2>2. \A name \in D(n) : name \in D(n + 1) /\ r[name] = s[name]
    <3>1. \A name \in D(n) : name \in D(n + 1)
      BY <1>3
    <3>2. \A name \in D(n) : s[name] = IF Extends(name)
                     THEN Overrides(Filters[name], s[Filters[name].extends])
                     ELSE Filters[name]
      <4> HIDE DEF D
      <4> QED
        BY <2>1 DEF IsScope
    <3> HIDE DEF D
    <3> QED
      BY <3>1, <3>2
  <2>3. \A name \in D(n + 1) : Extends(name) => Filters[name].extends \in D(n)
    BY <1>1, <1>3 DEF IsDepth
  <2>4. r = [name \in D(n + 1) |->
               IF Extends(name)
               THEN Overrides(Filters[name], r[Filters[name].extends])
               ELSE Filters[name]]
    <3> HIDE DEF D
    <3>1. \A name \in D(n + 1) : Extends(name) =>
             r[Filters[name].extends] = s[Filters[name].extends]
      BY <2>2, <2>3
    <3> QED
      BY <3>1
  <2>5. IsScope(r, D(n + 1))
    <3> HIDE DEF r, D
    <3> QED
      BY <2>4 DEF IsScope
  <2>6. \E q : IsScope(q, D(n + 1))
    <3> HIDE DEF r, D
    <3> QED
      BY <2>5
  <2>7. n \in Nat
    OBVIOUS
  <2>8. n + 1 \in Nat
    BY <2>7
  <2> HIDE DEF D
  <2> QED
    BY <2>6, <2>8
<1>6. top + 1 \in Good
  <2> HIDE DEF Good
  <2>1. Good \in SUBSET Nat
    BY DEF Good
  <2>2. PICK m \in Nat : m = top + 1
    OBVIOUS
  <2>3. \A k \in Good : k < m => k + 1 \in Good
    BY <1>5
  <2>4. m \in Good
    BY <1>4, <2>1, <2>3, ReachesBound
  <2> QED
    BY <2>2, <2>4
<1>7. D(top + 1) = DOMAIN Filters
  BY <1>3
<1>8. \E s : IsScope(s, DOMAIN Filters)
  BY <1>6, <1>7
<1> QED
  BY <1>8 DEF Scope, IsScope, Overrides, Extends

OwnRules(name) == Key(Filters[name], "exclude", << >>)

IsRules(s, D) ==
    s = [name \in D |-> OwnRules(name) \o
           (IF Extends(name) THEN s[Filters[name].extends] ELSE << >>)]

LEMMA RulesDefined == IsRules(Rules, DOMAIN Filters)
<1>1. PICK depth : IsDepth(depth)
  BY DepthExists
<1>2. PICK top \in Nat : top = Cardinality(DOMAIN Filters)
  BY DepthExists
<1>3. \A name \in DOMAIN Filters : depth[name] \in Nat /\ depth[name] < top + 1
  <2>1. \A name \in DOMAIN Filters : depth[name] \in 0..top
    BY <1>1, <1>2 DEF IsDepth
  <2> QED
    BY <2>1
<1> DEFINE D(n) == {name \in DOMAIN Filters : depth[name] < n}
           Good == {n \in Nat : \E s : IsRules(s, D(n))}
<1>4. 0 \in Good
  <2>1. D(0) = {}
    BY <1>3
  <2>2. IsRules([name \in {} |-> name], D(0))
    BY <2>1 DEF IsRules
  <2> QED
    BY <2>2
<1>5. ASSUME NEW n \in Good PROVE n + 1 \in Good
  <2>1. PICK s : IsRules(s, D(n))
    OBVIOUS
  <2> DEFINE r == [name \in D(n + 1) |->
                     OwnRules(name) \o
                     (IF Extends(name) THEN s[Filters[name].extends]
                      ELSE << >>)]
  <2>2. \A name \in D(n) : name \in D(n + 1) /\ r[name] = s[name]
    <3>1. \A name \in D(n) : name \in D(n + 1)
      BY <1>3
    <3>2. \A name \in D(n) : s[name] = OwnRules(name) \o
                     (IF Extends(name) THEN s[Filters[name].extends]
                      ELSE << >>)
      <4> HIDE DEF D
      <4> QED
        BY <2>1 DEF IsRules
    <3> HIDE DEF D
    <3> QED
      BY <3>1, <3>2
  <2>3. \A name \in D(n + 1) : Extends(name) => Filters[name].extends \in D(n)
    BY <1>1, <1>3 DEF IsDepth
  <2>4. r = [name \in D(n + 1) |->
               OwnRules(name) \o
               (IF Extends(name) THEN r[Filters[name].extends]
                ELSE << >>)]
    <3> HIDE DEF D
    <3>1. \A name \in D(n + 1) : Extends(name) =>
             r[Filters[name].extends] = s[Filters[name].extends]
      BY <2>2, <2>3
    <3> QED
      BY <3>1
  <2>5. IsRules(r, D(n + 1))
    <3> HIDE DEF r, D
    <3> QED
      BY <2>4 DEF IsRules
  <2>6. \E q : IsRules(q, D(n + 1))
    <3> HIDE DEF r, D
    <3> QED
      BY <2>5
  <2>7. n \in Nat
    OBVIOUS
  <2>8. n + 1 \in Nat
    BY <2>7
  <2> HIDE DEF D
  <2> QED
    BY <2>6, <2>8
<1>6. top + 1 \in Good
  <2> HIDE DEF Good
  <2>1. Good \in SUBSET Nat
    BY DEF Good
  <2>2. PICK m \in Nat : m = top + 1
    OBVIOUS
  <2>3. \A k \in Good : k < m => k + 1 \in Good
    BY <1>5
  <2>4. m \in Good
    BY <1>4, <2>1, <2>3, ReachesBound
  <2> QED
    BY <2>2, <2>4
<1>7. D(top + 1) = DOMAIN Filters
  BY <1>3
<1>8. \E s : IsRules(s, DOMAIN Filters)
  BY <1>6, <1>7
<1> QED
  BY <1>8 DEF Rules, IsRules, OwnRules, Extends

RuleList == Seq([paths : SUBSET Files, reason : Reasons])
RulesIn(scope) == Key(scope, "exclude", << >>)

LEMMA OwnScope ==
  ASSUME NEW name \in DOMAIN Filters, ~ Extends(name)
  PROVE  Scope[name] = Filters[name] /\ Rules[name] = OwnRules(name) \o << >>
<1>1. Scope[name] = Filters[name]
  BY ScopeDefined DEF IsScope
<1>2. Rules[name] = OwnRules(name) \o << >>
  BY RulesDefined DEF IsRules
<1> QED
  BY <1>1, <1>2

LEMMA ExtendedScope ==
  ASSUME NEW name \in DOMAIN Filters, Extends(name)
  PROVE  /\ Scope[name] = Overrides(Filters[name], Scope[Filters[name].extends])
         /\ Rules[name] = OwnRules(name) \o Rules[Filters[name].extends]
<1>1. Scope[name] = Overrides(Filters[name], Scope[Filters[name].extends])
  BY ScopeDefined DEF IsScope
<1>2. Rules[name] = OwnRules(name) \o Rules[Filters[name].extends]
  BY RulesDefined DEF IsRules
<1> QED
  BY <1>1, <1>2

LEMMA OwnRulesTyped ==
  ASSUME NEW name \in DOMAIN Filters
  PROVE  OwnRules(name) \in RuleList
<1>1. CASE "exclude" \in DOMAIN Filters[name]
  <2>1. Filters[name]["exclude"] \in RuleList
    BY <1>1, FiltersAssumption DEF RuleList
  <2> QED
    BY <1>1, <2>1 DEF OwnRules, Key
<1>2. CASE "exclude" \notin DOMAIN Filters[name]
  <2>1. << >> \in RuleList
    BY DEF RuleList
  <2> QED
    BY <1>2, <2>1 DEF OwnRules, Key
<1> QED
  BY <1>1, <1>2

(* A key is the scope's own, and otherwise that of the scope it extends.   *)
LEMMA OverridesIs ==
  ASSUME NEW raw, NEW parent, NEW k, k # "extends"
  PROVE  /\ k \in DOMAIN Overrides(raw, parent) <=> k \in DOMAIN raw \/ k \in DOMAIN parent
         /\ k \in DOMAIN raw => Overrides(raw, parent)[k] = raw[k]
         /\ k \notin DOMAIN raw /\ k \in DOMAIN parent => Overrides(raw, parent)[k] = parent[k]
  BY DEF Overrides

(* What the rules of a scope are, whoever declares them.                   *)
ScopeIsTyped(name) ==
    /\ RulesIn(Scope[name]) \in RuleList
    /\ "max_files" \in DOMAIN Scope[name] => Scope[name]["max_files"] \in Nat
    /\ "max_files" \in DOMAIN Filters[name] =>
         /\ "max_files" \in DOMAIN Scope[name]
         /\ Scope[name]["max_files"] = Filters[name]["max_files"]

LEMMA ScopesTyped == \A name \in DOMAIN Filters : ScopeIsTyped(name)
<1>1. PICK depth : IsDepth(depth)
  BY DepthExists
<1>2. PICK top \in Nat : top = Cardinality(DOMAIN Filters)
  BY DepthExists
<1>3. \A name \in DOMAIN Filters : depth[name] \in Nat /\ depth[name] < top + 1
  <2>1. \A name \in DOMAIN Filters : depth[name] \in 0..top
    BY <1>1, <1>2 DEF IsDepth
  <2> QED
    BY <2>1
<1> DEFINE Good == {n \in Nat : \A name \in DOMAIN Filters :
                       depth[name] < n => ScopeIsTyped(name)}
<1>4. 0 \in Good
  BY <1>3
<1>5. ASSUME NEW n \in Good PROVE n + 1 \in Good
  <2>0. n \in Nat /\ n + 1 \in Nat
    OBVIOUS
  <2>1. ASSUME NEW name \in DOMAIN Filters, depth[name] < n + 1 PROVE ScopeIsTyped(name)
    <3>0. "max_files" \in DOMAIN Filters[name] => Filters[name]["max_files"] \in Nat
      BY FiltersAssumption
    <3>1. CASE ~ Extends(name)
      <4>1. Scope[name] = Filters[name]
        BY <3>1, OwnScope
      <4>2. RulesIn(Scope[name]) \in RuleList
        BY <4>1, OwnRulesTyped DEF OwnRules, RulesIn
      <4> QED
        BY <3>0, <4>1, <4>2 DEF ScopeIsTyped
    <3>2. CASE Extends(name)
      <4>1. PICK up \in DOMAIN Filters : up = Filters[name].extends /\ depth[up] < depth[name]
        BY <1>1, <3>2 DEF IsDepth
      <4>2. ScopeIsTyped(up)
        BY <1>3, <2>0, <2>1, <4>1
      <4>3. Scope[name] = Overrides(Filters[name], Scope[up])
        BY <3>2, <4>1, ExtendedScope
      <4>4. RulesIn(Scope[name]) \in RuleList
        <5>1. RulesIn(Scope[name]) = OwnRules(name) \/ RulesIn(Scope[name]) = RulesIn(Scope[up])
          BY <4>3, OverridesIs DEF RulesIn, OwnRules, Key
        <5> QED
          BY <4>2, <5>1, OwnRulesTyped DEF ScopeIsTyped
      <4>5. "max_files" \in DOMAIN Scope[name] => Scope[name]["max_files"] \in Nat
        BY <3>0, <4>2, <4>3, OverridesIs DEF ScopeIsTyped
      <4>6. "max_files" \in DOMAIN Filters[name] =>
              /\ "max_files" \in DOMAIN Scope[name]
              /\ Scope[name]["max_files"] = Filters[name]["max_files"]
        BY <4>3, OverridesIs
      <4> QED
        BY <4>4, <4>5, <4>6 DEF ScopeIsTyped
    <3> QED
      BY <3>1, <3>2
  <2> QED
    BY <2>0, <2>1
<1>6. top + 1 \in Good
  <2> HIDE DEF Good
  <2>1. Good \in SUBSET Nat
    BY DEF Good
  <2>2. PICK m \in Nat : m = top + 1
    OBVIOUS
  <2>3. \A k \in Good : k < m => k + 1 \in Good
    BY <1>5
  <2>4. m \in Good
    BY <1>4, <2>1, <2>3, ReachesBound
  <2> QED
    BY <2>2, <2>4
<1> QED
  BY <1>3, <1>6

(* Scopes that extend another leave its exclusions as they are, as those of*)
(* file_filters.yaml do.                                                   *)
ExtensionsKeepExclusions ==
    \A name \in DOMAIN Filters : Extends(name) => "exclude" \notin DOMAIN Filters[name]

LEMMA RulesAreInherited ==
  ASSUME ExtensionsKeepExclusions
  PROVE  \A name \in DOMAIN Filters : Rules[name] = RulesIn(Scope[name])
<1>1. PICK depth : IsDepth(depth)
  BY DepthExists
<1>2. PICK top \in Nat : top = Cardinality(DOMAIN Filters)
  BY DepthExists
<1>3. \A name \in DOMAIN Filters : depth[name] \in Nat /\ depth[name] < top + 1
  <2>1. \A name \in DOMAIN Filters : depth[name] \in 0..top
    BY <1>1, <1>2 DEF IsDepth
  <2> QED
    BY <2>1
<1> DEFINE Good == {n \in Nat : \A name \in DOMAIN Filters :
                       depth[name] < n => Rules[name] = RulesIn(Scope[name])}
<1>4. 0 \in Good
  BY <1>3
<1>5. ASSUME NEW n \in Good PROVE n + 1 \in Good
  <2>0. n \in Nat /\ n + 1 \in Nat
    OBVIOUS
  <2>1. ASSUME NEW name \in DOMAIN Filters, depth[name] < n + 1
        PROVE  Rules[name] = RulesIn(Scope[name])
    <3>1. CASE ~ Extends(name)
      <4>1. Scope[name] = Filters[name] /\ Rules[name] = OwnRules(name) \o << >>
        BY <3>1, OwnScope
      <4>2. \A s \in RuleList : s \o << >> = s
        BY DEF RuleList
      <4>3. OwnRules(name) = RulesIn(Scope[name])
        BY <4>1 DEF OwnRules, RulesIn
      <4> QED
        BY <4>1, <4>2, <4>3, OwnRulesTyped
    <3>2. CASE Extends(name)
      <4>1. PICK up \in DOMAIN Filters : up = Filters[name].extends /\ depth[up] < depth[name]
        BY <1>1, <3>2 DEF IsDepth
      <4>2. Rules[up] = RulesIn(Scope[up])
        BY <1>3, <2>0, <2>1, <4>1
      <4>3. /\ Scope[name] = Overrides(Filters[name], Scope[up])
            /\ Rules[name] = OwnRules(name) \o Rules[up]
        BY <3>2, <4>1, ExtendedScope
      <4>4. "exclude" \notin DOMAIN Filters[name]
        BY <3>2 DEF ExtensionsKeepExclusions
      <4>5. OwnRules(name) = << >>
        BY <4>4 DEF OwnRules, Key
      <4>6. RulesIn(Scope[name]) = RulesIn(Scope[up])
        BY <4>3, <4>4, OverridesIs DEF RulesIn, Key
      <4>7. \A s \in RuleList : << >> \o s = s
        BY DEF RuleList
      <4>8. RulesIn(Scope[up]) \in RuleList
        BY ScopesTyped DEF ScopeIsTyped
      <4> QED
        BY <4>2, <4>3, <4>5, <4>6, <4>7, <4>8
    <3> QED
      BY <3>1, <3>2
  <2> QED
    BY <2>0, <2>1
<1>6. top + 1 \in Good
  <2> HIDE DEF Good
  <2>1. Good \in SUBSET Nat
    BY DEF Good
  <2>2. PICK m \in Nat : m = top + 1
    OBVIOUS
  <2>3. \A k \in Good : k < m => k + 1 \in Good
    BY <1>5
  <2>4. m \in Good
    BY <1>4, <2>1, <2>3, ReachesBound
  <2> QED
    BY <2>2, <2>4
<1> QED
  BY <1>3, <1>6

LEMMA SmallestOfRange ==
  ASSUME NEW n \in Nat, NEW S \in SUBSET (1..n), S # {}
  PROVE  Min(S) \in S
<1> DEFINE R == {n - x : x \in S}
<1>0. \A x \in 1..n : x \in Nat /\ n - x \in 0..n /\ n - x \in Nat
  OBVIOUS
<1>1. \A x \in S : x \in Nat /\ n - x \in 0..n /\ n - x \in Nat
  BY <1>0
<1>2. R \in SUBSET (0..n) /\ R \in SUBSET Nat /\ R # {}
  <2>1. \A r \in R : r \in 0..n /\ r \in Nat
    BY <1>1
  <2>2. R # {}
    OBVIOUS
  <2> HIDE DEF R
  <2> QED
    BY <2>1, <2>2
<1>3. IsFiniteSet(R)
  <2>1. IsFiniteSet(0..n)
    BY FS_Interval
  <2> HIDE DEF R
  <2> QED
    BY <1>2, <2>1, FS_Subset
<1>4. PICK r \in R : \A y \in R : y <= r
  <2> HIDE DEF R
  <2> QED
    BY <1>2, <1>3, LargestOfFinite
<1>5. PICK m \in S : r = n - m
  OBVIOUS
<1>6. \A x \in S : m <= x
  <2>1. \A x \in S : n - x <= n - m
    BY <1>4, <1>5
  <2> QED
    BY <1>1, <2>1
<1> QED
  BY <1>6 DEF Min

Untouched(f, rules) == \A i \in DOMAIN rules : f \notin rules[i].paths

LEMMA ExclusionReasonIs ==
  ASSUME NEW f, NEW scope, RulesIn(scope) \in RuleList
  PROVE  /\ ExclusionReason(f, scope) \in Reasons \cup {NoReason}
         /\ ExclusionReason(f, scope) = NoReason <=> Untouched(f, RulesIn(scope))
<1>1. PICK rules \in RuleList : rules = RulesIn(scope)
  OBVIOUS
<1> DEFINE hits == {i \in DOMAIN rules : f \in rules[i].paths}
<1>2. ExclusionReason(f, scope) = IF hits = {} THEN NoReason ELSE rules[Min(hits)].reason
  BY <1>1 DEF ExclusionReason, RulesIn
<1>3. hits = {} <=> Untouched(f, rules)
  BY DEF Untouched
<1>4. ASSUME hits # {} PROVE rules[Min(hits)].reason \in Reasons
  <2>1. PICK n \in Nat : DOMAIN rules = 1..n
    BY DEF RuleList
  <2>2. Min(hits) \in DOMAIN rules
    <3>1. hits \in SUBSET (1..n)
      BY <2>1
    <3> HIDE DEF hits
    <3>2. Min(hits) \in hits
      BY <1>4, <3>1, SmallestOfRange
    <3> QED
      BY <2>1, <3>1, <3>2
  <2>3. \A i \in DOMAIN rules : rules[i] \in [paths : SUBSET Files, reason : Reasons]
    <3> DEFINE T == [paths : SUBSET Files, reason : Reasons]
    <3>1. rules \in Seq(T)
      BY DEF RuleList
    <3> HIDE DEF T, hits
    <3>2. \A i \in DOMAIN rules : rules[i] \in T
      BY <3>1
    <3> QED
      BY <3>2 DEF T
  <2> HIDE DEF hits
  <2> QED
    BY <2>2, <2>3
<1> HIDE DEF hits
<1> QED
  BY <1>1, <1>2, <1>3, <1>4, FiltersAssumption

LEMMA LoadScopeTyped ==
  ASSUME NEW name
  PROVE  /\ RulesIn(LoadScope(name)) \in RuleList
         /\ "max_files" \in DOMAIN LoadScope(name) => LoadScope(name)["max_files"] \in Nat
<1>1. CASE name \in DOMAIN Filters
  BY <1>1, ScopesTyped DEF ScopeIsTyped, LoadScope
<1>2. CASE name \notin DOMAIN Filters
  <2>1. LoadScope(name) = << >> /\ DOMAIN << >> = {}
    BY <1>2 DEF LoadScope
  <2>2. RulesIn(LoadScope(name)) = << >>
    BY <2>1 DEF RulesIn, Key
  <2>3. << >> \in RuleList
    BY DEF RuleList
  <2> QED
    BY <2>1, <2>2, <2>3
<1> QED
  BY <1>1, <1>2

LEMMA ListFilesIs ==
  ASSUME NEW tree, NEW name
  PROVE  /\ ListFiles(tree, name) \in Seq(Files)
         /\ \A f \in Range(ListFiles(tree, name)) :
               Untouched(f, RulesIn(LoadScope(name)))
         /\ name \in DOMAIN Filters /\ "max_files" \in DOMAIN Filters[name] =>
               Len(ListFiles(tree, name)) <= Filters[name]["max_files"]
<1> DEFINE scope == LoadScope(name)
           S == {f \in Present(tree) :
                    f \in Included(scope) /\ ExclusionReason(f, scope) = NoReason}
           most == Key(scope, "max_files", Len(InOrder(S)))
<1>1. S \in SUBSET Files
  BY DEF Present
<1>2. InOrder(S) \in Seq(Files) /\ Range(InOrder(S)) \subseteq S
  <2> HIDE DEF S
  <2> QED
    BY <1>1, InOrderIs
<1>3. most \in Nat
  <2> HIDE DEF S
  <2>1. Len(InOrder(S)) \in Nat
    BY <1>2
  <2> QED
    BY <2>1, LoadScopeTyped DEF Key
<1>4. ListFiles(tree, name) = Prefix(InOrder(S), most)
  BY DEF ListFiles
<1>5. /\ ListFiles(tree, name) \in Seq(Files)
      /\ Range(ListFiles(tree, name)) \subseteq S
      /\ Len(ListFiles(tree, name)) <= most
  <2> HIDE DEF S, most
  <2> QED
    BY <1>2, <1>3, <1>4, PrefixIs
<1>6. \A f \in S : Untouched(f, RulesIn(LoadScope(name)))
  BY LoadScopeTyped, ExclusionReasonIs
<1>7. ASSUME name \in DOMAIN Filters, "max_files" \in DOMAIN Filters[name]
      PROVE  most = Filters[name]["max_files"]
  BY <1>7, ScopesTyped DEF ScopeIsTyped, LoadScope, Key
<1> QED
  <2> HIDE DEF S, most
  <2> QED
    BY <1>5, <1>6, <1>7

-----------------------------------------------------------------------------
(***************************************************************************)
(* The types, and what the step a process is at says of it and of the copy.*)
(***************************************************************************)
Scopes == {c.scope : c \in {d \in Commands : d.kind \in Walking}}
Entry == [path : Files, scope : Scopes, commit : Commits, content : Contents \cup {Missing},
          included : BOOLEAN, reason : Reasons \cup {NoReason, NotIncluded}]
BatchRecord == [gen : Generation, removed : SUBSET Nodes]

Early == {"idle", "clone", "walk", "select", "manifest", "next", "check"}
OnFile == {"preview", "report"} \cup InService
Results == {"none", "SUCCESS", "FAILED", "SKIPPED_UNCHANGED"}

Process ==
    [pc : Early \cup OnFile, cmd : Commands \cup {NoCommand},
     raw : Seq(Files) \cup Seq(Entry), todo : Seq(Files), file : Files \cup {NoFile},
     content : Contents \cup {Missing}, row : Row \cup {NoRow},
     preview : (Nat \X Nat) \cup {NoPreview}, result : Results]

StageOK(r) ==
    /\ r.pc = "idle" => r = Idle
    /\ r.pc # "idle" => r.cmd \in Commands
    /\ r.pc \in {"clone", "walk", "select", "manifest"} => r.cmd.kind \in Walking
    /\ r.pc \in {"select", "manifest"} => r.cmd.kind # "clone-source"
    /\ r.pc = "next" => r.cmd.kind = "parse-repository"
    /\ r.pc \in {"check", "report"} => r.cmd.kind \in {"parse-file", "replay-file"}
    /\ r.pc = "preview" => r.cmd.kind = "replay-file"
    /\ r.pc \in InService => r.cmd.kind \in {"parse-repository", "parse-file", "replay-file"}
    /\ r.pc \in Early => r.file = NoFile
    /\ r.pc \in OnFile => r.file \in Files
    /\ r.pc \in Early \cup {"preview"} => r.preview = NoPreview
    /\ r.preview # NoPreview => r.cmd.kind = "replay-file"
    /\ r.pc \in {"load", "publish", "commit"} => r.content \in Contents
    /\ r.pc \in {"publish", "commit"} => r.content \notin Unparsable
    /\ r.pc = "select" => r.raw \in Seq(Files) /\ Ascends(r.raw)
    /\ r.pc = "manifest" => r.raw \in Seq(Entry)

TypeOfRest ==
    /\ repository \in Commits \cup {NoCommit, "broken"}
    /\ disk \in [Files -> Contents \cup {Missing}]
    /\ store \in [Files -> Row \cup {NoRow}]
    /\ log \in [Writers -> [Files -> Seq(BatchRecord)]]
    /\ manifest \in [Manifests -> Seq(Entry)]
    /\ contended \in SUBSET Files /\ dryRows \in SUBSET Files
    /\ changed \in SUBSET Processes /\ mixed \in SUBSET Manifests
TypeOK == TypeOfRest /\ proc \in [Processes -> Process]

Stages == \A p \in Processes : StageOK(proc[p])

(* Nothing is in the copy before it is cloned, and a process that looks at *)
(* it after its own clone looks at a copy of a commit.                     *)
CopyFits(r, commit) ==
    /\ r.pc \in {"walk", "select", "manifest"} => commit # NoCommit
    /\ r.pc \in {"select", "manifest"} => commit \in Commits
    /\ r.preview # NoPreview => commit \in Commits
CopyOK ==
    /\ repository \notin Commits => \A f \in Files : disk[f] = Missing
    /\ \A p \in Processes : CopyFits(proc[p], repository)

Base == TypeOK /\ Stages /\ CopyOK

LEMMA IdleIs ==
  /\ Idle \in Process /\ StageOK(Idle) /\ Idle.pc = "idle" /\ Idle.file = NoFile
  /\ Idle.preview = NoPreview /\ Idle.raw = << >> /\ Idle.todo = << >>
<1>1. << >> \in Seq(Files)
  OBVIOUS
<1> QED
  BY <1>1 DEF Idle, Process, StageOK, Early, OnFile, InService, Results

(* The process p goes on as r, and the others stay where they are.         *)
Goes(p, r) == r \in Process /\ StageOK(r) /\ proc' = [proc EXCEPT ![p] = r]

LEMMA GoesIs ==
  ASSUME Base, NEW p \in Processes, NEW r, Goes(p, r)
  PROVE  /\ proc' \in [Processes -> Process] /\ \A q \in Processes : StageOK(proc'[q])
         /\ proc'[p] = r /\ \A q \in Processes \ {p} : proc'[q] = proc[q]
<1>1. proc \in [Processes -> Process] /\ \A q \in Processes : StageOK(proc[q])
  BY DEF Base, TypeOK, TypeOfRest, Stages
<1>2. /\ proc' \in [Processes -> Process]
      /\ proc'[p] = r /\ \A q \in Processes \ {p} : proc'[q] = proc[q]
  BY <1>1 DEF Goes
<1>3. ASSUME NEW q \in Processes PROVE StageOK(proc'[q])
  BY <1>1, <1>2 DEF Goes
<1> QED
  BY <1>2, <1>3

LEMMA ExitGoes ==
  ASSUME NEW p \in Processes, Exit(p)
  PROVE  Goes(p, Idle)
  BY IdleIs DEF Exit, Goes

LEMMA ProcIs ==
  ASSUME Base, NEW p \in Processes
  PROVE  /\ proc[p] \in Process /\ StageOK(proc[p])
         /\ Cmd(p) = proc[p].cmd
  BY DEF Base, TypeOK, TypeOfRest, Stages, Cmd

(* The step of an action, as the record it leaves for its process.         *)
Rec(pc, cmd, raw, todo, file, content, row, preview, result) ==
    [pc |-> pc, cmd |-> cmd, raw |-> raw, todo |-> todo, file |-> file,
     content |-> content, row |-> row, preview |-> preview, result |-> result]

LEMMA ProcessIs ==
  ASSUME NEW x \in Process
  PROVE  /\ x.pc \in Early \cup OnFile /\ x.cmd \in Commands \cup {NoCommand}
         /\ x.raw \in Seq(Files) \cup Seq(Entry) /\ x.todo \in Seq(Files)
         /\ x.file \in Files \cup {NoFile} /\ x.content \in Contents \cup {Missing}
         /\ x.row \in Row \cup {NoRow} /\ x.preview \in (Nat \X Nat) \cup {NoPreview}
         /\ x.result \in Results
  BY DEF Process

LEMMA TypeGoes ==
  ASSUME Base, NEW p \in Processes, NEW c \in Commands, Type(p, c)
  PROVE  \E r : /\ Goes(p, r) /\ r.pc \in {"clone", "check"} /\ r.cmd = c
                /\ r.preview = NoPreview /\ r.file = NoFile
<1>0. proc[p] = Idle
  BY ProcIs DEF Type, At, StageOK
<1>1. PICK x \in Process : x = proc[p]
  BY ProcIs
<1>2. PICK r : /\ r = [proc[p] EXCEPT !.pc = IF c.kind \in Walking THEN "clone" ELSE "check",
                                      !.cmd = c]
               /\ proc' = [proc EXCEPT ![p] = r]
  BY Zenon DEF Type
<1>3. r = [x EXCEPT !.pc = IF c.kind \in Walking THEN "clone" ELSE "check", !.cmd = c]
  BY <1>1, <1>2
<1>4. PICK pc \in {"clone", "check"} : pc = IF c.kind \in Walking THEN "clone" ELSE "check"
  OBVIOUS
<1>5. r = Rec(pc, c, x.raw, x.todo, x.file, x.content, x.row, x.preview, x.result)
  BY <1>3, <1>4 DEF Process, Rec
<1>6. /\ r \in Process /\ r.pc = pc /\ r.cmd = c /\ r.preview = x.preview /\ r.file = x.file
  <2>1. pc \in Early \cup OnFile /\ c \in Commands \cup {NoCommand}
    BY DEF Early
  <2> QED
    BY <1>5, <2>1, ProcessIs DEF Rec, Process
<1>7. c.kind \in Walking \/ c.kind \in {"parse-file", "replay-file"}
  BY CommandAssumption
<1>8. StageOK(r)
  BY <1>0, <1>1, <1>4, <1>6, <1>7, IdleIs DEF StageOK, Early, OnFile, InService
<1> QED
  BY <1>0, <1>1, <1>2, <1>6, <1>8, IdleIs DEF Goes

LEMMA CloneGoes ==
  ASSUME Base, NEW p \in Processes, Clone(p)
  PROVE  \E r : /\ Goes(p, r) /\ r.pc = "walk" /\ r.cmd = proc[p].cmd
                /\ r.preview = NoPreview /\ r.file = NoFile
<1>1. PICK x \in Process : x = proc[p] /\ x.pc = "clone" /\ StageOK(x)
  BY ProcIs DEF Clone, At
<1>2. PICK r : r = [proc[p] EXCEPT !.pc = "walk"] /\ proc' = [proc EXCEPT ![p] = r]
  BY Zenon DEF Clone
<1>3. r = [x EXCEPT !.pc = "walk"]
  BY <1>1, <1>2
<1>4. r = Rec("walk", x.cmd, x.raw, x.todo, x.file, x.content, x.row, x.preview, x.result)
  BY <1>3 DEF Process, Rec
<1>5. /\ r \in Process /\ r.pc = "walk" /\ r.cmd = x.cmd /\ r.preview = x.preview
      /\ r.file = x.file
  BY <1>4, ProcessIs DEF Rec, Process, Early
<1>6. x.file = NoFile /\ x.preview = NoPreview /\ x.cmd \in Commands /\ x.cmd.kind \in Walking
  BY <1>1 DEF StageOK, Early
<1>7. StageOK(r)
  BY <1>5, <1>6 DEF StageOK, Early, OnFile, InService
<1> QED
  BY <1>1, <1>2, <1>5, <1>6, <1>7 DEF Goes

LEMMA ListRawGoes ==
  ASSUME Base, NEW p \in Processes, ListRaw(p)
  PROVE  \/ Goes(p, Idle)
         \/ \E r : /\ Goes(p, r) /\ r.pc = "select" /\ r.cmd = proc[p].cmd
                   /\ r.preview = NoPreview /\ repository \in Commits
<1>1. PICK x \in Process : x = proc[p] /\ x.pc = "walk" /\ StageOK(x)
  BY ProcIs DEF ListRaw, At
<1>2. CASE repository = "broken" \/ Cmd(p).kind = "clone-source"
  BY <1>2, ExitGoes DEF ListRaw
<1>3. CASE ~ (repository = "broken" \/ Cmd(p).kind = "clone-source")
  <2>1. PICK r : /\ r = [proc[p] EXCEPT !.pc = "select", !.raw = ListPythonFiles(disk)]
                 /\ proc' = [proc EXCEPT ![p] = r]
    BY <1>3, Zenon DEF ListRaw
  <2>2. PICK raw \in Seq(Files) : raw = ListPythonFiles(disk) /\ Ascends(raw)
    <3>1. Present(disk) \in SUBSET Files
      BY DEF Present
    <3> QED
      BY <3>1, InOrderIs DEF ListPythonFiles
  <2>3. r = [x EXCEPT !.pc = "select", !.raw = raw]
    BY <1>1, <2>1, <2>2
  <2>4. r = Rec("select", x.cmd, raw, x.todo, x.file, x.content, x.row, x.preview, x.result)
    BY <2>3 DEF Process, Rec
  <2>5. /\ r \in Process /\ r.pc = "select" /\ r.cmd = x.cmd /\ r.preview = x.preview
        /\ r.file = x.file /\ r.raw = raw
    BY <2>4, ProcessIs DEF Rec, Process, Early
  <2>6. /\ x.file = NoFile /\ x.preview = NoPreview /\ x.cmd \in Commands
        /\ x.cmd.kind \in Walking /\ x.cmd.kind # "clone-source"
    BY <1>1, <1>3 DEF StageOK, Early, Cmd
  <2>7. StageOK(r)
    BY <2>2, <2>5, <2>6 DEF StageOK, Early, OnFile, InService
  <2>8. repository \in Commits
    BY <1>1, <1>3 DEF Base, TypeOK, TypeOfRest, CopyOK, CopyFits
  <2> QED
    BY <1>1, <2>1, <2>5, <2>6, <2>7, <2>8 DEF Goes
<1> QED
  BY <1>2, <1>3

(* The records of a discovery: in order, of one scope and of the copy.     *)
OfOneRun(records, scope, commit) ==
    /\ \A i, j \in DOMAIN records : i < j => records[i].path < records[j].path
    /\ \A i \in DOMAIN records : records[i].scope = scope /\ records[i].commit = commit

LEMMA RecordsAre ==
  ASSUME Base, NEW raw \in Seq(Files), Ascends(raw), NEW name \in Scopes, NEW selected,
         repository \in Commits,
         NEW records,
         records = [i \in DOMAIN raw |->
                      ManifestRecord(raw[i], disk, selected, name, repository)]
  PROVE  records \in Seq(Entry) /\ OfOneRun(records, name, repository)
<1>1. DOMAIN raw = 1..Len(raw) /\ Len(raw) \in Nat /\ \A i \in DOMAIN raw : raw[i] \in Files
  OBVIOUS
<1>2. ASSUME NEW i \in DOMAIN raw
      PROVE  /\ records[i] \in Entry /\ records[i].path = raw[i]
             /\ records[i].scope = name /\ records[i].commit = repository
  <2>1. PICK f \in Files : f = raw[i]
    BY <1>1
  <2>2. PICK reason \in Reasons \cup {NoReason} : reason = ExclusionReason(f, LoadScope(name))
    BY LoadScopeTyped, ExclusionReasonIs
  <2>3. PICK why : why = IF f \in selected THEN NoReason
                         ELSE IF reason # NoReason THEN reason ELSE NotIncluded
    OBVIOUS
  <2>4. why \in Reasons \cup {NoReason, NotIncluded}
    BY <2>2, <2>3
  <2>5. \E inc \in BOOLEAN :
           records[i] = [path |-> f, scope |-> name, commit |-> repository,
                         content |-> disk[f], included |-> inc, reason |-> why]
    <3>1. records[i] = [path |-> f, scope |-> name, commit |-> repository,
                        content |-> disk[f], included |-> f \in selected, reason |-> why]
      BY <2>1, <2>2, <2>3 DEF ManifestRecord
    <3>2. (f \in selected) \in BOOLEAN
      OBVIOUS
    <3> QED
      BY <3>1, <3>2, Zenon
  <2>6. disk[f] \in Contents \cup {Missing}
    BY DEF Base, TypeOK, TypeOfRest
  <2> QED
    BY <2>1, <2>4, <2>5, <2>6 DEF Entry
<1>3. records \in Seq(Entry) /\ DOMAIN records = DOMAIN raw
  <2>1. records \in [1..Len(raw) -> Entry]
    BY <1>1, <1>2
  <2> QED
    BY <1>1, <2>1
<1> QED
  BY <1>2, <1>3 DEF OfOneRun, Ascends

LEMMA DiscoverGoes ==
  ASSUME Base, NEW p \in Processes, Discover(p)
  PROVE  \/ Goes(p, Idle) /\ UNCHANGED <<manifest, mixed>>
         \/ \E r : /\ Goes(p, r) /\ r.pc = "manifest" /\ r.cmd = proc[p].cmd
                   /\ r.preview = NoPreview /\ r.file = NoFile /\ repository \in Commits
                   /\ OfOneRun(r.raw, r.cmd.scope, repository)
                   /\ Range(r.todo) \subseteq Range(ListFiles(disk, r.cmd.scope))
                   /\ OpenManifest(ManifestOf(r.cmd))
<1>1. PICK x \in Process : x = proc[p] /\ x.pc = "select" /\ StageOK(x) /\ Cmd(p) = x.cmd
  BY ProcIs DEF Discover, At
<1>2. /\ x.file = NoFile /\ x.preview = NoPreview /\ x.cmd \in Commands
      /\ x.cmd.kind \in Walking /\ x.cmd.kind # "clone-source"
      /\ x.raw \in Seq(Files) /\ Ascends(x.raw) /\ repository \in Commits
  BY <1>1 DEF StageOK, Early, Base, CopyOK, CopyFits
<1>3. CASE \E f \in Range(x.raw) : disk[f] = Missing
  BY <1>1, <1>3, ExitGoes DEF Discover
<1>4. CASE ~ \E f \in Range(x.raw) : disk[f] = Missing
  <2>1. PICK selected : selected = Range(ListFiles(disk, x.cmd.scope))
    OBVIOUS
  <2>2. PICK records : records = [i \in DOMAIN x.raw |->
           ManifestRecord(x.raw[i], disk, selected, x.cmd.scope, repository)]
    OBVIOUS
  <2>3. x.cmd.scope \in Scopes
    BY <1>2 DEF Scopes
  <2>4. records \in Seq(Entry) /\ OfOneRun(records, x.cmd.scope, repository)
    BY <1>2, <2>2, <2>3, RecordsAre
  <2>5. PICK todo : todo = InOrder(Range(x.raw) \cap selected)
    OBVIOUS
  <2>6. todo \in Seq(Files) /\ Range(todo) \subseteq selected
    <3>1. Range(x.raw) \cap selected \in SUBSET Files
      BY <1>2, RangeIsCounted
    <3> QED
      BY <2>5, <3>1, InOrderIs
  <2>7. /\ proc' = [proc EXCEPT ![p] = [proc[p] EXCEPT !.pc = "manifest",
                !.raw = [i \in DOMAIN x.raw |->
                   ManifestRecord(x.raw[i], disk, selected, x.cmd.scope, repository)],
                !.todo = InOrder(Range(x.raw) \cap selected)]]
        /\ OpenManifest(ManifestOf(x.cmd))
    BY <1>1, <1>4, <2>1, Zenon DEF Discover
  <2>8. PICK r : /\ r = [proc[p] EXCEPT !.pc = "manifest", !.raw = records, !.todo = todo]
                 /\ proc' = [proc EXCEPT ![p] = r]
    BY <2>2, <2>5, <2>7, Zenon
  <2>9. r = [x EXCEPT !.pc = "manifest", !.raw = records, !.todo = todo]
    BY <1>1, <2>8
  <2>10. r = Rec("manifest", x.cmd, records, todo, x.file, x.content, x.row, x.preview, x.result)
    BY <2>9 DEF Process, Rec
  <2>11. /\ r \in Process /\ r.pc = "manifest" /\ r.cmd = x.cmd /\ r.preview = x.preview
         /\ r.file = x.file /\ r.raw = records /\ r.todo = todo
    BY <2>4, <2>6, <2>10, ProcessIs DEF Rec, Process, Early
  <2>12. StageOK(r)
    BY <1>2, <2>4, <2>11 DEF StageOK, Early, OnFile, InService
  <2>13. Goes(p, r)
    BY <2>8, <2>11, <2>12 DEF Goes
  <2>14. /\ r.pc = "manifest" /\ r.cmd = proc[p].cmd /\ r.preview = NoPreview
         /\ r.file = NoFile /\ repository \in Commits
         /\ OfOneRun(r.raw, r.cmd.scope, repository)
         /\ Range(r.todo) \subseteq Range(ListFiles(disk, r.cmd.scope))
    BY <1>1, <1>2, <2>1, <2>4, <2>6, <2>11
  <2>15. OpenManifest(ManifestOf(r.cmd))
    BY <2>7, <2>11
  <2> QED
    BY <2>13, <2>14, <2>15
<1> QED
  BY <1>1, <1>3, <1>4

LEMMA WriteManifestGoes ==
  ASSUME Base, NEW p \in Processes, WriteManifest(p)
  PROVE  \/ Goes(p, Idle)
         \/ \E r : /\ Goes(p, r) /\ r.pc = "next" /\ r.cmd = proc[p].cmd
                   /\ r.preview = NoPreview /\ r.file = NoFile
                   /\ r.todo = IF r.cmd.limit > 0 THEN Prefix(proc[p].todo, r.cmd.limit)
                               ELSE proc[p].todo
<1>1. PICK x \in Process : x = proc[p] /\ x.pc = "manifest" /\ StageOK(x) /\ Cmd(p) = x.cmd
  BY ProcIs DEF WriteManifest, At
<1>2. /\ x.file = NoFile /\ x.preview = NoPreview /\ x.cmd \in Commands
      /\ x.cmd.kind \in Walking /\ x.cmd.kind # "clone-source"
  BY <1>1 DEF StageOK, Early
<1>3. CASE x.cmd.kind = "discover"
  BY <1>1, <1>3, ExitGoes DEF WriteManifest, AfterManifest
<1>4. CASE x.cmd.kind # "discover"
  <2>0. x.cmd.kind = "parse-repository" /\ x.cmd.limit \in Nat
    BY <1>2, <1>4, CommandAssumption DEF Walking
  <2>a. PICK todo : todo = IF Cmd(p).limit > 0 THEN Prefix(proc[p].todo, Cmd(p).limit)
                           ELSE proc[p].todo
    OBVIOUS
  <2>1. todo = IF x.cmd.limit > 0 THEN Prefix(x.todo, x.cmd.limit) ELSE x.todo
    BY <1>1, <2>a
  <2>2. todo \in Seq(Files)
    BY <2>0, <2>1, PrefixIs, ProcessIs
  <2>3. proc' = [proc EXCEPT ![p] = [proc[p] EXCEPT !.pc = "next", !.raw = << >>,
           !.todo = IF Cmd(p).limit > 0 THEN Prefix(proc[p].todo, Cmd(p).limit)
                    ELSE proc[p].todo]]
    <3>1. Cmd(p).kind # "discover" /\ AfterManifest(p)
      BY <1>1, <1>4 DEF WriteManifest
    <3> QED
      BY <3>1 DEF AfterManifest
  <2>4. PICK r : /\ r = [proc[p] EXCEPT !.pc = "next", !.raw = << >>, !.todo = todo]
                 /\ proc' = [proc EXCEPT ![p] = r]
    BY <2>a, <2>3, Zenon
  <2>5. r = [x EXCEPT !.pc = "next", !.raw = << >>, !.todo = todo]
    BY <1>1, <2>4
  <2>6. r = Rec("next", x.cmd, << >>, todo, x.file, x.content, x.row, x.preview, x.result)
    BY <2>5 DEF Process, Rec
  <2>7. << >> \in Seq(Files)
    OBVIOUS
  <2>8. /\ r \in Process /\ r.pc = "next" /\ r.cmd = x.cmd /\ r.preview = x.preview
        /\ r.file = x.file /\ r.todo = todo
    BY <2>2, <2>6, <2>7, ProcessIs DEF Rec, Process, Early
  <2>9. StageOK(r)
    BY <1>2, <2>0, <2>8 DEF StageOK, Early, OnFile, InService
  <2>10. Goes(p, r)
    BY <2>4, <2>8, <2>9 DEF Goes
  <2> QED
    BY <1>1, <1>2, <2>1, <2>8, <2>10
<1> QED
  BY <1>3, <1>4

LEMMA NextFileGoes ==
  ASSUME Base, NEW p \in Processes, NextFile(p)
  PROVE  \/ Goes(p, Idle)
         \/ \E r : /\ Goes(p, r) /\ r.pc = "read" /\ r.cmd = proc[p].cmd
                   /\ r.preview = NoPreview
                   /\ {r.file} \cup Range(r.todo) = Range(proc[p].todo)
<1>1. PICK x \in Process : x = proc[p] /\ x.pc = "next" /\ StageOK(x)
  BY ProcIs DEF NextFile, At
<1>2. /\ x.preview = NoPreview /\ x.cmd \in Commands /\ x.cmd.kind = "parse-repository"
  BY <1>1 DEF StageOK, Early
<1>3. CASE proc[p].todo = << >>
  BY <1>3, ExitGoes DEF NextFile
<1>4. CASE proc[p].todo # << >>
  <2>1. PICK r : /\ r = [proc[p] EXCEPT !.pc = "read", !.file = Head(proc[p].todo),
                                        !.todo = Tail(proc[p].todo),
                                        !.result = "none"]
                 /\ proc' = [proc EXCEPT ![p] = r]
    BY <1>4, Zenon DEF NextFile
  <2>2. PICK s \in Seq(Files) : s = proc[p].todo /\ s # << >>
    BY <1>1, <1>4, ProcessIs
  <2>3. PICK f \in Files, rest \in Seq(Files) :
           f = Head(s) /\ rest = Tail(s) /\ {f} \cup Range(rest) = Range(s)
    <3>1. Head(s) \in Files /\ Tail(s) \in Seq(Files) /\ Len(s) \in Nat /\ Len(s) >= 1
      BY <2>2
    <3>2. /\ DOMAIN Tail(s) = 1..(Len(s) - 1) /\ DOMAIN s = 1..Len(s)
          /\ Head(s) = s[1] /\ \A i \in 1..(Len(s) - 1) : Tail(s)[i] = s[i + 1]
      BY <2>2
    <3>3. ASSUME NEW y \in Range(s) PROVE y \in {Head(s)} \cup Range(Tail(s))
      <4>1. PICK i \in 1..Len(s) : y = s[i]
        BY <3>2 DEF Range
      <4>2. CASE i = 1
        BY <3>2, <4>1, <4>2
      <4>3. CASE i # 1
        <5>1. i - 1 \in 1..(Len(s) - 1) /\ (i - 1) + 1 = i
          BY <3>1, <4>3
        <5>2. Tail(s)[i - 1] = y /\ i - 1 \in DOMAIN Tail(s)
          BY <3>2, <4>1, <5>1
        <5> QED
          BY <5>2 DEF Range
      <4> QED
        BY <4>2, <4>3
    <3>4. Head(s) \in Range(s)
      BY <3>1, <3>2 DEF Range
    <3>5. ASSUME NEW y \in Range(Tail(s)) PROVE y \in Range(s)
      <4>1. PICK i \in 1..(Len(s) - 1) : y = s[i + 1]
        BY <3>2 DEF Range
      <4>2. i + 1 \in DOMAIN s
        BY <3>1, <3>2
      <4> QED
        BY <4>1, <4>2 DEF Range
    <3>6. {Head(s)} \cup Range(Tail(s)) = Range(s)
      BY <3>3, <3>4, <3>5
    <3> QED
      BY <3>1, <3>6
  <2>4. r = [x EXCEPT !.pc = "read", !.file = f, !.todo = rest, !.result = "none"]
    BY <1>1, <2>1, <2>2, <2>3
  <2>5. r = Rec("read", x.cmd, x.raw, rest, f, x.content, x.row, x.preview, "none")
    BY <2>4 DEF Process, Rec
  <2>6. /\ r \in Process /\ r.pc = "read" /\ r.cmd = x.cmd /\ r.preview = x.preview
        /\ r.file = f /\ r.todo = rest
    BY <2>5, ProcessIs DEF Rec, Process, OnFile, InService, Results
  <2>7. StageOK(r)
    BY <1>2, <2>6 DEF StageOK, Early, OnFile, InService
  <2> QED
    BY <1>1, <1>2, <2>1, <2>2, <2>3, <2>6, <2>7 DEF Goes
<1> QED
  BY <1>3, <1>4

LEMMA CheckFileGoes ==
  ASSUME Base, NEW p \in Processes, CheckFile(p)
  PROVE  \/ Goes(p, Idle)
         \/ \E r : /\ Goes(p, r) /\ r.pc \in {"preview", "read"} /\ r.cmd = proc[p].cmd
                   /\ r.preview = NoPreview /\ r.cmd.kind # "parse-repository"
<1>1. PICK x \in Process : x = proc[p] /\ x.pc = "check" /\ StageOK(x) /\ Cmd(p) = x.cmd
  BY ProcIs DEF CheckFile, At
<1>2. /\ x.preview = NoPreview /\ x.cmd \in Commands
      /\ x.cmd.kind \in {"parse-file", "replay-file"} /\ x.cmd.file \in Files
  BY <1>1, CommandAssumption DEF StageOK, Early
<1>3. CASE disk[Cmd(p).file] = Missing \/ repository = "broken"
  BY <1>3, ExitGoes DEF CheckFile
<1>4. CASE ~ (disk[Cmd(p).file] = Missing \/ repository = "broken")
  <2>1. PICK r : /\ r = [proc[p] EXCEPT
                            !.pc = IF Cmd(p).kind = "replay-file" THEN "preview" ELSE "read",
                            !.file = Cmd(p).file]
                 /\ proc' = [proc EXCEPT ![p] = r]
    BY <1>4, Zenon DEF CheckFile
  <2>2. PICK pc \in {"preview", "read"} :
           pc = IF x.cmd.kind = "replay-file" THEN "preview" ELSE "read"
    OBVIOUS
  <2>3. r = [x EXCEPT !.pc = pc, !.file = x.cmd.file]
    BY <1>1, <2>1, <2>2
  <2>4. r = Rec(pc, x.cmd, x.raw, x.todo, x.cmd.file, x.content, x.row, x.preview, x.result)
    BY <2>3 DEF Process, Rec
  <2>5. /\ r \in Process /\ r.pc = pc /\ r.cmd = x.cmd /\ r.preview = x.preview
        /\ r.file = x.cmd.file
    <3>1. pc \in Early \cup OnFile
      BY DEF OnFile, InService
    <3> QED
      BY <1>2, <2>4, <3>1, ProcessIs DEF Rec, Process
  <2>6. StageOK(r)
    BY <1>2, <2>2, <2>5 DEF StageOK, Early, OnFile, InService
  <2>7. Goes(p, r)
    BY <2>1, <2>5, <2>6 DEF Goes
  <2>8. r.cmd.kind # "parse-repository"
    BY <1>2, <2>5
  <2> QED
    BY <1>1, <1>2, <2>5, <2>7, <2>8
<1> QED
  BY <1>3, <1>4

LEMMA CountsTyped ==
  ASSUME NEW row \in Row \cup {NoRow}, NEW c \in Contents
  PROVE  Counts(row, c) \in Nat \X Nat
<1>1. <<c, 1>> \in Generation
  BY CpgAssumption DEF Generation, Versions
<1>2. ParsedNodes[<<c, 1>>] \in Seq(Nodes)
  BY <1>1, CpgAssumption
<1>3. Len(ParsedNodes[<<c, 1>>]) \in Nat
  BY <1>2
<1>4. RemovedNodes(row, <<c, 1>>) \in SUBSET Nodes
  BY DEF RemovedNodes, RowNodes, Row
<1>5. Cardinality(RemovedNodes(row, <<c, 1>>)) \in Nat
  BY <1>4, CpgAssumption, FS_Subset, FS_CardinalityType
<1> QED
  BY <1>3, <1>5 DEF Counts

LEMMA PreviewGoes ==
  ASSUME Base, NEW p \in Processes, Preview(p)
  PROVE  \/ Goes(p, Idle)
         \/ \E r : /\ Goes(p, r) /\ r.pc = "read" /\ r.cmd = proc[p].cmd
                   /\ r.cmd.kind = "replay-file" /\ disk[r.file] # Missing
                   /\ r.preview = Counts(store[r.file], disk[r.file])
<1>1. PICK x \in Process : x = proc[p] /\ x.pc = "preview" /\ StageOK(x)
  BY ProcIs DEF Preview, At
<1>2. x.cmd \in Commands /\ x.cmd.kind = "replay-file" /\ x.file \in Files
  BY <1>1 DEF StageOK, OnFile
<1>3. CASE disk[proc[p].file] = Missing
  BY <1>3, ExitGoes DEF Preview
<1>4. CASE disk[proc[p].file] # Missing
  <2>1. PICK r : /\ r = [proc[p] EXCEPT !.pc = "read",
                          !.preview = Counts(store[proc[p].file], disk[proc[p].file])]
                 /\ proc' = [proc EXCEPT ![p] = r]
    BY <1>4, Zenon DEF Preview
  <2>2. PICK found : found = Counts(store[proc[p].file], disk[proc[p].file])
    OBVIOUS
  <2>a. found = Counts(store[x.file], disk[x.file])
    BY <1>1, <2>2
  <2>b. found \in Nat \X Nat
    <3>1. store[x.file] \in Row \cup {NoRow} /\ disk[x.file] \in Contents
      BY <1>1, <1>2, <1>4 DEF Base, TypeOK, TypeOfRest
    <3> QED
      BY <2>a, <3>1, CountsTyped
  <2>3. r = [x EXCEPT !.pc = "read", !.preview = found]
    BY <1>1, <2>1, <2>2
  <2>4. r = Rec("read", x.cmd, x.raw, x.todo, x.file, x.content, x.row, found, x.result)
    BY <2>3 DEF Process, Rec
  <2>5. /\ r \in Process /\ r.pc = "read" /\ r.cmd = x.cmd /\ r.preview = found
        /\ r.file = x.file
    BY <2>b, <2>4, ProcessIs DEF Rec, Process, OnFile, InService
  <2>6. StageOK(r)
    BY <1>2, <2>5 DEF StageOK, Early, OnFile, InService
  <2>7. Goes(p, r)
    BY <2>1, <2>5, <2>6 DEF Goes
  <2>8. /\ r.pc = "read" /\ r.cmd = proc[p].cmd /\ r.cmd.kind = "replay-file"
        /\ disk[r.file] # Missing /\ r.preview = Counts(store[r.file], disk[r.file])
    BY <1>1, <1>2, <1>4, <2>a, <2>5
  <2> QED
    BY <2>7, <2>8
<1> QED
  BY <1>3, <1>4

(* The end of the processing of a file.                                    *)
LEMMA DoneGoes ==
  ASSUME Base, NEW p \in Processes, proc[p].pc \in InService, NEW result \in Results,
         Done(p, result)
  PROVE  \E r : /\ Goes(p, r) /\ r.pc \in {"next", "report"} /\ r.cmd = proc[p].cmd
                /\ r.todo = proc[p].todo /\ r.preview = proc[p].preview
                /\ r.result = result
                /\ r.pc = "report" => /\ r.file = proc[p].file /\ r.row = proc[p].row
                                      /\ r.content = proc[p].content
<1>1. PICK x \in Process : x = proc[p] /\ x.pc \in InService /\ StageOK(x) /\ Cmd(p) = x.cmd
  BY ProcIs
<1>2. /\ x.cmd \in Commands
      /\ x.cmd.kind \in {"parse-repository", "parse-file", "replay-file"}
      /\ x.file \in Files /\ (x.preview # NoPreview => x.cmd.kind = "replay-file")
  BY <1>1 DEF StageOK, OnFile, InService
<1>3. CASE x.cmd.kind = "parse-repository"
  <2>1. PICK r : /\ r = [proc[p] EXCEPT !.pc = "next", !.file = NoFile, !.content = Missing,
                                        !.row = NoRow, !.result = result]
                 /\ proc' = [proc EXCEPT ![p] = r]
    BY <1>1, <1>3, Zenon DEF Done
  <2>2. r = [x EXCEPT !.pc = "next", !.file = NoFile, !.content = Missing,
                      !.row = NoRow, !.result = result]
    BY <1>1, <2>1
  <2>3. r = Rec("next", x.cmd, x.raw, x.todo, NoFile, Missing, NoRow, x.preview, result)
    BY <2>2 DEF Process, Rec
  <2>4. /\ r \in Process /\ r.pc = "next" /\ r.cmd = x.cmd /\ r.preview = x.preview
        /\ r.file = NoFile /\ r.todo = x.todo /\ r.result = result
    BY <2>3, ProcessIs DEF Rec, Process, Early
  <2>5. StageOK(r)
    BY <1>2, <1>3, <2>4 DEF StageOK, Early, OnFile, InService
  <2>6. Goes(p, r)
    BY <2>1, <2>4, <2>5 DEF Goes
  <2> QED
    BY <1>1, <2>4, <2>6
<1>4. CASE x.cmd.kind # "parse-repository"
  <2>1. PICK r : /\ r = [proc[p] EXCEPT !.pc = "report", !.result = result]
                 /\ proc' = [proc EXCEPT ![p] = r]
    BY <1>1, <1>4, Zenon DEF Done
  <2>2. r = [x EXCEPT !.pc = "report", !.result = result]
    BY <1>1, <2>1
  <2>3. r = Rec("report", x.cmd, x.raw, x.todo, x.file, x.content, x.row, x.preview, result)
    BY <2>2 DEF Process, Rec
  <2>4. /\ r \in Process /\ r.pc = "report" /\ r.cmd = x.cmd /\ r.preview = x.preview
        /\ r.file = x.file /\ r.todo = x.todo /\ r.result = result
        /\ r.row = x.row /\ r.content = x.content
    BY <2>3, ProcessIs DEF Rec, Process, OnFile
  <2>5. StageOK(r)
    BY <1>2, <1>4, <2>4 DEF StageOK, Early, OnFile, InService
  <2>6. Goes(p, r)
    BY <2>1, <2>4, <2>5 DEF Goes
  <2> QED
    BY <1>1, <2>4, <2>6
<1> QED
  BY <1>3, <1>4

(* What a process in service keeps from one step to the next.              *)
SameFile(r, x) ==
    /\ r.cmd = x.cmd /\ r.todo = x.todo /\ r.file = x.file /\ r.preview = x.preview

LEMMA ReadFileGoes ==
  ASSUME Base, NEW p \in Processes, ReadFile(p)
  PROVE  \/ Done(p, "FAILED")
         \/ \E r : /\ Goes(p, r) /\ r.pc = "load" /\ SameFile(r, proc[p])
                   /\ r.content = disk[r.file]
<1>1. PICK x \in Process : x = proc[p] /\ x.pc = "read" /\ StageOK(x)
  BY ProcIs DEF ReadFile, At
<1>2. /\ x.cmd \in Commands
      /\ x.cmd.kind \in {"parse-repository", "parse-file", "replay-file"}
      /\ x.file \in Files /\ (x.preview # NoPreview => x.cmd.kind = "replay-file")
  BY <1>1 DEF StageOK, OnFile, InService
<1>3. CASE disk[proc[p].file] = Missing
  BY <1>3 DEF ReadFile
<1>4. CASE disk[proc[p].file] # Missing
  <2>1. PICK r : /\ r = [proc[p] EXCEPT !.pc = "load", !.content = disk[proc[p].file]]
                 /\ proc' = [proc EXCEPT ![p] = r]
    BY <1>4, Zenon DEF ReadFile
  <2>2. PICK c \in Contents : c = disk[proc[p].file]
    BY <1>1, <1>2, <1>4 DEF Base, TypeOK, TypeOfRest
  <2>3. r = [x EXCEPT !.pc = "load", !.content = c]
    BY <1>1, <2>1, <2>2
  <2>4. r = Rec("load", x.cmd, x.raw, x.todo, x.file, c, x.row, x.preview, x.result)
    BY <2>3 DEF Process, Rec
  <2>5. /\ r \in Process /\ r.pc = "load" /\ r.content = c /\ SameFile(r, x)
    BY <2>4, ProcessIs DEF Rec, Process, OnFile, InService, SameFile
  <2>6. StageOK(r)
    BY <1>2, <2>5 DEF StageOK, Early, OnFile, InService, SameFile
  <2>7. Goes(p, r)
    BY <2>1, <2>5, <2>6 DEF Goes
  <2> QED
    BY <1>1, <2>2, <2>5, <2>7 DEF SameFile
<1> QED
  BY <1>3, <1>4

LEMMA LoadRowGoes ==
  ASSUME Base, NEW p \in Processes, LoadRow(p)
  PROVE  \/ \E result \in {"SKIPPED_UNCHANGED", "FAILED"} : Done(p, result)
         \/ \E r : /\ Goes(p, r) /\ r.pc = "publish" /\ SameFile(r, proc[p])
                   /\ r.content = proc[p].content /\ r.row = store[r.file]
<1>1. PICK x \in Process : x = proc[p] /\ x.pc = "load" /\ StageOK(x)
  BY ProcIs DEF LoadRow, At
<1>2. /\ x.cmd \in Commands
      /\ x.cmd.kind \in {"parse-repository", "parse-file", "replay-file"}
      /\ x.file \in Files /\ (x.preview # NoPreview => x.cmd.kind = "replay-file")
      /\ x.content \in Contents
  BY <1>1 DEF StageOK, OnFile, InService
<1>3. CASE \E result \in {"SKIPPED_UNCHANGED", "FAILED"} : Done(p, result)
  BY <1>3
<1>4. CASE ~ \E result \in {"SKIPPED_UNCHANGED", "FAILED"} : Done(p, result)
  <2>0. ~ Done(p, "SKIPPED_UNCHANGED") /\ ~ Done(p, "FAILED")
    BY <1>4
  <2>1. PICK r : /\ r = [proc[p] EXCEPT !.pc = "publish", !.row = store[proc[p].file]]
                 /\ proc' = [proc EXCEPT ![p] = r]
    BY <2>0, Zenon DEF LoadRow
  <2>2. proc[p].content \notin Unparsable
    BY <2>0 DEF LoadRow
  <2>3. PICK row \in Row \cup {NoRow} : row = store[proc[p].file]
    BY <1>1, <1>2 DEF Base, TypeOK, TypeOfRest
  <2>4. r = [x EXCEPT !.pc = "publish", !.row = row]
    BY <1>1, <2>1, <2>3
  <2>5. r = Rec("publish", x.cmd, x.raw, x.todo, x.file, x.content, row, x.preview, x.result)
    BY <2>4 DEF Process, Rec
  <2>6. /\ r \in Process /\ r.pc = "publish" /\ r.content = x.content /\ r.row = row
        /\ SameFile(r, x)
    BY <2>5, ProcessIs DEF Rec, Process, OnFile, InService, SameFile
  <2>7. StageOK(r)
    BY <1>1, <1>2, <2>2, <2>6 DEF StageOK, Early, OnFile, InService, SameFile
  <2>8. Goes(p, r)
    BY <2>1, <2>6, <2>7 DEF Goes
  <2> QED
    BY <1>1, <2>3, <2>6, <2>8 DEF SameFile
<1> QED
  BY <1>3, <1>4

LEMMA PublishGoes ==
  ASSUME Base, NEW p \in Processes, Publish(p)
  PROVE  \E r : /\ Goes(p, r) /\ r.pc = "commit" /\ SameFile(r, proc[p])
                /\ r.content = proc[p].content /\ r.row = proc[p].row
<1>1. PICK x \in Process : x = proc[p] /\ x.pc = "publish" /\ StageOK(x)
  BY ProcIs DEF Publish, At
<1>2. /\ x.cmd \in Commands
      /\ x.cmd.kind \in {"parse-repository", "parse-file", "replay-file"}
      /\ x.file \in Files /\ (x.preview # NoPreview => x.cmd.kind = "replay-file")
      /\ x.content \in Contents /\ x.content \notin Unparsable
  BY <1>1 DEF StageOK, OnFile, InService
<1>3. PICK r : r = [proc[p] EXCEPT !.pc = "commit"] /\ proc' = [proc EXCEPT ![p] = r]
  BY Zenon DEF Publish
<1>4. r = [x EXCEPT !.pc = "commit"]
  BY <1>1, <1>3
<1>5. r = Rec("commit", x.cmd, x.raw, x.todo, x.file, x.content, x.row, x.preview, x.result)
  BY <1>4 DEF Process, Rec
<1>6. /\ r \in Process /\ r.pc = "commit" /\ r.content = x.content /\ r.row = x.row
      /\ SameFile(r, x)
  BY <1>5, ProcessIs DEF Rec, Process, OnFile, InService, SameFile
<1>7. StageOK(r)
  BY <1>2, <1>6 DEF StageOK, Early, OnFile, InService, SameFile
<1>8. Goes(p, r)
  BY <1>3, <1>6, <1>7 DEF Goes
<1> QED
  BY <1>1, <1>6, <1>8

-----------------------------------------------------------------------------
(***************************************************************************)
(* The types, the stages and the copy, of every step.                      *)
(***************************************************************************)
LEMMA BaseInit == Init => Base
<1> SUFFICES ASSUME Init PROVE Base
  OBVIOUS
<1>1. << >> \in Seq(BatchRecord) /\ << >> \in Seq(Entry)
  OBVIOUS
<1>2. TypeOfRest
  BY <1>1 DEF Init, TypeOfRest, Writers
<1>3. proc \in [Processes -> Process] /\ \A p \in Processes : proc[p] = Idle
  BY IdleIs DEF Init
<1>4. Stages
  BY <1>3, IdleIs DEF Stages
<1>5. CopyOK
  BY <1>3, IdleIs DEF CopyOK, CopyFits, Init
<1> QED
  BY <1>2, <1>3, <1>4, <1>5 DEF Base, TypeOK

(* What a step of a process does to the copy.                              *)
CopyKept ==
    /\ repository # NoCommit => repository' = repository
    /\ repository' \notin Commits => \A f \in Files : disk'[f] = Missing

LEMMA BaseGoes ==
  ASSUME Base, NEW p \in Processes, NEW r, Goes(p, r), CopyFits(r, repository'), CopyKept,
         TypeOfRest'
  PROVE  Base'
<1>1. /\ proc' \in [Processes -> Process] /\ \A q \in Processes : StageOK(proc'[q])
      /\ proc'[p] = r /\ \A q \in Processes \ {p} : proc'[q] = proc[q]
  BY GoesIs
<1>2. TypeOK' /\ Stages'
  BY <1>1 DEF TypeOK, Stages
<1>3. ASSUME NEW q \in Processes PROVE CopyFits(proc'[q], repository')
  <2>1. CASE q = p
    BY <1>1, <2>1
  <2>2. CASE q # p
    <3>1. proc'[q] = proc[q] /\ CopyFits(proc[q], repository)
      BY <1>1, <2>2 DEF Base, CopyOK
    <3>2. repository \in Commits => repository # NoCommit
      BY CommandAssumption
    <3> QED
      BY <3>1, <3>2 DEF CopyFits, CopyKept
  <2> QED
    BY <2>1, <2>2
<1> QED
  BY <1>2, <1>3 DEF Base, CopyOK, CopyKept

LEMMA IdleFits == \A commit : CopyFits(Idle, commit)
  BY IdleIs DEF CopyFits

LEMMA CopyKeptUnchanged ==
  ASSUME Base, UNCHANGED envVars
  PROVE  CopyKept
  BY DEF Base, CopyOK, CopyKept, envVars

(* A process in service that goes on with its preview.                     *)
LEMMA ServiceFits ==
  ASSUME Base, NEW p \in Processes, NEW r, r.preview = proc[p].preview,
         r.pc \notin {"walk", "select", "manifest"}
  PROVE  CopyFits(r, repository)
  BY DEF Base, CopyOK, CopyFits

LEMMA TypeBase ==
  ASSUME Base, NEW p \in Processes, NEW c \in Commands, Type(p, c)
  PROVE  Base'
<1>1. PICK r : /\ Goes(p, r) /\ r.pc \in {"clone", "check"} /\ r.preview = NoPreview
  BY TypeGoes
<1>2. repository' = repository /\ CopyKept
  BY CopyKeptUnchanged DEF Type, envVars
<1>3. log' \in [Writers -> [Files -> Seq(BatchRecord)]]
  <2>1. log \in [Writers -> [Files -> Seq(BatchRecord)]]
    BY DEF Base, TypeOK, TypeOfRest
  <2>2. << >> \in Seq(BatchRecord)
    OBVIOUS
  <2>3. log' = log \/ log' = [log EXCEPT !["jsonl"] = [f \in Files |-> << >>]]
    BY DEF Type
  <2> QED
    BY <2>1, <2>2, <2>3
<1>4. TypeOfRest'
  BY <1>3 DEF Type, Base, TypeOK, TypeOfRest, envVars
<1>5. CopyFits(r, repository')
  BY <1>1 DEF CopyFits
<1> QED
  BY <1>1, <1>2, <1>4, <1>5, BaseGoes

LEMMA CloneBase ==
  ASSUME Base, NEW p \in Processes, Clone(p)
  PROVE  Base'
<1>1. PICK r : Goes(p, r) /\ r.pc = "walk" /\ r.preview = NoPreview
  BY CloneGoes
<1>2. \/ repository' \in Commits /\ disk' = Tree[repository'] /\ repository = NoCommit
      \/ repository # NoCommit /\ repository' = repository /\ disk' = disk
  BY DEF Clone, envVars
<1>3. CopyKept /\ repository' # NoCommit
  BY <1>2, CommandAssumption DEF Base, CopyOK, CopyKept
<1>4. disk' \in [Files -> Contents \cup {Missing}]
      /\ repository' \in Commits \cup {NoCommit, "broken"}
  BY <1>2, CommandAssumption DEF Base, TypeOK, TypeOfRest
<1>5. TypeOfRest'
  BY <1>4 DEF Clone, histVars, Base, TypeOK, TypeOfRest
<1>6. CopyFits(r, repository')
  BY <1>1, <1>3 DEF CopyFits
<1> QED
  BY <1>1, <1>3, <1>5, <1>6, BaseGoes

LEMMA ListRawBase ==
  ASSUME Base, NEW p \in Processes, ListRaw(p)
  PROVE  Base'
<1>1. PICK r : Goes(p, r) /\ CopyFits(r, repository)
  BY ListRawGoes, IdleFits, CommandAssumption DEF CopyFits
<1>2. repository' = repository /\ CopyKept
  BY CopyKeptUnchanged DEF ListRaw, envVars
<1>3. TypeOfRest'
  BY DEF ListRaw, envVars, histVars, Base, TypeOK, TypeOfRest
<1> QED
  BY <1>1, <1>2, <1>3, BaseGoes

LEMMA ManifestOfIs ==
  ASSUME NEW c \in Commands, c.kind \in Walking
  PROVE  ManifestOf(c) \in Manifests
  BY DEF Manifests

LEMMA DiscoverBase ==
  ASSUME Base, NEW p \in Processes, Discover(p)
  PROVE  Base'
<1>1. PICK r : /\ Goes(p, r) /\ CopyFits(r, repository)
               /\ \/ UNCHANGED <<manifest, mixed>>
                  \/ r.pc = "manifest" /\ OpenManifest(ManifestOf(r.cmd))
  BY DiscoverGoes, IdleFits, CommandAssumption DEF CopyFits
<1>2. repository' = repository /\ CopyKept
  BY CopyKeptUnchanged DEF Discover, envVars
<1>3. manifest' \in [Manifests -> Seq(Entry)] /\ mixed' \in SUBSET Manifests
  <2>1. manifest \in [Manifests -> Seq(Entry)] /\ mixed \in SUBSET Manifests
    BY DEF Base, TypeOK, TypeOfRest
  <2>2. CASE r.pc = "manifest" /\ OpenManifest(ManifestOf(r.cmd))
    <3>1. ManifestOf(r.cmd) \in Manifests
      BY <1>1, <2>2, ManifestOfIs DEF Goes, StageOK
    <3>2. << >> \in Seq(Entry)
      OBVIOUS
    <3> QED
      BY <2>1, <2>2, <3>1, <3>2 DEF OpenManifest, Mixes
  <2> QED
    BY <1>1, <2>1, <2>2
<1>4. TypeOfRest'
  BY <1>3 DEF Discover, envVars, Base, TypeOK, TypeOfRest
<1> QED
  BY <1>1, <1>2, <1>4, BaseGoes

(* A manifest written over what another process wrote of it.               *)
LEMMA OverwriteIs ==
  ASSUME NEW S, NEW written \in Seq(S), NEW old \in Seq(S),
         NEW new, new = written \o SubSeq(old, Len(written) + 1, Len(old))
  PROVE  /\ new \in Seq(S)
         /\ \A i \in DOMAIN new : \/ i \in DOMAIN written /\ new[i] = written[i]
                                  \/ i \in DOMAIN old /\ new[i] = old[i]
         /\ old = << >> => new = written
<1>1. PICK a \in Nat, b \in Nat : a = Len(written) /\ b = Len(old)
  OBVIOUS
<1>2. PICK rest : rest = SubSeq(old, a + 1, b)
  OBVIOUS
<1>3. CASE a < b
  <2>1. /\ rest \in Seq(S) /\ Len(rest) = b - a
        /\ \A i \in 1..(b - a) : rest[i] = old[a + i]
    BY <1>1, <1>2, <1>3
  <2>2. /\ new \in Seq(S) /\ Len(new) = b
        /\ \A i \in 1..a : new[i] = written[i]
        /\ \A i \in 1..(b - a) : new[a + i] = rest[i]
    BY <1>1, <1>2, <1>3, <2>1
  <2>3. ASSUME NEW i \in DOMAIN new
        PROVE  \/ i \in DOMAIN written /\ new[i] = written[i]
               \/ i \in DOMAIN old /\ new[i] = old[i]
    <3>1. i \in 1..b
      BY <2>2
    <3>2. CASE i <= a
      BY <1>1, <2>2, <3>1, <3>2
    <3>3. CASE i > a
      <4>1. i - a \in 1..(b - a) /\ a + (i - a) = i
        BY <3>1, <3>3
      <4>2. new[a + (i - a)] = rest[i - a] /\ rest[i - a] = old[a + (i - a)]
        BY <2>1, <2>2, <4>1
      <4>3. new[i] = old[i]
        BY <4>1, <4>2
      <4>4. i \in DOMAIN old
        BY <1>1, <3>1
      <4> QED
        BY <4>3, <4>4
    <3> QED
      BY <3>1, <3>2, <3>3
  <2>4. old # << >>
    BY <1>1, <1>3
  <2> QED
    BY <2>2, <2>3, <2>4
<1>4. CASE ~ (a < b)
  <2>1. rest = << >>
    BY <1>1, <1>2, <1>4
  <2>2. new = written
    <3>1. new = written \o << >>
      BY <1>1, <1>2, <2>1
    <3> QED
      BY <3>1, ConcatEmptySeq
  <2> QED
    BY <2>2
<1> QED
  BY <1>3, <1>4

LEMMA WriteManifestBase ==
  ASSUME Base, NEW p \in Processes, WriteManifest(p)
  PROVE  Base'
<1>1. PICK r : Goes(p, r) /\ CopyFits(r, repository)
  BY WriteManifestGoes, IdleFits, CommandAssumption DEF CopyFits
<1>2. repository' = repository /\ CopyKept
  BY CopyKeptUnchanged DEF WriteManifest, envVars
<1>3. manifest' \in [Manifests -> Seq(Entry)]
  <2>1. manifest \in [Manifests -> Seq(Entry)]
    BY DEF Base, TypeOK, TypeOfRest
  <2>2. PICK k \in Manifests : k = ManifestOf(Cmd(p))
    BY ProcIs, ManifestOfIs DEF WriteManifest, At, StageOK
  <2>3. PICK written \in Seq(Entry) : written = proc[p].raw
    BY ProcIs DEF WriteManifest, At, StageOK
  <2>4. PICK new : new = written \o SubSeq(manifest[k], Len(written) + 1, Len(manifest[k]))
    OBVIOUS
  <2>5. new \in Seq(Entry)
    BY <2>1, <2>4, OverwriteIs
  <2>6. manifest' = [manifest EXCEPT ![k] = new]
    BY <2>2, <2>3, <2>4 DEF WriteManifest
  <2> QED
    BY <2>1, <2>5, <2>6
<1>4. TypeOfRest'
  BY <1>3 DEF WriteManifest, envVars, histVars, Base, TypeOK, TypeOfRest
<1> QED
  BY <1>1, <1>2, <1>4, BaseGoes

LEMMA NextFileBase ==
  ASSUME Base, NEW p \in Processes, NextFile(p)
  PROVE  Base'
<1>1. PICK r : Goes(p, r) /\ CopyFits(r, repository)
  BY NextFileGoes, IdleFits DEF CopyFits
<1>2. repository' = repository /\ CopyKept
  BY CopyKeptUnchanged DEF NextFile, envVars
<1>3. TypeOfRest'
  BY DEF NextFile, envVars, histVars, Base, TypeOK, TypeOfRest
<1> QED
  BY <1>1, <1>2, <1>3, BaseGoes

LEMMA CheckFileBase ==
  ASSUME Base, NEW p \in Processes, CheckFile(p)
  PROVE  Base'
<1>1. PICK r : Goes(p, r) /\ CopyFits(r, repository)
  BY CheckFileGoes, IdleFits DEF CopyFits
<1>2. repository' = repository /\ CopyKept
  BY CopyKeptUnchanged DEF CheckFile, envVars
<1>3. TypeOfRest'
  BY DEF CheckFile, envVars, histVars, Base, TypeOK, TypeOfRest
<1> QED
  BY <1>1, <1>2, <1>3, BaseGoes

LEMMA PreviewBase ==
  ASSUME Base, NEW p \in Processes, Preview(p)
  PROVE  Base'
<1>1. PICK r : Goes(p, r) /\ CopyFits(r, repository)
  <2>1. CASE Goes(p, Idle)
    BY <2>1, IdleFits
  <2>2. CASE ~ Goes(p, Idle)
    <3>1. PICK r : Goes(p, r) /\ r.pc = "read" /\ disk[r.file] # Missing
      BY <2>2, PreviewGoes
    <3>2. r.file \in Files
      BY <3>1 DEF Goes, StageOK, OnFile, InService
    <3>3. repository \in Commits
      BY <3>1, <3>2 DEF Base, CopyOK
    <3> QED
      BY <3>1, <3>3 DEF CopyFits
  <2> QED
    BY <2>1, <2>2
<1>2. repository' = repository /\ CopyKept
  BY CopyKeptUnchanged DEF Preview, envVars
<1>3. TypeOfRest'
  BY DEF Preview, envVars, histVars, Base, TypeOK, TypeOfRest
<1> QED
  BY <1>1, <1>2, <1>3, BaseGoes

LEMMA DoneFits ==
  ASSUME Base, NEW p \in Processes, proc[p].pc \in InService, NEW result \in Results,
         Done(p, result)
  PROVE  \E r : Goes(p, r) /\ CopyFits(r, repository)
  BY DoneGoes, ServiceFits

LEMMA ReadFileBase ==
  ASSUME Base, NEW p \in Processes, ReadFile(p)
  PROVE  Base'
<1>1. PICK r : Goes(p, r) /\ CopyFits(r, repository)
  <2>1. proc[p].pc \in InService /\ "FAILED" \in Results
    BY DEF ReadFile, At, InService, Results
  <2> QED
    BY <2>1, ReadFileGoes, DoneFits, ServiceFits DEF SameFile
<1>2. repository' = repository /\ CopyKept
  BY CopyKeptUnchanged DEF ReadFile, envVars
<1>3. TypeOfRest'
  BY DEF ReadFile, envVars, histVars, Base, TypeOK, TypeOfRest
<1> QED
  BY <1>1, <1>2, <1>3, BaseGoes

LEMMA LoadRowBase ==
  ASSUME Base, NEW p \in Processes, LoadRow(p)
  PROVE  Base'
<1>1. PICK r : Goes(p, r) /\ CopyFits(r, repository)
  <2>1. proc[p].pc \in InService /\ {"SKIPPED_UNCHANGED", "FAILED"} \subseteq Results
    BY DEF LoadRow, At, InService, Results
  <2> QED
    BY <2>1, LoadRowGoes, DoneFits, ServiceFits DEF SameFile
<1>2. repository' = repository /\ CopyKept
  BY CopyKeptUnchanged DEF LoadRow, envVars
<1>3. contended' \in SUBSET Files
  <2>1. proc[p].file \in Files
    BY ProcIs DEF LoadRow, At, StageOK, OnFile, InService
  <2>2. contended' = contended \/ contended' = contended \cup {proc[p].file}
    BY DEF LoadRow
  <2> QED
    BY <2>1, <2>2 DEF Base, TypeOK, TypeOfRest
<1>4. TypeOfRest'
  BY <1>3 DEF LoadRow, envVars, Base, TypeOK, TypeOfRest
<1> QED
  BY <1>1, <1>2, <1>4, BaseGoes

(* A batch of a file, as the log has it.                                   *)
LEMMA BatchTyped ==
  ASSUME NEW row \in Row \cup {NoRow}, NEW c \in Contents
  PROVE  Batch(row, <<c, 1>>) \in BatchRecord
<1>1. <<c, 1>> \in Generation
  BY CpgAssumption DEF Generation, Versions
<1>2. RemovedNodes(row, <<c, 1>>) \in SUBSET Nodes
  BY DEF RemovedNodes, RowNodes, Row
<1> QED
  BY <1>1, <1>2 DEF Batch, BatchRecord

LEMMA RowTyped ==
  ASSUME NEW c \in Contents
  PROVE  /\ RowFor(<<c, 1>>) \in Row /\ RowFor(<<c, 1>>) # NoRow
         /\ NodesOf(<<c, 1>>) \in SUBSET Nodes
<1>1. <<c, 1>> \in Generation
  BY CpgAssumption DEF Generation, Versions
<1>2. ParsedNodes[<<c, 1>>] \in Seq(Nodes) /\ ParsedEdges[<<c, 1>>] \in Seq(Edges)
  BY <1>1, CpgAssumption
<1>3. NodesOf(<<c, 1>>) \in SUBSET Nodes /\ EdgesOf(<<c, 1>>) \in SUBSET Edges
  BY <1>2, RangeIsCounted DEF NodesOf, EdgesOf
<1>4. RowFor(<<c, 1>>) \in Row
  <2>1. <<c, 1>>[1] = c /\ <<c, 1>>[2] = 1 /\ 1 \in Versions
    BY CpgAssumption DEF Versions
  <2> QED
    BY <1>3, <2>1 DEF RowFor, Row
<1> QED
  BY <1>3, <1>4, CommandAssumption

LEMMA PublishBase ==
  ASSUME Base, NEW p \in Processes, Publish(p)
  PROVE  Base'
<1>1. PICK r : Goes(p, r) /\ CopyFits(r, repository)
  BY PublishGoes, ServiceFits DEF SameFile
<1>2. repository' = repository /\ CopyKept
  BY CopyKeptUnchanged DEF Publish, envVars
<1>3. log' \in [Writers -> [Files -> Seq(BatchRecord)]]
  <2>1. log \in [Writers -> [Files -> Seq(BatchRecord)]]
    BY DEF Base, TypeOK, TypeOfRest
  <2>2. PICK x \in Process : x = proc[p] /\ x.pc = "publish" /\ StageOK(x) /\ Cmd(p) = x.cmd
    BY ProcIs DEF Publish, At
  <2>3. x.file \in Files /\ x.content \in Contents /\ x.row \in Row \cup {NoRow}
        /\ x.cmd.writer \in Writers
    BY <2>2, ProcessIs, CommandAssumption DEF StageOK, OnFile, InService, Writers
  <2>4. PICK b \in BatchRecord : b = Batch(x.row, <<x.content, 1>>)
    BY <2>3, BatchTyped
  <2>5. PICK w \in Writers, f \in Files : w = x.cmd.writer /\ f = x.file
    BY <2>3
  <2>6. log' = [log EXCEPT ![w] = [log[w] EXCEPT ![f] = Append(log[w][f], b)]]
    BY <2>2, <2>4, <2>5 DEF Publish
  <2>7. log[w] \in [Files -> Seq(BatchRecord)] /\ log[w][f] \in Seq(BatchRecord)
    BY <2>1
  <2>8. Append(log[w][f], b) \in Seq(BatchRecord)
    BY <2>7
  <2> QED
    BY <2>1, <2>6, <2>7, <2>8
<1>4. TypeOfRest'
  BY <1>3 DEF Publish, envVars, histVars, Base, TypeOK, TypeOfRest
<1> QED
  BY <1>1, <1>2, <1>4, BaseGoes

LEMMA CommitGoes ==
  ASSUME Base, NEW p \in Processes, Commit(p)
  PROVE  /\ proc[p].file \in Files /\ proc[p].content \in Contents
         /\ proc[p].content \notin Unparsable
         /\ proc[p].pc \in InService /\ "SUCCESS" \in Results /\ Done(p, "SUCCESS")
         /\ store' = [store EXCEPT ![proc[p].file] = RowFor(<<proc[p].content, 1>>)]
<1>1. proc[p].pc = "commit" /\ StageOK(proc[p])
  BY ProcIs DEF Commit, At
<1> QED
  BY <1>1 DEF Commit, StageOK, OnFile, InService, Results

LEMMA CommitBase ==
  ASSUME Base, NEW p \in Processes, Commit(p)
  PROVE  Base'
<1>1. PICK r : Goes(p, r) /\ CopyFits(r, repository)
  BY CommitGoes, DoneFits
<1>2. repository' = repository /\ CopyKept
  BY CopyKeptUnchanged DEF Commit, envVars
<1>3. store' \in [Files -> Row \cup {NoRow}]
  <2>1. PICK f \in Files, row \in Row : store' = [store EXCEPT ![f] = row]
    BY CommitGoes, RowTyped
  <2>2. store \in [Files -> Row \cup {NoRow}]
    BY DEF Base, TypeOK, TypeOfRest
  <2> QED
    BY <2>1, <2>2
<1>4. dryRows' \in SUBSET Files /\ changed' \in SUBSET Processes
  <2>1. dryRows' = dryRows \/ dryRows' = dryRows \cup {proc[p].file}
    BY DEF Commit
  <2>2. changed' = changed \cup {q \in Processes \ {p} : proc[q].file = proc[p].file}
    BY DEF Commit
  <2> QED
    BY <2>1, <2>2, CommitGoes DEF Base, TypeOK, TypeOfRest
<1>5. TypeOfRest'
  BY <1>3, <1>4 DEF Commit, envVars, Base, TypeOK, TypeOfRest
<1> QED
  BY <1>1, <1>2, <1>5, BaseGoes

LEMMA ReportBase ==
  ASSUME Base, NEW p \in Processes, Report(p)
  PROVE  Base'
<1>1. Goes(p, Idle) /\ CopyFits(Idle, repository)
  BY ExitGoes, IdleFits DEF Report
<1>2. repository' = repository /\ CopyKept
  BY CopyKeptUnchanged DEF Report, envVars
<1>3. TypeOfRest'
  BY DEF Report, envVars, histVars, Base, TypeOK, TypeOfRest
<1> QED
  BY <1>1, <1>2, <1>3, BaseGoes

LEMMA KillBase ==
  ASSUME Base, NEW p \in Processes, Kill(p)
  PROVE  Base'
<1>1. Goes(p, Idle) /\ CopyFits(Idle, repository')
  BY ExitGoes, IdleFits DEF Kill
<1>2. CopyKept
  BY CommandAssumption DEF Kill, Base, CopyOK, CopyKept
<1>3. contended' \in SUBSET Files
  <2>1. At(p, "commit") => proc[p].file \in Files
    BY ProcIs DEF At, StageOK, OnFile, InService
  <2> QED
    BY <2>1 DEF Kill, Base, TypeOK, TypeOfRest
<1>4. TypeOfRest'
  BY <1>3 DEF Kill, Base, TypeOK, TypeOfRest
<1> QED
  BY <1>1, <1>2, <1>4, BaseGoes

LEMMA EditBase ==
  ASSUME Base, NEW f \in Files, NEW c \in Contents \cup {Missing}, Edit(f, c)
  PROVE  Base'
<1>1. TypeOfRest'
  <2>1. disk' \in [Files -> Contents \cup {Missing}]
    BY DEF Edit, Base, TypeOK, TypeOfRest
  <2>2. changed' \in SUBSET Processes
    BY DEF Edit, Base, TypeOK, TypeOfRest
  <2> QED
    BY <2>1, <2>2 DEF Edit, Base, TypeOK, TypeOfRest
<1>2. proc' = proc /\ repository' = repository /\ repository \in Commits
  BY DEF Edit
<1>3. TypeOK' /\ Stages'
  BY <1>1, <1>2 DEF Base, TypeOK, Stages
<1>4. CopyOK'
  BY <1>2 DEF Base, CopyOK
<1> QED
  BY <1>3, <1>4 DEF Base

(* The steps of a process.                                                 *)
LEMMA ProceedBase ==
  ASSUME Base, NEW p \in Processes, Proceed(p)
  PROVE  Base'
  BY CloneBase, ListRawBase, DiscoverBase, WriteManifestBase, NextFileBase, CheckFileBase,
     PreviewBase, ReadFileBase, LoadRowBase, PublishBase, CommitBase, ReportBase DEF Proceed

LEMMA BaseStep == Base /\ [Next]_vars => Base'
<1> SUFFICES ASSUME Base, [Next]_vars PROVE Base'
  OBVIOUS
<1>1. ASSUME NEW p \in Processes, Proceed(p) PROVE Base'
  BY <1>1, ProceedBase
<1>2. ASSUME NEW p \in Processes, Kill(p) PROVE Base'
  BY <1>2, KillBase
<1>3. ASSUME NEW p \in Processes, NEW c \in Commands, Type(p, c) PROVE Base'
  BY <1>3, TypeBase
<1>4. ASSUME NEW f \in Files, NEW c \in Contents \cup {Missing}, Edit(f, c) PROVE Base'
  BY <1>4, EditBase
<1>5. CASE UNCHANGED vars
  <2>1. /\ UNCHANGED <<repository, disk, store, log, manifest, proc>>
        /\ UNCHANGED <<contended, dryRows, changed, mixed>>
    BY <1>5 DEF vars, envVars, histVars
  <2> QED
    BY <2>1 DEF Base, TypeOK, TypeOfRest, Stages, CopyOK
<1> QED
  BY <1>1, <1>2, <1>3, <1>4, <1>5 DEF Next

(* Type correctness, what the stage of a process says of it, and that it is*)
(* of a commit that a process past its own clone reads the copy.           *)
THEOREM BaseIsInvariant == Spec => []Base
  BY BaseInit, BaseStep, PTL DEF Spec

-----------------------------------------------------------------------------
(***************************************************************************)
(* The topics of a file that no two processes worked on at a time.  One    *)
(* process at a time is between the load of the row and its commit, with   *)
(* the row still the one it loaded; the topics are the row's until the     *)
(* batch is published and the new content's from then on.                  *)
(***************************************************************************)
Busy(p, f) == proc[p].file = f /\ proc[p].pc \in {"publish", "commit"}

Published(x) == IF x.cmd.writer = "kafka" THEN NodesOf(<<x.content, 1>>) ELSE RowNodes(x.row)

Exact(f) ==
    /\ \A p, q \in Processes : Busy(p, f) /\ Busy(q, f) => p = q
    /\ \A p \in Processes : Busy(p, f) => proc[p].row = store[f]
    /\ \A p \in Processes : Busy(p, f) /\ proc[p].pc = "commit" =>
          LiveNodes(f) = Published(proc[p])
    /\ (\A p \in Processes : Busy(p, f) => proc[p].pc # "commit") =>
          LiveNodes(f) = RowNodes(store[f])

ExactInv == \A f \in Files \ (contended \cup dryRows) : Exact(f)

LEMMA ExactInit == Init => ExactInv
<1> SUFFICES ASSUME Init, NEW f \in Files PROVE Exact(f)
  BY DEF ExactInv
<1>1. \A p \in Processes : ~ Busy(p, f)
  BY IdleIs DEF Init, Busy
<1>2. LiveNodes(f) = {}
  BY DEF Init, LiveNodes, Writers
<1>3. RowNodes(store[f]) = {}
  BY DEF Init, RowNodes
<1> QED
  BY <1>1, <1>2, <1>3 DEF Exact

LEMMA SameLive ==
  ASSUME log'["kafka"] = log["kafka"], NEW f \in Files
  PROVE  LiveNodes(f)' = LiveNodes(f)
  BY DEF LiveNodes

(* A step that neither loads, publishes nor commits.                       *)
LEMMA ExactQuiet ==
  ASSUME Base, ExactInv, NEW p \in Processes, NEW r, Goes(p, r),
         r.pc \notin {"publish", "commit"},
         proc[p].pc = "commit" => proc[p].file \in contended',
         store' = store, log'["kafka"] = log["kafka"],
         contended \subseteq contended', dryRows \subseteq dryRows'
  PROVE  ExactInv'
<1> SUFFICES ASSUME NEW f \in Files, f \notin contended', f \notin dryRows' PROVE Exact(f)'
  BY DEF ExactInv
<1>1. Exact(f)
  BY DEF ExactInv
<1>2. LiveNodes(f)' = LiveNodes(f)
  BY SameLive
<1>3. proc'[p] = r /\ \A q \in Processes \ {p} : proc'[q] = proc[q]
  BY GoesIs
<1>4. ~ Busy(p, f)'
  BY <1>3 DEF Busy
<1>5. \A q \in Processes \ {p} : (Busy(q, f)' <=> Busy(q, f)) /\ proc'[q] = proc[q]
  BY <1>3 DEF Busy
<1>6. Busy(p, f) => proc[p].pc # "commit"
  BY DEF Busy
<1>7. \A q, s \in Processes : Busy(q, f)' /\ Busy(s, f)' => q = s
  BY <1>1, <1>4, <1>5 DEF Exact
<1>8. \A q \in Processes : Busy(q, f)' => proc'[q].row = store'[f]
  BY <1>1, <1>4, <1>5 DEF Exact
<1>9. \A q \in Processes : Busy(q, f)' /\ proc'[q].pc = "commit" =>
        LiveNodes(f)' = Published(proc'[q])
  BY <1>1, <1>2, <1>4, <1>5 DEF Exact
<1>10. (\A q \in Processes : Busy(q, f)' => proc'[q].pc # "commit") =>
          LiveNodes(f)' = RowNodes(store'[f])
  BY <1>1, <1>2, <1>4, <1>5, <1>6 DEF Exact
<1> QED
  BY <1>7, <1>8, <1>9, <1>10 DEF Exact

LEMMA ExactLoad ==
  ASSUME Base, ExactInv, NEW p \in Processes, LoadRow(p)
  PROVE  ExactInv'
<1>0. proc[p].pc = "load" /\ proc[p].pc \in InService
      /\ {"SKIPPED_UNCHANGED", "FAILED"} \subseteq Results
  BY DEF LoadRow, At, InService, Results
<1>1. store' = store /\ log' = log /\ dryRows' = dryRows /\ contended \subseteq contended'
  BY DEF LoadRow
<1>2. CASE \E result \in {"SKIPPED_UNCHANGED", "FAILED"} : Done(p, result)
  <2>1. PICK r : Goes(p, r) /\ r.pc \in {"next", "report"}
    BY <1>0, <1>2, DoneGoes
  <2> QED
    BY <1>0, <1>1, <2>1, ExactQuiet
<1>3. CASE ~ \E result \in {"SKIPPED_UNCHANGED", "FAILED"} : Done(p, result)
  <2>1. PICK r : /\ Goes(p, r) /\ r.pc = "publish" /\ SameFile(r, proc[p])
                 /\ r.row = store[r.file]
    BY <1>3, LoadRowGoes
  <2>2. proc'[p] = r /\ \A q \in Processes \ {p} : proc'[q] = proc[q]
    BY <2>1, GoesIs
  <2> SUFFICES ASSUME NEW f \in Files, f \notin contended', f \notin dryRows' PROVE Exact(f)'
    BY DEF ExactInv
  <2>3. Exact(f)
    BY <1>1 DEF ExactInv
  <2>4. LiveNodes(f)' = LiveNodes(f)
    BY <1>1, SameLive
  <2>5. ~ Busy(p, f) /\ (Busy(p, f)' <=> r.file = f)
    BY <1>0, <2>1, <2>2 DEF Busy
  <2>6. \A q \in Processes \ {p} : (Busy(q, f)' <=> Busy(q, f)) /\ proc'[q] = proc[q]
    BY <2>2 DEF Busy
  <2>7. r.file = f => \A q \in Processes \ {p} : ~ Busy(q, f)
    <3>1. SUFFICES ASSUME r.file = f, NEW q \in Processes \ {p}, Busy(q, f) PROVE FALSE
      OBVIOUS
    <3>2. proc[p].file = f
      BY <2>1, <3>1 DEF SameFile
    <3>3. q \in {s \in Processes \ {p} : proc[s].file = proc[p].file
                                           /\ proc[s].pc \in {"publish", "commit"}}
      BY <3>1, <3>2 DEF Busy
    <3>4. proc[p].file \in contended'
      BY <3>3 DEF LoadRow
    <3> QED
      BY <3>2, <3>4
  <2>8. \A q, s \in Processes : Busy(q, f)' /\ Busy(s, f)' => q = s
    BY <2>3, <2>5, <2>6, <2>7 DEF Exact
  <2>9. \A q \in Processes : Busy(q, f)' => proc'[q].row = store'[f]
    BY <1>1, <2>1, <2>2, <2>3, <2>5, <2>6 DEF Exact
  <2>10. \A q \in Processes : Busy(q, f)' /\ proc'[q].pc = "commit" =>
           LiveNodes(f)' = Published(proc'[q])
    BY <2>1, <2>2, <2>3, <2>4, <2>6 DEF Exact
  <2>11. (\A q \in Processes : Busy(q, f)' => proc'[q].pc # "commit") =>
            LiveNodes(f)' = RowNodes(store'[f])
    BY <1>1, <2>3, <2>4, <2>5, <2>6 DEF Exact
  <2> QED
    BY <2>8, <2>9, <2>10, <2>11 DEF Exact
<1> QED
  BY <1>2, <1>3

(* What a batch leaves of the nodes that were live.                        *)
LEMMA LiveOfAppended ==
  ASSUME NEW S, NEW old \in Seq(S), NEW b \in S, NEW n
  PROVE  (\E i \in DOMAIN Append(old, b) :
             /\ n \in NodesOf(Append(old, b)[i].gen)
             /\ \A j \in DOMAIN Append(old, b) : j > i => n \notin Append(old, b)[j].removed)
         <=> \/ n \in NodesOf(b.gen)
             \/ /\ n \notin b.removed
                /\ \E i \in DOMAIN old : /\ n \in NodesOf(old[i].gen)
                                         /\ \A j \in DOMAIN old : j > i => n \notin old[j].removed
<1>1. PICK k \in Nat : k = Len(old) /\ DOMAIN old = 1..k
  OBVIOUS
<1>2. PICK new : new = Append(old, b)
  OBVIOUS
<1>3. /\ DOMAIN new = 1..(k + 1) /\ new[k + 1] = b
      /\ \A i \in 1..k : new[i] = old[i]
  BY <1>1, <1>2
<1>4. ASSUME n \in NodesOf(b.gen)
      PROVE  \E i \in DOMAIN new : /\ n \in NodesOf(new[i].gen)
                                   /\ \A j \in DOMAIN new : j > i => n \notin new[j].removed
  <2>1. k + 1 \in DOMAIN new /\ \A j \in DOMAIN new : ~ (j > k + 1)
    BY <1>3
  <2> QED
    BY <1>3, <1>4, <2>1
<1>5. ASSUME n \notin b.removed,
             NEW i \in DOMAIN old, n \in NodesOf(old[i].gen),
             \A j \in DOMAIN old : j > i => n \notin old[j].removed
      PROVE  /\ i \in DOMAIN new /\ n \in NodesOf(new[i].gen)
             /\ \A j \in DOMAIN new : j > i => n \notin new[j].removed
  <2>1. i \in DOMAIN new /\ new[i] = old[i]
    BY <1>1, <1>3
  <2>2. ASSUME NEW j \in DOMAIN new, j > i PROVE n \notin new[j].removed
    <3>1. j = k + 1 \/ j \in 1..k
      BY <1>3
    <3> QED
      BY <1>1, <1>3, <1>5, <2>2, <3>1
  <2> QED
    BY <1>5, <2>1, <2>2
<1>6. ASSUME NEW i \in DOMAIN new, n \in NodesOf(new[i].gen),
             \A j \in DOMAIN new : j > i => n \notin new[j].removed,
             n \notin NodesOf(b.gen)
      PROVE  /\ n \notin b.removed /\ i \in DOMAIN old /\ n \in NodesOf(old[i].gen)
             /\ \A j \in DOMAIN old : j > i => n \notin old[j].removed
  <2>1. i \in 1..k /\ i < k + 1
    <3>1. i # k + 1
      BY <1>3, <1>6
    <3> QED
      BY <1>3, <3>1
  <2>2. \A j \in 1..k : j \in DOMAIN new
    BY <1>3
  <2>3. k + 1 \in DOMAIN new /\ k + 1 > i
    BY <1>3, <2>1
  <2> QED
    BY <1>1, <1>3, <1>6, <2>1, <2>2, <2>3
<1> QED
  BY <1>2, <1>4, <1>5, <1>6, Zenon

LEMMA ExactPublish ==
  ASSUME Base, ExactInv, NEW p \in Processes, Publish(p)
  PROVE  ExactInv'
<1>1. PICK r : /\ Goes(p, r) /\ r.pc = "commit" /\ SameFile(r, proc[p])
               /\ r.content = proc[p].content /\ r.row = proc[p].row
  BY PublishGoes
<1>2. proc'[p] = r /\ \A q \in Processes \ {p} : proc'[q] = proc[q]
  BY <1>1, GoesIs
<1>3. /\ proc[p].pc = "publish" /\ proc[p].file \in Files /\ proc[p].content \in Contents
      /\ proc[p].row \in Row \cup {NoRow} /\ proc[p].cmd.writer \in Writers
      /\ Cmd(p) = proc[p].cmd
  BY ProcIs, ProcessIs, CommandAssumption DEF Publish, At, StageOK, OnFile, InService, Writers
<1>4. store' = store /\ contended' = contended /\ dryRows' = dryRows
  BY DEF Publish, histVars
<1> SUFFICES ASSUME NEW f \in Files, f \notin contended, f \notin dryRows PROVE Exact(f)'
  BY <1>4 DEF ExactInv
<1>5. Exact(f)
  BY DEF ExactInv
<1>6. \A q \in Processes : Busy(q, f)' <=> Busy(q, f)
  BY <1>1, <1>2, <1>3 DEF Busy, SameFile
<1>7. \A q, s \in Processes : Busy(q, f)' /\ Busy(s, f)' => q = s
  BY <1>5, <1>6 DEF Exact
<1>8. \A q \in Processes : Busy(q, f)' => proc'[q].row = store'[f]
  BY <1>1, <1>2, <1>4, <1>5, <1>6 DEF Exact
<1>9. CASE f = proc[p].file
  <2>1. Busy(p, f) /\ \A q \in Processes \ {p} : ~ Busy(q, f)
    BY <1>3, <1>5, <1>9 DEF Busy, Exact
  <2>2. LiveNodes(f) = RowNodes(proc[p].row)
    BY <1>3, <1>5, <2>1 DEF Exact
  <2>3. LiveNodes(f)' = Published(r)
    <3>1. PICK w \in Writers : w = proc[p].cmd.writer
      BY <1>3
    <3>2. PICK b : b = Batch(proc[p].row, <<proc[p].content, 1>>)
      OBVIOUS
    <3>3. log' = [log EXCEPT ![w][f] = Append(@, b)]
      BY <1>3, <1>9, <3>1, <3>2 DEF Publish
    <3>4. log \in [Writers -> [Files -> Seq(BatchRecord)]]
      BY DEF Base, TypeOK, TypeOfRest
    <3>5. CASE w = "kafka"
      <4>1. log'["kafka"][f] = Append(log["kafka"][f], b)
        BY <3>3, <3>4, <3>5
      <4>2. /\ b.gen = <<proc[p].content, 1>>
            /\ b.removed = RowNodes(proc[p].row) \ NodesOf(<<proc[p].content, 1>>)
        BY <3>2 DEF Batch, RemovedNodes
      <4>3. b \in BatchRecord /\ log["kafka"][f] \in Seq(BatchRecord)
        BY <1>3, <3>2, <3>4, <3>5, BatchTyped
      <4>4. \A n \in Nodes : n \in LiveNodes(f)' <=>
              n \in NodesOf(b.gen) \/ (n \notin b.removed /\ n \in LiveNodes(f))
        BY <4>1, <4>3, LiveOfAppended DEF LiveNodes
      <4>5. LiveNodes(f)' = NodesOf(<<proc[p].content, 1>>)
        <5>1. LiveNodes(f)' \subseteq Nodes
          BY DEF LiveNodes
        <5>2. NodesOf(<<proc[p].content, 1>>) \subseteq Nodes
          BY <1>3, RowTyped
        <5> QED
          BY <2>2, <4>2, <4>4, <5>1, <5>2
      <4> QED
        BY <1>1, <3>1, <3>5, <4>5 DEF Published, SameFile
    <3>6. CASE w # "kafka"
      <4>1. log'["kafka"] = log["kafka"]
        BY <3>3, <3>4, <3>6 DEF Writers
      <4>2. LiveNodes(f)' = LiveNodes(f)
        BY <4>1, SameLive
      <4> QED
        BY <1>1, <2>2, <3>1, <3>6, <4>2 DEF Published, SameFile
    <3> QED
      BY <3>5, <3>6
  <2>4. \A q \in Processes : Busy(q, f)' /\ proc'[q].pc = "commit" =>
          LiveNodes(f)' = Published(proc'[q])
    BY <1>2, <1>6, <2>1, <2>3
  <2>5. Busy(p, f)' /\ proc'[p].pc = "commit"
    BY <1>1, <1>2, <1>6, <2>1
  <2> QED
    BY <1>7, <1>8, <2>4, <2>5 DEF Exact
<1>10. CASE f # proc[p].file
  <2>1. ~ Busy(p, f) /\ ~ Busy(p, f)'
    BY <1>6, <1>10 DEF Busy
  <2>2. LiveNodes(f)' = LiveNodes(f)
    <3>1. log'["kafka"][f] = log["kafka"][f]
      <4>1. log \in [Writers -> [Files -> Seq(BatchRecord)]]
        BY DEF Base, TypeOK, TypeOfRest
      <4>2. PICK w, g, s : /\ w \in Writers /\ g \in Files /\ g # f
                           /\ log' = [log EXCEPT ![w] = [log[w] EXCEPT ![g] = s]]
        BY <1>3, <1>10 DEF Publish
      <4>3. log'["kafka"] = IF w = "kafka" THEN [log[w] EXCEPT ![g] = s] ELSE log["kafka"]
        BY <4>1, <4>2 DEF Writers
      <4> QED
        BY <4>1, <4>2, <4>3
    <3> QED
      BY <3>1 DEF LiveNodes
  <2>3. \A q \in Processes : Busy(q, f)' => proc'[q] = proc[q]
    BY <1>2, <2>1
  <2>4. \A q \in Processes : Busy(q, f)' /\ proc'[q].pc = "commit" =>
          LiveNodes(f)' = Published(proc'[q])
    BY <1>5, <1>6, <2>2, <2>3 DEF Exact
  <2>5. (\A q \in Processes : Busy(q, f)' => proc'[q].pc # "commit") =>
          LiveNodes(f)' = RowNodes(store'[f])
    BY <1>4, <1>5, <1>6, <2>2, <2>3 DEF Exact
  <2> QED
    BY <1>7, <1>8, <2>4, <2>5 DEF Exact
<1> QED
  BY <1>9, <1>10

LEMMA ExactCommit ==
  ASSUME Base, ExactInv, NEW p \in Processes, Commit(p)
  PROVE  ExactInv'
<1>1. PICK r : Goes(p, r) /\ r.pc \in {"next", "report"}
  BY CommitGoes, DoneGoes
<1>2. proc'[p] = r /\ \A q \in Processes \ {p} : proc'[q] = proc[q]
  BY <1>1, GoesIs
<1>3. /\ proc[p].pc = "commit" /\ proc[p].file \in Files /\ proc[p].content \in Contents
      /\ Cmd(p) = proc[p].cmd
      /\ store' = [store EXCEPT ![proc[p].file] = RowFor(<<proc[p].content, 1>>)]
      /\ log' = log /\ contended' = contended /\ dryRows \subseteq dryRows'
  BY CommitGoes, ProcIs DEF Commit, At
<1>4. proc[p].cmd.writer # "kafka" => proc[p].file \in dryRows'
  <2>1. proc[p].cmd \in Commands
    BY <1>3, ProcIs DEF StageOK
  <2>2. proc[p].cmd.writer \in {"kafka", "jsonl"}
    BY <2>1, CommandAssumption
  <2> QED
    BY <1>3, <2>2 DEF Commit
<1> SUFFICES ASSUME NEW f \in Files, f \notin contended, f \notin dryRows' PROVE Exact(f)'
  BY <1>3 DEF ExactInv
<1>5. Exact(f)
  BY <1>3 DEF ExactInv
<1>6. LiveNodes(f)' = LiveNodes(f)
  BY <1>3, SameLive
<1>7. ~ Busy(p, f)' /\ \A q \in Processes \ {p} : Busy(q, f)' <=> Busy(q, f)
  BY <1>1, <1>2 DEF Busy
<1>8. store \in [Files -> Row \cup {NoRow}]
  BY DEF Base, TypeOK, TypeOfRest
<1>9. CASE f = proc[p].file
  <2>1. Busy(p, f)
    BY <1>3, <1>9 DEF Busy
  <2>2. \A q \in Processes : ~ Busy(q, f)'
    BY <1>5, <1>7, <2>1 DEF Exact
  <2>3. proc[p].cmd.writer = "kafka"
    BY <1>4, <1>9
  <2>4. LiveNodes(f) = NodesOf(<<proc[p].content, 1>>)
    BY <1>3, <1>5, <2>1, <2>3 DEF Exact, Published
  <2>5. store'[f] = RowFor(<<proc[p].content, 1>>)
    BY <1>3, <1>8, <1>9
  <2>6. RowNodes(store'[f]) = NodesOf(<<proc[p].content, 1>>)
    BY <1>3, <2>5, RowTyped DEF RowNodes, RowFor
  <2> QED
    BY <1>6, <2>2, <2>4, <2>6 DEF Exact
<1>10. CASE f # proc[p].file
  <2>1. store'[f] = store[f]
    BY <1>3, <1>8, <1>10
  <2>2. ~ Busy(p, f)
    BY <1>10 DEF Busy
  <2>3. \A q, s \in Processes : Busy(q, f)' /\ Busy(s, f)' => q = s
    BY <1>5, <1>7, <2>2 DEF Exact
  <2>4. \A q \in Processes : Busy(q, f)' => Busy(q, f) /\ proc'[q] = proc[q]
    BY <1>2, <1>7
  <2>5. \A q \in Processes : Busy(q, f)' => proc'[q].row = store'[f]
    BY <1>5, <2>1, <2>4 DEF Exact
  <2>6. \A q \in Processes : Busy(q, f)' /\ proc'[q].pc = "commit" =>
          LiveNodes(f)' = Published(proc'[q])
    BY <1>5, <1>6, <2>4 DEF Exact
  <2>7. (\A q \in Processes : Busy(q, f)' => proc'[q].pc # "commit") =>
           LiveNodes(f)' = RowNodes(store'[f])
    <3>1. \A q \in Processes : Busy(q, f) => Busy(q, f)' /\ proc'[q] = proc[q]
      BY <1>2, <1>7, <2>2
    <3> QED
      BY <1>5, <1>6, <2>1, <3>1 DEF Exact
  <2> QED
    BY <2>3, <2>5, <2>6, <2>7 DEF Exact
<1> QED
  BY <1>9, <1>10

LEMMA ExactKill ==
  ASSUME Base, ExactInv, NEW p \in Processes, Kill(p)
  PROVE  ExactInv'
<1>1. Goes(p, Idle) /\ Idle.pc = "idle"
  BY ExitGoes, IdleIs DEF Kill
<1>2. proc[p].pc = "commit" => proc[p].file \in contended'
  BY DEF Kill, At
<1>3. store' = store /\ log' = log /\ contended \subseteq contended' /\ dryRows' = dryRows
  BY DEF Kill
<1> QED
  BY <1>1, <1>2, <1>3, ExactQuiet

LEMMA ExactType ==
  ASSUME Base, ExactInv, NEW p \in Processes, NEW c \in Commands, Type(p, c)
  PROVE  ExactInv'
<1>1. PICK r : Goes(p, r) /\ r.pc \in {"clone", "check"}
  BY TypeGoes
<1>2. proc[p].pc = "idle" /\ store' = store /\ contended' = contended /\ dryRows' = dryRows
  BY DEF Type, At
<1>3. log'["kafka"] = log["kafka"]
  <2>1. log \in [Writers -> [Files -> Seq(BatchRecord)]]
    BY DEF Base, TypeOK, TypeOfRest
  <2>2. log' = log \/ log' = [log EXCEPT !["jsonl"] = [f \in Files |-> << >>]]
    BY DEF Type
  <2> QED
    BY <2>1, <2>2 DEF Writers
<1> QED
  BY <1>1, <1>2, <1>3, ExactQuiet

LEMMA ExactProceed ==
  ASSUME Base, ExactInv, NEW p \in Processes, Proceed(p)
  PROVE  ExactInv'
<1>1. CASE Clone(p)
  <2>1. PICK r : Goes(p, r) /\ r.pc = "walk"
    BY <1>1, CloneGoes
  <2>2. /\ proc[p].pc = "clone" /\ store' = store /\ log' = log
        /\ contended' = contended /\ dryRows' = dryRows
    BY <1>1 DEF Clone, At, histVars
  <2> QED
    BY <2>1, <2>2, ExactQuiet
<1>2. CASE ListRaw(p)
  <2>1. PICK r : Goes(p, r) /\ r.pc \in {"idle", "select"}
    BY <1>2, ListRawGoes, IdleIs
  <2>2. /\ proc[p].pc = "walk" /\ store' = store /\ log' = log
        /\ contended' = contended /\ dryRows' = dryRows
    BY <1>2 DEF ListRaw, At, histVars
  <2> QED
    BY <2>1, <2>2, ExactQuiet
<1>3. CASE Discover(p)
  <2>1. PICK r : Goes(p, r) /\ r.pc \in {"idle", "manifest"}
    BY <1>3, DiscoverGoes, IdleIs
  <2>2. /\ proc[p].pc = "select" /\ store' = store /\ log' = log
        /\ contended' = contended /\ dryRows' = dryRows
    BY <1>3 DEF Discover, At
  <2> QED
    BY <2>1, <2>2, ExactQuiet
<1>4. CASE WriteManifest(p)
  <2>1. PICK r : Goes(p, r) /\ r.pc \in {"idle", "next"}
    BY <1>4, WriteManifestGoes, IdleIs
  <2>2. /\ proc[p].pc = "manifest" /\ store' = store /\ log' = log
        /\ contended' = contended /\ dryRows' = dryRows
    BY <1>4 DEF WriteManifest, At, histVars
  <2> QED
    BY <2>1, <2>2, ExactQuiet
<1>5. CASE NextFile(p)
  <2>1. PICK r : Goes(p, r) /\ r.pc \in {"idle", "read"}
    BY <1>5, NextFileGoes, IdleIs
  <2>2. /\ proc[p].pc = "next" /\ store' = store /\ log' = log
        /\ contended' = contended /\ dryRows' = dryRows
    BY <1>5 DEF NextFile, At, histVars
  <2> QED
    BY <2>1, <2>2, ExactQuiet
<1>6. CASE CheckFile(p)
  <2>1. PICK r : Goes(p, r) /\ r.pc \in {"idle", "preview", "read"}
    BY <1>6, CheckFileGoes, IdleIs
  <2>2. /\ proc[p].pc = "check" /\ store' = store /\ log' = log
        /\ contended' = contended /\ dryRows' = dryRows
    BY <1>6 DEF CheckFile, At, histVars
  <2> QED
    BY <2>1, <2>2, ExactQuiet
<1>7. CASE Preview(p)
  <2>1. PICK r : Goes(p, r) /\ r.pc \in {"idle", "read"}
    BY <1>7, PreviewGoes, IdleIs
  <2>2. /\ proc[p].pc = "preview" /\ store' = store /\ log' = log
        /\ contended' = contended /\ dryRows' = dryRows
    BY <1>7 DEF Preview, At, histVars
  <2> QED
    BY <2>1, <2>2, ExactQuiet
<1>8. CASE ReadFile(p)
  <2>1. PICK r : Goes(p, r) /\ r.pc \in {"load", "next", "report"}
    <3>1. proc[p].pc \in InService /\ "FAILED" \in Results
      BY <1>8 DEF ReadFile, At, InService, Results
    <3> QED
      BY <1>8, <3>1, ReadFileGoes, DoneGoes
  <2>2. /\ proc[p].pc = "read" /\ store' = store /\ log' = log
        /\ contended' = contended /\ dryRows' = dryRows
    BY <1>8 DEF ReadFile, At, histVars
  <2> QED
    BY <2>1, <2>2, ExactQuiet
<1>9. CASE Report(p)
  <2>1. Goes(p, Idle) /\ Idle.pc = "idle"
    BY <1>9, ExitGoes, IdleIs DEF Report
  <2>2. /\ proc[p].pc = "report" /\ store' = store /\ log' = log
        /\ contended' = contended /\ dryRows' = dryRows
    BY <1>9 DEF Report, At, histVars
  <2> QED
    BY <2>1, <2>2, ExactQuiet
<1> QED
  BY <1>1, <1>2, <1>3, <1>4, <1>5, <1>6, <1>7, <1>8, <1>9,
     ExactLoad, ExactPublish, ExactCommit DEF Proceed

LEMMA ExactUntouched ==
  ASSUME ExactInv, UNCHANGED <<store, log, proc, contended, dryRows>>
  PROVE  ExactInv'
<1> SUFFICES ASSUME NEW f \in Files, f \notin contended, f \notin dryRows PROVE Exact(f)'
  BY DEF ExactInv
<1>1. Exact(f) /\ LiveNodes(f)' = LiveNodes(f)
  BY SameLive DEF ExactInv
<1> QED
  BY <1>1 DEF Exact, Busy

LEMMA ExactStep == Base /\ ExactInv /\ [Next]_vars => ExactInv'
<1> SUFFICES ASSUME Base, ExactInv, [Next]_vars PROVE ExactInv'
  OBVIOUS
<1>1. ASSUME NEW p \in Processes, Proceed(p) PROVE ExactInv'
  BY <1>1, ExactProceed
<1>2. ASSUME NEW p \in Processes, Kill(p) PROVE ExactInv'
  BY <1>2, ExactKill
<1>3. ASSUME NEW p \in Processes, NEW c \in Commands, Type(p, c) PROVE ExactInv'
  BY <1>3, ExactType
<1>4. ASSUME NEW f \in Files, NEW c \in Contents \cup {Missing}, Edit(f, c) PROVE ExactInv'
  <2>1. UNCHANGED <<store, log, proc, contended, dryRows>>
    BY <1>4 DEF Edit
  <2> QED
    BY <2>1, ExactUntouched
<1>5. CASE UNCHANGED vars
  <2>1. UNCHANGED <<store, log, proc, contended, dryRows>>
    BY <1>5 DEF vars, histVars
  <2> QED
    BY <2>1, ExactUntouched
<1> QED
  BY <1>1, <1>2, <1>3, <1>4, <1>5 DEF Next

(* Files no two processes worked on at a time, and whose publications were *)
(* all committed with Kafka as the writer, have in the topics what their   *)
(* row says, whatever commands, edits and kills came in between.           *)
THEOREM SequentialFilesAreExact == Spec => []SequentialIsExact
<1>1. Base /\ ExactInv => SequentialIsExact
  <2> SUFFICES ASSUME Base, ExactInv,
                      NEW f \in Files, f \notin contended, f \notin dryRows,
                      \A p \in Processes : proc[p].file = f => ~ At(p, "commit")
               PROVE  LiveNodes(f) = RowNodes(store[f])
    BY DEF SequentialIsExact
  <2>1. \A p \in Processes : Busy(p, f) => proc[p].pc # "commit"
    BY DEF Busy, At
  <2> QED
    BY <2>1 DEF ExactInv, Exact
<1> QED
  BY <1>1, BaseInit, BaseStep, ExactInit, ExactStep, PTL DEF Spec

-----------------------------------------------------------------------------
(***************************************************************************)
(* The preview of a replay: the counts of the row and the content that the *)
(* replay itself will find, as long as no one else changes them.           *)
(***************************************************************************)
PreviewFits(x, rows, tree) ==
    x.preview # NoPreview =>
      /\ x.pc = "read" => x.preview = Counts(rows[x.file], tree[x.file])
      /\ x.pc = "load" => x.preview = Counts(rows[x.file], x.content)
      /\ x.pc \in {"publish", "commit"} => x.preview = Counts(x.row, x.content)
      /\ x.pc = "report" /\ x.result = "SUCCESS" =>
           x.content \notin Unparsable /\ x.preview = Counts(x.row, x.content)

PreviewInv == \A p \in Processes \ changed : PreviewFits(proc[p], store, disk)

LEMMA PreviewInit == Init => PreviewInv
  BY IdleIs DEF Init, PreviewInv, PreviewFits

(* A step of p changes the row and the content of other processes' files   *)
(* only if it marks them as changed.                                       *)
Marks(q) ==
    \/ proc[q].preview = NoPreview
    \/ q \in changed'
    \/ store'[proc[q].file] = store[proc[q].file] /\ disk'[proc[q].file] = disk[proc[q].file]

LEMMA PreviewStays ==
  ASSUME PreviewInv, NEW q \in Processes, q \in changed => q \in changed',
         proc'[q] = proc[q], Marks(q)
  PROVE  q \notin changed' => PreviewFits(proc'[q], store', disk')
  BY DEF PreviewInv, Marks, PreviewFits

LEMMA PreviewGoesOn ==
  ASSUME Base, PreviewInv, NEW p \in Processes, NEW r, Goes(p, r),
         p \notin changed' => PreviewFits(r, store', disk'),
         \A q \in Processes \ {p} : (q \in changed => q \in changed') /\ Marks(q)
  PROVE  PreviewInv'
<1>1. proc'[p] = r /\ \A q \in Processes \ {p} : proc'[q] = proc[q]
  BY GoesIs
<1> SUFFICES ASSUME NEW q \in Processes, q \notin changed'
             PROVE  PreviewFits(proc'[q], store', disk')
  BY DEF PreviewInv
<1>2. CASE q = p
  BY <1>1, <1>2
<1>3. CASE q # p
  BY <1>1, <1>3, PreviewStays
<1> QED
  BY <1>2, <1>3

(* A step that changes neither rows nor files and leaves no preview, or one*)
(* whose file is done with.                                                *)
LEMMA PreviewQuiet ==
  ASSUME Base, PreviewInv, NEW p \in Processes, NEW r, Goes(p, r),
         \/ r.preview = NoPreview
         \/ r.pc \in {"next", "report"} /\ r.result # "SUCCESS",
         store' = store, disk' = disk, changed \subseteq changed' \cup {p}
  PROVE  PreviewInv'
<1>1. PreviewFits(r, store', disk')
  BY DEF PreviewFits
<1>2. \A q \in Processes \ {p} : (q \in changed => q \in changed') /\ Marks(q)
  BY DEF Marks
<1> QED
  BY <1>1, <1>2, PreviewGoesOn

(* A process in service goes on with its preview.                          *)
LEMMA PreviewCarried ==
  ASSUME Base, PreviewInv, NEW p \in Processes, NEW r, Goes(p, r),
         PreviewFits(proc[p], store, disk) => PreviewFits(r, store, disk),
         store' = store, disk' = disk, changed' = changed
  PROVE  PreviewInv'
<1>1. p \notin changed' => PreviewFits(r, store', disk')
  BY DEF PreviewInv
<1>2. \A q \in Processes \ {p} : (q \in changed => q \in changed') /\ Marks(q)
  BY DEF Marks
<1> QED
  BY <1>1, <1>2, PreviewGoesOn

LEMMA PreviewClone ==
  ASSUME Base, PreviewInv, NEW p \in Processes, Clone(p)
  PROVE  PreviewInv'
<1>1. PICK r : Goes(p, r) /\ r.preview = NoPreview
  BY CloneGoes
<1>2. store' = store /\ changed' = changed
  BY DEF Clone, histVars
<1>3. disk' = disk \/ repository = NoCommit
  BY DEF Clone, envVars
<1>4. repository = NoCommit => \A q \in Processes : proc[q].preview = NoPreview
  BY CommandAssumption DEF Base, CopyOK, CopyFits
<1>5. ASSUME NEW q \in Processes \ {p} PROVE (q \in changed => q \in changed') /\ Marks(q)
  <2>1. CASE disk' = disk
    BY <1>2, <2>1 DEF Marks
  <2>2. CASE repository = NoCommit
    BY <1>2, <1>4, <2>2 DEF Marks
  <2> QED
    BY <1>3, <2>1, <2>2
<1>6. PreviewFits(r, store', disk')
  BY <1>1 DEF PreviewFits
<1> QED
  BY <1>1, <1>5, <1>6, PreviewGoesOn

LEMMA PreviewPreview ==
  ASSUME Base, PreviewInv, NEW p \in Processes, Preview(p)
  PROVE  PreviewInv'
<1>1. store' = store /\ disk' = disk /\ changed' = changed
  BY DEF Preview, envVars, histVars
<1>2. CASE Goes(p, Idle)
  BY <1>1, <1>2, IdleIs, PreviewQuiet
<1>3. CASE ~ Goes(p, Idle)
  <2>1. PICK r : /\ Goes(p, r) /\ r.pc = "read"
                 /\ r.preview = Counts(store[r.file], disk[r.file])
    BY <1>3, PreviewGoes
  <2>2. PreviewFits(r, store, disk)
    BY <2>1 DEF PreviewFits
  <2> QED
    BY <1>1, <2>1, <2>2, PreviewCarried
<1> QED
  BY <1>2, <1>3

LEMMA PreviewRead ==
  ASSUME Base, PreviewInv, NEW p \in Processes, ReadFile(p)
  PROVE  PreviewInv'
<1>1. store' = store /\ disk' = disk /\ changed' = changed
  BY DEF ReadFile, envVars, histVars
<1>2. proc[p].pc = "read" /\ proc[p].pc \in InService /\ "FAILED" \in Results
  BY DEF ReadFile, At, InService, Results
<1>3. CASE Done(p, "FAILED")
  <2>1. PICK r : Goes(p, r) /\ r.pc \in {"next", "report"} /\ r.result = "FAILED"
    BY <1>2, <1>3, DoneGoes
  <2> QED
    BY <1>1, <2>1, PreviewQuiet
<1>4. CASE ~ Done(p, "FAILED")
  <2>1. PICK r : /\ Goes(p, r) /\ r.pc = "load" /\ SameFile(r, proc[p])
                 /\ r.content = disk[r.file]
    BY <1>4, ReadFileGoes
  <2>2. PreviewFits(proc[p], store, disk) => PreviewFits(r, store, disk)
    BY <1>2, <2>1 DEF PreviewFits, SameFile
  <2> QED
    BY <1>1, <2>1, <2>2, PreviewCarried
<1> QED
  BY <1>3, <1>4

LEMMA PreviewLoad ==
  ASSUME Base, PreviewInv, NEW p \in Processes, LoadRow(p)
  PROVE  PreviewInv'
<1>1. store' = store /\ disk' = disk /\ changed' = changed
  BY DEF LoadRow, envVars
<1>2. proc[p].pc = "load" /\ proc[p].pc \in InService
      /\ {"SKIPPED_UNCHANGED", "FAILED"} \subseteq Results
  BY DEF LoadRow, At, InService, Results
<1>3. CASE \E result \in {"SKIPPED_UNCHANGED", "FAILED"} : Done(p, result)
  <2>1. PICK r : Goes(p, r) /\ r.pc \in {"next", "report"} /\ r.result # "SUCCESS"
    BY <1>2, <1>3, DoneGoes
  <2> QED
    BY <1>1, <2>1, PreviewQuiet
<1>4. CASE ~ \E result \in {"SKIPPED_UNCHANGED", "FAILED"} : Done(p, result)
  <2>1. PICK r : /\ Goes(p, r) /\ r.pc = "publish" /\ SameFile(r, proc[p])
                 /\ r.content = proc[p].content /\ r.row = store[r.file]
    BY <1>4, LoadRowGoes
  <2>2. PreviewFits(proc[p], store, disk) => PreviewFits(r, store, disk)
    BY <1>2, <2>1 DEF PreviewFits, SameFile
  <2> QED
    BY <1>1, <2>1, <2>2, PreviewCarried
<1> QED
  BY <1>3, <1>4

LEMMA PreviewPublish ==
  ASSUME Base, PreviewInv, NEW p \in Processes, Publish(p)
  PROVE  PreviewInv'
<1>1. store' = store /\ disk' = disk /\ changed' = changed /\ proc[p].pc = "publish"
  BY DEF Publish, envVars, histVars, At
<1>2. PICK r : /\ Goes(p, r) /\ r.pc = "commit" /\ SameFile(r, proc[p])
               /\ r.content = proc[p].content /\ r.row = proc[p].row
  BY PublishGoes
<1>3. PreviewFits(proc[p], store, disk) => PreviewFits(r, store, disk)
  BY <1>1, <1>2 DEF PreviewFits, SameFile
<1> QED
  BY <1>1, <1>2, <1>3, PreviewCarried

LEMMA PreviewCommit ==
  ASSUME Base, PreviewInv, NEW p \in Processes, Commit(p)
  PROVE  PreviewInv'
<1>1. PICK r : /\ Goes(p, r) /\ r.pc \in {"next", "report"}
               /\ r.preview = proc[p].preview
               /\ r.pc = "report" => /\ r.row = proc[p].row /\ r.content = proc[p].content
  BY CommitGoes, DoneGoes
<1>2. /\ disk' = disk /\ proc[p].pc = "commit"
      /\ changed' = changed \cup {q \in Processes \ {p} : proc[q].file = proc[p].file}
  BY DEF Commit, envVars, At
<1>3. ASSUME p \notin changed' PROVE PreviewFits(r, store', disk')
  <2>1. PreviewFits(proc[p], store, disk)
    BY <1>2, <1>3 DEF PreviewInv
  <2>2. proc[p].content \notin Unparsable
    BY CommitGoes
  <2> QED
    BY <1>1, <1>2, <2>1, <2>2 DEF PreviewFits
<1>4. ASSUME NEW q \in Processes \ {p} PROVE (q \in changed => q \in changed') /\ Marks(q)
  <2>1. CASE proc[q].file = proc[p].file
    BY <1>2, <2>1 DEF Marks
  <2>2. CASE proc[q].file # proc[p].file
    <3>1. CASE proc[q].preview # NoPreview
      <4>1. proc[q].file \in Files
        BY <3>1, ProcIs, ProcessIs DEF StageOK
      <4>2. store'[proc[q].file] = store[proc[q].file]
        <5>1. PICK f, row : f = proc[p].file /\ store' = [store EXCEPT ![f] = row]
          BY CommitGoes
        <5>2. store \in [Files -> Row \cup {NoRow}]
          BY DEF Base, TypeOK, TypeOfRest
        <5> QED
          BY <2>2, <4>1, <5>1, <5>2
      <4> QED
        BY <1>2, <4>2 DEF Marks
    <3>2. CASE proc[q].preview = NoPreview
      BY <1>2, <3>2 DEF Marks
    <3> QED
      BY <3>1, <3>2
  <2> QED
    BY <2>1, <2>2
<1> QED
  BY <1>1, <1>3, <1>4, PreviewGoesOn

LEMMA PreviewProceed ==
  ASSUME Base, PreviewInv, NEW p \in Processes, Proceed(p)
  PROVE  PreviewInv'
<1>1. CASE ListRaw(p) \/ Discover(p) \/ WriteManifest(p) \/ NextFile(p) \/ CheckFile(p)
  <2>1. PICK r : Goes(p, r) /\ r.preview = NoPreview
    BY <1>1, ListRawGoes, DiscoverGoes, WriteManifestGoes, NextFileGoes, CheckFileGoes, IdleIs
  <2>2. store' = store /\ disk' = disk /\ changed' = changed
    BY <1>1 DEF ListRaw, Discover, WriteManifest, NextFile, CheckFile, envVars, histVars
  <2> QED
    BY <2>1, <2>2, PreviewQuiet
<1>2. CASE Report(p)
  <2>1. Goes(p, Idle) /\ Idle.preview = NoPreview
    BY <1>2, ExitGoes, IdleIs DEF Report
  <2>2. store' = store /\ disk' = disk /\ changed' = changed
    BY <1>2 DEF Report, envVars, histVars
  <2> QED
    BY <2>1, <2>2, PreviewQuiet
<1> QED
  BY <1>1, <1>2, PreviewClone, PreviewPreview, PreviewRead, PreviewLoad, PreviewPublish,
     PreviewCommit DEF Proceed

LEMMA PreviewStep == Base /\ PreviewInv /\ [Next]_vars => PreviewInv'
<1> SUFFICES ASSUME Base, PreviewInv, [Next]_vars PROVE PreviewInv'
  OBVIOUS
<1>1. ASSUME NEW p \in Processes, Proceed(p) PROVE PreviewInv'
  BY <1>1, PreviewProceed
<1>2. ASSUME NEW p \in Processes, Kill(p) PROVE PreviewInv'
  <2>1. Goes(p, Idle) /\ Idle.preview = NoPreview
    BY <1>2, ExitGoes, IdleIs DEF Kill
  <2>2. store' = store /\ disk' = disk /\ changed' = changed
    BY <1>2 DEF Kill
  <2> QED
    BY <2>1, <2>2, PreviewQuiet
<1>3. ASSUME NEW p \in Processes, NEW c \in Commands, Type(p, c) PROVE PreviewInv'
  <2>1. PICK r : Goes(p, r) /\ r.preview = NoPreview
    BY <1>3, TypeGoes
  <2>2. store' = store /\ disk' = disk /\ changed \subseteq changed' \cup {p}
    BY <1>3 DEF Type, envVars
  <2> QED
    BY <2>1, <2>2, PreviewQuiet
<1>4. ASSUME NEW f \in Files, NEW c \in Contents \cup {Missing}, Edit(f, c) PROVE PreviewInv'
  <2>1. /\ store' = store /\ proc' = proc /\ disk' = [disk EXCEPT ![f] = c]
        /\ changed' = changed \cup {q \in Processes : proc[q].file = f}
    BY <1>4 DEF Edit
  <2>2. ASSUME NEW q \in Processes PROVE (q \in changed => q \in changed') /\ Marks(q)
    <3>1. CASE proc[q].file = f
      <4>1. q \in {s \in Processes : proc[s].file = f}
        BY <3>1
      <4>2. q \in changed'
        BY <2>1, <4>1
      <4> QED
        BY <4>2 DEF Marks
    <3>2. CASE proc[q].file # f
      <4>1. disk'[proc[q].file] = disk[proc[q].file] \/ proc[q].file \notin Files
        BY <2>1, <3>2 DEF Base, TypeOK, TypeOfRest
      <4>2. proc[q].preview # NoPreview => proc[q].file \in Files
        BY ProcIs, ProcessIs DEF StageOK
      <4> QED
        BY <2>1, <4>1, <4>2 DEF Marks
    <3> QED
      BY <3>1, <3>2
  <2> QED
    BY <2>1, <2>2, PreviewStays DEF PreviewInv
<1>5. CASE UNCHANGED vars
  <2>1. UNCHANGED <<store, disk, proc, changed>>
    BY <1>5 DEF vars, envVars, histVars
  <2> QED
    BY <2>1 DEF PreviewInv
<1> QED
  BY <1>1, <1>2, <1>3, <1>4, <1>5 DEF Next

(* A replay that succeeds, and whose file and row no one else changed      *)
(* meanwhile, reports the numbers of what it published.                    *)
THEOREM ReplayReportsItsBatch == Spec => []PreviewIsPublished
<1>1. Base /\ PreviewInv => PreviewIsPublished
  <2> SUFFICES ASSUME Base, PreviewInv, NEW p \in Processes,
                      At(p, "report"), proc[p].preview # NoPreview,
                      proc[p].result = "SUCCESS", p \notin changed
               PROVE  proc[p].preview =
                        <<Cardinality(RemovedNodes(proc[p].row, <<proc[p].content, 1>>)),
                          Len(ParsedNodes[<<proc[p].content, 1>>])>>
    BY DEF PreviewIsPublished, Batch
  <2>1. PreviewFits(proc[p], store, disk)
    BY DEF PreviewInv
  <2> QED
    BY <2>1 DEF PreviewFits, At, Counts
<1> QED
  BY <1>1, BaseInit, BaseStep, PreviewInit, PreviewStep, PTL DEF Spec

-----------------------------------------------------------------------------
(***************************************************************************)
(* The manifests.  One that is not mixed has one writer at most, and is    *)
(* still empty while that one has not written its records.                 *)
(***************************************************************************)
Writes(p, k) == At(p, "manifest") /\ ManifestOf(Cmd(p)) = k

Sorted(records) ==
    \A i, j \in DOMAIN records :
        i < j => records[i].path < records[j].path /\ records[i].scope = records[j].scope

Clean(k) ==
    /\ \A p, q \in Processes : Writes(p, k) /\ Writes(q, k) => p = q
    /\ (\E p \in Processes : Writes(p, k)) => manifest[k] = << >>
    /\ Sorted(manifest[k])

ManifestInv ==
    /\ \A p \in Processes : At(p, "manifest") =>
          OfOneRun(proc[p].raw, proc[p].cmd.scope, repository)
    /\ \A k \in Manifests : \A i \in DOMAIN manifest[k] : manifest[k][i].commit = repository
    /\ \A k \in Manifests \ mixed : Clean(k)

LEMMA EmptyIsSorted == Sorted(<< >>) /\ DOMAIN << >> = {}
  BY DEF Sorted

LEMMA ManifestInit == Init => ManifestInv
<1> SUFFICES ASSUME Init PROVE ManifestInv
  OBVIOUS
<1>1. \A p \in Processes : ~ At(p, "manifest") /\ \A k : ~ Writes(p, k)
  BY IdleIs DEF Init, At, Writes
<1>2. \A k \in Manifests : manifest[k] = << >>
  BY DEF Init
<1>3. \A k \in Manifests : Clean(k)
  BY <1>1, <1>2, EmptyIsSorted DEF Clean
<1> QED
  BY <1>1, <1>2, <1>3, EmptyIsSorted DEF ManifestInv

(* There is no record, and no writer of one, before there is a copy.       *)
LEMMA CommitStays ==
  ASSUME Base, ManifestInv, repository # NoCommit => repository' = repository
  PROVE  /\ \A k \in Manifests : \A i \in DOMAIN manifest[k] :
               manifest[k][i].commit = repository'
         /\ \A p \in Processes : At(p, "manifest") =>
               OfOneRun(proc[p].raw, proc[p].cmd.scope, repository')
<1>1. CASE repository # NoCommit
  BY <1>1 DEF ManifestInv
<1>2. CASE repository = NoCommit
  <2>1. \A p \in Processes : ~ At(p, "manifest")
    BY <1>2 DEF Base, CopyOK, CopyFits, At
  <2>2. ASSUME NEW k \in Manifests, NEW i \in DOMAIN manifest[k] PROVE FALSE
    <3>1. manifest[k] \in Seq(Entry)
      BY DEF Base, TypeOK, TypeOfRest
    <3>2. manifest[k][i] \in Entry
      <4> HIDE DEF Entry
      <4> QED
        BY <2>2, <3>1
    <3>3. manifest[k][i].commit \in Commits
      BY <3>2 DEF Entry
    <3> QED
      BY <1>2, <2>2, <3>3, CommandAssumption DEF ManifestInv
  <2> QED
    BY <2>1, <2>2
<1> QED
  BY <1>1, <1>2

(* A step that leaves the manifests alone, though p may have been about to *)
(* write one.                                                              *)
LEMMA ManifestQuiet ==
  ASSUME Base, ManifestInv, NEW p \in Processes, NEW r, Goes(p, r), r.pc # "manifest",
         UNCHANGED <<manifest, mixed>>, repository # NoCommit => repository' = repository
  PROVE  ManifestInv'
<1>1. proc'[p] = r /\ \A q \in Processes \ {p} : proc'[q] = proc[q]
  BY GoesIs
<1>2. ~ At(p, "manifest")' /\ \A k : ~ Writes(p, k)'
  BY <1>1 DEF At, Writes
<1>3. ASSUME NEW q \in Processes \ {p}
      PROVE  /\ At(q, "manifest")' <=> At(q, "manifest")
             /\ \A k : Writes(q, k)' <=> Writes(q, k)
  BY <1>1 DEF At, Writes, Cmd
<1>4. ASSUME NEW q \in Processes, At(q, "manifest")'
      PROVE  OfOneRun(proc'[q].raw, proc'[q].cmd.scope, repository')
  BY <1>1, <1>2, <1>3, <1>4, CommitStays
<1>5. \A k \in Manifests : \A i \in DOMAIN manifest'[k] : manifest'[k][i].commit = repository'
  BY CommitStays
<1>6. ASSUME NEW k \in Manifests, k \notin mixed' PROVE Clean(k)'
  <2>1. Clean(k) /\ manifest' = manifest
    BY <1>6 DEF ManifestInv
  <2>2. \A q \in Processes : Writes(q, k)' => Writes(q, k)
    BY <1>2, <1>3
  <2> QED
    BY <2>1, <2>2 DEF Clean
<1> QED
  BY <1>4, <1>5, <1>6 DEF ManifestInv

LEMMA ManifestDiscover ==
  ASSUME Base, ManifestInv, NEW p \in Processes, Discover(p)
  PROVE  ManifestInv'
<1>0. repository' = repository /\ proc[p].pc = "select"
  BY DEF Discover, envVars, At
<1>1. CASE Goes(p, Idle) /\ UNCHANGED <<manifest, mixed>>
  BY <1>0, <1>1, IdleIs, ManifestQuiet
<1>2. CASE ~ (Goes(p, Idle) /\ UNCHANGED <<manifest, mixed>>)
  <2>1. PICK r : /\ Goes(p, r) /\ r.pc = "manifest"
                 /\ OfOneRun(r.raw, r.cmd.scope, repository)
                 /\ OpenManifest(ManifestOf(r.cmd))
    BY <1>2, DiscoverGoes
  <2>2. PICK k : k = ManifestOf(r.cmd) /\ k \in Manifests
    BY <2>1, ManifestOfIs DEF Goes, StageOK
  <2>3. /\ manifest' = [manifest EXCEPT ![k] = << >>]
        /\ mixed' = IF Writing(k) = {} THEN mixed \ {k} ELSE mixed \cup {k}
    BY <2>1, <2>2 DEF OpenManifest, Mixes
  <2>4. manifest'[k] = << >> /\ \A h \in Manifests : h # k => manifest'[h] = manifest[h]
    BY <2>2, <2>3 DEF Base, TypeOK, TypeOfRest
  <2>5. proc'[p] = r /\ \A q \in Processes \ {p} : proc'[q] = proc[q]
    BY <2>1, GoesIs
  <2>6. \A h : Writes(p, h)' <=> h = k
    BY <2>1, <2>2, <2>5 DEF Writes, At, Cmd
  <2>7. ASSUME NEW q \in Processes \ {p}
        PROVE  /\ At(q, "manifest")' <=> At(q, "manifest")
               /\ \A h : Writes(q, h)' <=> Writes(q, h)
    BY <2>5 DEF At, Writes, Cmd
  <2>8. ASSUME NEW q \in Processes, At(q, "manifest")'
        PROVE  OfOneRun(proc'[q].raw, proc'[q].cmd.scope, repository')
    BY <1>0, <2>1, <2>5, <2>7, <2>8 DEF ManifestInv
  <2>9. ASSUME NEW h \in Manifests
        PROVE  \A i \in DOMAIN manifest'[h] : manifest'[h][i].commit = repository'
    BY <1>0, <2>4, EmptyIsSorted DEF ManifestInv
  <2>10. ASSUME NEW h \in Manifests, h \notin mixed' PROVE Clean(h)'
    <3>1. CASE h = k
      <4>1. Writing(k) = {}
        BY <2>3, <2>10, <3>1
      <4>2. \A q \in Processes : ~ Writes(q, k)
        BY <4>1 DEF Writing, Writes
      <4>3. \A q \in Processes \ {p} : ~ Writes(q, k)'
        BY <2>7, <4>2
      <4> QED
        BY <2>4, <3>1, <4>3, EmptyIsSorted DEF Clean
    <3>2. CASE h # k
      <4>1. Clean(h) /\ manifest'[h] = manifest[h]
        BY <2>3, <2>4, <2>10, <3>2 DEF ManifestInv
      <4>2. \A q \in Processes : Writes(q, h)' => Writes(q, h)
        BY <2>6, <2>7, <3>2
      <4> QED
        BY <4>1, <4>2 DEF Clean
    <3> QED
      BY <3>1, <3>2
  <2> QED
    BY <2>8, <2>9, <2>10 DEF ManifestInv
<1> QED
  BY <1>1, <1>2

LEMMA ManifestWrite ==
  ASSUME Base, ManifestInv, NEW p \in Processes, WriteManifest(p)
  PROVE  ManifestInv'
<1>1. PICK r : Goes(p, r) /\ r.pc # "manifest"
  BY WriteManifestGoes, IdleIs
<1>2. /\ repository' = repository /\ mixed' = mixed /\ proc[p].pc = "manifest"
      /\ At(p, "manifest")
  BY DEF WriteManifest, envVars, histVars, At
<1>3. proc'[p] = r /\ \A q \in Processes \ {p} : proc'[q] = proc[q]
  BY <1>1, GoesIs
<1>4. ~ At(p, "manifest")' /\ \A k : ~ Writes(p, k)'
  BY <1>1, <1>3 DEF At, Writes
<1>5. ASSUME NEW q \in Processes \ {p}
      PROVE  /\ At(q, "manifest")' <=> At(q, "manifest")
             /\ \A k : Writes(q, k)' <=> Writes(q, k)
  BY <1>3 DEF At, Writes, Cmd
<1>6. PICK k \in Manifests : k = ManifestOf(Cmd(p))
  BY ProcIs, ManifestOfIs DEF WriteManifest, At, StageOK
<1>7. PICK written \in Seq(Entry) : written = proc[p].raw
  BY ProcIs DEF WriteManifest, At, StageOK
<1>8. OfOneRun(written, proc[p].cmd.scope, repository)
  BY <1>2, <1>7 DEF ManifestInv
<1>9. manifest \in [Manifests -> Seq(Entry)]
  BY DEF Base, TypeOK, TypeOfRest
<1>10. PICK old, new :
          /\ old \in Seq(Entry) /\ old = manifest[k]
          /\ new = written \o SubSeq(old, Len(written) + 1, Len(old))
          /\ manifest' = [manifest EXCEPT ![k] = new]
  <2>1. PICK old \in Seq(Entry) : old = manifest[k]
    BY <1>9
  <2>2. manifest' = [manifest EXCEPT ![k] =
                        written \o SubSeq(manifest[k], Len(written) + 1, Len(manifest[k]))]
    BY <1>6, <1>7 DEF WriteManifest
  <2> QED
    BY <2>1, <2>2
<1>11. manifest'[k] = new /\ \A h \in Manifests : h # k => manifest'[h] = manifest[h]
  BY <1>9, <1>10
<1>12. /\ \A i \in DOMAIN new : \/ i \in DOMAIN written /\ new[i] = written[i]
                                \/ i \in DOMAIN old /\ new[i] = old[i]
       /\ old = << >> => new = written
  <2>1. /\ written \in Seq(Entry) /\ old \in Seq(Entry)
        /\ new = written \o SubSeq(old, Len(written) + 1, Len(old))
    BY <1>10
  <2> QED
    BY <2>1, OverwriteIs
<1>13. ASSUME NEW q \in Processes, At(q, "manifest")'
       PROVE  OfOneRun(proc'[q].raw, proc'[q].cmd.scope, repository')
  BY <1>2, <1>3, <1>4, <1>5, <1>13 DEF ManifestInv
<1>14. ASSUME NEW h \in Manifests
       PROVE  \A i \in DOMAIN manifest'[h] : manifest'[h][i].commit = repository'
  <2>1. \A i \in DOMAIN old : old[i].commit = repository
    BY <1>10 DEF ManifestInv
  <2>2. \A i \in DOMAIN written : written[i].commit = repository
    BY <1>8 DEF OfOneRun
  <2>3. \A i \in DOMAIN new : new[i].commit = repository
    BY <1>12, <2>1, <2>2
  <2> QED
    BY <1>2, <1>11, <2>3 DEF ManifestInv
<1>15. ASSUME NEW h \in Manifests, h \notin mixed' PROVE Clean(h)'
  <2>0. Clean(h)
    BY <1>2, <1>15 DEF ManifestInv
  <2>1. \A q \in Processes : Writes(q, h)' => Writes(q, h) /\ q # p
    BY <1>4, <1>5
  <2>2. CASE h = k
    <3>1. Writes(p, k)
      BY <1>2, <1>6 DEF Writes
    <3>2. old = << >> /\ \A q \in Processes : ~ Writes(q, k)'
      BY <1>10, <2>0, <2>1, <2>2, <3>1 DEF Clean
    <3>3. Sorted(written)
      BY <1>8 DEF OfOneRun, Sorted
    <3> QED
      BY <1>11, <1>12, <2>2, <3>2, <3>3 DEF Clean
  <2>3. CASE h # k
    BY <1>11, <2>0, <2>1, <2>3 DEF Clean
  <2> QED
    BY <2>2, <2>3
<1> QED
  BY <1>13, <1>14, <1>15 DEF ManifestInv

LEMMA ManifestProceed ==
  ASSUME Base, ManifestInv, NEW p \in Processes, Proceed(p)
  PROVE  ManifestInv'
<1>1. CASE Clone(p) \/ ListRaw(p) \/ NextFile(p) \/ CheckFile(p) \/ Preview(p)
  <2>1. PICK r : Goes(p, r) /\ r.pc # "manifest"
    BY <1>1, CloneGoes, ListRawGoes, NextFileGoes, CheckFileGoes, PreviewGoes, IdleIs
  <2>2. UNCHANGED <<manifest, mixed>>
    BY <1>1 DEF Clone, ListRaw, NextFile, CheckFile, Preview, histVars
  <2>3. repository # NoCommit => repository' = repository
    BY <1>1 DEF Clone, ListRaw, NextFile, CheckFile, Preview, envVars
  <2> QED
    BY <2>1, <2>2, <2>3, ManifestQuiet
<1>2. CASE ReadFile(p) \/ LoadRow(p) \/ Publish(p) \/ Commit(p) \/ Report(p)
  <2>1. PICK r : Goes(p, r) /\ r.pc # "manifest"
    <3>1. \A result \in Results : proc[p].pc \in InService /\ Done(p, result) =>
             \E r : Goes(p, r) /\ r.pc # "manifest"
      BY DoneGoes
    <3>2. {"SUCCESS", "SKIPPED_UNCHANGED", "FAILED"} \subseteq Results
      BY DEF Results
    <3>3. ReadFile(p) \/ LoadRow(p) \/ Commit(p) => proc[p].pc \in InService
      BY DEF ReadFile, LoadRow, Commit, At, InService
    <3>4. Report(p) => Goes(p, Idle) /\ Idle.pc # "manifest"
      BY ExitGoes, IdleIs DEF Report
    <3>5. ReadFile(p) => \E r : Goes(p, r) /\ r.pc # "manifest"
      BY <3>1, <3>2, <3>3, ReadFileGoes
    <3>6. LoadRow(p) => \E r : Goes(p, r) /\ r.pc # "manifest"
      BY <3>1, <3>2, <3>3, LoadRowGoes
    <3>7. Publish(p) => \E r : Goes(p, r) /\ r.pc # "manifest"
      BY PublishGoes
    <3>8. Commit(p) => \E r : Goes(p, r) /\ r.pc # "manifest"
      BY <3>1, <3>2, <3>3, CommitGoes
    <3> QED
      BY <1>2, <3>4, <3>5, <3>6, <3>7, <3>8
  <2>2. UNCHANGED <<manifest, mixed>> /\ repository' = repository
    BY <1>2 DEF ReadFile, LoadRow, Publish, Commit, Report, histVars, envVars
  <2> QED
    BY <2>1, <2>2, ManifestQuiet
<1> QED
  BY <1>1, <1>2, ManifestDiscover, ManifestWrite DEF Proceed

LEMMA ManifestStep == Base /\ ManifestInv /\ [Next]_vars => ManifestInv'
<1> SUFFICES ASSUME Base, ManifestInv, [Next]_vars PROVE ManifestInv'
  OBVIOUS
<1>1. ASSUME NEW p \in Processes, Proceed(p) PROVE ManifestInv'
  BY <1>1, ManifestProceed
<1>2. ASSUME NEW p \in Processes, Kill(p) PROVE ManifestInv'
  <2>1. Goes(p, Idle) /\ Idle.pc # "manifest"
    BY <1>2, ExitGoes, IdleIs DEF Kill
  <2>2. UNCHANGED <<manifest, mixed>> /\ (repository # NoCommit => repository' = repository)
    BY <1>2 DEF Kill
  <2> QED
    BY <2>1, <2>2, ManifestQuiet
<1>3. ASSUME NEW p \in Processes, NEW c \in Commands, Type(p, c) PROVE ManifestInv'
  <2>1. PICK r : Goes(p, r) /\ r.pc # "manifest"
    BY <1>3, TypeGoes
  <2>2. UNCHANGED <<manifest, mixed>> /\ repository' = repository
    BY <1>3 DEF Type, envVars
  <2> QED
    BY <2>1, <2>2, ManifestQuiet
<1>4. CASE UNCHANGED <<proc, manifest, mixed, repository>>
  <2>1. \A p \in Processes : /\ At(p, "manifest")' <=> At(p, "manifest")
                             /\ \A k : Writes(p, k)' <=> Writes(p, k)
    BY <1>4 DEF At, Writes, Cmd
  <2>2. \A k \in Manifests : Clean(k) => Clean(k)'
    BY <1>4, <2>1 DEF Clean
  <2> QED
    BY <1>4, <2>1, <2>2 DEF ManifestInv
<1>5. ASSUME NEW f \in Files, NEW c \in Contents \cup {Missing}, Edit(f, c)
      PROVE  UNCHANGED <<proc, manifest, mixed, repository>>
  BY <1>5 DEF Edit
<1>6. UNCHANGED vars => UNCHANGED <<proc, manifest, mixed, repository>>
  BY DEF vars, envVars, histVars
<1> QED
  BY <1>1, <1>2, <1>3, <1>4, <1>5, <1>6 DEF Next

(* A manifest that no two discoveries were writing at a time describes one *)
(* discovery of the copy there is: its files in order, hence each once, of *)
(* one scope and at the commit the copy is at.                             *)
THEOREM ManifestsAreOfOneRun == Spec => []ManifestIsOfOneRun
<1>1. ManifestInv => ManifestIsOfOneRun
  BY DEF ManifestInv, ManifestIsOfOneRun, Clean, Sorted
<1> QED
  BY <1>1, BaseInit, BaseStep, ManifestInit, ManifestStep, PTL DEF Spec

-----------------------------------------------------------------------------
(***************************************************************************)
(* The files of a run: those of its list that are left, and the one it is  *)
(* at.  The list is bounded when the manifest is opened, cut to the limit  *)
(* when it has been written, and only shrinks from then on.                *)
(***************************************************************************)
Running(x) == Range(x.todo) \cup ({x.file} \ {NoFile})

RunFits(x) ==
    /\ x.pc \in {"manifest", "next"} \cup InService
    /\ x.cmd.kind = "parse-repository" /\ x.cmd.scope \in DOMAIN Filters
    => /\ \A f \in Running(x) : Untouched(f, Rules[x.cmd.scope])
       /\ "max_files" \in DOMAIN Filters[x.cmd.scope] =>
             Cardinality(Running(x)) <= Filters[x.cmd.scope]["max_files"]
       /\ x.pc # "manifest" /\ x.cmd.limit > 0 => Cardinality(Running(x)) <= x.cmd.limit

RunInv == \A p \in Processes : RunFits(proc[p])

LEMMA RunInit == Init => RunInv
  BY IdleIs DEF Init, RunInv, RunFits, InService

LEMMA RunGoesOn ==
  ASSUME Base, RunInv, NEW p \in Processes, NEW r, Goes(p, r), RunFits(r)
  PROVE  RunInv'
<1>1. proc'[p] = r /\ \A q \in Processes \ {p} : proc'[q] = proc[q]
  BY GoesIs
<1> QED
  BY <1>1 DEF RunInv

LEMMA SmallerIsSmaller ==
  ASSUME NEW S, NEW T, IsFiniteSet(T), S \subseteq T
  PROVE  Cardinality(S) \in Nat /\ Cardinality(T) \in Nat /\ Cardinality(S) <= Cardinality(T)
  BY FS_Subset, FS_CardinalityType

LEMMA RunningIsFinite ==
  ASSUME NEW x \in Process
  PROVE  IsFiniteSet(Running(x)) /\ Cardinality(Running(x)) \in Nat
<1>1. IsFiniteSet(Range(x.todo))
  BY ProcessIs, RangeIsCounted
<1>2. PICK T : T = Range(x.todo) \cup {x.file} /\ IsFiniteSet(T)
  BY <1>1, FS_AddElement
<1>3. Running(x) \subseteq T
  BY <1>2 DEF Running
<1> QED
  BY <1>2, <1>3, FS_Subset, FS_CardinalityType

(* A step after which the files of the run are fewer, or the same.         *)
LEMMA RunShrinks ==
  ASSUME Base, RunInv, NEW p \in Processes, NEW r, Goes(p, r), r.cmd = proc[p].cmd,
         proc[p].pc \in {"next"} \cup InService, Running(r) \subseteq Running(proc[p])
  PROVE  RunInv'
<1>1. IsFiniteSet(Running(proc[p]))
  BY ProcIs, RunningIsFinite
<1>2. /\ Cardinality(Running(r)) \in Nat /\ Cardinality(Running(proc[p])) \in Nat
      /\ Cardinality(Running(r)) <= Cardinality(Running(proc[p]))
  BY <1>1, SmallerIsSmaller
<1>3. RunFits(proc[p])
  BY DEF RunInv
<1>4. ASSUME r.cmd.kind = "parse-repository", r.cmd.scope \in DOMAIN Filters
      PROVE  /\ \A f \in Running(r) : Untouched(f, Rules[r.cmd.scope])
             /\ "max_files" \in DOMAIN Filters[r.cmd.scope] =>
                   Cardinality(Running(r)) <= Filters[r.cmd.scope]["max_files"]
             /\ r.cmd.limit > 0 => Cardinality(Running(r)) <= r.cmd.limit
  <2>1. /\ \A f \in Running(proc[p]) : Untouched(f, Rules[r.cmd.scope])
        /\ "max_files" \in DOMAIN Filters[r.cmd.scope] =>
              Cardinality(Running(proc[p])) <= Filters[r.cmd.scope]["max_files"]
        /\ r.cmd.limit > 0 => Cardinality(Running(proc[p])) <= r.cmd.limit
    BY <1>3, <1>4 DEF RunFits, InService
  <2>2. "max_files" \in DOMAIN Filters[r.cmd.scope] =>
           Filters[r.cmd.scope]["max_files"] \in Nat
    BY <1>4, FiltersAssumption
  <2>3. r.cmd.limit \in Nat
    BY <1>4, ProcIs, CommandAssumption DEF StageOK, InService
  <2> QED
    BY <1>2, <2>1, <2>2, <2>3
<1>5. RunFits(r)
  BY <1>4 DEF RunFits
<1> QED
  BY <1>5, RunGoesOn

(* The end of a file: the loop goes on with those that are left.           *)
LEMMA RunDone ==
  ASSUME Base, RunInv, NEW p \in Processes, proc[p].pc \in InService, NEW result \in Results,
         Done(p, result)
  PROVE  RunInv'
<1>1. PICK r : /\ Goes(p, r) /\ r.pc \in {"next", "report"} /\ r.cmd = proc[p].cmd
               /\ r.todo = proc[p].todo
               /\ r.pc = "report" => r.file = proc[p].file
  BY DoneGoes
<1>2. r.pc = "next" => r.file = NoFile
  BY <1>1 DEF Goes, StageOK, Early
<1>3. Running(r) \subseteq Running(proc[p])
  BY <1>1, <1>2 DEF Running
<1> QED
  BY <1>1, <1>3, RunShrinks

LEMMA RunDiscover ==
  ASSUME ExtensionsKeepExclusions, Base, RunInv, NEW p \in Processes, Discover(p)
  PROVE  RunInv'
<1>1. CASE Goes(p, Idle)
  BY <1>1, IdleIs, RunGoesOn DEF RunFits, InService
<1>2. CASE ~ Goes(p, Idle)
  <2>1. PICK r : /\ Goes(p, r) /\ r.pc = "manifest" /\ r.file = NoFile
                 /\ Range(r.todo) \subseteq Range(ListFiles(disk, r.cmd.scope))
    BY <1>2, DiscoverGoes
  <2>2. ASSUME r.cmd.scope \in DOMAIN Filters
        PROVE  /\ \A f \in Running(r) : Untouched(f, Rules[r.cmd.scope])
               /\ "max_files" \in DOMAIN Filters[r.cmd.scope] =>
                     Cardinality(Running(r)) <= Filters[r.cmd.scope]["max_files"]
    <3>0. PICK name \in DOMAIN Filters : name = r.cmd.scope
      BY <2>2
    <3>1. PICK list : list = ListFiles(disk, name)
      OBVIOUS
    <3>2. /\ list \in Seq(Files)
          /\ \A f \in Range(list) : Untouched(f, RulesIn(LoadScope(name)))
          /\ "max_files" \in DOMAIN Filters[name] => Len(list) <= Filters[name]["max_files"]
      BY <3>1, ListFilesIs
    <3>3. RulesIn(LoadScope(name)) = Rules[name]
      BY RulesAreInherited DEF LoadScope
    <3>4. Running(r) \subseteq Range(list)
      BY <2>1, <3>0, <3>1 DEF Running
    <3>5. /\ IsFiniteSet(Range(list)) /\ Cardinality(Range(list)) <= Len(list)
          /\ Len(list) \in Nat
      BY <3>2, RangeIsCounted
    <3>6. /\ Cardinality(Running(r)) \in Nat /\ Cardinality(Range(list)) \in Nat
          /\ Cardinality(Running(r)) <= Cardinality(Range(list))
      BY <3>4, <3>5, SmallerIsSmaller
    <3>7. "max_files" \in DOMAIN Filters[name] => Filters[name]["max_files"] \in Nat
      BY FiltersAssumption
    <3>8. Cardinality(Running(r)) <= Len(list)
      BY <3>5, <3>6
    <3>9. "max_files" \in DOMAIN Filters[name] =>
             Cardinality(Running(r)) <= Filters[name]["max_files"]
      BY <3>2, <3>5, <3>6, <3>7, <3>8
    <3> QED
      BY <3>0, <3>2, <3>3, <3>4, <3>9
  <2>3. RunFits(r)
    BY <2>1, <2>2 DEF RunFits
  <2> QED
    BY <2>1, <2>3, RunGoesOn
<1> QED
  BY <1>1, <1>2

LEMMA RunLimited ==
  ASSUME Base, RunInv, NEW p \in Processes, WriteManifest(p)
  PROVE  RunInv'
<1>1. CASE Goes(p, Idle)
  BY <1>1, IdleIs, RunGoesOn DEF RunFits, InService
<1>2. CASE ~ Goes(p, Idle)
  <2>1. PICK r : /\ Goes(p, r) /\ r.pc = "next" /\ r.cmd = proc[p].cmd /\ r.file = NoFile
                 /\ r.todo = IF r.cmd.limit > 0 THEN Prefix(proc[p].todo, r.cmd.limit)
                             ELSE proc[p].todo
    BY <1>2, WriteManifestGoes
  <2>2. PICK todo \in Seq(Files) : todo = proc[p].todo
    BY ProcIs, ProcessIs
  <2>3. PICK limit \in Nat : limit = r.cmd.limit
    <3>1. r.cmd \in Commands /\ r.cmd.kind = "parse-repository"
      BY <2>1 DEF Goes, StageOK
    <3> QED
      BY <3>1, CommandAssumption
  <2>4. /\ Range(r.todo) \subseteq Range(todo)
        /\ limit > 0 => r.todo \in Seq(Files) /\ Len(r.todo) <= limit
    BY <2>1, <2>2, <2>3, PrefixIs
  <2>5. proc[p].pc = "manifest" /\ proc[p].file = NoFile /\ proc[p] \in Process
    BY ProcIs DEF WriteManifest, At, StageOK, Early
  <2>6. Running(r) = Range(r.todo) /\ Running(proc[p]) = Range(todo)
    BY <2>1, <2>2, <2>5 DEF Running
  <2>7. /\ Cardinality(Running(r)) \in Nat /\ Cardinality(Running(proc[p])) \in Nat
        /\ Cardinality(Running(r)) <= Cardinality(Running(proc[p]))
    BY <2>4, <2>5, <2>6, RunningIsFinite, SmallerIsSmaller
  <2>8. limit > 0 => Cardinality(Running(r)) <= limit
    <3>1. SUFFICES ASSUME limit > 0 PROVE Cardinality(Running(r)) <= limit
      OBVIOUS
    <3>2. Cardinality(Range(r.todo)) <= Len(r.todo) /\ Len(r.todo) \in Nat
      BY <2>4, <3>1, RangeIsCounted
    <3> QED
      BY <2>4, <2>6, <2>7, <3>1, <3>2
  <2>9. ASSUME r.cmd.kind = "parse-repository", r.cmd.scope \in DOMAIN Filters
        PROVE  /\ \A f \in Running(r) : Untouched(f, Rules[r.cmd.scope])
               /\ "max_files" \in DOMAIN Filters[r.cmd.scope] =>
                     Cardinality(Running(r)) <= Filters[r.cmd.scope]["max_files"]
    <3>1. /\ \A f \in Running(proc[p]) : Untouched(f, Rules[r.cmd.scope])
          /\ "max_files" \in DOMAIN Filters[r.cmd.scope] =>
                Cardinality(Running(proc[p])) <= Filters[r.cmd.scope]["max_files"]
      BY <2>1, <2>5, <2>9 DEF RunInv, RunFits
    <3>2. "max_files" \in DOMAIN Filters[r.cmd.scope] =>
             Filters[r.cmd.scope]["max_files"] \in Nat
      BY <2>9, FiltersAssumption
    <3> QED
      BY <2>4, <2>6, <2>7, <3>1, <3>2
  <2>10. RunFits(r)
    BY <2>3, <2>8, <2>9 DEF RunFits
  <2> QED
    BY <2>1, <2>10, RunGoesOn
<1> QED
  BY <1>1, <1>2

LEMMA RunNext ==
  ASSUME Base, RunInv, NEW p \in Processes, NextFile(p)
  PROVE  RunInv'
<1>1. CASE Goes(p, Idle)
  BY <1>1, IdleIs, RunGoesOn DEF RunFits, InService
<1>2. CASE ~ Goes(p, Idle)
  <2>1. PICK r : /\ Goes(p, r) /\ r.pc = "read" /\ r.cmd = proc[p].cmd
                 /\ {r.file} \cup Range(r.todo) = Range(proc[p].todo)
    BY <1>2, NextFileGoes
  <2>2. Running(r) \subseteq Running(proc[p])
    BY <2>1 DEF Running
  <2>3. proc[p].pc = "next"
    BY DEF NextFile, At
  <2> QED
    BY <2>1, <2>2, <2>3, RunShrinks
<1> QED
  BY <1>1, <1>2

LEMMA RunServes ==
  ASSUME Base, RunInv, NEW p \in Processes,
         ReadFile(p) \/ LoadRow(p) \/ Publish(p) \/ Commit(p)
  PROVE  RunInv'
<1>1. proc[p].pc \in InService
  BY DEF ReadFile, LoadRow, Publish, Commit, At, InService
<1>2. {"SUCCESS", "SKIPPED_UNCHANGED", "FAILED"} \subseteq Results
  BY DEF Results
<1>3. \/ \E result \in Results : Done(p, result)
      \/ \E r : Goes(p, r) /\ SameFile(r, proc[p])
  BY <1>2, ReadFileGoes, LoadRowGoes, PublishGoes, CommitGoes
<1>4. ASSUME NEW r, Goes(p, r), SameFile(r, proc[p]) PROVE RunInv'
  <2>1. Running(r) \subseteq Running(proc[p]) /\ r.cmd = proc[p].cmd
    BY <1>4 DEF SameFile, Running
  <2> QED
    BY <1>1, <1>4, <2>1, RunShrinks
<1> QED
  BY <1>1, <1>3, <1>4, RunDone

LEMMA RunProceed ==
  ASSUME ExtensionsKeepExclusions, Base, RunInv, NEW p \in Processes, Proceed(p)
  PROVE  RunInv'
<1>1. CASE Clone(p) \/ ListRaw(p)
  <2>1. PICK r : Goes(p, r) /\ r.pc \in {"walk", "idle", "select"}
    BY <1>1, CloneGoes, ListRawGoes, IdleIs
  <2>2. RunFits(r)
    BY <2>1 DEF RunFits, InService
  <2> QED
    BY <2>1, <2>2, RunGoesOn
<1>2. CASE CheckFile(p) \/ Preview(p)
  <2>1. PICK r : /\ Goes(p, r)
                 /\ r.pc = "idle" \/ r.cmd.kind # "parse-repository"
    BY <1>2, CheckFileGoes, PreviewGoes, IdleIs
  <2>2. RunFits(r)
    BY <2>1 DEF RunFits, InService
  <2> QED
    BY <2>1, <2>2, RunGoesOn
<1>3. CASE Report(p)
  <2>1. Goes(p, Idle) /\ RunFits(Idle)
    BY <1>3, ExitGoes, IdleIs DEF Report, RunFits, InService
  <2> QED
    BY <2>1, RunGoesOn
<1> QED
  BY <1>1, <1>2, <1>3, RunDiscover, RunLimited, RunNext, RunServes DEF Proceed

LEMMA RunStep == ExtensionsKeepExclusions /\ Base /\ RunInv /\ [Next]_vars => RunInv'
<1> SUFFICES ASSUME ExtensionsKeepExclusions, Base, RunInv, [Next]_vars PROVE RunInv'
  OBVIOUS
<1>1. ASSUME NEW p \in Processes, Proceed(p) PROVE RunInv'
  BY <1>1, RunProceed
<1>2. ASSUME NEW p \in Processes, Kill(p) PROVE RunInv'
  <2>1. Goes(p, Idle) /\ RunFits(Idle)
    BY <1>2, ExitGoes, IdleIs DEF Kill, RunFits, InService
  <2> QED
    BY <2>1, RunGoesOn
<1>3. ASSUME NEW p \in Processes, NEW c \in Commands, Type(p, c) PROVE RunInv'
  <2>1. PICK r : Goes(p, r) /\ r.pc \in {"clone", "check"}
    BY <1>3, TypeGoes
  <2>2. RunFits(r)
    BY <2>1 DEF RunFits, InService
  <2> QED
    BY <2>1, <2>2, RunGoesOn
<1>4. ASSUME NEW f \in Files, NEW c \in Contents \cup {Missing}, Edit(f, c) PROVE proc' = proc
  BY <1>4 DEF Edit
<1>5. UNCHANGED vars => proc' = proc
  BY DEF vars
<1>6. proc' = proc => RunInv'
  BY DEF RunInv
<1> QED
  BY <1>1, <1>2, <1>3, <1>4, <1>5, <1>6 DEF Next

(* Where the scopes that extend another leave its exclusions as they are,  *)
(* as those of file_filters.yaml do, a run takes up no file that a rule of *)
(* its scope, or of one it extends, excludes, and no more files than       *)
(* max_files and --limit, whatever appears and vanishes meanwhile.         *)
THEOREM RunsStayInScope ==
  ASSUME ExtensionsKeepExclusions
  PROVE  Spec => []RunStaysInScope
<1>1. RunInv => RunStaysInScope
  <2> SUFFICES ASSUME RunInv, NEW p \in Processes,
                      proc[p].pc \in {"next"} \cup InService,
                      Cmd(p).kind = "parse-repository", Cmd(p).scope \in DOMAIN Filters
               PROVE  LET scope == Filters[Cmd(p).scope]
                          running == Range(proc[p].todo) \cup ({proc[p].file} \ {NoFile})
                      IN /\ \A f \in running : \A i \in DOMAIN Rules[Cmd(p).scope] :
                              f \notin Rules[Cmd(p).scope][i].paths
                         /\ "max_files" \in DOMAIN scope =>
                              Cardinality(running) <= scope.max_files
                         /\ Cmd(p).limit > 0 => Cardinality(running) <= Cmd(p).limit
    BY DEF RunStaysInScope
  <2>1. RunFits(proc[p]) /\ proc[p].pc # "manifest"
    BY DEF RunInv, InService
  <2>2. /\ \A f \in Running(proc[p]) : Untouched(f, Rules[Cmd(p).scope])
        /\ "max_files" \in DOMAIN Filters[Cmd(p).scope] =>
              Cardinality(Running(proc[p])) <= Filters[Cmd(p).scope]["max_files"]
        /\ Cmd(p).limit > 0 => Cardinality(Running(proc[p])) <= Cmd(p).limit
    BY <2>1 DEF RunFits, Cmd
  <2> QED
    BY <2>2 DEF Running, Untouched
<1>2. Base /\ RunInv /\ [Next]_vars => RunInv'
  BY RunStep
<1> QED
  BY <1>1, <1>2, BaseInit, BaseStep, RunInit, PTL DEF Spec

=============================================================================
