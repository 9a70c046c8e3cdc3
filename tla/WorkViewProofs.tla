---------------------------- MODULE WorkViewProofs ----------------------------
(***************************************************************************)
(* What the read routes keep for any number of attempts, transitions,      *)
(* reviews and lines, and for any costs and files: a cost is accounted for, *)
(* the parts of a response agree, a later response takes nothing back, and *)
(* a listing of artifacts is of the tree of its work item.                 *)
(***************************************************************************)
EXTENDS MCWorkView, FiniteSetTheorems, SequenceTheorems, TLAPS

-----------------------------------------------------------------------------
(* Sums.                                                                   *)

\* The sum of c over D, as the fold of the community modules computes it: of an element
\* that it chooses and of the rest.
SumOver(c, D) == MapThenSumSet(LAMBDA i : c[i], D)

Chosen(s) == CHOOSE x \in s : TRUE

Adds(g, c, D) ==
    g = [s \in SUBSET D |-> IF s = {} THEN 0 ELSE c[Chosen(s)] + g[s \ {Chosen(s)}]]

\* A set of subsets of a finite set has a smallest one.  Each lemma about sums below is
\* proved of the smallest set that it could fail for.
LEMMA Smallest ==
    ASSUME NEW D, IsFiniteSet(D), NEW Bad, Bad \subseteq SUBSET D, Bad # {}
    PROVE  \E s \in Bad : \A t \in Bad : t \subseteq s => t = s
<1>1. IsWellFoundedOn(StrictSubsetOrdering(D), SUBSET D)
    BY FS_StrictSubsetOrderingWellFounded, FS_FiniteSubsetsOfFinite
<1>2. \E s \in Bad : \A t \in Bad : <<t, s>> \notin StrictSubsetOrdering(D)
    BY <1>1, WFMin
<1> QED
    BY <1>2 DEF StrictSubsetOrdering

\* The fold is that recursive function, where there is one.
LEMMA SumIsAdds ==
    ASSUME NEW c, NEW D, NEW h, Adds(h, c, D)
    PROVE  \E g : Adds(g, c, D) /\ SumOver(c, D) = g[D]
<1> DEFINE I == CHOOSE g : Adds(g, c, D)
<1>1. Adds(I, c, D)
    BY Zenon
<1>2. SumOver(c, D) = I[D]
    BY DEF SumOver, MapThenSumSet, MapThenFoldSet, Adds, Chosen
<1> QED
    BY <1>1, <1>2
\* Two such functions agree where their terms do.
LEMMA AddsUnique ==
    ASSUME NEW D, IsFiniteSet(D), NEW E, D \subseteq E, NEW c, NEW d,
           \A i \in D : c[i] = d[i], NEW g, NEW h, Adds(g, c, D), Adds(h, d, E)
    PROVE  \A s \in SUBSET D : g[s] = h[s]
<1> DEFINE Bad == {s \in SUBSET D : g[s] # h[s]}
<1> SUFFICES ASSUME Bad # {} PROVE FALSE
    OBVIOUS
<1>1. PICK s \in Bad : \A t \in Bad : t \subseteq s => t = s
  <2>1. Bad \subseteq SUBSET D
      OBVIOUS
  <2> HIDE DEF Bad
  <2> QED
      BY <2>1, Smallest
<1>2. PICK x : x = Chosen(s)
    OBVIOUS
<1>3. /\ s \in SUBSET D /\ s \in SUBSET E
      /\ g[s] = IF s = {} THEN 0 ELSE c[x] + g[s \ {x}]
      /\ h[s] = IF s = {} THEN 0 ELSE d[x] + h[s \ {x}]
    BY <1>1, <1>2 DEF Adds
<1>4. s # {} => x \in s
    BY <1>2 DEF Chosen
<1>5. s # {} => s \ {x} \in SUBSET D /\ s \ {x} \notin Bad
    BY <1>1, <1>3, <1>4
<1> QED
    BY <1>1, <1>3, <1>4, <1>5

\* There is one.
LEMMA AddsExists ==
    ASSUME NEW D, IsFiniteSet(D), NEW c
    PROVE  \E g : Adds(g, c, D)
<1> DEFINE Bad == {s \in SUBSET D : ~ \E g : Adds(g, c, s)}
<1> SUFFICES ASSUME Bad # {} PROVE FALSE
    OBVIOUS
<1>1. PICK s \in Bad : \A t \in Bad : t \subseteq s => t = s
  <2>1. Bad \subseteq SUBSET D
      OBVIOUS
  <2> HIDE DEF Bad
  <2> QED
      BY <2>1, Smallest
<1>2. \A t \in SUBSET s : t # s => \E g : Adds(g, c, t)
    BY <1>1
<1> DEFINE Of(t) == CHOOSE g : Adds(g, c, t)
<1>3. \A t \in SUBSET s : t # s => Adds(Of(t), c, t)
    BY <1>2
<1> HIDE DEF Of
<1> DEFINE x == Chosen(s)
           new == [t \in SUBSET s |->
                    IF t # s THEN Of(t)[t]
                    ELSE IF s = {} THEN 0 ELSE c[x] + Of(s \ {x})[s \ {x}]]
<1>4. Adds(new, c, s)
  <2> SUFFICES ASSUME NEW t \in SUBSET s
               PROVE  new[t] = IF t = {} THEN 0 ELSE c[Chosen(t)] + new[t \ {Chosen(t)}]
      BY DEF Adds
  <2>1. CASE t = {}
    <3>1. CASE s = {}
        BY <2>1, <3>1
    <3>2. CASE s # {}
      <4>1. new[t] = Of(t)[t] /\ Adds(Of(t), c, t)
          BY <1>3, <2>1, <3>2
      <4>2. Of(t)[t] = 0
          BY <2>1, <4>1 DEF Adds
      <4> QED
          BY <2>1, <4>1, <4>2
    <3> QED
        BY <3>1, <3>2
  <2>2. CASE t # {}
    <3>1. PICK y : y = Chosen(t)
        OBVIOUS
    <3>2. y \in t
        BY <2>2, <3>1 DEF Chosen
    <3>3. t \ {y} \in SUBSET s /\ t \ {y} # s /\ t \ {y} \in SUBSET t
        BY <3>2
    <3>4. new[t \ {y}] = Of(t \ {y})[t \ {y}] /\ Adds(Of(t \ {y}), c, t \ {y})
        BY <1>3, <3>3
    <3>5. CASE t = s
        BY <2>2, <3>1, <3>4, <3>5
    <3>6. CASE t # s
      <4>1. new[t] = Of(t)[t] /\ Adds(Of(t), c, t)
          BY <1>3, <3>6
      <4>2. Of(t)[t] = c[y] + Of(t)[t \ {y}]
          BY <2>2, <3>1, <4>1 DEF Adds
      <4>3. Of(t \ {y})[t \ {y}] = Of(t)[t \ {y}]
        <5>1. IsFiniteSet(t \ {y})
            BY <1>1, FS_Subset
        <5> QED
            BY <3>3, <3>4, <4>1, <5>1, AddsUnique
      <4> QED
          BY <2>2, <3>1, <3>4, <4>1, <4>2, <4>3
    <3> QED
        BY <3>5, <3>6
  <2> QED
      BY <2>1, <2>2
<1> QED
    BY <1>1, <1>4

\* What the sum is of nothing, and of a set with an element to choose.
LEMMA SumStep ==
    ASSUME NEW D, IsFiniteSet(D), NEW c
    PROVE  /\ D = {} => SumOver(c, D) = 0
           /\ D # {} => /\ Chosen(D) \in D
                        /\ SumOver(c, D) = c[Chosen(D)] + SumOver(c, D \ {Chosen(D)})
<1>1. PICK g : Adds(g, c, D) /\ SumOver(c, D) = g[D]
    BY AddsExists, SumIsAdds
<1>2. g[D] = IF D = {} THEN 0 ELSE c[Chosen(D)] + g[D \ {Chosen(D)}]
    BY <1>1 DEF Adds
<1>3. ASSUME D # {}
      PROVE  g[D \ {Chosen(D)}] = SumOver(c, D \ {Chosen(D)})
  <2>1. PICK rest \in SUBSET D : rest = D \ {Chosen(D)}
      OBVIOUS
  <2>2. IsFiniteSet(rest)
      BY FS_Subset
  <2>3. PICK h : Adds(h, c, rest) /\ SumOver(c, rest) = h[rest]
      BY <2>2, AddsExists, SumIsAdds
  <2>4. \A s \in SUBSET rest : h[s] = g[s]
    <3>1. rest \subseteq D /\ (\A i \in rest : c[i] = c[i]) /\ Adds(h, c, rest) /\ Adds(g, c, D)
        BY <1>1, <2>3
    <3> QED
        BY <2>2, <3>1, AddsUnique, SMTT(30)
  <2> QED
      BY <2>1, <2>3, <2>4
<1> QED
    BY <1>1, <1>2, <1>3 DEF Chosen

\* A sum of natural numbers is one.
LEMMA SumType ==
    ASSUME NEW D, IsFiniteSet(D), NEW c, \A i \in D : c[i] \in Nat
    PROVE  SumOver(c, D) \in Nat
<1> DEFINE Bad == {s \in SUBSET D : SumOver(c, s) \notin Nat}
<1> SUFFICES ASSUME Bad # {} PROVE FALSE
    OBVIOUS
<1>1. PICK s \in Bad : \A t \in Bad : t \subseteq s => t = s
  <2>1. Bad \subseteq SUBSET D
      OBVIOUS
  <2> HIDE DEF Bad
  <2> QED
      BY <2>1, Smallest
<1>2. /\ s = {} => SumOver(c, s) = 0
      /\ s # {} => /\ Chosen(s) \in s
                   /\ SumOver(c, s) = c[Chosen(s)] + SumOver(c, s \ {Chosen(s)})
    BY <1>1, FS_Subset, SumStep
<1>3. s # {} => SumOver(c, s \ {Chosen(s)}) \in Nat
    BY <1>1, <1>2
<1> QED
    BY <1>1, <1>2, <1>3

\* It does not matter which element is taken first.
LEMMA SumRemove ==
    ASSUME NEW D, IsFiniteSet(D), NEW c, \A i \in D : c[i] \in Nat, NEW x \in D
    PROVE  SumOver(c, D) = c[x] + SumOver(c, D \ {x})
<1> DEFINE Bad == {s \in SUBSET D : \E i \in s : SumOver(c, s) # c[i] + SumOver(c, s \ {i})}
<1> SUFFICES ASSUME Bad # {} PROVE FALSE
    OBVIOUS
<1>1. PICK s \in Bad : \A t \in Bad : t \subseteq s => t = s
  <2>1. Bad \subseteq SUBSET D
      OBVIOUS
  <2> HIDE DEF Bad
  <2> QED
      BY <2>1, Smallest
<1>2. PICK i \in s : SumOver(c, s) # c[i] + SumOver(c, s \ {i})
    BY <1>1
<1>3. PICK y : y = Chosen(s)
    OBVIOUS
<1>4. y \in s /\ SumOver(c, s) = c[y] + SumOver(c, s \ {y})
    BY <1>1, <1>2, <1>3, FS_Subset, SumStep
<1>5. i # y
    BY <1>2, <1>4
<1>6. /\ SumOver(c, s \ {y}) = c[i] + SumOver(c, (s \ {y}) \ {i})
      /\ SumOver(c, s \ {i}) = c[y] + SumOver(c, (s \ {i}) \ {y})
  <2>1. s \ {y} \notin Bad /\ s \ {i} \notin Bad
      BY <1>1, <1>2, <1>4
  <2>2. i \in s \ {y} /\ y \in s \ {i}
      BY <1>2, <1>4, <1>5
  <2> QED
      BY <1>1, <2>1, <2>2
<1>7. (s \ {y}) \ {i} = (s \ {i}) \ {y}
    OBVIOUS
<1>8. c[i] \in Nat /\ c[y] \in Nat /\ SumOver(c, (s \ {i}) \ {y}) \in Nat
  <2>1. IsFiniteSet((s \ {i}) \ {y}) /\ \A j \in (s \ {i}) \ {y} : c[j] \in Nat
      BY <1>1, FS_Subset
  <2> QED
      BY <1>1, <1>2, <1>4, <2>1, SumType
<1> DEFINE rest == SumOver(c, (s \ {i}) \ {y})
<1> HIDE DEF rest
<1>9. /\ SumOver(c, s) = c[y] + (c[i] + rest)
      /\ SumOver(c, s \ {i}) = c[y] + rest
      /\ rest \in Nat
    BY <1>4, <1>6, <1>7, <1>8 DEF rest
<1> QED
    BY <1>2, <1>8, <1>9

\* A sum grows with its terms and with the set it is over.
LEMMA SumGrows ==
    ASSUME NEW D, IsFiniteSet(D), NEW E, E \subseteq D, NEW c, NEW d,
           \A i \in D : d[i] \in Nat,
           \A i \in E : c[i] \in Nat /\ c[i] <= d[i]
    PROVE  SumOver(c, E) <= SumOver(d, D)
<1> DEFINE Bad == {s \in SUBSET D : ~(SumOver(c, s \cap E) <= SumOver(d, s))}
<1> SUFFICES ASSUME Bad # {} PROVE FALSE
    BY D \cap E = E
<1>1. PICK s \in Bad : \A t \in Bad : t \subseteq s => t = s
  <2>1. Bad \subseteq SUBSET D
      OBVIOUS
  <2> HIDE DEF Bad
  <2> QED
      BY <2>1, Smallest
<1>2. \A t \in SUBSET D : IsFiniteSet(t) /\ IsFiniteSet(t \cap E)
    BY FS_Subset
<1>3. \A t \in SUBSET D : SumOver(d, t) \in Nat /\ SumOver(c, t \cap E) \in Nat
    BY <1>2, SumType
<1>4. s # {}
  <2>1. s = {} => SumOver(c, s \cap E) = 0 /\ SumOver(d, s) = 0
      BY <1>2, SumStep
  <2> QED
      BY <1>1, <2>1
<1>5. PICK y \in s : TRUE
    BY <1>4
<1>6. SumOver(c, (s \ {y}) \cap E) <= SumOver(d, s \ {y})
    BY <1>1, <1>5
<1>7. SumOver(d, s) = d[y] + SumOver(d, s \ {y})
    BY <1>1, <1>2, <1>5, SumRemove
<1>8. CASE y \in E
  <2>1. (s \cap E) \ {y} = (s \ {y}) \cap E /\ y \in s \cap E
      BY <1>5, <1>8
  <2>2. SumOver(c, s \cap E) = c[y] + SumOver(c, (s \cap E) \ {y})
      BY <1>1, <1>2, <2>1, SumRemove
  <2> QED
      BY <1>1, <1>3, <1>5, <1>6, <1>7, <1>8, <2>1, <2>2
<1>9. CASE y \notin E
  <2>1. s \cap E = (s \ {y}) \cap E
      BY <1>9
  <2> QED
      BY <1>1, <1>3, <1>5, <1>6, <1>7, <2>1
<1> QED
    BY <1>8, <1>9

\* The sum depends on the terms of its set only.
LEMMA SumSame ==
    ASSUME NEW D, IsFiniteSet(D), NEW c, NEW d, \A i \in D : c[i] = d[i]
    PROVE  SumOver(c, D) = SumOver(d, D)
<1>1. PICK g : Adds(g, c, D) /\ SumOver(c, D) = g[D]
    BY AddsExists, SumIsAdds
<1>2. PICK h : Adds(h, d, D) /\ SumOver(d, D) = h[D]
    BY AddsExists, SumIsAdds
<1>3. \A s \in SUBSET D : g[s] = h[s]
  <2>1. D \subseteq D /\ Adds(g, c, D) /\ Adds(h, d, D)
      BY <1>1, <1>2
  <2> QED
      BY <2>1, AddsUnique
<1> QED
    BY <1>1, <1>2, <1>3

\* The same sum, with the terms taken from the fields of records.
LEMMA SumOfReported ==
    ASSUME NEW as, NEW D, IsFiniteSet(D)
    PROVE  View!MapThenSumSet(LAMBDA i : as[i].reported, D)
                = SumOver([i \in D |-> as[i].reported], D)
<1> DEFINE c == [i \in D |-> as[i].reported]
           Iter(g) == g = [s \in SUBSET D |->
                        IF s = {} THEN 0 ELSE as[Chosen(s)].reported + g[s \ {Chosen(s)}]]
           I == CHOOSE g : Iter(g)
<1>1. View!MapThenSumSet(LAMBDA i : as[i].reported, D) = I[D]
    BY DEF View!MapThenSumSet, View!MapThenFoldSet, Chosen
<1>2. \A s \in SUBSET D : s # {} => c[Chosen(s)] = as[Chosen(s)].reported
  <2>1. \A s \in SUBSET D : s # {} => Chosen(s) \in D
      BY DEF Chosen
  <2> QED
      BY <2>1
<1>3. \A g : Iter(g) <=> Adds(g, c, D)
    <2> HIDE DEF c
    <2> QED
        BY <1>2 DEF Adds
<1>4. Iter(I)
    <2>1. PICK g : Adds(g, c, D)
        BY AddsExists
    <2>2. \E h : Iter(h)
        BY <1>3, <2>1
    <2> HIDE DEF Iter
    <2> QED
        BY <2>2, Zenon
<1>5. Adds(I, c, D)
    BY <1>3, <1>4
<1>6. PICK g : Adds(g, c, D) /\ SumOver(c, D) = g[D]
    BY <1>5, SumIsAdds
<1> HIDE DEF c, I
<1>7. g[D] = I[D]
  <2>1. D \subseteq D /\ D \in SUBSET D /\ \A i \in D : c[i] = c[i]
      OBVIOUS
  <2> QED
      BY <1>5, <1>6, <2>1, AddsUnique
<1> QED
    BY <1>1, <1>6, <1>7 DEF c

LEMMA TotalIsSum ==
    ASSUME NEW c
    PROVE  View!Total(c) = IF DOMAIN c = {} THEN View!None ELSE SumOver(c, DOMAIN c)
BY DEF View!Total, View!MapThenSumSet, View!MapThenFoldSet, SumOver, MapThenSumSet, MapThenFoldSet

-----------------------------------------------------------------------------
(* Costs.                                                                  *)

\* What is known of the costs of attempts, and what they are together.
Known(costs) == {i \in DOMAIN costs : costs[i] # View!None}
Spent(costs) == IF Known(costs) = {} THEN View!None ELSE SumOver(costs, Known(costs))

ReportedCosts(as) == [i \in DOMAIN as |-> as[i].reported]
DerivedCosts(as) == [i \in DOMAIN as |-> as[i].derived]

\* Later costs: those that were known stay, others come.
LEMMA SpentGrows ==
    ASSUME NEW costs, NEW later, IsFiniteSet(DOMAIN costs), IsFiniteSet(DOMAIN later),
           \A i \in DOMAIN later : later[i] \in Nat \cup {View!None},
           \A i \in Known(costs) : i \in DOMAIN later /\ later[i] = costs[i]
    PROVE  Spent(costs) <= Spent(later)
<1>1. /\ IsFiniteSet(Known(costs)) /\ IsFiniteSet(Known(later))
      /\ Known(costs) \subseteq Known(later)
      /\ \A i \in Known(later) : later[i] \in Nat
      /\ \A i \in Known(costs) : costs[i] \in Nat /\ costs[i] <= later[i]
  <2>1. Known(costs) \subseteq DOMAIN costs /\ Known(later) \subseteq DOMAIN later
      BY DEF Known
  <2>2. IsFiniteSet(Known(costs)) /\ IsFiniteSet(Known(later))
      BY <2>1, FS_Subset
  <2>3. Known(costs) \subseteq Known(later) /\ \A i \in Known(later) : later[i] \in Nat
      BY DEF Known, View!None
  <2> QED
      BY <2>2, <2>3
<1>2. SumOver(costs, Known(costs)) <= SumOver(later, Known(later))
    BY <1>1, SumGrows
<1>3. SumOver(later, Known(later)) \in Nat
    BY <1>1, SumType
<1>4. CASE Known(costs) = {}
    BY <1>3, <1>4 DEF Spent, View!None
<1>5. CASE Known(costs) # {}
    BY <1>1, <1>2, <1>5 DEF Spent
<1> QED
    BY <1>4, <1>5

\* A usage, and what its source says of its costs.
LEMMA UsageOf ==
    ASSUME NEW u \in View!Usages
    PROVE  /\ u.reported \in Nat \cup {View!None} /\ u.derived \in Nat \cup {View!None}
           /\ u.source \in View!Sources /\ u.ref \in References \cup {"none"}
           /\ u.source = "billing_receipt" => u.reported # View!None /\ u.ref # "none"
           /\ View!Amount(u) # View!None =>
                View!Amount(u) \in Nat /\ u.source # "unknown"
           /\ u.source # "unknown" => View!Amount(u) # View!None
<1>1. /\ u \in [reported : Amounts \cup {View!None}, derived : Amounts \cup {View!None},
                source : View!Sources, ref : References \cup {"none"}]
      /\ View!Provenance(u)
    BY DEF View!Usages
<1>2. /\ u.reported \in Nat \cup {View!None} /\ u.derived \in Nat \cup {View!None}
      /\ u.source \in View!Sources /\ u.ref \in References \cup {"none"}
    BY <1>1, WorkAssumption
<1>3. CASE u.source = "unknown"
    BY <1>1, <1>2, <1>3 DEF View!Provenance, View!Amount
<1>4. CASE u.source = "runtime_reported"
    BY <1>1, <1>2, <1>4 DEF View!Provenance, View!Amount
<1>5. CASE u.source = "provider_rate_derived"
    BY <1>1, <1>2, <1>5 DEF View!Provenance, View!Amount
<1>6. CASE u.source = "billing_receipt"
    BY <1>1, <1>2, <1>6 DEF View!Provenance, View!Amount
<1> QED
    BY <1>2, <1>3, <1>4, <1>5, <1>6 DEF View!Sources

LEMMA UnpricedIsUsage == View!Unpriced \in View!Usages
BY DEF View!Usages, View!Unpriced, View!Provenance, View!Sources, View!None

\* The dollars of a projection, which Spent names for any attempts.
LEMMA Dollars ==
    ASSUME seen.attempts \in Seq(View!Usages)
    PROVE  /\ View!Projection.reported = Spent(ReportedCosts(seen.attempts))
           /\ View!Projection.derived = Spent(DerivedCosts(seen.attempts))
<1> DEFINE as == seen.attempts
<1>1. /\ \A i \in DOMAIN as : as[i] \in View!Usages
      /\ IsFiniteSet(DOMAIN as)
  <2>1. as \in Seq(View!Usages) /\ DOMAIN as = 1 .. Len(as) /\ Len(as) \in Nat
      BY LenProperties
  <2> QED
    <3>1. IsFiniteSet(1 .. Len(as))
        BY <2>1, FS_Interval
    <3> QED
        BY <2>1, <3>1
<1>2. View!ReportedBy = Known(ReportedCosts(as))
    BY <1>1, UsageOf DEF View!ReportedBy, View!Observed, View!Amount, Known, ReportedCosts
<1>3. View!DerivedBy = Known(DerivedCosts(as))
    BY <1>1, UsageOf DEF View!DerivedBy, View!Observed, View!Amount, Known, DerivedCosts
<1>4. View!Reported = Spent(ReportedCosts(as))
  <2> DEFINE c == [i \in View!ReportedBy |-> as[i].reported]
  <2>1. View!Reported = IF View!ReportedBy = {} THEN View!None
                        ELSE SumOver(c, View!ReportedBy)
    <3>1. View!Reported = View!Total(c) /\ DOMAIN c = View!ReportedBy
        BY DEF View!Reported
    <3> HIDE DEF c
    <3> QED
        BY <3>1, TotalIsSum
  <2>2. IsFiniteSet(View!ReportedBy)
      BY <1>1, FS_Subset DEF View!ReportedBy, View!Observed
  <2>3. \A i \in View!ReportedBy : c[i] = ReportedCosts(as)[i]
      BY DEF View!ReportedBy, View!Observed, ReportedCosts
  <2> HIDE DEF c
  <2>4. SumOver(c, View!ReportedBy) = SumOver(ReportedCosts(as), View!ReportedBy)
      BY <2>2, <2>3, SumSame
  <2> QED
      BY <1>2, <2>1, <2>4 DEF Spent
<1>5. View!Derived = Spent(DerivedCosts(as))
  <2> DEFINE c == [i \in View!DerivedBy |-> as[i].derived]
  <2>1. View!Derived = IF View!DerivedBy = {} THEN View!None
                       ELSE SumOver(c, View!DerivedBy)
    <3>1. View!Derived = View!Total(c) /\ DOMAIN c = View!DerivedBy
        BY DEF View!Derived
    <3> HIDE DEF c
    <3> QED
        BY <3>1, TotalIsSum
  <2>2. IsFiniteSet(View!DerivedBy)
      BY <1>1, FS_Subset DEF View!DerivedBy, View!Observed
  <2>3. \A i \in View!DerivedBy : c[i] = DerivedCosts(as)[i]
      BY DEF View!DerivedBy, View!Observed, DerivedCosts
  <2> HIDE DEF c
  <2>4. SumOver(c, View!DerivedBy) = SumOver(DerivedCosts(as), View!DerivedBy)
      BY <2>2, <2>3, SumSame
  <2> QED
      BY <1>3, <2>1, <2>4 DEF Spent
<1>6. View!Observed = {} => View!Reported = View!None /\ View!Derived = View!None
  <2>1. View!Observed = {} => View!ReportedBy = {} /\ View!DerivedBy = {}
      BY DEF View!ReportedBy, View!DerivedBy
  <2> QED
      BY <2>1 DEF View!Reported, View!Derived, View!Total
<1>7. /\ View!Projection.reported = View!Reported
      /\ View!Projection.derived = View!Derived
    BY <1>6 DEF View!Projection
<1> QED
    BY <1>4, <1>5, <1>7

\* Rounding to the next cent is half a cent off at most.
LEMMA Rounding ==
    ASSUME NEW t \in Nat
    PROVE  /\ View!Cents(t) \in Nat
           /\ 10 * View!Cents(t) - 5 <= t /\ t < 10 * View!Cents(t) + 5
BY DEF View!Cents

LEMMA BilledMeans ==
    ASSUME seen.attempts \in Seq(View!Usages)
    PROVE  /\ View!Billed <=>
                /\ seen.attempts # <<>>
                /\ \A i \in DOMAIN seen.attempts : seen.attempts[i].source = "billing_receipt"
           /\ View!Billed => View!Observed # {} /\ View!Observed = DOMAIN seen.attempts
<1> DEFINE as == seen.attempts
<1>1. \A i \in DOMAIN as : as[i] \in View!Usages
  <2>1. as \in Seq(View!Usages)
      OBVIOUS
  <2> QED
      BY <2>1
<1>2. \A i \in DOMAIN as : i \in View!Observed <=> as[i].source # "unknown"
    BY <1>1, UsageOf DEF View!Observed
<1>3. View!Observed \subseteq DOMAIN as
    BY DEF View!Observed
<1>4. as # <<>> <=> DOMAIN as # {}
  <2>1. as \in Seq(View!Usages) /\ Len(as) \in Nat /\ DOMAIN as = 1 .. Len(as)
      BY LenProperties
  <2>2. as # <<>> => Len(as) \in Nat \ {0}
      BY <2>1, EmptySeq
  <2>3. as = <<>> => Len(as) = 0
      BY EmptySeq
  <2>4. PICK n \in Nat : n = Len(as)
      BY <2>1
  <2>5. (n # 0 => 1 \in 1 .. n) /\ (n = 0 => 1 .. n = {})
      OBVIOUS
  <2>6. n # 0 <=> as # <<>>
      BY <2>2, <2>3, <2>4
  <2>7. DOMAIN as = 1 .. n
      BY <2>1, <2>4
  <2> QED
      BY <2>5, <2>6, <2>7, Zenon
<1>5. ASSUME View!Billed
      PROVE  /\ View!Observed # {} /\ View!Observed = DOMAIN as
             /\ \A i \in DOMAIN as : as[i].source = "billing_receipt"
    BY <1>5 DEF View!Billed, View!Complete, View!SourcesSeen
<1>6. ASSUME as # <<>>, \A i \in DOMAIN as : as[i].source = "billing_receipt"
      PROVE  View!Billed
  <2>1. View!Observed = DOMAIN as
      BY <1>2, <1>3, <1>6
  <2>2. View!SourcesSeen = {"billing_receipt"}
      BY <1>4, <1>6, <2>1 DEF View!SourcesSeen
  <2> QED
      BY <2>1, <2>2 DEF View!Billed, View!Complete
<1> QED
    BY <1>3, <1>4, <1>5, <1>6

\* The cents of a response are those of receipts, and rounded once.
LEMMA CentsOfAnswer ==
    ASSUME seen.attempts \in Seq(View!Usages)
    PROVE  View!CentsAreBilled
<1> DEFINE as == seen.attempts
           sum == View!MapThenSumSet(LAMBDA i : as[i].reported, DOMAIN as)
           cents == View!Projection.cents
<1> SUFFICES ASSUME ~View!Refused
             PROVE  /\ cents # View!None <=>
                        /\ as # <<>>
                        /\ \A i, j \in DOMAIN as :
                            /\ as[i].source = "billing_receipt"
                            /\ as[i].ref = as[j].ref
                    /\ cents # View!None =>
                        10 * cents - 5 <= sum /\ sum < 10 * cents + 5
    BY DEF View!CentsAreBilled
<1>1. /\ \A i \in DOMAIN as : as[i] \in View!Usages
      /\ IsFiniteSet(DOMAIN as)
  <2>1. as \in Seq(View!Usages) /\ DOMAIN as = 1 .. Len(as) /\ Len(as) \in Nat
      BY LenProperties
  <2>2. IsFiniteSet(1 .. Len(as))
      BY <2>1, FS_Interval
  <2> QED
      BY <2>1, <2>2
<1>2. ~View!Billed => cents = View!None
    BY DEF View!Projection
<1>3. ASSUME View!Billed
      PROVE  /\ cents # View!None
             /\ 10 * cents - 5 <= sum /\ sum < 10 * cents + 5
  <2> DEFINE c == [i \in View!Observed |-> View!Amount(as[i])]
             r == [i \in DOMAIN as |-> as[i].reported]
  <2>1. /\ View!Observed # {} /\ View!Observed = DOMAIN as
        /\ \A i \in DOMAIN as : as[i].source = "billing_receipt"
      BY <1>3, BilledMeans
  <2>2. \A i \in DOMAIN as : c[i] = r[i] /\ r[i] \in Nat
      BY <1>1, <2>1, UsageOf DEF View!Amount
  <2>3. cents = View!Cents(View!Total(c))
      BY <1>3, <2>1 DEF View!Projection
  <2>4. DOMAIN c = DOMAIN as
      BY <2>1
  <2>5. sum = SumOver(r, DOMAIN as)
      BY <1>1, SumOfReported
  <2> HIDE DEF c, r, sum
  <2>6. View!Total(c) = SumOver(c, DOMAIN as)
      BY <2>1, <2>4, TotalIsSum
  <2>7. SumOver(c, DOMAIN as) = SumOver(r, DOMAIN as) /\ SumOver(r, DOMAIN as) \in Nat
      BY <1>1, <2>2, SumSame, SumType
  <2>8. sum \in Nat /\ cents = View!Cents(sum)
      BY <2>3, <2>5, <2>6, <2>7
  <2> HIDE DEF cents
  <2>9. View!Cents(sum) \in Nat /\ 10 * View!Cents(sum) - 5 <= sum /\ sum < 10 * View!Cents(sum) + 5
      BY <2>8, Rounding
  <2> QED
      BY <2>8, <2>9 DEF View!None
<1>4. ASSUME View!Billed, NEW i \in DOMAIN as, NEW j \in DOMAIN as
      PROVE  as[i].ref = as[j].ref
  <2>1. i \in View!Observed /\ j \in View!Observed
      BY <1>4, BilledMeans
  <2>2. View!EvidenceOf(i) = View!EvidenceOf(j)
      BY <1>4, <2>1 DEF View!Refused, View!Evidence
  <2>3. as[i].ref # "none" /\ as[j].ref # "none"
      BY <1>1, <1>4, BilledMeans, UsageOf
  <2> QED
      BY <2>2, <2>3 DEF View!EvidenceOf
<1>5. View!Billed <=> as # <<>> /\ \A i \in DOMAIN as : as[i].source = "billing_receipt"
    BY BilledMeans
<1> HIDE DEF cents, sum
<1> QED
    BY <1>2, <1>3, <1>4, <1>5

\* Its evidence is of every attempt whose cost it counts.
LEMMA EvidenceOfAnswer ==
    ASSUME seen.attempts \in Seq(View!Usages)
    PROVE  View!EvidenceCoversCost
<1> DEFINE as == seen.attempts
<1> SUFFICES ASSUME ~View!Refused, NEW e, e = View!Projection.evidence
             PROVE  /\ e[1] = "reference" => \A i \in DOMAIN as : as[i].ref = e[2]
                    /\ e[1] = "attempts" => View!Observed \subseteq e[2]
    BY DEF View!EvidenceCoversCost
<1>1. /\ \A i \in DOMAIN as : as[i] \in View!Usages
      /\ DOMAIN as = 1 .. Len(as) /\ Len(as) \in Nat
  <2>1. as \in Seq(View!Usages) /\ DOMAIN as = 1 .. Len(as) /\ Len(as) \in Nat
      BY LenProperties
  <2> QED
      BY <2>1
<1>2. View!Observed \subseteq DOMAIN as
    BY DEF View!Observed
<1>3. CASE View!Observed = {}
    BY <1>3 DEF View!Projection
<1>4. CASE View!Observed # {}
  <2>1. e = View!EvidenceShown
      BY <1>4 DEF View!Projection
  <2>2. CASE View!Billed
    <3>1. e \in View!Evidence
        BY <1>4, <2>1, <2>2 DEF View!EvidenceShown, View!Evidence
    <3>2. ASSUME NEW i \in DOMAIN as
          PROVE  e = <<"reference", as[i].ref>>
      <4>1. View!EvidenceOf(i) \in View!Evidence
          BY <2>2, BilledMeans DEF View!Evidence
      <4>2. e = View!EvidenceOf(i)
          BY <2>2, <3>1, <4>1 DEF View!Refused
      <4>3. as[i].ref # "none"
          BY <1>1, <2>2, BilledMeans, UsageOf
      <4> QED
          BY <4>2, <4>3 DEF View!EvidenceOf
    <3>3. DOMAIN as # {}
        BY <1>2, <1>4
    <3> QED
        BY <3>2, <3>3
  <2>3. CASE ~View!Billed /\ ~View!Complete
      BY <1>2, <2>1, <2>3 DEF View!EvidenceShown
  <2>4. CASE ~View!Billed /\ View!Complete /\ Len(as) = 1
    <3>1. e = View!EvidenceOf(1) /\ DOMAIN as = {1}
        BY <1>1, <2>1, <2>4 DEF View!EvidenceShown
    <3> QED
        BY <1>2, <3>1 DEF View!EvidenceOf
  <2>5. CASE ~View!Billed /\ View!Complete /\ Len(as) # 1
      BY <2>1, <2>5 DEF View!EvidenceShown
  <2> QED
      BY <2>2, <2>3, <2>4, <2>5
<1> QED
    BY <1>3, <1>4

-----------------------------------------------------------------------------
(* The work, and what a response has read of it.                           *)

\* Attempts priced later: those that have a price keep it.
Priced(earlier, later) ==
    \A i \in DOMAIN earlier :
        earlier[i] = View!Unpriced \/ (i \in DOMAIN later /\ later[i] = earlier[i])

\* What was recorded, and what was told of it.
LedgerKept ==
    /\ moves = <<>> => status = "queued"
    /\ moves # <<>> => moves[Len(moves)] = status
    /\ \A i \in DOMAIN attempts : i \notin open => <<"finished", i>> \in told
    /\ \A i \in open : attempts[i] = View!Unpriced
    /\ \A r \in 1 .. reviews : <<"reviewed", r>> \in told

SeenTypes ==
    /\ seen \in [status : Statuses, attempts : Seq(View!Usages), open : SUBSET Nat,
                 filed : SUBSET Nat, documents : SUBSET (Nat \X Nat), visited : Nat,
                 reviews : Nat, moves : Seq(Statuses),
                 told : SUBSET ({"finished", "reviewed"} \X Nat), since : Nat]
    /\ shown \in [status : Statuses, outcome : Nat, reported : Int, derived : Int]
    /\ pc \in {"task", "attempts"} => seen.visited = 0

\* The status of a response is the one that a transition brought, and no other
\* follows one that is final.
TaskRead ==
    /\ seen.since <= Len(moves)
    /\ seen.since = 0 => seen.status = "queued"
    /\ seen.since # 0 => moves[seen.since] = seen.status
    /\ seen.status \in Final => status = seen.status /\ seen.since = Len(moves)
    /\ shown.status \in Final => seen.status = shown.status

\* Its attempts are the ledger's, those that were running without what they cost.
AttemptsRead ==
    /\ DOMAIN seen.attempts \subseteq DOMAIN attempts
    /\ \A i \in DOMAIN seen.attempts :
        IF i \in seen.open THEN seen.attempts[i] = View!Unpriced
        ELSE i \notin open /\ seen.attempts[i] = attempts[i]
    /\ seen.filed \subseteq filed
    /\ shown.reported <= Spent(ReportedCosts(seen.attempts))
    /\ shown.derived <= Spent(DerivedCosts(seen.attempts))

\* Its events came after what it read before.
EventsRead ==
    /\ seen.since <= Len(seen.moves)
    /\ seen.since # 0 => seen.moves[seen.since] = seen.status
    /\ seen.status \in Final => Len(seen.moves) = seen.since
    /\ \A i \in DOMAIN seen.attempts : i \notin seen.open => <<"finished", i>> \in seen.told
    /\ \A r \in 1 .. seen.reviews : <<"reviewed", r>> \in seen.told

\* What was shown is still so.
ShownKept ==
    /\ shown.reported <= Spent(ReportedCosts(attempts))
    /\ shown.derived <= Spent(DerivedCosts(attempts))
    /\ shown.status \in Final => status = shown.status /\ shown.outcome = Len(moves)

ReadInv ==
    /\ pc # "task" => TaskRead
    /\ pc \in {"documents", "reviews", "events", "answered"} => AttemptsRead
    /\ pc = "answered" => EventsRead
    /\ seen.reviews <= reviews
    /\ \A d \in seen.documents : d[1] \in filed /\ log[d[1]] = d[2]
    /\ ShownKept

WorkInv == TypeOK /\ SeenTypes /\ LedgerKept /\ ReadInv

\* The greatest of some numbers.
LEMMA Greatest ==
    ASSUME NEW n \in Nat, NEW S, S \subseteq 1 .. n, S # {}
    PROVE  Max(S) \in S /\ \A y \in S : Max(S) >= y
<1> DEFINE Above == {k \in 0 .. n : S \subseteq 1 .. k}
           Bad == {1 .. k : k \in Above}
<1>1. n \in Above
    OBVIOUS
<1>2. Bad \subseteq SUBSET (1 .. n) /\ Bad # {}
    BY <1>1
<1>3. IsFiniteSet(1 .. n)
    BY FS_Interval
<1>4. \E s \in Bad : \A t \in Bad : t \subseteq s => t = s
  <2> HIDE DEF Bad
  <2>1. PICK D : D = 1 .. n
      OBVIOUS
  <2>2. IsFiniteSet(D) /\ Bad \subseteq SUBSET D /\ Bad # {}
      BY <1>2, <1>3, <2>1
  <2> QED
      BY <2>2, Smallest
<1>5. PICK k \in Above : \A t \in Bad : t \subseteq 1 .. k => t = 1 .. k
    BY <1>4
<1>6. k \in Nat /\ S \subseteq 1 .. k /\ k <= n
    OBVIOUS
<1>7. k # 0
  <2>1. PICK y \in S : TRUE
      OBVIOUS
  <2>2. y \in 1 .. k
      BY <1>6
  <2> QED
      BY <1>6, <2>2
<1>8. k \in S
  <2> SUFFICES ASSUME k \notin S PROVE FALSE
      OBVIOUS
  <2>1. S \subseteq 1 .. k - 1 /\ k - 1 \in 0 .. n
      BY <1>6, <1>7
  <2>2. 1 .. k - 1 \in Bad /\ 1 .. k - 1 \subseteq 1 .. k
      BY <1>6, <2>1
  <2>3. 1 .. k - 1 = 1 .. k
      BY <1>5, <2>2
  <2> QED
      BY <1>6, <1>7, <2>3
<1>9. k \in S /\ \A y \in S : k >= y
    BY <1>6, <1>8
<1> QED
    BY <1>9 DEF Max

\* Attempts that keep the prices they have cost no less.
LEMMA CostsGrow ==
    ASSUME NEW a \in Seq(View!Usages), NEW b \in Seq(View!Usages), Priced(a, b)
    PROVE  /\ Spent(ReportedCosts(a)) <= Spent(ReportedCosts(b))
           /\ Spent(DerivedCosts(a)) <= Spent(DerivedCosts(b))
           /\ Spent(ReportedCosts(a)) \in Int /\ Spent(DerivedCosts(a)) \in Int
<1>1. /\ \A i \in DOMAIN a : a[i] \in View!Usages
      /\ \A i \in DOMAIN b : b[i] \in View!Usages
      /\ IsFiniteSet(DOMAIN a) /\ IsFiniteSet(DOMAIN b)
  <2>1. /\ DOMAIN a = 1 .. Len(a) /\ Len(a) \in Nat
        /\ DOMAIN b = 1 .. Len(b) /\ Len(b) \in Nat
      BY LenProperties
  <2>2. IsFiniteSet(1 .. Len(a)) /\ IsFiniteSet(1 .. Len(b))
      BY <2>1, FS_Interval
  <2> QED
      BY <2>1, <2>2
<1>2. View!Unpriced.reported = View!None /\ View!Unpriced.derived = View!None
    BY DEF View!Unpriced
<1>3. /\ \A i \in Known(ReportedCosts(a)) :
            i \in DOMAIN ReportedCosts(b) /\ ReportedCosts(b)[i] = ReportedCosts(a)[i]
      /\ \A i \in Known(DerivedCosts(a)) :
            i \in DOMAIN DerivedCosts(b) /\ DerivedCosts(b)[i] = DerivedCosts(a)[i]
    BY <1>2 DEF Known, ReportedCosts, DerivedCosts, Priced
<1>4. /\ \A i \in DOMAIN ReportedCosts(b) : ReportedCosts(b)[i] \in Nat \cup {View!None}
      /\ \A i \in DOMAIN DerivedCosts(b) : DerivedCosts(b)[i] \in Nat \cup {View!None}
      /\ \A i \in DOMAIN ReportedCosts(a) : ReportedCosts(a)[i] \in Nat \cup {View!None}
      /\ \A i \in DOMAIN DerivedCosts(a) : DerivedCosts(a)[i] \in Nat \cup {View!None}
    BY <1>1, UsageOf DEF ReportedCosts, DerivedCosts
<1>5. /\ DOMAIN ReportedCosts(a) = DOMAIN a /\ DOMAIN ReportedCosts(b) = DOMAIN b
      /\ DOMAIN DerivedCosts(a) = DOMAIN a /\ DOMAIN DerivedCosts(b) = DOMAIN b
    BY DEF ReportedCosts, DerivedCosts
<1>6. ASSUME NEW c, IsFiniteSet(DOMAIN c), \A i \in DOMAIN c : c[i] \in Nat \cup {View!None}
      PROVE  Spent(c) \in Int
  <2>1. IsFiniteSet(Known(c)) /\ \A i \in Known(c) : c[i] \in Nat
      BY <1>6, FS_Subset DEF Known
  <2>2. SumOver(c, Known(c)) \in Nat
      BY <2>1, SumType
  <2> QED
      BY <2>2 DEF Spent, View!None
<1>7. Spent(ReportedCosts(a)) <= Spent(ReportedCosts(b))
    BY <1>1, <1>3, <1>4, <1>5, SpentGrows
<1>8. Spent(DerivedCosts(a)) <= Spent(DerivedCosts(b))
    BY <1>1, <1>3, <1>4, <1>5, SpentGrows
<1> QED
    BY <1>1, <1>4, <1>5, <1>6, <1>7, <1>8

LEMMA FunctionIsSeq ==
    ASSUME NEW S, NEW n \in Nat, NEW f \in [1 .. n -> S]
    PROVE  f \in Seq(S)
<1>1. f \in UNION {[1 .. m -> S] : m \in Nat}
    OBVIOUS
<1> QED
    BY <1>1, SeqDef

\* A sequence over a set is one over it with another element at its end.
LEMMA AppendKeepsRange ==
    ASSUME NEW S, NEW n \in Nat, NEW f \in [1 .. n -> S], NEW e \in S
    PROVE  Append(f, e) \in [1 .. n + 1 -> S]
<1>1. f \in Seq(S)
    BY FunctionIsSeq
<1>2. Len(f) = n
    BY <1>1, LenProperties
<1>3. Append(f, e) \in Seq(S) /\ Len(Append(f, e)) = n + 1
    BY <1>1, <1>2, AppendProperties
<1> QED
    BY <1>3, LenProperties

\* What the work does to what a response may have read.
LEMMA WorkGrows ==
    ASSUME WorkInv, Work
    PROVE  /\ Len(moves) <= Len(moves') /\ \A i \in DOMAIN moves : moves'[i] = moves[i]
           /\ status \in Final => status' = status /\ moves' = moves
           /\ DOMAIN attempts \subseteq DOMAIN attempts'
           /\ \A i \in DOMAIN attempts : i \notin open =>
                i \notin open' /\ attempts'[i] = attempts[i]
           /\ filed \subseteq filed' /\ \A i \in filed : log'[i] = log[i]
           /\ reviews <= reviews'
<1> USE DEF WorkInv, TypeOK
<1>1. CASE \E next \in Statuses : Move(next)
  <2>1. PICK next \in Statuses : Move(next)
      BY <1>1
  <2>2. status \notin Final
    <3>1. status \in Final => Transitions[status] = {}
        BY DEF Final, Transitions
    <3> QED
        BY <2>1, <3>1 DEF Move
  <2>3. /\ UNCHANGED <<attempts, open, kinds, filed, log, reviews>>
        /\ moves' = Append(moves, next) /\ moves \in Seq(Statuses)
      BY <2>1 DEF Move
  <2>4. Len(moves') = Len(moves) + 1 /\ Len(moves) \in Nat
        /\ \A i \in DOMAIN moves : moves'[i] = moves[i]
      BY <2>3, AppendProperties, LenProperties
  <2> QED
      BY <2>2, <2>3, <2>4
<1>2. CASE Start
  <2>1. /\ UNCHANGED <<status, filed, reviews, moves, told>>
        /\ attempts' = Append(attempts, View!Unpriced) /\ attempts \in Seq(View!Usages)
        /\ open' = open \cup {Len(attempts')} /\ log' = Append(log, 0)
      BY <1>2 DEF Start
  <2>2. /\ Len(attempts) \in Nat /\ DOMAIN attempts = 1 .. Len(attempts)
        /\ Len(attempts') = Len(attempts) + 1 /\ DOMAIN attempts' = 1 .. Len(attempts) + 1
        /\ \A i \in DOMAIN attempts : attempts'[i] = attempts[i]
      BY <2>1, AppendProperties, LenProperties, UnpricedIsUsage
  <2>3. \A i \in DOMAIN attempts : i # Len(attempts')
      BY <2>2
  <2>4. log \in Seq(0 .. MaxLines) /\ Len(log) = Len(attempts)
    <3>1. log \in [1 .. Len(attempts) -> 0 .. MaxLines]
        BY <2>2
    <3>2. PICK n \in Nat : n = Len(attempts)
        BY <2>2
    <3>3. log \in [1 .. n -> 0 .. MaxLines]
        BY <3>1, <3>2
    <3>4. log \in Seq(0 .. MaxLines)
        BY <3>3, FunctionIsSeq
    <3> QED
        BY <3>2, <3>3, <3>4, LenProperties
  <2>5. \A i \in 1 .. Len(attempts) : log'[i] = log[i]
      BY <2>1, <2>4, WorkAssumption, AppendProperties
  <2>6. filed \subseteq DOMAIN attempts
      OBVIOUS
  <2> QED
      BY <2>1, <2>2, <2>3, <2>5, <2>6
<1>3. ASSUME NEW i \in open, NEW u \in View!Usages, Finish(i, u)
      PROVE  /\ UNCHANGED <<status, kinds, log, reviews, moves>>
             /\ DOMAIN attempts' = DOMAIN attempts
             /\ \A j \in DOMAIN attempts : j # i => attempts'[j] = attempts[j]
             /\ open' = open \ {i} /\ filed \subseteq filed'
    BY <1>3 DEF Finish
<1>4. CASE \E i \in open, u \in View!Usages : Finish(i, u)
  <2>1. Len(moves) \in Nat
      BY LenProperties
  <2> QED
      BY <1>3, <1>4, <2>1
<1>5. CASE \E i \in DOMAIN attempts : Write(i)
  <2>1. PICK i \in DOMAIN attempts : Write(i)
      BY <1>5
  <2>2. /\ UNCHANGED <<status, attempts, open, kinds, filed, reviews, moves>>
        /\ \A j \in filed : log'[j] = log[j]
      BY <2>1 DEF Write
  <2>3. Len(moves) \in Nat
      BY LenProperties
  <2> QED
      BY <2>2, <2>3
<1>6. CASE Review
  <2>1. Len(moves) \in Nat
      BY LenProperties
  <2> QED
      BY <1>6, <2>1 DEF Review
<1> QED
    BY <1>1, <1>2, <1>4, <1>5, <1>6 DEF Work

\* What the work leaves as it was.
LEMMA WorkTypes ==
    ASSUME WorkInv, Work
    PROVE  TypeOK' /\ LedgerKept'
<1> USE DEF WorkInv, TypeOK
<1>0. /\ moves \in Seq(Statuses) /\ Len(moves) \in Nat /\ DOMAIN moves = 1 .. Len(moves)
      /\ attempts \in Seq(View!Usages) /\ Len(attempts) \in Nat
      /\ DOMAIN attempts = 1 .. Len(attempts)
      /\ UNCHANGED <<route, pc, seen, shown>>
    BY LenProperties DEF Work, readerVars
<1>1. CASE \E next \in Statuses : Move(next)
  <2>1. PICK next \in Statuses : Move(next)
      BY <1>1
  <2>2. /\ UNCHANGED <<attempts, open, kinds, filed, log, reviews, told>>
        /\ moves' = Append(moves, next) /\ status' = next /\ Len(moves) < MaxMoves
      BY <2>1 DEF Move
  <2>3. /\ moves' \in Seq(Statuses) /\ Len(moves') = Len(moves) + 1
        /\ moves'[Len(moves) + 1] = next
      BY <1>0, <2>2, AppendProperties
  <2>4. TypeOK'
      BY <1>0, <2>2, <2>3, WorkAssumption
  <2>5. moves' # <<>>
      BY <1>0, <2>3
  <2> QED
      BY <2>2, <2>3, <2>4, <2>5 DEF LedgerKept
<1>2. CASE Start
  <2>1. /\ UNCHANGED <<status, filed, reviews, moves, told>>
        /\ attempts' = Append(attempts, View!Unpriced) /\ Len(attempts) < MaxAttempts
        /\ open' = open \cup {Len(attempts')} /\ log' = Append(log, 0)
      BY <1>2 DEF Start
  <2>2. /\ attempts' \in Seq(View!Usages)
        /\ Len(attempts') = Len(attempts) + 1 /\ DOMAIN attempts' = 1 .. Len(attempts) + 1
        /\ \A i \in DOMAIN attempts : attempts'[i] = attempts[i]
        /\ attempts'[Len(attempts) + 1] = View!Unpriced
      BY <1>0, <2>1, AppendProperties, LenProperties, UnpricedIsUsage
  <2>3. /\ log' \in [DOMAIN attempts' -> 0 .. MaxLines]
        /\ kinds' \in [DOMAIN attempts' -> {"implementation", "coordinator"}]
    <3>1. PICK n \in Nat : n = Len(attempts)
        BY <1>0
    <3>2. /\ log \in [1 .. n -> 0 .. MaxLines] /\ 0 \in 0 .. MaxLines
          /\ kinds \in [1 .. n -> {"implementation", "coordinator"}]
        BY <1>0, <3>1, WorkAssumption
    <3>3. PICK role \in {"implementation", "coordinator"} : kinds' = Append(kinds, role)
        BY <1>2 DEF Start
    <3>4. Append(log, 0) \in [1 .. n + 1 -> 0 .. MaxLines]
        BY <3>2, AppendKeepsRange
    <3>5. Append(kinds, role) \in [1 .. n + 1 -> {"implementation", "coordinator"}]
        BY <3>2, AppendKeepsRange
    <3> QED
        BY <2>1, <2>2, <3>1, <3>3, <3>4, <3>5
  <2>4. /\ DOMAIN attempts \subseteq DOMAIN attempts'
        /\ open' \subseteq DOMAIN attempts' /\ filed' \subseteq DOMAIN attempts' \ open'
      BY <1>0, <2>1, <2>2
  <2>5. TypeOK'
    <3>1. Len(attempts') <= MaxAttempts
        BY <1>0, <2>1, <2>2, WorkAssumption
    <3>2. told' \subseteq {"finished"} \X DOMAIN attempts' \cup {"reviewed"} \X (1 .. MaxReviews)
        BY <2>1, <2>4
    <3> QED
        BY <1>0, <2>1, <2>2, <2>3, <2>4, <3>1, <3>2
  <2>6. LedgerKept'
    <3>1. ASSUME NEW i \in DOMAIN attempts', i \notin open'
          PROVE  <<"finished", i>> \in told'
        BY <1>0, <2>1, <2>2, <3>1 DEF LedgerKept
    <3>2. ASSUME NEW i \in open'
          PROVE  attempts'[i] = View!Unpriced
        BY <1>0, <2>1, <2>2, <3>2 DEF LedgerKept
    <3> QED
        BY <2>1, <3>1, <3>2 DEF LedgerKept
  <2> QED
      BY <2>5, <2>6
<1>3. CASE \E i \in open, u \in View!Usages : Finish(i, u)
  <2>1. PICK i \in open, u \in View!Usages : Finish(i, u)
      BY <1>3
  <2>2. /\ UNCHANGED <<status, kinds, log, reviews, moves>>
        /\ attempts' = [attempts EXCEPT ![i] = u] /\ open' = open \ {i}
        /\ filed' \subseteq filed \cup {i} /\ told' = told \cup {<<"finished", i>>}
      BY <2>1 DEF Finish
  <2>3. /\ attempts' \in Seq(View!Usages) /\ Len(attempts') = Len(attempts)
        /\ DOMAIN attempts' = DOMAIN attempts
        /\ \A j \in DOMAIN attempts : attempts'[j] = IF j = i THEN u ELSE attempts[j]
      BY <1>0, <2>2, ExceptSeq
  <2>4. i \in DOMAIN attempts
      OBVIOUS
  <2>5. TypeOK'
      BY <1>0, <2>2, <2>3, <2>4
  <2>6. LedgerKept'
    <3>1. ASSUME NEW j \in DOMAIN attempts', j \notin open'
          PROVE  <<"finished", j>> \in told'
        BY <2>2, <2>3, <3>1 DEF LedgerKept
    <3>2. ASSUME NEW j \in open'
          PROVE  attempts'[j] = View!Unpriced
        BY <2>2, <2>3, <3>2 DEF LedgerKept
    <3> QED
        BY <2>2, <3>1, <3>2 DEF LedgerKept
  <2> QED
      BY <2>5, <2>6
<1>4. CASE \E i \in DOMAIN attempts : Write(i)
  <2>1. PICK i \in DOMAIN attempts : Write(i)
      BY <1>4
  <2>2. /\ UNCHANGED <<status, attempts, open, kinds, filed, reviews, moves, told>>
        /\ log' = [log EXCEPT ![i] = @ + 1] /\ log[i] < MaxLines
      BY <2>1 DEF Write
  <2>3. log' \in [DOMAIN attempts -> 0 .. MaxLines]
      BY <2>2, WorkAssumption
  <2> QED
      BY <1>0, <2>2, <2>3 DEF LedgerKept
<1>5. CASE Review
  <2>1. /\ UNCHANGED <<status, attempts, open, kinds, filed, log, moves>>
        /\ reviews' = reviews + 1 /\ reviews < MaxReviews
        /\ told' = told \cup {<<"reviewed", reviews'>>}
      BY <1>5 DEF Review
  <2>2. reviews' \in 1 .. MaxReviews
      BY <2>1, WorkAssumption
  <2>3. TypeOK'
      BY <1>0, <2>1, <2>2
  <2>4. \A r \in 1 .. reviews' : <<"reviewed", r>> \in told'
    <3>1. \A r \in 1 .. reviews' : r = reviews' \/ r \in 1 .. reviews
        BY <2>1
    <3> QED
        BY <2>1, <3>1 DEF LedgerKept
  <2> QED
      BY <2>1, <2>3, <2>4 DEF LedgerKept
<1> QED
    BY <1>1, <1>2, <1>3, <1>4, <1>5 DEF Work

\* What a response has read stays true of it, whatever the work does.
LEMMA WorkStep ==
    ASSUME WorkInv, Work
    PROVE  WorkInv' /\ DollarsNeverShrink /\ FinalAnswerStands
<1>1. UNCHANGED <<route, pc, seen, shown>>
    BY DEF Work, readerVars
<1>2. TypeOK' /\ LedgerKept' /\ SeenTypes'
    BY <1>1, WorkTypes DEF WorkInv, SeenTypes
<1>3. /\ moves \in Seq(Statuses) /\ Len(moves) \in Nat /\ DOMAIN moves = 1 .. Len(moves)
      /\ Len(moves') \in Nat /\ seen.since \in Nat /\ seen.reviews \in Nat
      /\ reviews \in Nat /\ reviews' \in Nat
      /\ attempts \in Seq(View!Usages) /\ attempts' \in Seq(View!Usages)
      /\ filed \subseteq DOMAIN attempts \ open
      /\ shown.reported \in Int /\ shown.derived \in Int
  <2>1. moves \in Seq(Statuses) /\ moves' \in Seq(Statuses)
      BY <1>2 DEF WorkInv, TypeOK
  <2> QED
      BY <1>2, <2>1, LenProperties DEF WorkInv, TypeOK, SeenTypes
<1>4. /\ Len(moves) <= Len(moves') /\ \A i \in DOMAIN moves : moves'[i] = moves[i]
      /\ status \in Final => status' = status /\ moves' = moves
      /\ DOMAIN attempts \subseteq DOMAIN attempts'
      /\ \A i \in DOMAIN attempts : i \notin open =>
            i \notin open' /\ attempts'[i] = attempts[i]
      /\ filed \subseteq filed' /\ \A i \in filed : log'[i] = log[i]
      /\ reviews <= reviews'
    BY WorkGrows
<1>5. ReadInv
    BY DEF WorkInv
<1>6. ASSUME TaskRead PROVE TaskRead'
  <2>1. seen.since # 0 => seen.since \in DOMAIN moves
      BY <1>3, <1>6 DEF TaskRead
  <2> QED
      BY <1>1, <1>3, <1>4, <1>6, <2>1 DEF TaskRead
<1>7. ASSUME AttemptsRead PROVE AttemptsRead'
    BY <1>1, <1>4, <1>7 DEF AttemptsRead
<1>8. Priced(attempts, attempts')
    BY <1>4 DEF Priced, WorkInv, LedgerKept
<1>9. ShownKept'
  <2>1. /\ Spent(ReportedCosts(attempts)) <= Spent(ReportedCosts(attempts'))
        /\ Spent(DerivedCosts(attempts)) <= Spent(DerivedCosts(attempts'))
        /\ Spent(ReportedCosts(attempts)) \in Int /\ Spent(DerivedCosts(attempts)) \in Int
      BY <1>3, <1>8, CostsGrow
  <2>2. Spent(ReportedCosts(attempts')) \in Int /\ Spent(DerivedCosts(attempts')) \in Int
    <3>1. Priced(attempts', attempts')
        BY DEF Priced
    <3> QED
        BY <1>3, <3>1, CostsGrow
  <2>3. shown.reported <= Spent(ReportedCosts(attempts)) /\ shown.derived <= Spent(DerivedCosts(attempts))
      BY <1>5 DEF ReadInv, ShownKept
  <2>4. /\ shown.reported <= Spent(ReportedCosts(attempts'))
        /\ shown.derived <= Spent(DerivedCosts(attempts'))
      BY <1>3, <2>1, <2>2, <2>3
  <2> QED
      BY <1>1, <1>4, <1>5, <2>4 DEF ReadInv, ShownKept
<1>10. seen.reviews <= reviews' /\ \A d \in seen.documents : d[1] \in filed' /\ log'[d[1]] = d[2]
    BY <1>3, <1>4, <1>5 DEF ReadInv
<1>11. EventsRead => EventsRead'
    BY <1>1 DEF EventsRead
<1>12. ReadInv'
    BY <1>1, <1>5, <1>6, <1>7, <1>9, <1>10, <1>11 DEF ReadInv
<1> QED
    BY <1>1, <1>2, <1>3, <1>12 DEF WorkInv, DollarsNeverShrink, FinalAnswerStands

\* The outcome of a closed status is of the transition that brought it, or of a later one.
LEMMA OutcomeIs ==
    ASSUME WorkInv, pc = "answered", seen.status \in Closed
    PROVE  /\ OutcomeEvent \in Nat /\ OutcomeEvent >= seen.since
           /\ seen.status \in Final => OutcomeEvent = Len(moves)
<1> DEFINE matching == {i \in DOMAIN seen.moves : seen.moves[i] = seen.status}
<1>1. TaskRead /\ EventsRead
    BY DEF WorkInv, ReadInv
<1>2. /\ seen.moves \in Seq(Statuses) /\ seen.since \in Nat
      /\ Len(seen.moves) \in Nat /\ DOMAIN seen.moves = 1 .. Len(seen.moves)
  <2>1. seen.moves \in Seq(Statuses) /\ seen.since \in Nat
      BY DEF WorkInv, SeenTypes
  <2> QED
      BY <2>1, LenProperties
<1>3. seen.since # 0
    BY <1>1 DEF TaskRead, Closed, Final
<1>4. seen.since \in matching /\ matching \subseteq 1 .. Len(seen.moves)
    BY <1>1, <1>2, <1>3 DEF EventsRead
<1> HIDE DEF matching
<1>5. Max(matching) \in matching /\ \A i \in matching : Max(matching) >= i
    BY <1>2, <1>4, Greatest
<1>6. OutcomeEvent = Max(matching)
    BY <1>4 DEF OutcomeEvent, matching
<1>7. OutcomeEvent \in 1 .. Len(seen.moves) /\ OutcomeEvent >= seen.since
    BY <1>4, <1>5, <1>6
<1>8. seen.status \in Final => Len(seen.moves) = seen.since /\ seen.since = Len(moves)
    BY <1>1 DEF TaskRead, EventsRead
<1> QED
    BY <1>2, <1>7, <1>8

\* Each read of a request, and its answer.
LEMMA ReaderStep ==
    ASSUME WorkInv, Reader
    PROVE  WorkInv' /\ DollarsNeverShrink /\ FinalAnswerStands
<1>0. /\ UNCHANGED <<status, attempts, open, kinds, filed, log, reviews, moves, told>>
      /\ TypeOK /\ SeenTypes /\ LedgerKept /\ ReadInv
    BY DEF Reader, ledgerVars, WorkInv
<1>1. /\ seen \in [status : Statuses, attempts : Seq(View!Usages), open : SUBSET Nat,
                   filed : SUBSET Nat, documents : SUBSET (Nat \X Nat), visited : Nat,
                   reviews : Nat, moves : Seq(Statuses),
                   told : SUBSET ({"finished", "reviewed"} \X Nat), since : Nat]
      /\ shown \in [status : Statuses, outcome : Nat, reported : Int, derived : Int]
      /\ moves \in Seq(Statuses) /\ Len(moves) \in Nat
      /\ attempts \in Seq(View!Usages) /\ DOMAIN attempts = 1 .. Len(attempts)
      /\ Len(attempts) \in Nat
      /\ open \subseteq DOMAIN attempts /\ filed \subseteq DOMAIN attempts \ open
      /\ told \subseteq {"finished", "reviewed"} \X Nat
      /\ reviews \in 0 .. MaxReviews /\ status \in Statuses
      /\ log \in [DOMAIN attempts -> 0 .. MaxLines]
      /\ pc \in {"task", "attempts", "documents", "reviews", "events", "answered"}
      /\ route \in {"status", "evidence"}
      /\ seen.visited \in 0 .. Len(seen.attempts)
  <2>1. moves \in Seq(Statuses) /\ attempts \in Seq(View!Usages)
      BY <1>0 DEF TypeOK
  <2>2. Len(moves) \in Nat /\ Len(attempts) \in Nat /\ DOMAIN attempts = 1 .. Len(attempts)
      BY <2>1, LenProperties
  <2>3. told \subseteq {"finished", "reviewed"} \X Nat
    <3>1. DOMAIN attempts \subseteq Nat /\ 1 .. MaxReviews \subseteq Nat
        BY <2>2, WorkAssumption
    <3>2. told \subseteq {"finished"} \X DOMAIN attempts \cup {"reviewed"} \X (1 .. MaxReviews)
        BY <1>0 DEF TypeOK
    <3> QED
        BY <3>1, <3>2
  <2> QED
      BY <1>0, <2>1, <2>2, <2>3 DEF TypeOK, SeenTypes
\* The ledger is as it was, and so is what was shown.
<1>2. LedgerKept' /\ (UNCHANGED shown => ShownKept')
    BY <1>0 DEF LedgerKept, ReadInv, ShownKept
<1>3. ASSUME UNCHANGED <<route, shown>>, SeenTypes', ReadInv',
             pc' \in {"task", "attempts", "documents", "reviews", "events", "answered"},
             seen'.visited \in 0 .. Len(seen'.attempts)
      PROVE  WorkInv' /\ DollarsNeverShrink /\ FinalAnswerStands
  <2>1. TypeOK'
      BY <1>0, <1>3 DEF TypeOK
  <2> QED
      BY <1>0, <1>1, <1>2, <1>3, <2>1
      DEF WorkInv, DollarsNeverShrink, FinalAnswerStands
<1>4. CASE ReadTask
  <2>1. /\ pc = "task" /\ pc' = "attempts" /\ UNCHANGED <<route, shown>>
        /\ seen' = [seen EXCEPT !.status = status, !.since = Len(moves)]
      BY <1>4 DEF ReadTask, See, Following
  <2>2. SeenTypes'
      BY <1>0, <1>1, <2>1 DEF SeenTypes
  <2>3. /\ seen'.status = status /\ seen'.since = Len(moves)
        /\ seen'.reviews = seen.reviews /\ seen'.documents = seen.documents
        /\ seen'.visited = seen.visited /\ seen'.attempts = seen.attempts
      BY <1>1, <2>1
  <2>4. TaskRead'
    <3>1. Len(moves) = 0 => moves = <<>>
        BY <1>1, EmptySeq
    <3>2. shown.status \in Final => status = shown.status
        BY <1>0 DEF ReadInv, ShownKept
    <3> QED
        BY <1>0, <1>1, <2>1, <2>3, <3>1, <3>2 DEF TaskRead, LedgerKept
  <2>5. ReadInv'
      BY <1>0, <1>2, <2>1, <2>3, <2>4 DEF ReadInv
  <2> QED
      BY <1>1, <1>3, <2>1, <2>2, <2>3, <2>5
<1>5. CASE ReadAttempts
  <2>1. /\ pc = "attempts" /\ pc' \in {"events", "documents"} /\ UNCHANGED <<route, shown>>
        /\ seen' = [seen EXCEPT !.attempts = attempts, !.open = open, !.filed = filed]
      BY <1>5 DEF ReadAttempts, See, Following
  <2>2. open \subseteq Nat /\ filed \subseteq Nat
      BY <1>1
  <2>3. SeenTypes'
      BY <1>0, <1>1, <2>1, <2>2 DEF SeenTypes
  <2>4. /\ seen'.status = seen.status /\ seen'.since = seen.since
        /\ seen'.reviews = seen.reviews /\ seen'.documents = seen.documents
        /\ seen'.visited = seen.visited /\ seen'.attempts = attempts
        /\ seen'.open = open /\ seen'.filed = filed
      BY <1>1, <2>1
  <2>5. TaskRead'
      BY <1>0, <2>1, <2>4 DEF TaskRead, ReadInv
  <2>6. AttemptsRead'
      BY <1>0, <1>2, <2>1, <2>4 DEF AttemptsRead, ReadInv, ShownKept, LedgerKept
  <2>7. ReadInv'
      BY <1>0, <1>2, <2>1, <2>4, <2>5, <2>6 DEF ReadInv
  <2>8. seen.visited = 0
      BY <1>0, <2>1 DEF SeenTypes
  <2> QED
      BY <1>1, <1>3, <2>1, <2>3, <2>4, <2>7, <2>8
<1>6. CASE ReadDocument
  <2> DEFINE i == seen.visited + 1
  <2>1. /\ pc = "documents" /\ UNCHANGED <<route, pc, shown>> /\ i \in DOMAIN seen.attempts
        /\ \/ seen' = [seen EXCEPT !.visited = i]
           \/ i \in seen.filed /\ seen' = [seen EXCEPT !.visited = i,
                        !.documents = seen.documents \cup {<<i, log[i]>>}]
      BY <1>6 DEF ReadDocument
  <2>2. i \in seen.filed => i \in filed /\ log[i] \in Nat
    <3>1. seen.filed \subseteq filed
        BY <1>0, <2>1 DEF ReadInv, AttemptsRead
    <3> QED
        BY <1>1, <3>1
  <2>3. i \in Nat
      BY <1>1
  <2> HIDE DEF i
  <2>10. PICK D : D = seen.documents \cup {<<i, log[i]>>}
      OBVIOUS
  <2>11. \/ seen' = [seen EXCEPT !.visited = i]
         \/ i \in seen.filed /\ seen' = [seen EXCEPT !.visited = i, !.documents = D]
      BY <2>1, <2>10
  <2>12. i \in seen.filed => D \in SUBSET (Nat \X Nat)
    <3>1. seen.documents \in SUBSET (Nat \X Nat)
        BY <1>1
    <3>2. i \in seen.filed => <<i, log[i]>> \in Nat \X Nat
        BY <2>2, <2>3
    <3> QED
        BY <2>10, <3>1, <3>2
  <2>4. SeenTypes'
    <3>1. seen' \in [status : Statuses, attempts : Seq(View!Usages), open : SUBSET Nat,
               filed : SUBSET Nat, documents : SUBSET (Nat \X Nat), visited : Nat,
               reviews : Nat, moves : Seq(Statuses),
               told : SUBSET ({"finished", "reviewed"} \X Nat), since : Nat]
        BY <1>1, <2>3, <2>11, <2>12
    <3> QED
        BY <1>0, <2>1, <3>1 DEF SeenTypes
  <2>5. /\ seen'.status = seen.status /\ seen'.since = seen.since
        /\ seen'.reviews = seen.reviews /\ seen'.attempts = seen.attempts
        /\ seen'.open = seen.open /\ seen'.filed = seen.filed /\ seen'.visited = i
        /\ \A d \in seen'.documents :
            d \in seen.documents \/ (i \in seen.filed /\ d = <<i, log[i]>>)
    <3>1. /\ seen'.status = seen.status /\ seen'.since = seen.since
          /\ seen'.reviews = seen.reviews /\ seen'.attempts = seen.attempts
          /\ seen'.open = seen.open /\ seen'.filed = seen.filed /\ seen'.visited = i
          /\ seen'.documents = seen.documents \/ (i \in seen.filed /\ seen'.documents = D)
        BY <1>1, <2>11
    <3> QED
        BY <2>10, <3>1
  <2>6. TaskRead' /\ AttemptsRead'
      BY <1>0, <2>1, <2>5 DEF TaskRead, AttemptsRead, ReadInv
  <2>7. ReadInv'
      BY <1>0, <1>2, <2>1, <2>2, <2>5, <2>6 DEF ReadInv
  <2>8. i \in 0 .. Len(seen.attempts)
    <3>1. DOMAIN seen.attempts = 1 .. Len(seen.attempts) /\ Len(seen.attempts) \in Nat
        BY <1>1, LenProperties
    <3> QED
        BY <2>1, <3>1
  <2> QED
      BY <1>1, <1>3, <2>1, <2>4, <2>5, <2>7, <2>8
<1>7. CASE DocumentsRead \/ ReadReviews
  <2>1. /\ pc \in {"documents", "reviews"} /\ pc' \in {"reviews", "events"}
        /\ UNCHANGED <<route, shown>>
        /\ seen' = seen \/ seen' = [seen EXCEPT !.reviews = reviews]
      BY <1>7 DEF DocumentsRead, ReadReviews, See, Following
  <2>2. reviews \in Nat
      BY <1>1, WorkAssumption
  <2>3. SeenTypes'
      BY <1>0, <1>1, <2>1, <2>2 DEF SeenTypes
  <2>4. /\ seen'.status = seen.status /\ seen'.since = seen.since
        /\ seen'.reviews \in {seen.reviews, reviews} /\ seen'.attempts = seen.attempts
        /\ seen'.open = seen.open /\ seen'.filed = seen.filed
        /\ seen'.visited = seen.visited /\ seen'.documents = seen.documents
      BY <1>1, <2>1
  <2>5. TaskRead' /\ AttemptsRead'
      BY <1>0, <2>1, <2>4 DEF TaskRead, AttemptsRead, ReadInv
  <2>6. ReadInv'
      BY <1>0, <1>2, <2>1, <2>2, <2>4, <2>5 DEF ReadInv
  <2> QED
      BY <1>1, <1>3, <2>1, <2>3, <2>4, <2>6
<1>8. CASE ReadEvents
  <2>1. /\ pc = "events" /\ pc' = "answered" /\ UNCHANGED <<route, shown>>
        /\ seen' = [seen EXCEPT !.moves = moves, !.told = told]
      BY <1>8 DEF ReadEvents, See, Following
  <2>2. SeenTypes'
      BY <1>0, <1>1, <2>1 DEF SeenTypes
  <2>3. /\ seen'.status = seen.status /\ seen'.since = seen.since
        /\ seen'.reviews = seen.reviews /\ seen'.attempts = seen.attempts
        /\ seen'.open = seen.open /\ seen'.filed = seen.filed
        /\ seen'.visited = seen.visited /\ seen'.documents = seen.documents
        /\ seen'.moves = moves /\ seen'.told = told
      BY <1>1, <2>1
  <2>4. TaskRead' /\ AttemptsRead'
      BY <1>0, <2>1, <2>3 DEF TaskRead, AttemptsRead, ReadInv
  <2>5. EventsRead'
    <3>1. TaskRead /\ AttemptsRead
        BY <1>0, <2>1 DEF ReadInv
    <3>2. \A r \in 1 .. seen.reviews : r \in 1 .. reviews
        BY <1>0, <1>1 DEF ReadInv
    <3>3. \A r \in 1 .. seen.reviews : <<"reviewed", r>> \in told
        BY <1>0, <3>2 DEF LedgerKept
    <3>4. ASSUME NEW i \in DOMAIN seen.attempts, i \notin seen.open
          PROVE  <<"finished", i>> \in told
        BY <1>0, <3>1, <3>4 DEF LedgerKept, AttemptsRead
    <3> QED
        BY <2>3, <3>1, <3>3, <3>4 DEF EventsRead, TaskRead
  <2>6. ReadInv'
      BY <1>0, <1>2, <2>1, <2>3, <2>4, <2>5 DEF ReadInv
  <2> QED
      BY <1>1, <1>3, <2>1, <2>2, <2>3, <2>6
<1>9. CASE Answer
  <2>1. /\ pc = "answered" /\ pc' = "task" /\ seen' = Nothing /\ UNCHANGED route
        /\ \/ UNCHANGED shown
           \/ shown' = [status |-> seen.status,
                        outcome |-> IF seen.status \in Final THEN OutcomeEvent ELSE 0,
                        reported |-> View!Projection.reported,
                        derived |-> View!Projection.derived]
      BY <1>9 DEF Answer
  <2>2. TaskRead /\ AttemptsRead /\ EventsRead
      BY <1>0, <2>1 DEF ReadInv
  <2>3. /\ View!Projection.reported = Spent(ReportedCosts(seen.attempts))
        /\ View!Projection.derived = Spent(DerivedCosts(seen.attempts))
    <3>1. seen.attempts \in Seq(View!Usages)
        BY <1>1
    <3> QED
        BY <3>1, Dollars
  <2>4. /\ Spent(ReportedCosts(seen.attempts)) <= Spent(ReportedCosts(attempts))
        /\ Spent(DerivedCosts(seen.attempts)) <= Spent(DerivedCosts(attempts))
        /\ Spent(ReportedCosts(seen.attempts)) \in Int
        /\ Spent(DerivedCosts(seen.attempts)) \in Int
    <3>1. PICK as \in Seq(View!Usages) : as = seen.attempts
        BY <1>1
    <3>2. Priced(as, attempts)
        BY <2>2, <3>1 DEF Priced, AttemptsRead
    <3> QED
        BY <1>1, <3>1, <3>2, CostsGrow
  <2>5. /\ OutcomeEvent \in Nat \/ seen.status \notin Final
        /\ seen.status \in Final => OutcomeEvent = Len(moves) /\ status = seen.status
    <3>1. seen.status \in Final => seen.status \in Closed
        BY DEF Final, Closed
    <3> QED
        BY <2>1, <2>2, <3>1, OutcomeIs DEF TaskRead
  <2>6. CASE UNCHANGED shown
    <3>1. SeenTypes'
        BY <1>0, <1>1, <2>1, <2>6, EmptySeq DEF SeenTypes, Nothing, Statuses
    <3>2. /\ Nothing.reviews = 0 /\ Nothing.documents = {} /\ Nothing.visited = 0
          /\ Nothing.attempts = <<>>
        BY DEF Nothing
    <3>3. ReadInv'
        BY <1>0, <1>1, <1>2, <2>1, <2>6, <3>2, WorkAssumption DEF ReadInv
    <3>4. 0 \in 0 .. Len(<<>>)
        BY EmptySeq
    <3> QED
        BY <1>3, <2>1, <2>6, <3>1, <3>2, <3>3, <3>4
  <2>7. CASE shown' = [status |-> seen.status,
                       outcome |-> IF seen.status \in Final THEN OutcomeEvent ELSE 0,
                       reported |-> View!Projection.reported,
                       derived |-> View!Projection.derived]
    <3>1. /\ shown'.status = seen.status
          /\ seen.status \in Final => shown'.outcome = OutcomeEvent
          /\ shown'.reported = Spent(ReportedCosts(seen.attempts))
          /\ shown'.derived = Spent(DerivedCosts(seen.attempts))
          /\ shown' \in [status : Statuses, outcome : Nat, reported : Int, derived : Int]
        BY <1>1, <2>3, <2>4, <2>5, <2>7
    <3>2. SeenTypes'
        BY <1>0, <1>1, <2>1, <3>1, EmptySeq DEF SeenTypes, Nothing, Statuses
    <3>3. /\ Nothing.reviews = 0 /\ Nothing.documents = {} /\ Nothing.visited = 0
          /\ Nothing.attempts = <<>>
        BY DEF Nothing
    <3>4. ShownKept'
        BY <1>0, <2>4, <2>5, <3>1 DEF ShownKept
    <3>5. ReadInv'
        BY <1>0, <1>1, <2>1, <3>3, <3>4, WorkAssumption DEF ReadInv
    <3>6. 0 \in 0 .. Len(<<>>)
        BY EmptySeq
    <3>7. TypeOK'
        BY <1>0, <1>1, <2>1, <3>1, <3>3, <3>6 DEF TypeOK
    <3>8. DollarsNeverShrink
        BY <2>2, <3>1 DEF DollarsNeverShrink, AttemptsRead
    <3>9. FinalAnswerStands
      <4>1. shown.status \in Final => shown.outcome = Len(moves) /\ seen.status = shown.status
          BY <1>0, <2>2 DEF ReadInv, ShownKept, TaskRead
      <4> QED
          BY <2>5, <3>1, <4>1 DEF FinalAnswerStands
    <3> QED
        BY <1>2, <3>2, <3>5, <3>7, <3>8, <3>9 DEF WorkInv
  <2> QED
      BY <2>1, <2>6, <2>7
<1> QED
    BY <1>4, <1>5, <1>6, <1>7, <1>8, <1>9 DEF Reader

LEMMA WorkBegins ==
    ASSUME Init
    PROVE  WorkInv
<1>1. /\ status = "queued" /\ attempts = <<>> /\ open = {} /\ filed = {} /\ log = <<>>
      /\ reviews = 0 /\ moves = <<>> /\ told = {} /\ pc = "task"
      /\ route \in {"status", "evidence"} /\ seen = Nothing
      /\ shown = [status |-> "queued", outcome |-> 0, reported |-> View!None,
                  derived |-> View!None]
    BY DEF Init
<1>2. /\ Len(attempts) = 0 /\ DOMAIN attempts = {} /\ attempts \in Seq(View!Usages)
      /\ Len(moves) = 0 /\ moves \in Seq(Statuses)
    BY <1>1, EmptySeq
<1>3. /\ MaxAttempts \in Nat /\ MaxMoves \in Nat /\ MaxReviews \in Nat /\ MaxLines \in Nat
    BY WorkAssumption
<1>4. /\ log \in [DOMAIN attempts -> 0 .. MaxLines]
      /\ kinds \in [DOMAIN attempts -> {"implementation", "coordinator"}]
  <2>1. kinds = <<>>
      BY DEF Init
  <2> QED
      BY <1>1, <1>2, <2>1
<1>5. /\ seen.visited = 0 /\ seen.attempts = <<>> /\ seen.reviews = 0
      /\ seen.documents = {} /\ seen.status = "queued"
    BY <1>1 DEF Nothing
<1>6. TypeOK
    BY <1>1, <1>2, <1>3, <1>4, <1>5 DEF TypeOK, Statuses
<1>7. SeenTypes
  <2>1. View!None \in Int
      BY DEF View!None
  <2> QED
      BY <1>1, <1>2, <2>1, EmptySeq DEF SeenTypes, Nothing, Statuses
<1>8. LedgerKept
    BY <1>1, <1>2 DEF LedgerKept
<1>9. ShownKept
  <2>1. /\ Known(ReportedCosts(attempts)) = {} /\ Known(DerivedCosts(attempts)) = {}
      BY <1>2 DEF Known, ReportedCosts, DerivedCosts
  <2>2. /\ Spent(ReportedCosts(attempts)) = View!None
        /\ Spent(DerivedCosts(attempts)) = View!None
      BY <2>1 DEF Spent
  <2> QED
      BY <1>1, <2>2 DEF ShownKept, Final, View!None
<1>10. ReadInv
    BY <1>1, <1>3, <1>5, <1>9 DEF ReadInv
<1> QED
    BY <1>6, <1>7, <1>8, <1>10 DEF WorkInv

LEMMA WorkRests ==
    ASSUME WorkInv, UNCHANGED vars
    PROVE  WorkInv' /\ DollarsNeverShrink /\ FinalAnswerStands
<1>1. UNCHANGED <<status, attempts, open, kinds, filed, log, reviews, moves, told, route, pc, seen, shown>>
    BY DEF vars, ledgerVars, readerVars
<1>2. TypeOK' /\ SeenTypes'
    BY <1>1 DEF WorkInv, TypeOK, SeenTypes
<1>3. LedgerKept'
    BY <1>1 DEF WorkInv, LedgerKept
<1>4. ReadInv'
    BY <1>1 DEF WorkInv, ReadInv, TaskRead, AttemptsRead, EventsRead, ShownKept
<1>5. shown.reported \in Int /\ shown.derived \in Int
    BY DEF WorkInv, SeenTypes
<1> QED
    BY <1>1, <1>2, <1>3, <1>4, <1>5 DEF WorkInv, DollarsNeverShrink, FinalAnswerStands

\* In every behaviour of the work and of the requests, the ledger and what a response has
\* read of it fit together as WorkInv says: the inductive invariant of the theorems below.
THEOREM ReadsFit == Spec => []WorkInv
<1>1. Init => WorkInv
    BY WorkBegins
<1>2. WorkInv /\ [Next]_vars => WorkInv'
    BY WorkStep, ReaderStep, WorkRests DEF Next
<1> QED
    BY <1>1, <1>2, PTL DEF Spec

\* _cost_projection: actual cents are shown exactly when every attempt has one and the
\* same receipt, and then half a cent at most off their sum; the evidence that is shown
\* covers every attempt whose cost is counted. So it is for any number of attempts.
THEOREM CostAccounted == Spec => []CostIsAccountedFor
<1>1. WorkInv => CostIsAccountedFor
  <2>1. WorkInv => seen.attempts \in Seq(View!Usages)
      BY DEF WorkInv, SeenTypes
  <2> QED
      BY <2>1, CentsOfAnswer, EvidenceOfAnswer
      DEF CostIsAccountedFor, CentsAreBilled, EvidenceCoversCost
<1> QED
    BY <1>1, ReadsFit, PTL

\* _status_response and _evidence_response: the parts of a response agree, although each
\* is read in its own connection while the work goes on: the outcome is of the closing
\* that the status is of, the events tell of each ended attempt and each review, and no
\* document that is shown changes any more.
THEOREM PartsAgree == Spec => []AnswerAgrees
<1>1. WorkInv => OutcomeIsOfThisClosing
    BY OutcomeIs DEF OutcomeIsOfThisClosing
<1>2. WorkInv => DocumentsAreFinal
    BY DEF WorkInv, ReadInv, DocumentsAreFinal
<1>3. WorkInv => EventsExplainEvidence
    BY DEF WorkInv, ReadInv, EventsRead, EventsExplainEvidence
<1> QED
    BY <1>1, <1>2, <1>3, ReadsFit, PTL DEF AnswerAgrees

\* No response takes back what an earlier one showed as settled: no reported or derived
\* dollar, no final status and not its outcome.
THEOREM AnswersAgree == Spec => LaterAnswersAgree
<1>1. WorkInv /\ [Next]_vars => [DollarsNeverShrink /\ FinalAnswerStands]_vars
    BY WorkStep, ReaderStep DEF Next
<1> QED
    BY <1>1, ReadsFit, PTL DEF Spec, LaterAnswersAgree

-----------------------------------------------------------------------------
(* The listing of artifacts.                                               *)

\* The steady files were found where the scan has already been, and all that was found
\* has been read when it is listed; nothing foreign is held open.
TreeInv ==
    /\ Tree!TypeOK
    /\ handle # "foreign"
    /\ \A r \in returned : r[2] = "own"
    /\ \A f \in steady : Tree!Regular(f)
    /\ stage \in {"descend", "within"} => steady \cap Loose \subseteq names
    /\ stage \in {"read", "listed"} => steady \subseteq names
    /\ stage = "listed" => names \subseteq Tree!Read

LEMMA TreeBegins ==
    ASSUME Tree!Init
    PROVE  TreeInv
BY DEF Tree!Init, TreeInv, Tree!TypeOK, Tree!Kinds, Tree!Regular

LEMMA TreeReplaced ==
    ASSUME TreeInv, NEW e \in Tree!Entries, NEW k \in Tree!Kinds, Tree!Replace(e, k)
    PROVE  TreeInv'
<1>1. /\ kind' = [kind EXCEPT ![e] = k] /\ kind \in [Tree!Entries -> Tree!Kinds]
      /\ UNCHANGED <<stage, handle, names, returned>>
      /\ steady' = IF e = Directory THEN steady \ Nested ELSE steady \ {e}
    BY DEF Tree!Replace, Tree!requestVars, TreeInv, Tree!TypeOK
<1>2. Tree!Files \subseteq Tree!Entries /\ Directory \in Tree!Entries /\ Directory \notin Tree!Files
    BY TreeAssumption DEF Tree!Entries, Tree!Files
<1>3. steady' \subseteq steady /\ steady \subseteq Tree!Files
    BY <1>1 DEF TreeInv, Tree!TypeOK
<1>4. Tree!TypeOK'
    BY <1>1, <1>3 DEF TreeInv, Tree!TypeOK
<1>5. ASSUME NEW f \in steady'
      PROVE  Tree!Regular(f)'
  <2>1. kind[f] = "file" /\ (f \in Nested => kind[Directory] = "directory")
      BY <1>3, <1>5 DEF TreeInv, Tree!Regular
  <2>2. f # e /\ (e = Directory => f \notin Nested)
      BY <1>1, <1>2, <1>3, <1>5
  <2>3. kind'[f] = kind[f]
      BY <1>1, <1>2, <1>3, <1>5, <2>2
  <2>4. f \in Nested => kind'[Directory] = kind[Directory]
      BY <1>1, <1>2, <2>2
  <2> QED
      BY <2>1, <2>3, <2>4 DEF Tree!Regular
<1> QED
    BY <1>1, <1>3, <1>4, <1>5 DEF TreeInv, Tree!Read

\* The request: its scan, its reads and its end.
LEMMA TreeScanned ==
    ASSUME TreeInv, Tree!ScanTop \/ Tree!Descend \/ Tree!ScanWithin
    PROVE  TreeInv'
<1>0. UNCHANGED <<kind, steady, handle, returned>>
    BY DEF Tree!ScanTop, Tree!Descend, Tree!ScanWithin, Tree!Refuse
<1>1. \A f \in steady : kind[f] = "file" /\ (f \in Nested => kind[Directory] = "directory")
    BY DEF TreeInv, Tree!Regular
<1>2. steady \subseteq Loose \cup Nested /\ names \subseteq Loose \cup Nested
    BY DEF TreeInv, Tree!TypeOK, Tree!Files
<1>3. \/ stage' = "refused" /\ names' = names
      \/ stage' \in {"descend", "within"} /\ steady \cap Loose \subseteq names' /\ names' \subseteq Loose \cup Nested
      \/ stage' = "read" /\ steady \subseteq names' /\ names' \subseteq Loose \cup Nested
  <2>1. CASE Tree!ScanTop
      BY <1>1, <1>2, <2>1 DEF Tree!ScanTop, Tree!Refuse
  <2>2. CASE Tree!Descend
      BY <1>2, <2>2 DEF Tree!Descend, Tree!Refuse, TreeInv
  <2>3. CASE Tree!ScanWithin
      BY <1>1, <1>2, <2>3 DEF Tree!ScanWithin, TreeInv
  <2> QED
      BY <2>1, <2>2, <2>3
<1>4. Tree!TypeOK'
    BY <1>0, <1>2, <1>3 DEF TreeInv, Tree!TypeOK, Tree!Files
<1>5. \A f \in steady' : Tree!Regular(f)'
    BY <1>0, <1>1 DEF Tree!Regular
<1> QED
    BY <1>0, <1>3, <1>4, <1>5 DEF TreeInv

LEMMA TreeRead ==
    ASSUME TreeInv, Tree!OpenParent \/ (\E f \in Tree!Files : Tree!Fetch(f)) \/ Tree!Listed \/ Tree!AskAgain
    PROVE  TreeInv'
<1>0. UNCHANGED kind
    BY DEF Tree!OpenParent, Tree!Fetch, Tree!Listed, Tree!AskAgain, Tree!Refuse
<1>1. CASE Tree!OpenParent
  <2>1. /\ stage = "read" /\ UNCHANGED <<names, returned, steady>>
        /\ \/ stage' = "refused" /\ handle' = handle
           \/ stage' = "read" /\ handle' = "own"
      BY <1>1 DEF Tree!OpenParent, Tree!Opened, Tree!Refuse
  <2> QED
      BY <1>0, <2>1 DEF TreeInv, Tree!TypeOK, Tree!Regular
<1>2. CASE \E f \in Tree!Files : Tree!Fetch(f)
  <2>1. PICK f \in Tree!Files : Tree!Fetch(f)
      BY <1>2
  <2>2. /\ stage = "read" /\ UNCHANGED <<names, steady>>
        /\ \/ stage' = "refused" /\ UNCHANGED <<handle, returned>>
           \/ stage' = "read" /\ handle' = "none" /\ returned' = returned \cup {<<f, "own">>}
      BY <2>1 DEF Tree!Fetch, Tree!Opened, Tree!Refuse, TreeInv
  <2>3. returned' \subseteq Tree!Files \X {"own", "foreign"} /\ \A r \in returned' : r[2] = "own"
      BY <2>2 DEF TreeInv, Tree!TypeOK
  <2> QED
      BY <1>0, <2>2, <2>3 DEF TreeInv, Tree!TypeOK, Tree!Regular
<1>3. CASE Tree!Listed
  <2>1. /\ stage = "read" /\ stage' = "listed" /\ names \subseteq Tree!Read
        /\ UNCHANGED <<handle, names, returned, steady>>
      BY <1>3 DEF Tree!Listed, Tree!Unread
  <2> QED
      BY <1>0, <2>1 DEF TreeInv, Tree!TypeOK, Tree!Regular, Tree!Read
<1>4. CASE Tree!AskAgain
    BY <1>0, <1>4 DEF Tree!AskAgain, Tree!Request, TreeInv, Tree!TypeOK, Tree!Regular
<1> QED
    BY <1>1, <1>2, <1>3, <1>4

LEMMA TreeStep ==
    ASSUME TreeInv, Tree!Next
    PROVE  TreeInv'
BY TreeReplaced, TreeScanned, TreeRead DEF Tree!Next

LEMMA TreeRests ==
    ASSUME TreeInv, UNCHANGED treeVars
    PROVE  TreeInv'
BY DEF TreeInv, treeVars, Tree!TypeOK, Tree!Regular, Tree!Read

\* All read routes together: what their responses have read fits with the ledger and with
\* the tree of the work item.
THEOREM RoutesFit == ReadsSpec => [](WorkInv /\ TreeInv)
<1>1. ReadsInit => WorkInv /\ TreeInv
    BY WorkBegins, TreeBegins DEF ReadsInit
<1>2. ASSUME WorkInv, TreeInv, [ReadsNext]_<<vars, treeVars>>
      PROVE  WorkInv' /\ TreeInv'
  <2>1. Next \/ UNCHANGED vars
      BY <1>2 DEF ReadsNext
  <2>2. Tree!Next \/ UNCHANGED treeVars
      BY <1>2 DEF ReadsNext
  <2>3. WorkInv'
      BY <1>2, <2>1, WorkStep, ReaderStep, WorkRests DEF Next
  <2> QED
      BY <1>2, <2>2, <2>3, TreeStep, TreeRests
<1> QED
    BY <1>1, <1>2, PTL DEF ReadsSpec

\* Type correctness of the read routes, for any number of attempts, moves, reviews, lines
\* and files.
THEOREM ReadsTypeCorrect == ReadsSpec => []ReadsTypeOK
<1>1. WorkInv /\ TreeInv => ReadsTypeOK
    BY DEF WorkInv, TreeInv, ReadsTypeOK
<1> QED
    BY <1>1, RoutesFit, PTL

\* _artifact_files: whatever the run of the work item replaces between the scan and the
\* reads, nothing is returned but the content of files of its own tree, and no file that
\* was there all the time is left out.
THEOREM ListingHolds == ReadsSpec => []ListingIsOfTheTree
<1>1. TreeInv => ListingIsOfTheTree
    BY DEF TreeInv, ListingIsOfTheTree, Tree!LinksAreNeverFollowed, Tree!SteadyFilesAreListed
<1> QED
    BY <1>1, RoutesFit, PTL
=============================================================================
