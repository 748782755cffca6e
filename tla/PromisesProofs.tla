--------------------------- MODULE PromisesProofs ---------------------------
(***************************************************************************)
(* Proofs about the settlement's planner and the payment promises, in four *)
(* parts: induction over finite sets, and sums as the planner takes them;  *)
(* the plan, as a fold over the usable rows, and what it guarantees; the   *)
(* invariant of the promises; and the properties that follow from it.      *)
(*                                                                         *)
(* The plan is defined with a fold that recurs over a set of receipts.     *)
(* Nothing here takes its value on trust: SmallestSet is the induction,    *)
(* PlannerIs shows that the fold satisfies its own equation, and           *)
(* PlanIsSound carries what a plan guarantees from row to row.             *)
(***************************************************************************)
EXTENDS Promises, FiniteSetTheorems, WellFoundedInduction, TLAPS

-----------------------------------------------------------------------------
(* Induction, without an operator for the hypothesis: whatever fails, fails *)
(* first somewhere.                                                        *)

\* A set of numbers that is not empty has a least one.
LEMMA LeastNumber ==
    ASSUME NEW T, T \subseteq Nat, T # {}
    PROVE  \E n \in T : \A m \in T : n <= m
<1> DEFINE Less == {ss \in Nat \X Nat : ss[1] < ss[2]}
<1>1. IsWellFoundedOn(Less, Nat)
  BY ONLY NatLessThanWellFounded DEF OpToRel
<1> HIDE DEF Less
<1>2. \A m, n \in Nat : m < n => <<m, n>> \in Less
  BY DEF Less
<1>3. PICK n \in T : \A m \in T : <<m, n>> \notin Less
  BY <1>1, WFMin
<1>4. \A m \in T : n <= m
  <2> TAKE m \in T
  <2>1. m \in Nat /\ n \in Nat /\ ~ (m < n)
    BY <1>2, <1>3
  <2> QED
    BY <2>1
<1> QED
  BY <1>3, <1>4

\* Among finite sets there is one of which no other is a part.
LEMMA SmallestSet ==
    ASSUME NEW F, F # {}, \A s \in F : IsFiniteSet(s)
    PROVE  \E s \in F : \A t \in F : t \subseteq s => t = s
<1> DEFINE T == {Cardinality(s) : s \in F}
<1>1. T \subseteq Nat /\ T # {}
  BY FS_CardinalityType
<1>2. PICK n \in T : \A m \in T : n <= m
  BY <1>1, LeastNumber
<1>3. PICK s \in F : n = Cardinality(s)
  BY <1>2
<1>4. ASSUME NEW t \in F, t \subseteq s PROVE t = s
  <2>1. Cardinality(s) <= Cardinality(t) /\ Cardinality(s) \in Nat /\ Cardinality(t) \in Nat
    BY <1>2, <1>3, FS_CardinalityType
  <2>2. Cardinality(t) <= Cardinality(s) /\ (Cardinality(s) = Cardinality(t) => s = t)
    BY <1>4, FS_Subset
  <2> QED
    BY <2>1, <2>2
<1> QED
  BY <1>4

\* A way of picking an element from each part of a set, and a step to take with it.
Foldable(U, D, base, pick, step) ==
    /\ IsFiniteSet(U) /\ base \in D
    /\ pick \in [(SUBSET U) \ {{}} -> U] /\ \A s \in (SUBSET U) \ {{}} : pick[s] \in s
    /\ step \in [U \X D -> D]

Folded(f, U, base, pick, step) ==
    \A s \in SUBSET U : f[s] = IF s = {} THEN base ELSE step[<<pick[s], f[s \ {pick[s]}]>>]

\* They define a fold over the parts of the set.
LEMMA FoldExists ==
    ASSUME NEW U, NEW D, NEW base, NEW pick, NEW step, Foldable(U, D, base, pick, step)
    PROVE  \E f \in [SUBSET U -> D] : Folded(f, U, base, pick, step)
<1> USE DEF Foldable, Folded
<1> DEFINE Parts(n) == {s \in SUBSET U : Cardinality(s) <= n}
           Folds(f, n) == \A s \in Parts(n) :
              f[s] = IF s = {} THEN base ELSE step[<<pick[s], f[s \ {pick[s]}]>>]
           Fails == {n \in Nat : ~ \E f \in [Parts(n) -> D] : Folds(f, n)}
<1>1. \A s \in SUBSET U : IsFiniteSet(s) /\ Cardinality(s) \in Nat
  BY FS_Subset, FS_CardinalityType
<1>2. Fails = {}
  <2> SUFFICES ASSUME Fails # {} PROVE FALSE
    OBVIOUS
  <2>1. PICK n \in Fails : \A m \in Fails : n <= m
    BY LeastNumber
  <2>2. CASE n = 0
    <3>1. \A s \in Parts(n) : s = {}
      BY <1>1, <2>2, FS_EmptySet
    <3>2. [s \in Parts(n) |-> base] \in [Parts(n) -> D] /\ Folds([s \in Parts(n) |-> base], n)
      BY <3>1
    <3> QED
      BY <3>2
  <2>3. CASE n # 0
    <3>0. n \in Nat /\ n - 1 \in Nat /\ ~ (n <= n - 1)
      BY <2>3
    <3>1. n - 1 \notin Fails
      <4> HIDE DEF Fails
      <4> QED
        BY <2>1, <3>0
    <3>2. PICK f \in [Parts(n - 1) -> D] : Folds(f, n - 1)
      BY <3>0, <3>1
    <3> DEFINE g == [s \in Parts(n) |-> IF s = {} THEN base ELSE step[<<pick[s], f[s \ {pick[s]}]>>]]
    <3>3. \A s \in Parts(n) : s # {} => pick[s] \in s /\ s \ {pick[s]} \in Parts(n - 1)
      <4> SUFFICES ASSUME NEW s \in Parts(n), s # {}
                   PROVE  pick[s] \in s /\ s \ {pick[s]} \in Parts(n - 1)
        OBVIOUS
      <4>1. pick[s] \in s
        OBVIOUS
      <4>2. Cardinality(s \ {pick[s]}) = Cardinality(s) - 1
        BY <1>1, <4>1, FS_RemoveElement
      <4> QED
        BY <1>1, <3>0, <4>1, <4>2
    <3>4. Parts(n - 1) \subseteq Parts(n)
      BY <1>1, <3>0
    <3>5. \A s \in Parts(n - 1) : g[s] = f[s]
      BY <3>2, <3>4
    <3>6. g \in [Parts(n) -> D]
      BY <3>2, <3>3
    <3>7. Folds(g, n)
      BY <3>3, <3>5
    <3> QED
      BY <3>6, <3>7
  <2> QED
    BY <2>2, <2>3
<1>3. Cardinality(U) \in Nat /\ Parts(Cardinality(U)) = SUBSET U
  BY <1>1, FS_Subset, FS_CardinalityType
<1>4. PICK f \in [Parts(Cardinality(U)) -> D] : Folds(f, Cardinality(U))
  BY <1>2, <1>3
<1> QED
  BY <1>3, <1>4

-----------------------------------------------------------------------------
(* The sum of the amounts of a set.                                        *)

Measured(A) == IsFiniteSet(A) /\ \A a \in A : a.amount \in Nat

\* One element of a set, as the sum picks it.
Any(s) == CHOOSE x \in s : TRUE
SumStep(f, s) == IF s = {} THEN 0 ELSE Any(s).amount + f[s \ {Any(s)}]
SumOver(A) == CHOOSE f : f = [s \in SUBSET A |-> SumStep(f, s)]

\* The sum of a set is what the recursion below it says of the whole set.
LEMMA AmountOfIs == ASSUME NEW A PROVE AmountOf(A) = SumOver(A)[A]
  BY Zenon DEF AmountOf, MapThenSumSet, MapThenFoldSet, SumOver, SumStep, Any

\* A part of a finite set of amounts is one.
LEMMA PartsMeasured == ASSUME NEW A, Measured(A), NEW B, B \subseteq A PROVE Measured(B)
  BY FS_Subset DEF Measured

\* The sum over the parts of a set is well defined.
LEMMA SumOverIs ==
    ASSUME NEW A, Measured(A)
    PROVE  /\ SumOver(A) \in [SUBSET A -> Nat]
           /\ \A s \in SUBSET A : SumOver(A)[s] = SumStep(SumOver(A), s)
<1>1. \A s \in (SUBSET A) \ {{}} : Any(s) \in s /\ Any(s) \in A
  BY DEF Any
<1> DEFINE pick == [s \in (SUBSET A) \ {{}} |-> Any(s)]
           step == [x \in A \X Nat |-> x[1].amount + x[2]]
<1>2. Foldable(A, Nat, 0, pick, step)
  BY <1>1 DEF Measured, Foldable
<1> HIDE DEF pick, step
<1>3. PICK f \in [SUBSET A -> Nat] : Folded(f, A, 0, pick, step)
  BY <1>2, FoldExists
<1>4. \A s \in SUBSET A : f[s] = SumStep(f, s)
  <2> SUFFICES ASSUME NEW s \in SUBSET A PROVE f[s] = SumStep(f, s)
    OBVIOUS
  <2>1. CASE s = {}
    BY <2>1, <1>3 DEF SumStep, Folded
  <2>2. CASE s # {}
    <3>1. pick[s] = Any(s) /\ Any(s) \in A /\ s \ {Any(s)} \in SUBSET A
      BY <2>2, <1>1 DEF pick
    <3>2. f[s] = step[<<Any(s), f[s \ {Any(s)}]>>]
      BY <2>2, <3>1, <1>3 DEF Folded
    <3> QED
      BY <2>2, <3>1, <3>2 DEF step, SumStep
  <2> QED
    BY <2>1, <2>2
<1>5. f = [s \in SUBSET A |-> SumStep(f, s)]
  BY <1>4
<1>6. SumOver(A) = [s \in SUBSET A |-> SumStep(SumOver(A), s)]
  BY <1>5 DEF SumOver
<1> DEFINE h == SumOver(A)
<1> HIDE DEF h
<1>7. \A s \in SUBSET A : h[s] = SumStep(h, s)
  BY <1>6 DEF h
<1>8. \A s \in SUBSET A : h[s] = f[s]
  <2> DEFINE F == {s \in SUBSET A : h[s] # f[s]}
  <2> SUFFICES ASSUME F # {} PROVE FALSE
    OBVIOUS
  <2>1. \A s \in F : IsFiniteSet(s)
    BY FS_Subset DEF Measured
  <2> HIDE DEF F
  <2>2. PICK s \in F : \A t \in F : t \subseteq s => t = s
    BY <2>1, SmallestSet
  <2> USE DEF F
  <2>3. s # {}
    BY <1>4, <1>7 DEF SumStep
  <2>4. Any(s) \in s /\ s \ {Any(s)} \in SUBSET A /\ s \ {Any(s)} # s
    BY <2>3, <1>1
  <2>5. h[s \ {Any(s)}] = f[s \ {Any(s)}]
    BY <2>2, <2>4
  <2> QED
    BY <2>3, <2>5, <1>4, <1>7 DEF SumStep
<1>9. h \in [SUBSET A -> Nat]
  BY <1>6, <1>8 DEF h
<1> QED
  BY <1>7, <1>9 DEF h

\* The sum of a part is what the sum over the whole says of it.
LEMMA SumOfPart ==
    ASSUME NEW A, Measured(A), NEW B, B \subseteq A
    PROVE  AmountOf(B) = SumOver(A)[B]
<1> DEFINE F == {s \in SUBSET B : SumOver(B)[s] # SumOver(A)[s]}
<1>1. \A s \in SUBSET B : /\ SumOver(B)[s] = SumStep(SumOver(B), s)
                          /\ SumOver(A)[s] = SumStep(SumOver(A), s)
  BY PartsMeasured, SumOverIs
<1>2. F = {}
  <2> SUFFICES ASSUME F # {} PROVE FALSE
    OBVIOUS
  <2>1. \A s \in F : IsFiniteSet(s)
    BY FS_Subset DEF Measured
  <2> HIDE DEF F
  <2>2. PICK s \in F : \A t \in F : t \subseteq s => t = s
    BY <2>1, SmallestSet
  <2> USE DEF F
  <2>3. s # {}
    BY <1>1 DEF SumStep
  <2>4. Any(s) \in s /\ s \ {Any(s)} \in SUBSET B /\ s \ {Any(s)} # s
    BY <2>3 DEF Any
  <2>5. SumOver(B)[s \ {Any(s)}] = SumOver(A)[s \ {Any(s)}]
    BY <2>2, <2>4
  <2> QED
    BY <2>3, <2>5, <1>1 DEF SumStep
<1> QED
  BY <1>2, AmountOfIs

\* A sum is a number.
LEMMA SumType == ASSUME NEW A, Measured(A) PROVE AmountOf(A) \in Nat
BY SumOverIs, AmountOfIs

\* The sum of nothing is nothing.
LEMMA SumOfNone == AmountOf({}) = 0
<1>1. Measured({})
  BY FS_EmptySet DEF Measured
<1> QED
  BY <1>1, SumOverIs, AmountOfIs DEF SumStep

\* Any element may be taken first: the sum does not depend on the order.
LEMMA SumTakes ==
    ASSUME NEW A, Measured(A), NEW a \in A
    PROVE  AmountOf(A) = a.amount + AmountOf(A \ {a})
<1> DEFINE f == SumOver(A)
           Odd(s) == \E x \in s : f[s] # x.amount + f[s \ {x}]
           F == {s \in SUBSET A : Odd(s)}
<1>1. f \in [SUBSET A -> Nat] /\ \A s \in SUBSET A : f[s] = SumStep(f, s)
  BY SumOverIs
<1>0. \A x \in A : x.amount \in Nat
  BY DEF Measured
<1> HIDE DEF f
<1>2. F = {}
  <2> SUFFICES ASSUME F # {} PROVE FALSE
    OBVIOUS
  <2>1. \A s \in F : IsFiniteSet(s)
    BY FS_Subset DEF Measured
  <2> HIDE DEF F
  <2>2. PICK s \in F : \A t \in F : t \subseteq s => t = s
    BY <2>1, SmallestSet
  <2> USE DEF F
  <2>3. PICK x \in s : f[s] # x.amount + f[s \ {x}]
    OBVIOUS
  <2> DEFINE y == Any(s)
  <2>4. y \in s /\ f[s] = y.amount + f[s \ {y}]
    BY <2>3, <1>1 DEF SumStep, Any
  <2> HIDE DEF y
  <2>5. y # x
    BY <2>3, <2>4
  <2>6. f[s \ {y}] = x.amount + f[(s \ {y}) \ {x}]
    BY <2>2, <2>4, <2>5
  <2>7. f[s \ {x}] = y.amount + f[(s \ {x}) \ {y}]
    BY <2>2, <2>4, <2>5
  <2>8. (s \ {x}) \ {y} = (s \ {y}) \ {x}
    OBVIOUS
  <2>9. f[(s \ {x}) \ {y}] = f[(s \ {y}) \ {x}]
    BY ONLY <2>8, Zenon
  <2>10. f[(s \ {y}) \ {x}] \in Nat /\ x.amount \in Nat /\ y.amount \in Nat
    BY <1>0, <1>1, <2>4
  <2> HIDE DEF F
  <2> QED
    BY <2>3, <2>4, <2>6, <2>7, <2>9, <2>10
<1>3. f[A] = a.amount + f[A \ {a}]
  BY <1>2
<1> QED
  BY <1>3, SumOfPart DEF f

\* The sum of two sets with nothing in common is the sum of their sums.
LEMMA SumAdds ==
    ASSUME NEW A, NEW B, Measured(A), Measured(B), A \cap B = {}
    PROVE  Measured(A \cup B) /\ AmountOf(A \cup B) = AmountOf(A) + AmountOf(B)
<1>1. Measured(A \cup B)
  BY FS_Union DEF Measured
<1> DEFINE F == {C \in SUBSET B : AmountOf(A \cup C) # AmountOf(A) + AmountOf(C)}
<1>2. F = {}
  <2> SUFFICES ASSUME F # {} PROVE FALSE
    OBVIOUS
  <2>1. \A s \in F : IsFiniteSet(s)
    BY FS_Subset DEF Measured
  <2> HIDE DEF F
  <2>2. PICK s \in F : \A t \in F : t \subseteq s => t = s
    BY <2>1, SmallestSet
  <2> USE DEF F
  <2>3. s # {}
    <3>1. A \cup {} = A
      OBVIOUS
    <3> QED
      BY <3>1, SumOfNone, SumType
  <2>4. PICK x \in s : TRUE
    BY <2>3
  <2>5. Measured(s) /\ Measured(A \cup s) /\ Measured(s \ {x}) /\ x.amount \in Nat
    BY <1>1, PartsMeasured DEF Measured
  <2>6. AmountOf(s) = x.amount + AmountOf(s \ {x})
    BY <2>5, SumTakes
  <2>7. (A \cup s) \ {x} = A \cup (s \ {x})
    OBVIOUS
  <2>8. AmountOf(A \cup s) = x.amount + AmountOf(A \cup (s \ {x}))
    BY <2>5, <2>7, SumTakes
  <2>9. AmountOf(A \cup (s \ {x})) = AmountOf(A) + AmountOf(s \ {x})
    BY <2>2
  <2> QED
    BY <2>2, <2>5, <2>6, <2>8, <2>9, SumType
<1> QED
  BY <1>1, <1>2

\* A part sums to no more than the whole.
LEMMA SumGrows ==
    ASSUME NEW A, Measured(A), NEW B, B \subseteq A
    PROVE  AmountOf(B) <= AmountOf(A)
<1>1. Measured(B) /\ Measured(A \ B)
  BY PartsMeasured
<1>2. A = B \cup (A \ B) /\ B \cap (A \ B) = {}
  OBVIOUS
<1>3. AmountOf(A) = AmountOf(B) + AmountOf(A \ B)
  BY <1>1, <1>2, SumAdds
<1> QED
  BY <1>1, <1>3, SumType

\* The parts of a sum: a promise's, and a receipt's.
LEMMA PartSums ==
    ASSUME NEW A, Measured(A), NEW x
    PROVE  /\ Measured({a \in A : a.promise = x}) /\ Measured({a \in A : a.receipt = x})
           /\ ToPromise(A, x) \in Nat /\ FromReceipt(A, x) \in Nat
<1>1. Measured({a \in A : a.promise = x}) /\ Measured({a \in A : a.receipt = x})
  BY PartsMeasured
<1> QED
  BY <1>1, SumType DEF ToPromise, FromReceipt

\* One more allocation adds its amount to its promise's sum, and to no other's.
LEMMA ToPromiseAdds ==
    ASSUME NEW A, Measured(A), NEW n, n \notin A, n.amount \in Nat, NEW q
    PROVE  /\ Measured(A \cup {n})
           /\ ToPromise(A \cup {n}, q) = ToPromise(A, q) + (IF n.promise = q THEN n.amount ELSE 0)
<1>1. Measured({n}) /\ AmountOf({n}) = n.amount
  <2>1. Measured({n}) /\ {n} \ {n} = {}
    BY FS_Singleton DEF Measured
  <2>2. AmountOf({n}) = n.amount + AmountOf({n} \ {n})
    BY <2>1, SumTakes
  <2>3. AmountOf({n} \ {n}) = 0
    BY <2>1, SumOfNone
  <2> QED
    BY <2>1, <2>2, <2>3
<1>2. Measured(A \cup {n})
  BY <1>1, SumAdds
<1> DEFINE B == {a \in A : a.promise = q}
<1>3. Measured(B) /\ AmountOf(B) \in Nat /\ AmountOf(B) = ToPromise(A, q)
  BY PartSums DEF ToPromise
<1>4. CASE n.promise = q
  <2>1. {a \in A \cup {n} : a.promise = q} = B \cup {n} /\ B \cap {n} = {}
    BY <1>4
  <2>2. AmountOf(B \cup {n}) = AmountOf(B) + AmountOf({n})
    BY <1>1, <1>3, <2>1, SumAdds
  <2>3. ToPromise(A \cup {n}, q) = AmountOf(B \cup {n})
    BY <2>1 DEF ToPromise
  <2> QED
    BY <1>1, <1>2, <1>3, <1>4, <2>2, <2>3
<1>5. CASE n.promise # q
  <2>1. {a \in A \cup {n} : a.promise = q} = B
    BY <1>5
  <2>2. ToPromise(A \cup {n}, q) = AmountOf(B)
    BY <2>1 DEF ToPromise
  <2> QED
    BY <1>2, <1>3, <1>5, <2>2
<1> QED
  BY <1>4, <1>5

\* The sum of a promise in two sets that have no allocation of it in common.
LEMMA ToPromiseJoins ==
    ASSUME NEW A, NEW B, Measured(A), Measured(B), NEW q,
           \A a \in A : a.promise = q => a \notin B
    PROVE  ToPromise(A \cup B, q) = ToPromise(A, q) + ToPromise(B, q)
<1> DEFINE X == {a \in A : a.promise = q}
           Y == {a \in B : a.promise = q}
<1>1. {a \in A \cup B : a.promise = q} = X \cup Y /\ X \cap Y = {}
  OBVIOUS
<1>2. Measured(X) /\ Measured(Y)
  BY PartSums
<1>3. AmountOf(X \cup Y) = AmountOf(X) + AmountOf(Y)
  BY <1>1, <1>2, SumAdds
<1> QED
  BY <1>1, <1>3 DEF ToPromise

-----------------------------------------------------------------------------
(* The plan, as a fold.                                                     *)

Usable(book, shown, spent, time) ==
    {r \in Distinct(shown) :
        /\ Group(r) \notin Blocked(book, shown, spent)
        /\ Day(r.at) <= Day(time)
        /\ Left(spent, r) > 0}
Take(book, spent, time, selected, r, P) ==
    P \cup {Allot(book, spent, P, r, p) :
               p \in {q \in OnlyCandidate(book, spent, P, r) :
                         q \in selected /\ After(book[q], r, time)}}
PlanStep(book, spent, time, selected, f, s) ==
    IF s = {} THEN {} ELSE Take(book, spent, time, selected, Last(s), f[s \ {Last(s)}])
Planner(book, shown, spent, time, selected) ==
    CHOOSE f : f = [s \in SUBSET Usable(book, shown, spent, time) |->
                       PlanStep(book, spent, time, selected, f, s)]

\* The plan is the planner's fold, taken over all the usable rows.
LEMMA PlanIs ==
    ASSUME NEW book, NEW shown, NEW spent, NEW time, NEW selected
    PROVE  Plan(book, shown, spent, time, selected)
             = Planner(book, shown, spent, time, selected)[Usable(book, shown, spent, time)]
BY Zenon DEF Plan, MapThenFoldSet, Planner, PlanStep, Take, Usable

\* What the planner relies on: the rows of a receipt book, the promises and the
\* allocations made so far.
RowsSound(shown) ==
    /\ IsFiniteSet(shown)
    /\ \A r \in shown : r.key \in Nat /\ r.amount \in Nat /\ Day(r.at) \in Int
BookSound(book) == \A p \in DOMAIN book : book[p].expected \in Nat

\* There is a last row in the planner's order, and it is one of the rows.
LEMMA LastIsIn ==
    ASSUME NEW shown, RowsSound(shown), shown # {}
    PROVE  Last(shown) \in shown
<1> DEFINE Ends(s, x) == \A y \in s : Day(y.at) < Day(x.at) \/ (Day(y.at) = Day(x.at) /\ y.key <= x.key)
           F == {s \in SUBSET shown : s # {} /\ ~ \E x \in s : Ends(s, x)}
<1>1. F = {}
  <2> SUFFICES ASSUME F # {} PROVE FALSE
    OBVIOUS
  <2>1. \A s \in F : IsFiniteSet(s)
    BY FS_Subset DEF RowsSound
  <2> HIDE DEF F
  <2>2. PICK s \in F : \A t \in F : t \subseteq s => t = s
    BY <2>1, SmallestSet
  <2> USE DEF F
  <2>3. PICK x \in s : TRUE
    OBVIOUS
  <2>4. \A y \in s : y.key \in Nat /\ Day(y.at) \in Int
    BY DEF RowsSound
  <2>5. CASE s \ {x} = {}
    <3>1. \A y \in s : y = x
      BY <2>5
    <3>2. Ends(s, x)
      BY <2>4, <3>1
    <3> QED
      BY <3>2
  <2>6. CASE s \ {x} # {}
    <3>1. s \ {x} \notin F
      BY <2>2, <2>3
    <3>2. PICK z \in s \ {x} : Ends(s \ {x}, z)
      BY <3>1, <2>6
    <3>3. CASE Day(x.at) < Day(z.at) \/ (Day(x.at) = Day(z.at) /\ x.key <= z.key)
      <4>1. Ends(s, z)
        BY <3>2, <3>3
      <4> QED
        BY <4>1
    <3>4. CASE ~ (Day(x.at) < Day(z.at) \/ (Day(x.at) = Day(z.at) /\ x.key <= z.key))
      <4>1. Ends(s, x)
        <5> TAKE y \in s
        <5>1. CASE y = x
          BY <2>4, <5>1
        <5>2. CASE y # x
          BY <2>4, <3>2, <3>4, <5>2
        <5> QED
          BY <5>1, <5>2
      <4> QED
        BY <4>1
    <3> QED
      BY <3>3, <3>4
  <2> QED
    BY <2>5, <2>6
<1>2. \E x \in shown : Ends(shown, x)
  BY <1>1
<1> QED
  BY <1>2 DEF Last

\* Identical rows count once: of each receipt one row is left.
LEMMA DistinctRows ==
    ASSUME NEW shown
    PROVE  /\ Distinct(shown) \subseteq shown
           /\ \A r, q \in Distinct(shown) : r.key = q.key => r = q
<1> DEFINE Of(k) == CHOOSE r \in shown : r.key = k
<1>1. \A k \in {x.key : x \in shown} : Of(k) \in shown /\ Of(k).key = k
  OBVIOUS
<1>2. Distinct(shown) = {Of(k) : k \in {x.key : x \in shown}}
  BY DEF Distinct
<1> QED
  BY <1>1, <1>2

\* The allocations a plan over the usable rows U may hold.
Allotments(book, U) ==
    [promise : DOMAIN book, receipt : {r.key : r \in U}, of : {r.amount : r \in U},
     day : {Day(r.at) : r \in U}, customer : {r.customer : r \in U},
     currency : {r.currency : r \in U}, amount : Nat \ {0}]
Drafts(book, U) == {P \in SUBSET Allotments(book, U) : IsFiniteSet(P)}

\* The rows a plan is made from.
RowsUsable(spent, U) ==
    /\ RowsSound(U)
    /\ \A r, q \in U : r.key = q.key => r = q
    /\ \A r \in U : Left(spent, r) \in Nat \ {0}

\* The amounts of a plan under way can be summed.
LEMMA DraftsMeasured ==
    ASSUME NEW book, NEW U, NEW P \in Drafts(book, U)
    PROVE  Measured(P)
BY DEF Drafts, Allotments, Measured

\* A receipt is given whole, as far as it goes, to the one promise it can be for, or
\* to nobody.
LEMMA TakesOne ==
    ASSUME NEW book, NEW spent, NEW time, NEW selected, NEW r, NEW P
    PROVE  \/ Take(book, spent, time, selected, r, P) = P
           \/ \E p \in DOMAIN book :
                 /\ Candidates(book, spent, P, r) = {p}
                 /\ Take(book, spent, time, selected, r, P) = P \cup {Allot(book, spent, P, r, p)}
<1> DEFINE given == {q \in OnlyCandidate(book, spent, P, r) :
                        q \in selected /\ After(book[q], r, time)}
<1>1. \A p \in given : p \in DOMAIN book /\ Candidates(book, spent, P, r) = {p}
  BY DEF OnlyCandidate, Candidates
<1>2. Take(book, spent, time, selected, r, P)
        = P \cup {Allot(book, spent, P, r, p) : p \in given}
  BY DEF Take
<1> HIDE DEF given
<1>3. CASE given = {}
  BY <1>2, <1>3
<1>4. CASE given # {}
  <2>1. PICK p \in given : TRUE
    BY <1>4
  <2>2. \A q \in given : q = p
    BY <1>1, <2>1
  <2>3. {Allot(book, spent, P, r, q) : q \in given} = {Allot(book, spent, P, r, p)}
    BY <2>1, <2>2
  <2> QED
    BY <1>1, <1>2, <2>1, <2>3
<1> QED
  BY <1>3, <1>4

\* What it gets is within what the receipt has left and what the promise lacks.
LEMMA AllotFits ==
    ASSUME NEW book, BookSound(book), NEW spent, Measured(spent), NEW U, RowsUsable(spent, U),
           NEW P \in Drafts(book, U), NEW r \in U,
           NEW p \in DOMAIN book, Candidates(book, spent, P, r) = {p}
    PROVE  LET n == Allot(book, spent, P, r, p) IN
           /\ n \in Allotments(book, U)
           /\ n.promise = p /\ n.receipt = r.key /\ n.of = r.amount /\ n.day = Day(r.at)
           /\ n.customer = r.customer /\ n.currency = r.currency
           /\ n.amount <= Left(spent, r)
           /\ ToPromise(spent, p) + ToPromise(P, p) + n.amount <= book[p].expected
           /\ Group(book[p]) = Group(r)
<1> DEFINE n == Allot(book, spent, P, r, p)
<1>1. /\ Group(book[p]) = Group(r)
      /\ book[p].expected > ToPromise(spent, p) + ToPromise(P, p)
  BY DEF Candidates
<1>2. /\ ToPromise(spent, p) \in Nat /\ ToPromise(P, p) \in Nat
      /\ book[p].expected \in Nat /\ Left(spent, r) \in Nat \ {0}
  BY DraftsMeasured, PartSums DEF BookSound, RowsUsable
<1>3. n.amount = Lesser(Left(spent, r), book[p].expected - (ToPromise(spent, p) + ToPromise(P, p)))
  BY DEF Allot
<1>4. /\ n.amount \in Nat \ {0} /\ n.amount <= Left(spent, r)
      /\ ToPromise(spent, p) + ToPromise(P, p) + n.amount <= book[p].expected
  BY <1>1, <1>2, <1>3 DEF Lesser
<1>5. n \in Allotments(book, U)
  BY <1>4 DEF Allot, Allotments
<1> QED
  BY <1>1, <1>4, <1>5 DEF Allot

\* A step of the planner makes a draft of a draft.
LEMMA TakeDrafts ==
    ASSUME NEW book, BookSound(book), NEW spent, Measured(spent), NEW U, RowsUsable(spent, U),
           NEW P \in Drafts(book, U), NEW r \in U, NEW time, NEW selected
    PROVE  Take(book, spent, time, selected, r, P) \in Drafts(book, U)
<1>1. CASE Take(book, spent, time, selected, r, P) = P
  BY <1>1
<1>2. ASSUME NEW p \in DOMAIN book, Candidates(book, spent, P, r) = {p},
             Take(book, spent, time, selected, r, P) = P \cup {Allot(book, spent, P, r, p)}
      PROVE  Take(book, spent, time, selected, r, P) \in Drafts(book, U)
  <2>1. Allot(book, spent, P, r, p) \in Allotments(book, U)
    BY <1>2, AllotFits
  <2>2. IsFiniteSet(P \cup {Allot(book, spent, P, r, p)})
    BY FS_AddElement DEF Drafts
  <2> QED
    BY <1>2, <2>1, <2>2 DEF Drafts
<1> QED
  BY <1>1, <1>2, TakesOne

\* The planner's fold goes through the usable rows from the last to the first.
IsFold(book, U, spent, time, selected, f) ==
    /\ f \in [SUBSET U -> Drafts(book, U)]
    /\ \A s \in SUBSET U : f[s] = PlanStep(book, spent, time, selected, f, s)

\* The fold exists, and the planner is that fold: it satisfies its own equation.
LEMMA PlannerIs ==
    ASSUME NEW book, BookSound(book), NEW shown, NEW spent, Measured(spent), NEW time, NEW selected,
           RowsUsable(spent, Usable(book, shown, spent, time))
    PROVE  IsFold(book, Usable(book, shown, spent, time), spent, time, selected,
                  Planner(book, shown, spent, time, selected))
<1> DEFINE U == Usable(book, shown, spent, time)
           D == Drafts(book, U)
           pick == [s \in (SUBSET U) \ {{}} |-> Last(s)]
           step == [x \in U \X D |-> Take(book, spent, time, selected, x[1], x[2])]
           Step(f, s) == PlanStep(book, spent, time, selected, f, s)
<1> HIDE DEF U
<1>1. RowsUsable(spent, U) /\ IsFiniteSet(U)
  BY DEF U, RowsUsable, RowsSound
<1>2. \A s \in (SUBSET U) \ {{}} : Last(s) \in s /\ Last(s) \in U
  <2> TAKE s \in (SUBSET U) \ {{}}
  <2>1. RowsSound(s)
    BY <1>1, FS_Subset DEF RowsUsable, RowsSound
  <2> QED
    BY <2>1, LastIsIn
<1>3. {} \in D
  BY FS_EmptySet DEF Drafts
<1>4. step \in [U \X D -> D]
  BY <1>1, TakeDrafts
<1>5. Foldable(U, D, {}, pick, step)
  <2> HIDE DEF step, D
  <2> QED
    BY <1>1, <1>2, <1>3, <1>4 DEF Foldable
<1> HIDE DEF pick, step, D
<1>6. PICK f \in [SUBSET U -> D] : Folded(f, U, {}, pick, step)
  BY <1>5, FoldExists
<1>7. \A s \in SUBSET U : f[s] = Step(f, s)
  <2> TAKE s \in SUBSET U
  <2>1. CASE s = {}
    BY <2>1, <1>6 DEF PlanStep, Folded
  <2>2. CASE s # {}
    <3>1. pick[s] = Last(s) /\ Last(s) \in U /\ s \ {Last(s)} \in SUBSET U
      BY <2>2, <1>2 DEF pick
    <3>2. f[s] = step[<<Last(s), f[s \ {Last(s)}]>>] /\ f[s \ {Last(s)}] \in D
      BY <2>2, <3>1, <1>6 DEF Folded
    <3>3. f[s] = Take(book, spent, time, selected, Last(s), f[s \ {Last(s)}])
      BY <3>1, <3>2 DEF step
    <3> QED
      BY <2>2, <3>3 DEF PlanStep
  <2> QED
    BY <2>1, <2>2
<1> DEFINE h == Planner(book, shown, spent, time, selected)
<1>8. h = [s \in SUBSET U |-> Step(h, s)]
  <2>1. f = [s \in SUBSET U |-> Step(f, s)]
    BY <1>6, <1>7
  <2> QED
    BY <2>1 DEF U, Planner
<1> HIDE DEF h
<1>9. \A s \in SUBSET U : h[s] = Step(h, s)
  BY <1>8
<1>10. \A s \in SUBSET U : h[s] = f[s]
  <2> DEFINE F == {s \in SUBSET U : h[s] # f[s]}
  <2> SUFFICES ASSUME F # {} PROVE FALSE
    OBVIOUS
  <2>1. \A s \in F : IsFiniteSet(s)
    BY <1>1, FS_Subset
  <2> HIDE DEF F
  <2>2. PICK s \in F : \A t \in F : t \subseteq s => t = s
    BY <2>1, SmallestSet
  <2> USE DEF F
  <2>3. s # {}
    BY <1>7, <1>9 DEF PlanStep
  <2>4. s \ {Last(s)} \in SUBSET U /\ s \ {Last(s)} # s
    BY <2>3, <1>2
  <2>5. h[s \ {Last(s)}] = f[s \ {Last(s)}]
    BY <2>2, <2>4
  <2> QED
    BY <2>3, <2>5, <1>7, <1>9 DEF PlanStep
<1>11. h \in [SUBSET U -> D]
  BY <1>6, <1>8, <1>10
<1> QED
  BY <1>9, <1>11 DEF h, U, D, IsFold

\* What a plan made from the rows s says of its allocations.
FromRows(spent, s, P) ==
    \A n \in P : \E r \in s :
       /\ n.receipt = r.key /\ n.of = r.amount /\ n.day = Day(r.at)
       /\ n.customer = r.customer /\ n.currency = r.currency
       /\ n.amount <= Left(spent, r)
OnePerReceipt(P) == \A m, n \in P : m.receipt = n.receipt => m = n
WithinExpected(book, spent, P) ==
    \A n \in P :
       /\ Group(book[n.promise]) = Group(n)
       /\ ToPromise(spent, n.promise) + ToPromise(P, n.promise) <= book[n.promise].expected
NobodyElse(book, spent, P) ==
    \A n \in P : \A q \in DOMAIN book \ {n.promise} :
       /\ Group(book[q]) = Group(n) /\ book[q].promisedOn <= n.day /\ book[q].status \in Eligible
       => ToPromise(spent, q) + ToPromise(P, q) >= book[q].expected
PlanSound(book, spent, s, P) ==
    /\ FromRows(spent, s, P) /\ OnePerReceipt(P)
    /\ WithinExpected(book, spent, P) /\ NobodyElse(book, spent, P)

\* A step of the planner keeps it so.
LEMMA TakeSound ==
    ASSUME NEW book, BookSound(book), NEW spent, Measured(spent), NEW U, RowsUsable(spent, U),
           NEW s \in SUBSET U, NEW r \in U, r \notin s, NEW P \in Drafts(book, U),
           PlanSound(book, spent, s, P), NEW time, NEW selected
    PROVE  PlanSound(book, spent, s \cup {r}, Take(book, spent, time, selected, r, P))
<1>1. CASE Take(book, spent, time, selected, r, P) = P
  BY <1>1 DEF PlanSound, FromRows
<1>2. ASSUME NEW p \in DOMAIN book, Candidates(book, spent, P, r) = {p},
             Take(book, spent, time, selected, r, P) = P \cup {Allot(book, spent, P, r, p)}
      PROVE  PlanSound(book, spent, s \cup {r}, Take(book, spent, time, selected, r, P))
  <2> DEFINE n == Allot(book, spent, P, r, p)
             Q == P \cup {n}
  <2>1. /\ n \in Allotments(book, U)
        /\ n.promise = p /\ n.receipt = r.key /\ n.of = r.amount /\ n.day = Day(r.at)
        /\ n.customer = r.customer /\ n.currency = r.currency
        /\ n.amount <= Left(spent, r)
        /\ ToPromise(spent, p) + ToPromise(P, p) + n.amount <= book[p].expected
        /\ Group(book[p]) = Group(r)
    BY <1>2, AllotFits
  <2> HIDE DEF n
  <2>2. n.amount \in Nat \ {0}
    BY <2>1 DEF Allotments
  <2>3. \A m \in P : m.receipt # n.receipt
    <3> TAKE m \in P
    <3>1. PICK q \in s : m.receipt = q.key
      BY DEF PlanSound, FromRows
    <3>2. q \in U /\ q # r
      OBVIOUS
    <3> QED
      BY <2>1, <3>1, <3>2 DEF RowsUsable
  <2>4. n \notin P /\ Measured(P)
    BY <2>3, DraftsMeasured
  <2>5. \A q : /\ ToPromise(Q, q) = ToPromise(P, q) + (IF n.promise = q THEN n.amount ELSE 0)
               /\ ToPromise(P, q) \in Nat /\ ToPromise(spent, q) \in Nat
    BY <2>2, <2>4, ToPromiseAdds, PartSums
  <2> HIDE DEF Q
  <2>6. FromRows(spent, s \cup {r}, Q)
    <3>1. \A m \in P : \E x \in s \cup {r} :
             /\ m.receipt = x.key /\ m.of = x.amount /\ m.day = Day(x.at)
             /\ m.customer = x.customer /\ m.currency = x.currency
             /\ m.amount <= Left(spent, x)
      BY DEF PlanSound, FromRows
    <3>2. \E x \in s \cup {r} :
             /\ n.receipt = x.key /\ n.of = x.amount /\ n.day = Day(x.at)
             /\ n.customer = x.customer /\ n.currency = x.currency
             /\ n.amount <= Left(spent, x)
      BY <2>1
    <3> QED
      BY <3>1, <3>2 DEF FromRows, Q
  <2>7. OnePerReceipt(Q)
    BY <2>3 DEF PlanSound, OnePerReceipt, Q
  <2>8. \A m \in P : m.promise \in DOMAIN book
    BY DEF Drafts, Allotments
  <2>9. WithinExpected(book, spent, Q)
    <3> SUFFICES ASSUME NEW m \in Q
                 PROVE  /\ Group(book[m.promise]) = Group(m)
                        /\ ToPromise(spent, m.promise) + ToPromise(Q, m.promise)
                             <= book[m.promise].expected
      BY DEF WithinExpected
    <3>1. Group(book[m.promise]) = Group(m)
      <4>1. CASE m \in P
        BY <4>1 DEF PlanSound, WithinExpected
      <4>2. CASE m = n
        BY <2>1, <4>2 DEF Group
      <4> QED
        BY <4>1, <4>2 DEF Q
    <3>2. CASE m.promise = p
      <4>1. ToPromise(Q, p) = ToPromise(P, p) + n.amount
        BY <2>1, <2>5
      <4>2. book[p].expected \in Nat
        BY DEF BookSound
      <4>3. ToPromise(spent, p) + ToPromise(Q, p) <= book[p].expected
        BY <2>1, <2>2, <2>5, <4>1, <4>2
      <4> QED
        BY <3>1, <3>2, <4>3
    <3>3. CASE m.promise # p
      <4>1. m \in P
        BY <2>1, <3>3 DEF Q
      <4>2. ToPromise(Q, m.promise) = ToPromise(P, m.promise)
        BY <2>1, <2>5, <3>3
      <4>3. ToPromise(spent, m.promise) + ToPromise(P, m.promise) <= book[m.promise].expected
        BY <4>1 DEF PlanSound, WithinExpected
      <4> QED
        BY <3>1, <4>2, <4>3
    <3> QED
      BY <3>2, <3>3
  <2>10. NobodyElse(book, spent, Q)
    <3> SUFFICES ASSUME NEW m \in Q, NEW q \in DOMAIN book \ {m.promise},
                        Group(book[q]) = Group(m), book[q].promisedOn <= m.day,
                        book[q].status \in Eligible
                 PROVE  ToPromise(spent, q) + ToPromise(Q, q) >= book[q].expected
      BY DEF NobodyElse
    <3>1. ToPromise(Q, q) >= ToPromise(P, q)
      BY <2>2, <2>5
    <3>2. book[q].expected \in Nat /\ ToPromise(Q, q) \in Nat
      BY <2>2, <2>5 DEF BookSound
    <3>3. ToPromise(spent, q) + ToPromise(P, q) >= book[q].expected
      <4>1. CASE m \in P
        BY <4>1 DEF PlanSound, NobodyElse
      <4>2. CASE m = n
        <5>1. q # p /\ Group(book[q]) = Group(r) /\ book[q].promisedOn <= Day(r.at)
          BY <2>1, <4>2 DEF Group
        <5>2. q \notin Candidates(book, spent, P, r)
          BY <1>2, <5>1
        <5>3. ~ (book[q].expected > ToPromise(spent, q) + ToPromise(P, q))
          BY <5>1, <5>2 DEF Candidates
        <5> QED
          BY <2>5, <3>2, <5>3
      <4> QED
        BY <4>1, <4>2 DEF Q
    <3> QED
      BY <2>5, <3>1, <3>2, <3>3
  <2>11. PlanSound(book, spent, s \cup {r}, Q)
    BY <2>6, <2>7, <2>9, <2>10 DEF PlanSound
  <2>12. Take(book, spent, time, selected, r, P) = Q
    BY <1>2 DEF Q, n
  <2> QED
    BY <2>11, <2>12
<1>3. CASE Take(book, spent, time, selected, r, P) # P
  <2>1. PICK p \in DOMAIN book :
           /\ Candidates(book, spent, P, r) = {p}
           /\ Take(book, spent, time, selected, r, P) = P \cup {Allot(book, spent, P, r, p)}
    BY <1>3, TakesOne
  <2> QED
    BY <1>2, <2>1
<1> QED
  BY <1>1, <1>3

\* So is the plan as a whole.
LEMMA PlanIsSound ==
    ASSUME NEW book, BookSound(book), NEW shown, NEW spent, Measured(spent), NEW time, NEW selected,
           RowsUsable(spent, Usable(book, shown, spent, time))
    PROVE  LET U == Usable(book, shown, spent, time)
               P == Plan(book, shown, spent, time, selected) IN
           P \in Drafts(book, U) /\ PlanSound(book, spent, U, P)
<1> DEFINE U == Usable(book, shown, spent, time)
           f == Planner(book, shown, spent, time, selected)
           F == {s \in SUBSET U : ~ PlanSound(book, spent, s, f[s])}
<1>1. /\ f \in [SUBSET U -> Drafts(book, U)]
      /\ \A s \in SUBSET U : f[s] = PlanStep(book, spent, time, selected, f, s)
  <2> HIDE DEF F
  <2>1. IsFold(book, U, spent, time, selected, f)
    BY PlannerIs
  <2> HIDE DEF U, f
  <2> QED
    BY <2>1 DEF IsFold
<1>2. RowsUsable(spent, U)
  OBVIOUS
<1> HIDE DEF U, f
<1>3. F = {}
  <2> SUFFICES ASSUME F # {} PROVE FALSE
    OBVIOUS
  <2>1. \A s \in F : IsFiniteSet(s)
    BY <1>2, FS_Subset DEF RowsUsable, RowsSound
  <2> HIDE DEF F
  <2>2. PICK s \in F : \A t \in F : t \subseteq s => t = s
    BY <2>1, SmallestSet
  <2> USE DEF F
  <2>3. s # {}
    <3>1. PlanSound(book, spent, {}, {})
      BY DEF PlanSound, FromRows, OnePerReceipt, WithinExpected, NobodyElse
    <3>2. f[{}] = {}
      BY <1>1 DEF PlanStep
    <3> QED
      BY <3>1, <3>2
  <2> DEFINE r == Last(s)
             t == s \ {r}
  <2>4. r \in s
    <3>1. RowsSound(s)
      BY <1>2, <2>1 DEF RowsUsable, RowsSound
    <3> QED
      BY <2>3, <3>1, LastIsIn
  <2>5. f[s] = Take(book, spent, time, selected, r, f[t])
    BY <1>1, <2>3 DEF PlanStep
  <2> HIDE DEF r
  <2>6. t \in SUBSET U /\ r \in U /\ r \notin t /\ t \cup {r} = s /\ t # s
    BY <2>4
  <2>7. PlanSound(book, spent, t, f[t]) /\ f[t] \in Drafts(book, U)
    BY <1>1, <2>2, <2>6
  <2> HIDE DEF t, F
  <2>8. PlanSound(book, spent, t \cup {r}, Take(book, spent, time, selected, r, f[t]))
    BY <1>2, <2>6, <2>7, TakeSound
  <2> QED
    BY <2>5, <2>6, <2>8 DEF F
<1>4. Plan(book, shown, spent, time, selected) = f[U]
  BY PlanIs DEF U, f
<1> QED
  BY <1>1, <1>3, <1>4 DEF U

-----------------------------------------------------------------------------
(* The tables and what the handlers remember.                              *)

Statuses == Open \cup Final \cup {"absent"}
Terms == [customer : Customers, collector : Collectors, currency : Currencies,
          promisedOn : PromiseDates, createdAt : Nat]
TaskRows == [promise : Promises, type : {"promise_due", "promise_escalation"},
             status : {"open", "done", "escalated"}, due : Nat]

Merges == [from : Customers, to : Customers, promises : SUBSET Promises, receipts : SUBSET Nat,
           holders : SUBSET Collectors, taken : BOOLEAN, until : Nat]

PromisesTyped ==
    /\ now \in Nat
    /\ status \in [Promises -> Statuses]
    /\ terms \in [Promises -> Terms \cup {None}]
    /\ due \in [Promises -> DueDates \cup {None}]
    /\ expected \in [Promises -> Nat] /\ fulfilled \in [Promises -> Nat]
    /\ missed \in [Promises -> DueDates \cup {None}]
    /\ tasks \in Seq(TaskRows)
    /\ rows \subseteq BookRows /\ IsFiniteSet(rows)
    /\ merges \subseteq Merges
    /\ reminders \in [Promises \X Days -> Nat]

Allocated(A) == Measured(A) /\ \A a \in A : a.promise \in Promises

\* A promise that exists has its terms and a due date.
Dated == \A p \in Promises : Exists(p) => due[p] \in DueDates /\ terms[p] \in Terms

\* A merge has moved promises that exist, and may move them back.
Movable == \A g \in merges : \A p \in g.promises : Exists(p)

Tables == PromisesTyped /\ Allocated(alloc) /\ Dated /\ Movable

Ops ==
    {Idle} \cup {[phase |-> "swept"]}
    \cup [phase : {"create"}, customer : Customers, collector : Collectors, currency : Currencies,
          due : DueDates, amount : Amounts, from : PromiseDates, status : Open]
    \cup [phase : {"update"}, promise : Promises, due : DueDates \cup {None},
          amount : Amounts \cup {None}, status : Open \cup {None}]
    \cup {o \in [phase : {"set"}, promise : Promises,
                 to : Final \cup {"partially_fulfilled", "postponed"},
                 due : DueDates \cup {None}, paid : Nat \cup {None}] :
             o.to = "postponed" => o.due # None}
    \cup [phase : {"sweep"}, today : Nat, todo : SUBSET (Promises \X DueDates)]
    \cup [phase : {"remind"}, day : Nat, todo : SUBSET Promises, one : Promises \cup {None},
          waking : SUBSET Promises]

\* What a handler is about to write to is there.
Knows(o, st) ==
    /\ o.phase \in {"update", "set"} => st[o.promise] # "absent"
    /\ o.phase = "remind" => \A p \in o.waking : st[p] # "absent"

Handling == op \in [Slots -> Ops] /\ \A s \in Slots : Knows(op[s], status)

PromisesInv == Tables /\ Handling /\ FinalLeavesNoWork

\* The day of an instant.
LEMMA DayIsNat == ASSUME NEW t \in Nat PROVE Day(t) \in Nat
BY TicksAssumption DEF Day

\* Due dates are days, and NULL is none of them.
LEMMA DatesAreNat == DueDates \subseteq Nat /\ PromiseDates \subseteq Nat /\ None \notin DueDates
BY ChoicesAssumption

\* A row of the books is a receipt's, whoever has the receipt now.
LEMMA BookRow ==
    ASSUME NEW r \in BookRows
    PROVE  /\ r.key \in Nat /\ r.amount \in Nat \ {0} /\ r.at \in Nat
           /\ \A c \in Customers : Local(r) => [r EXCEPT !.customer = c] \in BookRows
<1>1. CASE r \in ReceiptRows
  BY <1>1, RowsAssumption DEF BookRows, Local
<1>2. CASE r \in {[q EXCEPT !.customer = c] : q \in {x \in ReceiptRows : Local(x)}, c \in Customers}
  <2>1. PICK q \in ReceiptRows, d \in Customers : Local(q) /\ r = [q EXCEPT !.customer = d]
    BY <1>2
  <2>2. /\ {"key", "customer", "currency", "amount", "at", "precision"} = DOMAIN q
        /\ q.amount \in Nat \ {0} /\ q.at \in 0 .. MaxTime /\ q.key \in Nat
    BY RowsAssumption
  <2>3. r.key = q.key /\ r.amount = q.amount /\ r.at = q.at
    BY <2>1, <2>2
  <2>4. \A c \in Customers : [r EXCEPT !.customer = c] = [q EXCEPT !.customer = c]
    BY <2>1, <2>2
  <2>5. \A c \in Customers : [q EXCEPT !.customer = c] \in BookRows
    BY <2>1 DEF BookRows
  <2>6. r.at \in Nat
    BY <2>2, <2>3
  <2> QED
    BY <2>2, <2>3, <2>4, <2>5, <2>6
<1> QED
  BY <1>1, <1>2 DEF BookRows

\* The empty tables satisfy the invariant.
LEMMA PromisesInitially == Init => PromisesInv
<1> SUFFICES ASSUME Init PROVE PromisesInv
  OBVIOUS
<1>1. PromisesTyped
  BY FS_EmptySet DEF Init, PromisesTyped, Statuses
<1>2. Allocated(alloc) /\ Dated /\ Movable
  BY FS_EmptySet DEF Init, Allocated, Measured, Dated, Movable, Exists
<1>3. Handling
  BY DEF Init, Handling, Ops, Idle, Knows
<1>4. FinalLeavesNoWork
  BY DEF Init, FinalLeavesNoWork
<1> QED
  BY <1>1, <1>2, <1>3, <1>4 DEF PromisesInv, Tables

\* A handler that takes another step remembers something sound; the others are not
\* touched, and what they know of stays.
LEMMA HandlingKeeps ==
    ASSUME Handling, NEW s \in Slots, NEW o \in Ops, Knows(o, status'), Become(s, o),
           \A p \in Promises : Exists(p) => Exists(p)'
    PROVE  Handling'
<1>1. op' \in [Slots -> Ops]
  BY DEF Handling, Become
<1>2. ASSUME NEW t \in Slots PROVE Knows(op'[t], status')
  <2>1. CASE t = s
    BY <2>1 DEF Handling, Become
  <2>2. CASE t # s
    <3>1. op'[t] = op[t] /\ op[t] \in Ops /\ Knows(op[t], status)
      BY <2>2 DEF Handling, Become
    <3>2. op[t].phase \in {"update", "set"} => op[t].promise \in Promises
      BY <3>1 DEF Ops, Idle
    <3>3. op[t].phase = "remind" => op[t].waking \subseteq Promises
      BY <3>1 DEF Ops, Idle
    <3> QED
      BY <3>1, <3>2, <3>3 DEF Knows, Exists
  <2> QED
    BY <2>1, <2>2
<1> QED
  BY <1>1, <1>2 DEF Handling

\* A step of nobody's handler leaves what the handlers know.
LEMMA HandlingStays ==
    ASSUME Handling, UNCHANGED op, \A p \in Promises : Exists(p) => Exists(p)'
    PROVE  Handling'
<1>1. ASSUME NEW t \in Slots PROVE Knows(op'[t], status')
  <2>1. op'[t] = op[t] /\ op[t] \in Ops /\ Knows(op[t], status)
    BY DEF Handling
  <2>2. op[t].phase \in {"update", "set"} => op[t].promise \in Promises
    BY <2>1 DEF Ops, Idle
  <2>3. op[t].phase = "remind" => op[t].waking \subseteq Promises
    BY <2>1 DEF Ops, Idle
  <2> QED
    BY <2>1, <2>2, <2>3 DEF Knows, Exists
<1> QED
  BY <1>1 DEF Handling

\* What a merge has moved stays there where nothing is merged.
LEMMA MovableStays ==
    ASSUME PromisesTyped, Movable, UNCHANGED merges, \A p \in Promises : Exists(p) => Exists(p)'
    PROVE  Movable'
<1>1. \A g \in merges : g.promises \subseteq Promises
  BY DEF PromisesTyped, Merges
<1> QED
  BY <1>1 DEF Movable

\* A step that only reads.
LEMMA ReadKeeps ==
    ASSUME PromisesInv, NEW s \in Slots, NEW o \in Ops, Knows(o, status), Become(s, o), ReadOnly
    PROVE  PromisesInv'
<1>1. Tables' /\ FinalLeavesNoWork'
  BY DEF PromisesInv, Tables, PromisesTyped, Allocated, Dated, Movable, Exists, ReadOnly, promises,
         FinalLeavesNoWork
<1>2. Handling'
  BY HandlingKeeps DEF PromisesInv, ReadOnly, promises, Knows, Exists
<1> QED
  BY <1>1, <1>2 DEF PromisesInv

-----------------------------------------------------------------------------
(* What an UPDATE of tasks leaves of them.                                 *)

\* The same tasks, none of them opened again, those of some promises all closed.
Rewritten(new, seq, closed) ==
    /\ new \in Seq(TaskRows) /\ DOMAIN new = DOMAIN seq
    /\ \A i \in DOMAIN seq :
          /\ new[i].promise = seq[i].promise /\ new[i].type = seq[i].type
          /\ new[i].status = "open" => seq[i].status = "open" /\ seq[i].promise \notin closed

\* An update of tasks is sound when it is row by row.
LEMMA RowByRow ==
    ASSUME NEW seq \in Seq(TaskRows), NEW new, new = [i \in DOMAIN seq |-> new[i]], NEW closed,
           \A i \in DOMAIN seq :
              /\ new[i] \in TaskRows
              /\ new[i].promise = seq[i].promise /\ new[i].type = seq[i].type
              /\ new[i].status = "open" => seq[i].status = "open" /\ seq[i].promise \notin closed
    PROVE  Rewritten(new, seq, closed)
BY DEF Rewritten

\* Closing a customer's due work.
LEMMA DueWorkCloses ==
    ASSUME NEW seq \in Seq(TaskRows), NEW c, NEW k
    PROVE  Rewritten(Close(seq, LAMBDA t : DueToday(c, k, t), "done"), seq, {})
<1> DEFINE new == [i \in DOMAIN seq |-> IF DueToday(c, k, seq[i])
                                       THEN [seq[i] EXCEPT !.status = "done"] ELSE seq[i]]
<1>1. \A i \in DOMAIN seq : seq[i] \in TaskRows
  OBVIOUS
<1>2. \A i \in DOMAIN seq :
         /\ new[i] \in TaskRows
         /\ new[i].promise = seq[i].promise /\ new[i].type = seq[i].type
         /\ new[i].status = "open" => seq[i].status = "open" /\ seq[i].promise \notin {}
  BY <1>1 DEF TaskRows
<1>3. new = [i \in DOMAIN seq |-> new[i]]
  OBVIOUS
<1> HIDE DEF new
<1>4. Rewritten(new, seq, {})
  BY <1>2, <1>3, RowByRow
<1> QED
  BY <1>4 DEF Close, Updated, new

\* Escalating the open tasks of a promise.
LEMMA WorkEscalates ==
    ASSUME NEW seq \in Seq(TaskRows), NEW p
    PROVE  Rewritten(Close(seq, LAMBDA t : OpenOf(p, t), "escalated"), seq, {p})
<1> DEFINE new == [i \in DOMAIN seq |-> IF OpenOf(p, seq[i])
                                       THEN [seq[i] EXCEPT !.status = "escalated"] ELSE seq[i]]
<1>1. \A i \in DOMAIN seq : seq[i] \in TaskRows
  OBVIOUS
<1>2. \A i \in DOMAIN seq :
         /\ new[i] \in TaskRows
         /\ new[i].promise = seq[i].promise /\ new[i].type = seq[i].type
         /\ new[i].status = "open" => seq[i].status = "open" /\ seq[i].promise \notin {p}
  BY <1>1 DEF TaskRows, OpenOf
<1>3. new = [i \in DOMAIN seq |-> new[i]]
  OBVIOUS
<1> HIDE DEF new
<1>4. Rewritten(new, seq, {p})
  BY <1>2, <1>3, RowByRow
<1> QED
  BY <1>4 DEF Close, Updated, new

\* Closing or escalating them as the promise becomes final (Finished).
LEMMA FinishedCloses ==
    ASSUME NEW seq \in Seq(TaskRows), NEW p, NEW to
    PROVE  Rewritten(Finished(seq, p, to), seq, {p})
<1> DEFINE as == IF to = "unfulfilled" THEN "escalated" ELSE "done"
           new == [i \in DOMAIN seq |-> IF OpenOf(p, seq[i])
                                       THEN [seq[i] EXCEPT !.status = as] ELSE seq[i]]
<1>1. \A i \in DOMAIN seq : seq[i] \in TaskRows
  OBVIOUS
<1>2. \A i \in DOMAIN seq :
         /\ new[i] \in TaskRows
         /\ new[i].promise = seq[i].promise /\ new[i].type = seq[i].type
         /\ new[i].status = "open" => seq[i].status = "open" /\ seq[i].promise \notin {p}
  BY <1>1 DEF TaskRows, OpenOf
<1>3. new = [i \in DOMAIN seq |-> new[i]]
  OBVIOUS
<1> HIDE DEF new
<1>4. Rewritten(new, seq, {p})
  BY <1>2, <1>3, RowByRow
<1> QED
  BY <1>4 DEF Finished, Close, Updated, new

\* Moving the due task with the promise (Reschedule).
LEMMA RescheduleMoves ==
    ASSUME NEW seq \in Seq(TaskRows), NEW p, NEW d \in Nat
    PROVE  Rewritten(Reschedule(seq, p, d), seq, {})
<1> DEFINE new == [i \in DOMAIN seq |-> IF OpenOf(p, seq[i]) /\ seq[i].type = "promise_due"
                                       THEN [seq[i] EXCEPT !.due = d] ELSE seq[i]]
<1>1. \A i \in DOMAIN seq : seq[i] \in TaskRows
  OBVIOUS
<1>2. \A i \in DOMAIN seq :
         /\ new[i] \in TaskRows
         /\ new[i].promise = seq[i].promise /\ new[i].type = seq[i].type
         /\ new[i].status = "open" => seq[i].status = "open" /\ seq[i].promise \notin {}
  BY <1>1 DEF TaskRows, OpenOf
<1>3. new = [i \in DOMAIN seq |-> new[i]]
  OBVIOUS
<1> HIDE DEF new
<1>4. Rewritten(new, seq, {})
  BY <1>2, <1>3, RowByRow
<1> QED
  BY <1>4 DEF Reschedule, Updated, new

\* Closing the tasks of the promises a settlement paid.
LEMMA PaidWorkCloses ==
    ASSUME NEW seq \in Seq(TaskRows), NEW paid
    PROVE  Rewritten(Close(seq, LAMBDA t : t.promise \in paid /\ t.status \in {"open", "escalated"},
                           "done"), seq, paid)
<1> DEFINE new == [i \in DOMAIN seq |->
                      IF seq[i].promise \in paid /\ seq[i].status \in {"open", "escalated"}
                      THEN [seq[i] EXCEPT !.status = "done"] ELSE seq[i]]
<1>1. \A i \in DOMAIN seq : seq[i] \in TaskRows
  OBVIOUS
<1>2. \A i \in DOMAIN seq :
         /\ new[i] \in TaskRows
         /\ new[i].promise = seq[i].promise /\ new[i].type = seq[i].type
         /\ new[i].status = "open" => seq[i].status = "open" /\ seq[i].promise \notin paid
  BY <1>1 DEF TaskRows
<1>3. new = [i \in DOMAIN seq |-> new[i]]
  OBVIOUS
<1> HIDE DEF new
<1>4. Rewritten(new, seq, paid)
  BY <1>2, <1>3, RowByRow
<1> QED
  BY <1>4 DEF Close, Updated, new

\* The tasks stay in order when the promises that reach a final status are among
\* those whose tasks were closed.
LEMMA WorkKept ==
    ASSUME FinalLeavesNoWork, tasks \in Seq(TaskRows), NEW new, NEW closed,
           Rewritten(new, tasks, closed), tasks' = new,
           \A p \in Promises : p \in closed \/ status'[p] \in Open \/ status'[p] = status[p]
    PROVE  FinalLeavesNoWork'
<1> SUFFICES ASSUME NEW i \in DOMAIN new
             PROVE  /\ status'[new[i].promise] \in {"fulfilled", "cancelled_approved"}
                         => new[i].status # "open"
                    /\ status'[new[i].promise] = "unfulfilled" /\ new[i].status = "open"
                         => new[i].type = "promise_escalation"
  BY DEF FinalLeavesNoWork
<1>0. i \in DOMAIN tasks /\ tasks[i] \in TaskRows
  BY DEF Rewritten
<1>1. /\ i \in DOMAIN tasks /\ tasks[i].promise \in Promises
      /\ new[i].promise = tasks[i].promise /\ new[i].type = tasks[i].type
      /\ new[i].status = "open" => tasks[i].status = "open" /\ tasks[i].promise \notin closed
  BY <1>0 DEF Rewritten, TaskRows
<1>2. /\ status[tasks[i].promise] \in {"fulfilled", "cancelled_approved"} => tasks[i].status # "open"
      /\ status[tasks[i].promise] = "unfulfilled" /\ tasks[i].status = "open"
           => tasks[i].type = "promise_escalation"
  BY <1>1 DEF FinalLeavesNoWork
<1> QED
  BY <1>1, <1>2 DEF Open

\* The same with a task appended: the due task of an open promise, or an escalation.
LEMMA WorkAdded ==
    ASSUME FinalLeavesNoWork, tasks \in Seq(TaskRows), NEW new, NEW closed,
           Rewritten(new, tasks, closed), NEW n \in TaskRows, tasks' = Append(new, n),
           \A p \in Promises : p \in closed \/ status'[p] \in Open \/ status'[p] = status[p],
           \/ status'[n.promise] \in Open
           \/ n.type = "promise_escalation" /\ status'[n.promise] = "unfulfilled"
    PROVE  FinalLeavesNoWork' /\ tasks' \in Seq(TaskRows)
<1>0. new \in Seq(TaskRows) /\ DOMAIN new = 1 .. Len(new) /\ DOMAIN new = DOMAIN tasks
  BY DEF Rewritten
<1>1. /\ tasks' \in Seq(TaskRows) /\ DOMAIN tasks' = 1 .. Len(new) + 1
      /\ \A i \in DOMAIN tasks' : (i \in DOMAIN new /\ tasks'[i] = new[i]) \/ tasks'[i] = n
  BY <1>0
<1>2. ASSUME NEW i \in DOMAIN tasks'
      PROVE  /\ status'[tasks'[i].promise] \in {"fulfilled", "cancelled_approved"}
                  => tasks'[i].status # "open"
             /\ status'[tasks'[i].promise] = "unfulfilled" /\ tasks'[i].status = "open"
                  => tasks'[i].type = "promise_escalation"
  <2>1. CASE i \in DOMAIN new /\ tasks'[i] = new[i]
    <3>0. i \in DOMAIN tasks /\ tasks[i] \in TaskRows
      BY <2>1, <1>0
    <3>1. /\ i \in DOMAIN tasks /\ tasks[i].promise \in Promises
          /\ new[i].promise = tasks[i].promise /\ new[i].type = tasks[i].type
          /\ new[i].status = "open" => tasks[i].status = "open" /\ tasks[i].promise \notin closed
      BY <2>1, <3>0 DEF Rewritten, TaskRows
    <3>2. /\ status[tasks[i].promise] \in {"fulfilled", "cancelled_approved"}
               => tasks[i].status # "open"
          /\ status[tasks[i].promise] = "unfulfilled" /\ tasks[i].status = "open"
               => tasks[i].type = "promise_escalation"
      BY <3>1 DEF FinalLeavesNoWork
    <3> QED
      BY <2>1, <3>1, <3>2 DEF Open
  <2>2. CASE tasks'[i] = n
    BY <2>2 DEF Open
  <2> QED
    BY <1>1, <2>1, <2>2
<1> QED
  BY <1>1, <1>2 DEF FinalLeavesNoWork

-----------------------------------------------------------------------------
(* Settlement.                                                             *)

\* What the tables hold is what the planner relies on.
LEMMA PlannerFits ==
    ASSUME Tables
    PROVE  /\ BookSound(Book) /\ Measured(alloc) /\ Measured(Loaded) /\ Loaded \subseteq alloc
           /\ RowsUsable(Loaded, Usable(Book, rows, Loaded, now))
           /\ Usable(Book, rows, Loaded, now) \subseteq rows
<1> DEFINE U == Usable(Book, rows, Loaded, now)
<1>1. BookSound(Book)
  BY DEF Tables, PromisesTyped, Book, BookSound
<1>2. Measured(alloc) /\ Measured(Loaded) /\ Loaded \subseteq alloc
  BY PartsMeasured DEF Tables, Allocated, Loaded
<1>3. U \subseteq Distinct(rows) /\ \A r \in U : Left(Loaded, r) > 0
  BY DEF Usable
<1> HIDE DEF U
<1>4. U \subseteq rows /\ \A r, q \in U : r.key = q.key => r = q
  BY <1>3, DistinctRows
<1>5. \A r \in rows : r.key \in Nat /\ r.amount \in Nat /\ r.at \in Nat
  BY BookRow DEF Tables, PromisesTyped
<1>6. RowsSound(U)
  BY <1>4, <1>5, DayIsNat, FS_Subset DEF RowsSound, Tables, PromisesTyped
<1>7. \A r \in U : Left(Loaded, r) \in Nat \ {0}
  <2> TAKE r \in U
  <2>1. FromReceipt(Loaded, r.key) \in Nat /\ r.amount \in Nat /\ Left(Loaded, r) > 0
    BY <1>2, <1>3, <1>4, <1>5, PartSums
  <2> QED
    BY <2>1 DEF Left
<1> QED
  BY <1>1, <1>2, <1>4, <1>6, <1>7 DEF RowsUsable, U

\* The plan of any settlement.
Planned(new) ==
    LET U == Usable(Book, rows, Loaded, now) IN
    new \in Drafts(Book, U) /\ PlanSound(Book, Loaded, U, new)

\* Whatever promises are selected, their plan is such a plan.
LEMMA PlanIsPlanned ==
    ASSUME Tables, NEW selected
    PROVE  Planned(Plan(Book, rows, Loaded, now, selected))
BY PlannerFits, PlanIsSound DEF Planned

\* An allocation of a plan is for a promise there is, from a row now visible.
LEMMA PlannedRows ==
    ASSUME Tables, NEW new, Planned(new), NEW n \in new
    PROVE  /\ n.promise \in Promises /\ Exists(n.promise) /\ n.amount \in Nat \ {0}
           /\ \E r \in rows : /\ r \in Usable(Book, rows, Loaded, now)
                              /\ n.receipt = r.key /\ n.of = r.amount /\ n.day = Day(r.at)
                              /\ Group(n) = Group(r) /\ n.amount <= Left(Loaded, r)
<1>1. n.promise \in DOMAIN Book /\ n.amount \in Nat \ {0}
  BY DEF Planned, Drafts, Allotments
<1>2. PICK r \in Usable(Book, rows, Loaded, now) :
         /\ n.receipt = r.key /\ n.of = r.amount /\ n.day = Day(r.at)
         /\ n.customer = r.customer /\ n.currency = r.currency
         /\ n.amount <= Left(Loaded, r)
  BY DEF Planned, PlanSound, FromRows
<1>3. Usable(Book, rows, Loaded, now) \subseteq rows
  BY PlannerFits
<1> QED
  BY <1>1, <1>2, <1>3 DEF Book, Group

\* With a plan the allocations stay well formed.
LEMMA PlannedAllocated ==
    ASSUME Tables, NEW new, Planned(new)
    PROVE  /\ Measured(new) /\ Allocated(alloc \cup new)
           /\ Measured(Loaded \cup new) /\ Loaded \cup new \subseteq alloc \cup new
<1>1. Measured(new) /\ Measured(alloc) /\ Measured(Loaded) /\ Loaded \subseteq alloc
  BY DraftsMeasured, PlannerFits DEF Planned
<1>2. Measured(alloc \cup new) /\ Measured(Loaded \cup new)
  BY <1>1, FS_Union DEF Measured
<1>3. \A a \in new : a.promise \in Promises
  BY PlannedRows
<1> QED
  BY <1>1, <1>2, <1>3 DEF Tables, Allocated

\* Of an undivided receipt and promise the planner has read every allocation.
LEMMA UndividedIsLoaded ==
    ASSUME Tables, NEW new, Planned(new), NEW n \in new, Undivided(n)
    PROVE  /\ FromReceipt(alloc, n.receipt) = FromReceipt(Loaded, n.receipt)
           /\ ToPromise(alloc, n.promise) = ToPromise(Loaded, n.promise)
           /\ \A a \in alloc : a.receipt = n.receipt => a \in Loaded /\ Group(a) = Group(n)
<1>1. n.promise \in Promises /\ Exists(n.promise) /\ Group(Book[n.promise]) = Group(n)
  BY PlannedRows DEF Planned, PlanSound, WithinExpected
<1>2. terms[n.promise].customer = n.customer
  BY <1>1 DEF Book, Group
<1>3. \A a \in alloc : a.receipt = n.receipt \/ a.promise = n.promise => a \in Loaded /\ Group(a) = Group(n)
  <2> SUFFICES ASSUME NEW a \in alloc, a.receipt = n.receipt \/ a.promise = n.promise
               PROVE  a \in Loaded /\ Group(a) = Group(n)
    OBVIOUS
  <2>1. Group(a) = Group(n)
    BY DEF Undivided
  <2>2. a.customer = n.customer
    BY <2>1 DEF Group
  <2> QED
    BY <1>1, <1>2, <2>1, <2>2 DEF Loaded
<1>4. Loaded \subseteq alloc
  BY PlannerFits
<1>5. /\ {a \in alloc : a.receipt = n.receipt} = {a \in Loaded : a.receipt = n.receipt}
      /\ {a \in alloc : a.promise = n.promise} = {a \in Loaded : a.promise = n.promise}
  BY <1>3, <1>4
<1> QED
  BY <1>3, <1>5 DEF FromReceipt, ToPromise

\* The planner never proposes what the guard on the table would refuse, unless a merge
\* has divided the receipt or the promise.
LEMMA PlannedFits ==
    ASSUME Tables, NEW new, Planned(new), NEW n \in new, Undivided(n)
    PROVE  Accepted(Book, alloc, new, n)
<1>1. PICK r \in rows :
         /\ r \in Usable(Book, rows, Loaded, now)
         /\ n.receipt = r.key /\ n.of = r.amount /\ n.day = Day(r.at)
         /\ Group(n) = Group(r) /\ n.amount <= Left(Loaded, r)
  BY PlannedRows
<1>2. n.amount \in Nat \ {0} /\ n.of \in Nat /\ FromReceipt(Loaded, r.key) \in Nat
  BY <1>1, PlannedRows, PlannerFits, PartSums, BookRow DEF Tables, PromisesTyped
<1>3. Left(Loaded, r) = n.of - FromReceipt(Loaded, r.key)
  BY <1>1 DEF Left
<1>4. 0 < n.amount /\ n.amount <= n.of
  BY <1>1, <1>2, <1>3
<1>5. FromReceipt(new, n.receipt) = n.amount
  <2>1. {a \in new : a.receipt = n.receipt} = {n}
    BY DEF Planned, PlanSound, OnePerReceipt
  <2>2. Measured({n}) /\ {n} \ {n} = {}
    BY <1>2, FS_Singleton DEF Measured
  <2>3. AmountOf({n}) = n.amount + AmountOf({n} \ {n})
    BY <2>2, SumTakes
  <2>4. AmountOf({n}) = n.amount
    BY <1>2, <2>2, <2>3, SumOfNone
  <2> QED
    BY <2>1, <2>4 DEF FromReceipt
<1>6. FromReceipt(alloc, n.receipt) + FromReceipt(new, n.receipt) <= n.of
  <2>1. FromReceipt(alloc, n.receipt) = FromReceipt(Loaded, r.key)
    BY <1>1, UndividedIsLoaded
  <2> QED
    BY <1>1, <1>2, <1>3, <1>5, <2>1
<1>7. ASSUME NEW a \in alloc, a.receipt = n.receipt
      PROVE  a.of = n.of /\ Group(a) = Group(n) /\ a.day = n.day
  <2>1. Group(r) \notin Blocked(Book, rows, Loaded)
    BY <1>1 DEF Usable
  <2>2. a \in Loaded /\ Group(a) = Group(r)
    BY <1>1, <1>7, UndividedIsLoaded
  <2>3. PICK x \in rows : x.key = a.receipt /\ x.amount = a.of /\ Group(x) = Group(a) /\ Day(x.at) = a.day
    BY <2>1, <2>2 DEF Blocked, Unbacked
  <2>4. <<Group(r), r.amount, Day(r.at)>> = <<Group(x), x.amount, Day(x.at)>>
    <3>1. Group(r) \notin Contradictory(rows)
      BY <2>1 DEF Blocked
    <3>2. r.key = x.key
      BY <1>1, <1>7, <2>3
    <3> QED
      BY <3>1, <3>2 DEF Contradictory
  <2> QED
    BY <1>1, <2>2, <2>3, <2>4
<1>8. /\ Group(Book[n.promise]) = Group(n)
      /\ ToPromise(alloc, n.promise) + ToPromise(new, n.promise) <= Book[n.promise].expected
  BY UndividedIsLoaded DEF Planned, PlanSound, WithinExpected
<1> QED
  BY <1>4, <1>6, <1>7, <1>8 DEF Accepted

-----------------------------------------------------------------------------

\* A settlement keeps the tables in order, and closes the work of what it pays.
LEMMA SettleKeeps ==
    ASSUME Tables, FinalLeavesNoWork, NEW selected, Settle(selected)
    PROVE  /\ Tables' /\ FinalLeavesNoWork'
           /\ \A p \in Promises : Exists(p) => Exists(p)'
<1> DEFINE new == Plan(Book, rows, Loaded, now, selected)
           seen == Loaded \cup new
           changed == {n.promise : n \in new}
           paid == {p \in changed : StatusAfter(Book, seen, p) = "fulfilled"}
<1>1. Planned(new)
  BY PlanIsPlanned
<1>2. /\ alloc' = alloc \cup new
      /\ status' = [p \in Promises |-> IF p \in changed THEN StatusAfter(Book, seen, p) ELSE status[p]]
      /\ fulfilled' = [p \in Promises |-> IF p \in changed THEN ToPromise(seen, p) ELSE fulfilled[p]]
      /\ missed' = [p \in Promises |-> IF p \in changed THEN Missed(Book, seen, new, now, p) ELSE missed[p]]
      /\ tasks' = Close(tasks, LAMBDA t : t.promise \in paid /\ t.status \in {"open", "escalated"},
                        "done")
      /\ UNCHANGED <<now, assigned, terms, due, expected, rows, merges, reminders>>
  BY DEF Settle
<1> HIDE DEF new
<1>3. \A p \in changed : p \in Promises /\ Exists(p)
  BY <1>1, PlannedRows
<1>4. Allocated(alloc \cup new) /\ Measured(seen)
  BY <1>1, PlannedAllocated
<1> HIDE DEF seen, changed
<1>5. \A p \in Promises : p \in changed =>
         /\ StatusAfter(Book, seen, p) \in {"fulfilled", "partially_fulfilled"}
            \/ StatusAfter(Book, seen, p) = status[p]
         /\ ToPromise(seen, p) \in Nat
         /\ Missed(Book, seen, new, now, p) \in DueDates \cup {None}
  <2> SUFFICES ASSUME NEW p \in Promises, p \in changed
               PROVE  /\ StatusAfter(Book, seen, p) \in {"fulfilled", "partially_fulfilled"}
                         \/ StatusAfter(Book, seen, p) = status[p]
                      /\ ToPromise(seen, p) \in Nat
                      /\ Missed(Book, seen, new, now, p) \in DueDates \cup {None}
    OBVIOUS
  <2>1. /\ Book[p].status = status[p] /\ Book[p].due = due[p] /\ Book[p].missed = missed[p]
        /\ due[p] \in DueDates \cup {None} /\ missed[p] \in DueDates \cup {None}
    BY <1>3 DEF Book, Tables, PromisesTyped
  <2>2. StatusAfter(Book, seen, p) \in {"fulfilled", "partially_fulfilled"}
        \/ StatusAfter(Book, seen, p) = status[p]
    BY <2>1 DEF StatusAfter
  <2>3. Missed(Book, seen, new, now, p) \in DueDates \cup {None}
    BY <2>1 DEF Missed
  <2> QED
    BY <1>4, <2>2, <2>3, PartSums
<1>6. \A p \in Promises : /\ p \in paid \/ status'[p] \in Open \/ status'[p] = status[p]
                          /\ status'[p] \in Statuses
                          /\ Exists(p) => Exists(p)'
  <2> TAKE p \in Promises
  <2>1. status[p] \in Statuses
    BY DEF Tables, PromisesTyped
  <2>2. CASE p \in changed
    <3>1. status'[p] = StatusAfter(Book, seen, p)
      BY <1>2, <2>2
    <3> QED
      BY <1>5, <2>1, <2>2, <3>1 DEF Open, Statuses, Final, Exists
  <2>3. CASE p \notin changed
    BY <1>2, <2>1, <2>3 DEF Exists
  <2> QED
    BY <2>2, <2>3
<1> HIDE DEF paid
<1>7. Rewritten(tasks', tasks, paid)
  BY <1>2, PaidWorkCloses DEF Tables, PromisesTyped
<1>8. FinalLeavesNoWork'
  BY <1>6, <1>7, WorkKept DEF Tables, PromisesTyped
<1>9. PromisesTyped'
  <2>1. tasks' \in Seq(TaskRows)
    BY <1>7 DEF Rewritten
  <2>2. /\ status' \in [Promises -> Statuses]
        /\ fulfilled' \in [Promises -> Nat]
        /\ missed' \in [Promises -> DueDates \cup {None}]
    BY <1>2, <1>5, <1>6 DEF Tables, PromisesTyped
  <2> QED
    BY <1>2, <2>1, <2>2 DEF Tables, PromisesTyped
<1>10. Dated'
  <2>1. \A p \in Promises : Exists(p)' => Exists(p)
    BY <1>2, <1>3 DEF Exists
  <2> QED
    BY <1>2, <2>1 DEF Tables, Dated
<1> QED
  BY <1>2, <1>4, <1>6, <1>8, <1>9, <1>10, MovableStays DEF Tables

\* The transaction of a new promise.
LEMMA CreateKeeps ==
    ASSUME PromisesInv, NEW s \in Slots, NEW p \in Promises, CreateCommit(s, p)
    PROVE  PromisesInv'
<1> DEFINE o == op[s]
           closed == Close(tasks, LAMBDA t : DueToday(o.customer, o.collector, t), "done")
           n == NewTask(p, "promise_due", o.due)
           made == [customer |-> o.customer, collector |-> o.collector, currency |-> o.currency,
                    promisedOn |-> o.from, createdAt |-> now]
<1>1. /\ o.phase = "create" /\ ~ Exists(p)
      /\ status' = [status EXCEPT ![p] = o.status]
      /\ terms' = [terms EXCEPT ![p] = made]
      /\ due' = [due EXCEPT ![p] = o.due]
      /\ expected' = [expected EXCEPT ![p] = o.amount]
      /\ tasks' = Append(closed, n)
      /\ Free(s)
      /\ UNCHANGED <<now, assigned, fulfilled, missed, rows, alloc, merges, reminders>>
  BY DEF CreateCommit
<1>2. o \in Ops
  BY DEF PromisesInv, Handling
<1>3. /\ o.customer \in Customers /\ o.collector \in Collectors /\ o.currency \in Currencies
      /\ o.due \in DueDates /\ o.amount \in Amounts /\ o.from \in PromiseDates /\ o.status \in Open
  BY <1>1, <1>2 DEF Ops, Idle
<1>4. Tables /\ PromisesTyped
  BY DEF PromisesInv, Tables
<1>5. n \in TaskRows /\ n.promise = p
  BY <1>3, DatesAreNat DEF NewTask, TaskRows
<1> HIDE DEF o
<1>6. Rewritten(closed, tasks, {})
  <2>1. tasks \in Seq(TaskRows)
    BY <1>4 DEF PromisesTyped
  <2> QED
    BY <2>1, DueWorkCloses DEF Close, Updated
<1> HIDE DEF closed, n
<1>7. /\ status'[p] \in Open
      /\ \A q \in Promises : q \in {} \/ status'[q] \in Open \/ status'[q] = status[q]
  <2>1. status'[p] = o.status /\ \A q \in Promises \ {p} : status'[q] = status[q]
    BY <1>1, <1>4 DEF PromisesTyped
  <2> QED
    BY <1>3, <2>1
<1>8. FinalLeavesNoWork' /\ tasks' \in Seq(TaskRows)
  BY <1>1, <1>4, <1>5, <1>6, <1>7, WorkAdded DEF PromisesInv, PromisesTyped
<1>9. made \in Terms
  BY <1>3, <1>4 DEF Terms, PromisesTyped
<1> HIDE DEF made
<1>10. PromisesTyped'
  <2>1. status' \in [Promises -> Statuses]
    BY <1>1, <1>3, <1>4 DEF PromisesTyped, Statuses
  <2>2. /\ terms' \in [Promises -> Terms \cup {None}]
        /\ due' \in [Promises -> DueDates \cup {None}]
        /\ expected' \in [Promises -> Nat]
    BY <1>1, <1>3, <1>4, <1>9, ChoicesAssumption DEF PromisesTyped
  <2> QED
    BY <1>1, <1>4, <1>8, <2>1, <2>2 DEF PromisesTyped
<1>11. Allocated(alloc)' /\ Dated'
  BY <1>1, <1>3, <1>4, <1>9 DEF Tables, Allocated, Dated, Exists, PromisesTyped
<1>12. \A q \in Promises : Exists(q) => Exists(q)'
  BY <1>1, <1>3, <1>4 DEF Exists, PromisesTyped, Open
<1>13. Handling'
  BY <1>1, <1>12, HandlingKeeps DEF Free, Idle, Ops, Knows, Exists, PromisesInv
<1>14. Movable'
  BY <1>1, <1>4, <1>12, MovableStays DEF Tables
<1> QED
  BY <1>8, <1>10, <1>11, <1>13, <1>14 DEF PromisesInv, Tables

\* The transaction of an edit.
LEMMA UpdateKeeps ==
    ASSUME PromisesInv, NEW s \in Slots, UpdateCommit(s)
    PROVE  PromisesInv'
<1> DEFINE o == op[s]
           p == o.promise
<1>1. /\ o.phase = "update"
      /\ status' = [status EXCEPT ![p] = Given(o.status, status[p])]
      /\ due' = [due EXCEPT ![p] = Given(o.due, due[p])]
      /\ expected' = [expected EXCEPT ![p] = Given(o.amount, expected[p])]
      /\ tasks' = IF o.due = None THEN tasks ELSE Reschedule(tasks, p, o.due)
      /\ Free(s)
      /\ UNCHANGED <<now, assigned, terms, fulfilled, missed, rows, alloc, merges, reminders>>
  BY DEF UpdateCommit
<1>2. o \in Ops /\ Knows(o, status)
  BY DEF PromisesInv, Handling
<1>3. /\ p \in Promises /\ o.due \in DueDates \cup {None} /\ o.amount \in Amounts \cup {None}
      /\ o.status \in Open \cup {None} /\ Exists(p)
  BY <1>1, <1>2 DEF Ops, Idle, Knows, Exists
<1>4. Tables /\ PromisesTyped
  BY DEF PromisesInv, Tables
<1> HIDE DEF o, p
<1>5. /\ status'[p] \in Open \/ status'[p] = status[p]
      /\ \A q \in Promises \ {p} : status'[q] = status[q]
      /\ status' \in [Promises -> Statuses]
  BY <1>1, <1>3, <1>4 DEF PromisesTyped, Given, Statuses
<1>6. Rewritten(tasks', tasks, {})
  <2>1. CASE o.due = None
    BY <1>1, <1>4, <2>1 DEF Rewritten, PromisesTyped
  <2>2. CASE o.due # None
    <3>1. o.due \in Nat /\ tasks' = Reschedule(tasks, p, o.due)
      BY <1>1, <1>3, <2>2, DatesAreNat
    <3> QED
      BY <1>4, <3>1, RescheduleMoves DEF PromisesTyped
  <2> QED
    BY <2>1, <2>2
<1>7. FinalLeavesNoWork'
  BY <1>4, <1>5, <1>6, WorkKept DEF PromisesInv, PromisesTyped
<1>8. PromisesTyped'
  <2>1. tasks' \in Seq(TaskRows)
    BY <1>6 DEF Rewritten
  <2>2. /\ due' \in [Promises -> DueDates \cup {None}]
        /\ expected' \in [Promises -> Nat]
    BY <1>1, <1>3, <1>4, ChoicesAssumption DEF PromisesTyped, Given
  <2> QED
    BY <1>1, <1>4, <1>5, <2>1, <2>2 DEF PromisesTyped
<1>9. Allocated(alloc)' /\ Dated'
  BY <1>1, <1>3, <1>4 DEF Tables, Allocated, Dated, Exists, PromisesTyped, Given
<1>10. \A q \in Promises : Exists(q) => Exists(q)'
  BY <1>3, <1>5 DEF Exists, Open
<1>11. Handling'
  BY <1>1, <1>10, HandlingKeeps DEF Free, Idle, Ops, Knows, Exists, PromisesInv
<1>12. Movable'
  BY <1>1, <1>4, <1>10, MovableStays DEF Tables
<1> QED
  BY <1>7, <1>8, <1>9, <1>11, <1>12 DEF PromisesInv, Tables

\* The transaction of a decision, which may be final.
LEMMA SetStatusKeeps ==
    ASSUME PromisesInv, NEW s \in Slots, SetStatusCommit(s)
    PROVE  PromisesInv'
<1> DEFINE o == op[s]
           p == o.promise
           to == IF o.to = "postponed" THEN ForDueDate(o.due) ELSE o.to
           after == IF o.to \in Final THEN Finished(tasks, p, o.to)
                    ELSE IF o.to = "postponed" THEN Reschedule(tasks, p, o.due) ELSE tasks
           closed == IF o.to \in Final THEN {p} ELSE {}
           n == NewTask(p, "promise_escalation", Today)
<1>1. /\ o.phase = "set"
      /\ status' = [status EXCEPT ![p] = to]
      /\ fulfilled' = [fulfilled EXCEPT ![p] = Given(o.paid, fulfilled[p])]
      /\ due' = [due EXCEPT ![p] = Given(o.due, due[p])]
      /\ tasks' = IF o.to = "unfulfilled" THEN Append(after, n) ELSE after
      /\ Free(s)
      /\ UNCHANGED <<now, assigned, terms, expected, missed, rows, alloc, merges, reminders>>
  BY DEF SetStatusCommit
<1>2. o \in Ops /\ Knows(o, status)
  BY DEF PromisesInv, Handling
<1>3. /\ p \in Promises /\ o.to \in Final \cup {"partially_fulfilled", "postponed"}
      /\ o.due \in DueDates \cup {None} /\ o.paid \in Nat \cup {None}
      /\ o.to = "postponed" => o.due # None
      /\ Exists(p)
  BY <1>1, <1>2 DEF Ops, Idle, Knows, Exists
<1>4. Tables /\ PromisesTyped
  BY DEF PromisesInv, Tables
<1> HIDE DEF o, p
<1>5. to \in Statuses \ {"absent"} /\ (o.to \in Final \/ to \in Open)
  BY <1>3 DEF ForDueDate, Statuses, Open, Final
<1>6. n \in TaskRows /\ n.promise = p /\ n.type = "promise_escalation"
  BY <1>3, <1>4, DayIsNat DEF NewTask, TaskRows, Today, PromisesTyped
<1>7. Rewritten(after, tasks, closed)
  <2>1. CASE o.to \in Final
    BY <1>4, <2>1, FinishedCloses DEF PromisesTyped
  <2>2. CASE o.to = "postponed"
    <3>1. o.due \in Nat /\ o.to \notin Final
      BY <1>3, <2>2, DatesAreNat DEF Final
    <3> QED
      BY <1>4, <2>2, <3>1, RescheduleMoves DEF PromisesTyped
  <2>3. CASE o.to \notin Final /\ o.to # "postponed"
    BY <1>4, <2>3 DEF Rewritten, PromisesTyped
  <2> QED
    BY <2>1, <2>2, <2>3
<1>8. \A q \in Promises : q \in closed \/ status'[q] \in Open \/ status'[q] = status[q]
  BY <1>1, <1>3, <1>4, <1>5 DEF PromisesTyped
<1>9. o.to = "unfulfilled" => status'[p] = "unfulfilled"
  BY <1>1, <1>3, <1>4 DEF PromisesTyped
<1> HIDE DEF n, after, closed, to
<1>10. FinalLeavesNoWork' /\ tasks' \in Seq(TaskRows)
  <2>1. CASE o.to = "unfulfilled"
    <3>1. tasks' = Append(after, n)
      BY <1>1, <2>1
    <3> QED
      BY <1>4, <1>6, <1>7, <1>8, <1>9, <2>1, <3>1, WorkAdded DEF PromisesInv, PromisesTyped
  <2>2. CASE o.to # "unfulfilled"
    <3>1. tasks' = after
      BY <1>1, <2>2
    <3> QED
      BY <1>4, <1>7, <1>8, <3>1, WorkKept DEF PromisesInv, PromisesTyped, Rewritten
  <2> QED
    BY <2>1, <2>2
<1>11. PromisesTyped'
  <2>1. status' \in [Promises -> Statuses]
    BY <1>1, <1>4, <1>5 DEF PromisesTyped
  <2>2. /\ due' \in [Promises -> DueDates \cup {None}]
        /\ fulfilled' \in [Promises -> Nat]
    BY <1>1, <1>3, <1>4 DEF PromisesTyped, Given
  <2> QED
    BY <1>1, <1>4, <1>10, <2>1, <2>2 DEF PromisesTyped
<1>12. Allocated(alloc)' /\ Dated'
  BY <1>1, <1>3, <1>4 DEF Tables, Allocated, Dated, Exists, PromisesTyped, Given
<1>13. \A q \in Promises : Exists(q) => Exists(q)'
  BY <1>1, <1>3, <1>4, <1>5 DEF Exists, PromisesTyped
<1>14. Handling'
  BY <1>1, <1>13, HandlingKeeps DEF Free, Idle, Ops, Knows, Exists, PromisesInv
<1>15. Movable'
  BY <1>1, <1>4, <1>13, MovableStays DEF Tables
<1> QED
  BY <1>10, <1>11, <1>12, <1>14, <1>15 DEF PromisesInv, Tables

\* A sweep's transaction on one promise of its list.
LEMMA SweepOneKeeps ==
    ASSUME PromisesInv, NEW s \in Slots, NEW x \in op[s].todo, SweepOne(s, x)
    PROVE  PromisesInv'
<1> DEFINE o == op[s]
           p == x[1]
           closed == Close(tasks, LAMBDA t : OpenOf(p, t), "escalated")
           n == NewTask(p, "promise_escalation", o.today)
           rest == [o EXCEPT !.todo = o.todo \ {x}]
<1>1. /\ o.phase = "sweep" /\ x \in o.todo
      /\ Become(s, rest)
      /\ UNCHANGED <<now, assigned, terms, due, expected, fulfilled, rows, alloc, merges, reminders>>
  BY DEF SweepOne
<1>2. o \in Ops
  BY DEF PromisesInv, Handling
<1>3. /\ o \in [phase : {"sweep"}, today : Nat, todo : SUBSET (Promises \X DueDates)]
      /\ p \in Promises /\ x[2] \in DueDates /\ o.today \in Nat
  <2>1. o \in [phase : {"sweep"}, today : Nat, todo : SUBSET (Promises \X DueDates)]
    BY <1>1, <1>2 DEF Ops, Idle
  <2>2. o.today \in Nat /\ x \in Promises \X DueDates
    BY <1>1, <2>1
  <2> QED
    BY <2>1, <2>2
<1>4. Tables /\ PromisesTyped
  BY DEF PromisesInv, Tables
<1>5. rest \in Ops /\ Knows(rest, status')
  <2>1. rest \in [phase : {"sweep"}, today : Nat, todo : SUBSET (Promises \X DueDates)]
    BY <1>3
  <2> HIDE DEF rest, o
  <2>2. rest \in Ops
    BY <2>1 DEF Ops
  <2>3. rest.phase = "sweep"
    BY <2>1
  <2> QED
    BY <2>1, <2>2 DEF Knows, Exists
<1> HIDE DEF rest
<1>6. CASE StillOverdue(p, o.today)
  <2>1. /\ status' = [status EXCEPT ![p] = "unfulfilled"]
        /\ missed' = [missed EXCEPT ![p] = x[2]]
        /\ tasks' = Append(closed, n)
        /\ status[p] \in Open
    BY <1>6 DEF SweepOne, StillOverdue
  <2>2. n \in TaskRows /\ n.promise = p /\ n.type = "promise_escalation"
    BY <1>3 DEF NewTask, TaskRows
  <2> HIDE DEF o, p
  <2>3. Rewritten(closed, tasks, {p})
    BY <1>4, WorkEscalates DEF PromisesTyped
  <2>4. /\ status'[p] = "unfulfilled"
        /\ \A q \in Promises : q \in {p} \/ status'[q] \in Open \/ status'[q] = status[q]
        /\ status' \in [Promises -> Statuses]
        /\ missed' \in [Promises -> DueDates \cup {None}]
    BY <1>3, <1>4, <2>1 DEF PromisesTyped, Statuses, Final
  <2> HIDE DEF closed, n
  <2>5. FinalLeavesNoWork' /\ tasks' \in Seq(TaskRows)
    BY <1>4, <2>1, <2>2, <2>3, <2>4, WorkAdded DEF PromisesInv, PromisesTyped
  <2>6. PromisesTyped'
    BY <1>1, <1>4, <2>4, <2>5 DEF PromisesTyped
  <2>7. Allocated(alloc)' /\ Dated'
    BY <1>1, <1>3, <1>4, <2>1 DEF Tables, Allocated, Dated, Exists, PromisesTyped, Open
  <2>8. \A q \in Promises : Exists(q) => Exists(q)'
    BY <1>3, <1>4, <2>1 DEF Exists, PromisesTyped
  <2>9. Handling'
    BY <1>1, <1>5, <2>8, HandlingKeeps DEF PromisesInv
  <2>10. Movable'
    BY <1>1, <1>4, <2>8, MovableStays DEF Tables
  <2> QED
    BY <2>5, <2>6, <2>7, <2>9, <2>10 DEF PromisesInv, Tables
<1>7. CASE ~ StillOverdue(p, o.today)
  <2>1. UNCHANGED <<status, missed, tasks>>
    BY <1>7 DEF SweepOne
  <2>2. Tables' /\ FinalLeavesNoWork' /\ \A q \in Promises : Exists(q) => Exists(q)'
    BY <1>1, <1>4, <2>1 DEF PromisesInv, Tables, PromisesTyped, Allocated, Dated, Movable, Exists,
                            FinalLeavesNoWork
  <2> HIDE DEF o
  <2>3. Handling'
    BY <1>1, <1>5, <2>2, HandlingKeeps DEF PromisesInv
  <2> QED
    BY <2>2, <2>3 DEF PromisesInv
<1> QED
  BY <1>6, <1>7

\* A step that only wakes promises up.
LEMMA WakeKeeps ==
    ASSUME PromisesInv, NEW s \in Slots, NEW o \in Ops, Knows(o, status), Become(s, o),
           status' \in [Promises -> Statuses],
           \A p \in Promises : status'[p] = status[p] \/ (Exists(p) /\ status'[p] = "due_today"),
           reminders' \in [Promises \X Days -> Nat],
           UNCHANGED <<now, assigned, terms, due, expected, fulfilled, missed, tasks, rows, alloc, merges>>
    PROVE  PromisesInv'
<1>1. \A q \in Promises : /\ Exists(q) <=> Exists(q)'
                          /\ q \in {} \/ status'[q] \in Open \/ status'[q] = status[q]
  BY DEF Exists, Open
<1>2. Rewritten(tasks', tasks, {}) /\ tasks \in Seq(TaskRows)
  BY DEF Rewritten, PromisesInv, Tables, PromisesTyped
<1>3. FinalLeavesNoWork'
  BY <1>1, <1>2, WorkKept DEF PromisesInv
<1>4. PromisesTyped' /\ Allocated(alloc)'
  BY DEF PromisesInv, Tables, PromisesTyped, Allocated
<1>5. Dated' /\ Movable'
  BY <1>1, MovableStays DEF PromisesInv, Tables, Dated
<1>6. Knows(o, status')
  <2>1. o.phase \in {"update", "set"} => o.promise \in Promises
    BY DEF Ops, Idle
  <2>2. o.phase = "remind" => o.waking \subseteq Promises
    BY DEF Ops, Idle
  <2> QED
    BY <1>1, <2>1, <2>2 DEF Knows, Exists
<1>7. Handling'
  BY <1>1, <1>6, HandlingKeeps DEF PromisesInv
<1> QED
  BY <1>3, <1>4, <1>5, <1>7 DEF PromisesInv, Tables

\* The steps of every handler that only read, and those that end it.
LEMMA ReadsKeep ==
    ASSUME PromisesInv, NEW s \in Slots,
           \/ \E c \in Customers, k \in Collectors, cur \in Currencies, d \in DueDates, a \in Amounts,
                 f \in PromiseDates : CreateRead(s, c, k, cur, d, a, f)
           \/ \E p \in Promises, d \in DueDates \cup {None}, a \in Amounts \cup {None} : UpdateRead(s, p, d, a)
           \/ Fail(s)
           \/ \E p \in Promises, to \in Final \cup {"partially_fulfilled", "postponed"},
                 m \in Amounts \cup {None}, d \in DueDates \cup {None} : SetStatusRead(s, p, to, m, d)
           \/ SweepRead(s) \/ RemindRead(s) \/ RemindEnd(s)
           \/ \E p \in Promises : RemindCheck(s, p)
    PROVE  PromisesInv'
<1>0. PromisesTyped /\ Dated /\ Handling
  BY DEF PromisesInv, Tables
<1>1. ASSUME NEW c \in Customers, NEW k \in Collectors, NEW cur \in Currencies, NEW d \in DueDates,
             NEW a \in Amounts, NEW f \in PromiseDates, CreateRead(s, c, k, cur, d, a, f)
      PROVE  PromisesInv'
  <2> DEFINE o == [phase |-> "create", customer |-> c, collector |-> k, currency |-> cur,
                   due |-> d, amount |-> a, from |-> f, status |-> ForDueDate(d)]
  <2>1. o \in Ops /\ Knows(o, status)
    BY DEF Ops, Knows, ForDueDate, Open
  <2>2. Become(s, o) /\ ReadOnly
    BY <1>1 DEF CreateRead, Begin, Become
  <2> HIDE DEF o
  <2> QED
    BY <2>1, <2>2, ReadKeeps
<1>2. ASSUME NEW p \in Promises, NEW d \in DueDates \cup {None}, NEW a \in Amounts \cup {None},
             UpdateRead(s, p, d, a)
      PROVE  PromisesInv'
  <2> DEFINE o == [phase |-> "update", promise |-> p, due |-> d, amount |-> a,
                   status |-> IF d = None THEN None ELSE ForDueDate(d)]
  <2>1. o \in Ops /\ Knows(o, status)
    BY <1>2 DEF Ops, Knows, ForDueDate, Open, UpdateRead, Exists
  <2>2. Become(s, o) /\ ReadOnly
    BY <1>2 DEF UpdateRead, Begin, Become
  <2> HIDE DEF o
  <2> QED
    BY <2>1, <2>2, ReadKeeps
<1>3. ASSUME Fail(s) \/ RemindEnd(s) PROVE PromisesInv'
  <2>1. Idle \in Ops /\ Knows(Idle, status)
    BY DEF Ops, Idle, Knows
  <2>2. Become(s, Idle) /\ ReadOnly
    BY <1>3 DEF Fail, RemindEnd, Free
  <2> QED
    BY <2>1, <2>2, ReadKeeps
<1>4. ASSUME NEW p \in Promises, NEW to \in Final \cup {"partially_fulfilled", "postponed"},
             NEW m \in Amounts \cup {None}, NEW d \in DueDates \cup {None},
             SetStatusRead(s, p, to, m, d)
      PROVE  PromisesInv'
  <2> DEFINE o == [phase |-> "set", promise |-> p, to |-> to, due |-> d,
                   paid |-> IF to = "fulfilled" THEN expected[p] ELSE m]
  <2>1. expected[p] \in Nat /\ m \in Nat \cup {None} /\ (to = "postponed" => d # None)
    BY <1>0, <1>4, ChoicesAssumption DEF PromisesTyped, SetStatusRead
  <2>2. Exists(p)
    BY <1>4 DEF SetStatusRead, Exists, Open
  <2>3. o \in [phase : {"set"}, promise : Promises,
               to : Final \cup {"partially_fulfilled", "postponed"},
               due : DueDates \cup {None}, paid : Nat \cup {None}]
    BY <2>1
  <2>4. o.to = "postponed" => o.due # None
    BY <2>1
  <2>5. o \in Ops
    <3> HIDE DEF o
    <3> QED
      BY <2>3, <2>4 DEF Ops
  <2>6. Knows(o, status)
    BY <2>2 DEF Knows, Exists
  <2>7. Become(s, o) /\ ReadOnly
    BY <1>4 DEF SetStatusRead, Begin, Become
  <2> HIDE DEF o
  <2> QED
    BY <2>5, <2>6, <2>7, ReadKeeps
<1>5. ASSUME SweepRead(s) PROVE PromisesInv'
  <2> DEFINE overdue == {p \in Promises : status[p] \in Open /\ due[p] < Today}
             todo == {<<p, Given(missed[p], due[p])>> : p \in overdue}
             o == [phase |-> "sweep", today |-> Today, todo |-> todo]
  <2>1. \A p \in overdue : Given(missed[p], due[p]) \in DueDates
    BY <1>0 DEF Dated, PromisesTyped, Given, Exists, Open
  <2>3. Become(s, o) /\ ReadOnly
    BY <1>5 DEF SweepRead
  <2>0. overdue \subseteq Promises
    OBVIOUS
  <2> HIDE DEF overdue
  <2>5. Today \in Nat
    BY <1>0, DayIsNat DEF Today, PromisesTyped
  <2>2. todo \subseteq Promises \X DueDates
    <3> SUFFICES ASSUME NEW p \in overdue PROVE <<p, Given(missed[p], due[p])>> \in Promises \X DueDates
      OBVIOUS
    <3> QED
      BY <2>0, <2>1
  <2> HIDE DEF todo
  <2>4. o \in Ops /\ Knows(o, status)
    BY <2>2, <2>5 DEF Ops, Knows
  <2> HIDE DEF o
  <2> QED
    BY <2>3, <2>4, ReadKeeps
<1>6. ASSUME RemindRead(s) PROVE PromisesInv'
  <2> DEFINE listed == {p \in Promises : status[p] \in Open \cup {"unfulfilled"} /\ due[p] <= Today}
             waking == {p \in listed : status[p] = "upcoming" /\ due[p] = Today}
             o == [phase |-> "remind", day |-> Today, todo |-> listed, one |-> None, waking |-> waking]
  <2>1. Become(s, o) /\ ReadOnly
    BY <1>6 DEF RemindRead, Begin, Become
  <2>2. Today \in Nat /\ listed \subseteq Promises /\ waking \subseteq Promises
    BY <1>0, DayIsNat DEF Today, PromisesTyped
  <2>3. \A p \in waking : status[p] # "absent"
    OBVIOUS
  <2> HIDE DEF listed, waking
  <2>4. o \in Ops /\ Knows(o, status)
    BY <2>2, <2>3 DEF Ops, Knows
  <2> HIDE DEF o
  <2> QED
    BY <2>1, <2>4, ReadKeeps
<1>7. ASSUME NEW p \in Promises, RemindCheck(s, p) PROVE PromisesInv'
  <2> DEFINE o == op[s]
             next == [o EXCEPT !.todo = o.todo \ {p}, !.one = IF Reminded(p, o.day) THEN None ELSE p]
             Reminds == [phase : {"remind"}, day : Nat, todo : SUBSET Promises,
                         one : Promises \cup {None}, waking : SUBSET Promises]
  <2>1. Become(s, next) /\ ReadOnly /\ o.phase = "remind"
    BY <1>7 DEF RemindCheck
  <2>2. o \in Ops /\ Knows(o, status)
    BY <1>0 DEF Handling
  <2>3. o \in Reminds
    BY <2>1, <2>2 DEF Ops, Idle
  <2>4. next \in Reminds /\ next.waking = o.waking /\ next.phase = "remind"
    BY <2>3
  <2> HIDE DEF next, o
  <2>5. next \in Ops /\ Knows(next, status)
    BY <2>1, <2>2, <2>4 DEF Ops, Knows
  <2> QED
    BY <2>1, <2>5, ReadKeeps
<1> QED
  BY <1>1, <1>2, <1>3, <1>4, <1>5, <1>6, <1>7

\* The steps that only mark promises due today.
LEMMA WakesKeep ==
    ASSUME PromisesInv, NEW s \in Slots, SweepEnd(s) \/ RemindWrite(s)
    PROVE  PromisesInv'
<1>0. PromisesTyped /\ Handling
  BY DEF PromisesInv, Tables
<1>1. CASE SweepEnd(s)
  <2>1. Idle \in Ops /\ Knows(Idle, status) /\ Become(s, Idle)
    BY <1>1 DEF Ops, Idle, Knows, SweepEnd, Free
  <2>2. \A p \in Promises : /\ status'[p] = status[p] \/ (Exists(p) /\ status'[p] = "due_today")
                            /\ status'[p] \in Statuses
    BY <1>0, <1>1 DEF SweepEnd, Exists, PromisesTyped, Statuses, Open
  <2>3. status' \in [Promises -> Statuses]
    BY <1>1, <2>2 DEF SweepEnd
  <2>4. /\ UNCHANGED <<now, assigned, terms, due, expected, fulfilled, missed, tasks, rows, alloc, merges>>
        /\ reminders' \in [Promises \X Days -> Nat]
    BY <1>0, <1>1 DEF SweepEnd, PromisesTyped
  <2> QED
    BY <2>1, <2>2, <2>3, <2>4, WakeKeeps
<1>2. CASE RemindWrite(s)
  <2> DEFINE o == op[s]
             p == o.one
             next == [o EXCEPT !.one = None]
             Reminds == [phase : {"remind"}, day : Nat, todo : SUBSET Promises,
                         one : Promises \cup {None}, waking : SUBSET Promises]
  <2>1. /\ o.phase = "remind" /\ p # None /\ Become(s, next)
        /\ reminders' = [reminders EXCEPT ![<<p, o.day>>] = reminders[<<p, o.day>>] + 1]
        /\ status' = [status EXCEPT ![p] = IF p \in o.waking THEN "due_today" ELSE status[p]]
        /\ UNCHANGED <<now, assigned, terms, due, expected, fulfilled, missed, tasks, rows, alloc, merges>>
    BY <1>2 DEF RemindWrite
  <2>2. o \in Ops /\ Knows(o, status)
    BY <1>0 DEF Handling
  <2>3. o \in Reminds
    BY <2>1, <2>2 DEF Ops, Idle
  <2>4. next \in Reminds /\ next.waking = o.waking /\ next.phase = "remind" /\ p \in Promises
    BY <2>1, <2>3
  <2> HIDE DEF next, p, o
  <2>5. next \in Ops /\ Knows(next, status)
    BY <2>1, <2>2, <2>4 DEF Ops, Knows
  <2>6. p \in o.waking => Exists(p)
    BY <2>1, <2>2 DEF Knows, Exists
  <2>7. /\ \A q \in Promises : status'[q] = status[q] \/ (Exists(q) /\ status'[q] = "due_today")
        /\ status' \in [Promises -> Statuses]
    BY <1>0, <2>1, <2>4, <2>6 DEF PromisesTyped, Statuses, Open
  <2>8. reminders' \in [Promises \X Days -> Nat]
    <3> DEFINE key == <<p, o.day>>
    <3> HIDE DEF key
    <3>1. reminders' = [reminders EXCEPT ![key] = reminders[key] + 1]
      BY <2>1 DEF key
    <3> DEFINE X == Promises \X Days
    <3>2. reminders \in [X -> Nat]
      BY <1>0 DEF PromisesTyped
    <3> HIDE DEF X
    <3>3. reminders' \in [X -> Nat]
      <4>1. CASE key \in X
        BY <3>1, <3>2, <4>1
      <4>2. CASE key \notin X
        <5>1. reminders' = reminders
          BY <3>1, <3>2, <4>2
        <5> QED
          BY <3>2, <5>1
      <4> QED
        BY <4>1, <4>2
    <3> QED
      BY <3>3 DEF X
  <2> QED
    BY <2>1, <2>5, <2>7, <2>8, WakeKeeps
<1> QED
  BY <1>1, <1>2

\* A person's work on the tasks.
LEMMA WorkingKeeps ==
    ASSUME PromisesInv, Working
    PROVE  PromisesInv'
<1>0. PromisesTyped /\ Handling /\ FinalLeavesNoWork
  BY DEF PromisesInv, Tables
<1>1. /\ UNCHANGED <<now, assigned, status, terms, due, expected, fulfilled, missed, rows, alloc,
                     merges, reminders, op>>
      /\ Rewritten(tasks', tasks, {})
  <2>1. ASSUME NEW c \in Customers, NEW k \in Collectors, CloseDue(c, k)
        PROVE  Rewritten(tasks', tasks, {})
    <3>1. tasks' = Close(tasks, LAMBDA t : DueToday(c, k, t), "done")
      BY <2>1 DEF CloseDue
    <3> QED
      BY <1>0, <3>1, DueWorkCloses DEF PromisesTyped, Close, Updated
  <2>2. ASSUME NEW i \in DOMAIN tasks, CompleteTask(i)
        PROVE  Rewritten(tasks', tasks, {})
    <3>1. tasks' = [tasks EXCEPT ![i].status = "done"] /\ tasks \in Seq(TaskRows)
      BY <1>0, <2>2 DEF CompleteTask, PromisesTyped
    <3>2. \A j \in DOMAIN tasks : tasks[j] \in TaskRows
      BY <3>1
    <3>3. \A j \in DOMAIN tasks : tasks'[j] = IF j = i THEN [tasks[j] EXCEPT !.status = "done"] ELSE tasks[j]
      BY <3>1
    <3>4. \A j \in DOMAIN tasks :
             /\ tasks'[j] \in TaskRows
             /\ tasks'[j].promise = tasks[j].promise /\ tasks'[j].type = tasks[j].type
             /\ tasks'[j].status = "open" => tasks[j].status = "open" /\ tasks[j].promise \notin {}
      BY <3>2, <3>3 DEF TaskRows
    <3>5. tasks' = [j \in DOMAIN tasks |-> tasks'[j]]
      BY <3>1
    <3> QED
      BY <3>1, <3>4, <3>5, RowByRow
  <2> QED
    BY <2>1, <2>2 DEF Working, CloseDue, CompleteTask, promises
<1>2. FinalLeavesNoWork'
  BY <1>0, <1>1, WorkKept DEF PromisesTyped
<1>3. Tables'
  BY <1>0, <1>1 DEF PromisesInv, Tables, PromisesTyped, Allocated, Dated, Movable, Exists, Rewritten
<1>4. Handling'
  BY <1>0, <1>1, HandlingStays DEF Exists
<1> QED
  BY <1>2, <1>3, <1>4 DEF PromisesInv

\* A settlement, by itself or at the start of a sweep.
LEMMA SettlingKeeps ==
    ASSUME PromisesInv, (\E s \in Slots : SweepBegin(s)) \/ Settling
    PROVE  PromisesInv'
<1>0. Tables /\ Handling /\ FinalLeavesNoWork
  BY DEF PromisesInv
<1>1. ASSUME NEW s \in Slots, SweepBegin(s) PROVE PromisesInv'
  <2>1. Tables' /\ FinalLeavesNoWork' /\ \A p \in Promises : Exists(p) => Exists(p)'
    BY <1>0, <1>1, SettleKeeps DEF SweepBegin
  <2> DEFINE o == [phase |-> "swept"]
  <2>2. o \in Ops /\ Knows(o, status')
    BY DEF Ops, Knows
  <2>3. Become(s, o)
    BY <1>1 DEF SweepBegin, Begin, Become
  <2> HIDE DEF o
  <2>4. Handling'
    BY <1>0, <2>1, <2>2, <2>3, HandlingKeeps
  <2> QED
    BY <2>1, <2>4 DEF PromisesInv
<1>2. ASSUME NEW selected, SettleTick(selected) PROVE PromisesInv'
  <2>1. Tables' /\ FinalLeavesNoWork' /\ (\A p \in Promises : Exists(p) => Exists(p)')
    BY <1>0, <1>2, SettleKeeps DEF SettleTick
  <2>2. Handling'
    BY <1>0, <1>2, <2>1, HandlingStays DEF SettleTick
  <2> QED
    BY <2>1, <2>2 DEF PromisesInv
<1> QED
  BY <1>1, <1>2 DEF Settling

\* The clock, the assignments and the receipt books.
LEMMA BooksKeep ==
    ASSUME PromisesInv, Books
    PROVE  PromisesInv'
<1>0. PromisesTyped /\ Handling /\ FinalLeavesNoWork /\ Allocated(alloc) /\ Dated /\ Movable
  BY DEF PromisesInv, Tables
<1>1. /\ UNCHANGED <<status, terms, due, expected, fulfilled, missed, tasks, alloc, merges, reminders, op>>
      /\ now' \in Nat /\ rows' \subseteq BookRows /\ IsFiniteSet(rows')
  <2>1. ASSUME NEW r \in BookRows, ShowRow(r) \/ HideRow(r)
        PROVE  rows' \subseteq BookRows /\ IsFiniteSet(rows')
    BY <1>0, <2>1, FS_AddElement, FS_RemoveElement DEF ShowRow, HideRow, PromisesTyped
  <2>2. CASE \E r \in BookRows : ShowRow(r) \/ HideRow(r)
    BY <1>0, <2>1, <2>2 DEF ShowRow, HideRow, promises, PromisesTyped
  <2>3. CASE (\E c \in Moving, k \in Collectors : Reassign(c, k)) \/ Tick
    <3>1. /\ UNCHANGED <<status, terms, due, expected, fulfilled, missed, tasks, rows, alloc,
                         merges, reminders, op>>
          /\ now' = now \/ now' = now + 1
      BY <2>3 DEF Reassign, Tick, promises
    <3>2. now \in Nat /\ rows \subseteq BookRows /\ IsFiniteSet(rows)
      BY <1>0 DEF PromisesTyped
    <3> QED
      BY <3>1, <3>2
  <2> QED
    BY <2>2, <2>3 DEF Books
<1>2. Tables' /\ FinalLeavesNoWork'
  BY <1>0, <1>1 DEF Tables, PromisesTyped, Allocated, Dated, Movable, Exists, FinalLeavesNoWork
<1>3. Handling'
  BY <1>0, <1>1, HandlingStays DEF Exists
<1> QED
  BY <1>2, <1>3 DEF PromisesInv

\* A merge, and its undoing, move promises that are there and rows of the book.
LEMMA MovedKeeps ==
    ASSUME PromisesInv, NEW to \in Customers, NEW ps \in SUBSET Promises, NEW ks, Moved(to, ps, ks),
           \A p \in ps : Exists(p), merges' \subseteq Merges,
           \A g \in merges' : \A p \in g.promises : Exists(p)
    PROVE  PromisesInv'
<1>0. PromisesTyped /\ Handling /\ FinalLeavesNoWork /\ Allocated(alloc) /\ Dated /\ Movable
  BY DEF PromisesInv, Tables
<1>1. UNCHANGED <<now, status, due, expected, fulfilled, missed, tasks, alloc, reminders, op>>
  BY DEF Moved
<1>2. \A p \in Promises : /\ terms'[p] = IF p \in ps THEN [terms[p] EXCEPT !.customer = to] ELSE terms[p]
                          /\ terms[p] \in Terms => terms'[p] \in Terms
                          /\ p \in ps => terms[p] \in Terms
  BY <1>0 DEF Moved, Terms, Dated
<1>3. terms' \in [Promises -> Terms \cup {None}]
  <2>1. terms' = [p \in Promises |-> IF p \in ps THEN [terms[p] EXCEPT !.customer = to] ELSE terms[p]]
    BY DEF Moved
  <2>2. \A p \in Promises : terms'[p] \in Terms \cup {None}
    BY <1>0, <1>2 DEF PromisesTyped
  <2> QED
    BY <2>1, <2>2
<1>4. rows' \subseteq BookRows /\ IsFiniteSet(rows')
  <2> DEFINE f(r) == IF Local(r) /\ r.key \in ks THEN [r EXCEPT !.customer = to] ELSE r
  <2>1. rows' = {f(r) : r \in rows}
    BY DEF Moved
  <2>2. \A r \in rows : f(r) \in BookRows
    BY <1>0, BookRow DEF PromisesTyped
  <2>3. IsFiniteSet({f(r) : r \in rows})
    <3> DEFINE h == [r \in rows |-> f(r)]
    <3>1. h \in Surjection(rows, {f(r) : r \in rows})
      BY DEF Surjection
    <3> HIDE DEF h, f
    <3> QED
      BY <1>0, <3>1, FS_Surjection DEF PromisesTyped
  <2> QED
    BY <2>1, <2>2, <2>3
<1>5. PromisesTyped'
  BY <1>0, <1>1, <1>3, <1>4 DEF PromisesTyped
<1>6. Allocated(alloc)' /\ Dated' /\ Movable'
  BY <1>0, <1>1, <1>2 DEF Allocated, Dated, Movable, Exists
<1>7. FinalLeavesNoWork'
  BY <1>0, <1>1 DEF FinalLeavesNoWork
<1>8. Handling'
  BY <1>0, <1>1, HandlingStays DEF Exists
<1> QED
  BY <1>5, <1>6, <1>7, <1>8 DEF PromisesInv, Tables

LEMMA MergingKeeps ==
    ASSUME PromisesInv, Merging
    PROVE  PromisesInv'
<1>0. PromisesTyped /\ Movable /\ merges \subseteq Merges /\ now \in Nat
  BY DEF PromisesInv, Tables, PromisesTyped
<1>1. ASSUME NEW c \in Customers, NEW m \in Customers, Merge(c, m) PROVE PromisesInv'
  <2> DEFINE ps == {p \in Promises : Exists(p) /\ terms[p].customer = c}
             ks == {r.key : r \in {x \in rows : Local(x) /\ x.customer = c}}
             g == [from |-> c, to |-> m, promises |-> ps, receipts |-> ks, holders |-> Holders(c),
                   taken |-> Holders(m) = {}, until |-> now + TicksPerDay]
  <2>1. Moved(m, ps, ks) /\ merges' = merges \cup {g}
    BY <1>1 DEF Merge
  <2>2. ks \subseteq Nat
    BY <1>0, BookRow DEF PromisesTyped
  <2>3. g \in Merges /\ g.promises = ps
    BY <1>0, <2>2, TicksAssumption DEF Merges, Holders
  <2>4. ps \in SUBSET Promises /\ \A p \in ps : Exists(p)
    OBVIOUS
  <2> HIDE DEF ps, ks, g
  <2>5. merges' \subseteq Merges /\ \A h \in merges' : \A p \in h.promises : Exists(p)
    BY <1>0, <2>1, <2>3, <2>4 DEF Movable
  <2> QED
    BY <2>1, <2>4, <2>5, MovedKeeps
<1>2. ASSUME NEW g \in merges, Undo(g) PROVE PromisesInv'
  <2>1. Moved(g.from, g.promises, g.receipts) /\ merges' = merges \ {g}
    BY <1>2 DEF Undo
  <2>2. g.from \in Customers /\ g.promises \in SUBSET Promises
    BY <1>0 DEF Merges
  <2>3. merges' \subseteq Merges /\ \A h \in merges' : \A p \in h.promises : Exists(p)
    BY <1>0, <2>1 DEF Movable
  <2>4. \A p \in g.promises : Exists(p)
    BY <1>0 DEF Movable
  <2> QED
    BY <2>1, <2>2, <2>3, <2>4, MovedKeeps
<1> QED
  BY <1>1, <1>2 DEF Merging

\* Every step keeps the invariant.
LEMMA PromisesNextInvariant == PromisesInv /\ [Next]_vars => PromisesInv'
<1> SUFFICES ASSUME PromisesInv, [Next]_vars PROVE PromisesInv'
  OBVIOUS
<1>1. ASSUME NEW s \in Slots, Editing(s) PROVE PromisesInv'
  BY <1>1, ReadsKeep, CreateKeeps, UpdateKeeps DEF Editing
<1>2. ASSUME NEW s \in Slots, Deciding(s) PROVE PromisesInv'
  BY <1>2, ReadsKeep, SetStatusKeeps DEF Deciding
<1>3. ASSUME NEW s \in Slots, Sweeping(s) PROVE PromisesInv'
  BY <1>3, ReadsKeep, SettlingKeeps, SweepOneKeeps, WakesKeep DEF Sweeping
<1>4. ASSUME NEW s \in Slots, Reminding(s) PROVE PromisesInv'
  BY <1>4, ReadsKeep, WakesKeep DEF Reminding
<1>5. ASSUME UNCHANGED vars PROVE PromisesInv'
  <2>1. Tables' /\ FinalLeavesNoWork'
    BY <1>5 DEF PromisesInv, Tables, PromisesTyped, Allocated, Dated, Movable, Exists, FinalLeavesNoWork,
                vars, promises
  <2>2. Handling'
    BY <1>5, HandlingStays DEF Exists, vars, promises, PromisesInv
  <2> QED
    BY <2>1, <2>2 DEF PromisesInv
<1> QED
  BY <1>1, <1>2, <1>3, <1>4, <1>5, WorkingKeeps, SettlingKeeps, MergingKeeps, BooksKeep DEF Next

\* The invariant holds in every state: the tables are well formed, no handler is about
\* to write to a promise that is not there, and settled promises leave no open work.
THEOREM PromisesInvariance == Spec => []PromisesInv
<1>1. Init => PromisesInv
  BY PromisesInitially
<1>2. PromisesInv /\ [Next]_vars => PromisesInv'
  BY PromisesNextInvariant
<1> QED
  BY <1>1, <1>2, PTL DEF Spec

\* In every state reached, the plan a settlement would make fits the guard of the
\* allocations table, save for receipts and promises that merges have divided: no
\* receipt over-spent, none given to a stranger, no promise paid more than it expects
\* (planPromiseSettlements).
THEOREM PlansFit == Spec => []PlanWithinCapacity
<1>1. PromisesInv => PlanWithinCapacity
  BY PlanIsPlanned, PlannedFits DEF PromisesInv, PlanWithinCapacity
<1> QED
  BY <1>1, PromisesInvariance, PTL

\* Work is left open for a settled promise by no interleaving of the handlers.
THEOREM NoWorkLeft == Spec => []FinalLeavesNoWork
<1>1. PromisesInv => FinalLeavesNoWork
  BY DEF PromisesInv
<1> QED
  BY <1>1, PromisesInvariance, PTL

\* Nothing but a settlement allocates.
LEMMA OnlySettlementAllocates ==
    ASSUME [Next]_vars, alloc' # alloc
    PROVE  \E selected \in SUBSET Promises : Settle(selected)
<1>1. ASSUME NEW s \in Slots, Editing(s) PROVE FALSE
  BY <1>1 DEF Editing, CreateRead, CreateCommit, UpdateRead, UpdateCommit, Fail, ReadOnly
<1>2. ASSUME NEW s \in Slots, Deciding(s) PROVE FALSE
  BY <1>2 DEF Deciding, SetStatusRead, SetStatusCommit, ReadOnly
<1>3. ASSUME NEW s \in Slots, Sweeping(s) PROVE Settle(Promises)
  BY <1>3 DEF Sweeping, SweepBegin, SweepRead, SweepOne, SweepEnd, ReadOnly
<1>4. ASSUME NEW s \in Slots, Reminding(s) PROVE FALSE
  BY <1>4 DEF Reminding, RemindRead, RemindCheck, RemindWrite, RemindEnd, ReadOnly
<1>5. ~ Working /\ ~ Merging /\ ~ Books /\ ~ UNCHANGED vars
  BY DEF Working, CloseDue, CompleteTask, Merging, Merge, Undo, Moved, Books, ShowRow, HideRow,
         Reassign, Tick, vars
<1>6. CASE Settling
  BY <1>6 DEF Settling, SettleTick
<1> QED
  BY <1>1, <1>2, <1>3, <1>4, <1>5, <1>6 DEF Next

\* A promise the receipt could also have been for has its whole amount by then.
LEMMA SettlementAttributes ==
    ASSUME Tables, NEW selected, Settle(selected), NEW n \in alloc' \ alloc,
           NEW q \in Promises \ {n.promise}, Exists(q), Group(terms[q]) = Group(n),
           terms[q].promisedOn <= n.day, status[q] \in Eligible
    PROVE  ToPromise(alloc', q) >= expected[q]
<1> DEFINE new == Plan(Book, rows, Loaded, now, selected)
<1>1. Planned(new)
  BY PlanIsPlanned
<1>2. alloc' = alloc \cup new /\ NotRepeated(alloc, new)
  BY DEF Settle
<1> HIDE DEF new
<1>3. /\ n \in new /\ Measured(new) /\ Measured(Loaded) /\ Loaded \subseteq alloc
      /\ Measured(alloc \cup new) /\ Measured(Loaded \cup new)
  BY <1>1, <1>2, PlannedAllocated, PlannerFits DEF Allocated
<1>4. /\ q \in DOMAIN Book /\ Group(Book[q]) = Group(n) /\ Book[q].promisedOn <= n.day
      /\ Book[q].status \in Eligible /\ Book[q].expected = expected[q]
  BY DEF Book, Group
<1>5. ToPromise(Loaded, q) + ToPromise(new, q) >= expected[q]
  BY <1>1, <1>3, <1>4 DEF Planned, PlanSound, NobodyElse
<1>6. \A a \in Loaded : a.promise = q => a \notin new
  BY <1>2, <1>3 DEF NotRepeated
<1>7. ToPromise(Loaded \cup new, q) = ToPromise(Loaded, q) + ToPromise(new, q)
  BY <1>3, <1>6, ToPromiseJoins
<1>8. ToPromise(Loaded \cup new, q) <= ToPromise(alloc', q)
  BY <1>2, <1>3, PartSums, SumGrows DEF ToPromise
<1>9. expected[q] \in Nat /\ ToPromise(Loaded \cup new, q) \in Nat /\ ToPromise(alloc', q) \in Nat
  BY <1>2, <1>3, PartSums DEF Tables, PromisesTyped
<1> QED
  BY <1>5, <1>7, <1>8, <1>9

\* A settlement gives a receipt to a promise only when it could be for no other, never
\* to the older of two (planPromiseSettlements).
THEOREM AttributedUniquely == Spec => AttributionIsUnique
<1> DEFINE Unique ==
       \A n \in alloc' \ alloc : \A q \in Promises \ {n.promise} :
          /\ Exists(q) /\ Group(terms[q]) = Group(n) /\ terms[q].promisedOn <= n.day
          /\ status[q] \in Eligible
          => ToPromise(alloc', q) >= expected[q]
<1>1. PromisesInv /\ [Next]_vars => [Unique]_vars
  <2> SUFFICES ASSUME PromisesInv, [Next]_vars PROVE Unique
    OBVIOUS
  <2>1. CASE alloc' = alloc
    BY <2>1
  <2>2. CASE alloc' # alloc
    <3>1. PICK selected \in SUBSET Promises : Settle(selected)
      BY <2>2, OnlySettlementAllocates
    <3> QED
      BY <3>1, SettlementAttributes DEF PromisesInv
  <2> QED
    BY <2>1, <2>2
<1> QED
  BY <1>1, PromisesInvariance, PTL DEF Spec, AttributionIsUnique

\* What the steps do to a missed date.
MissedStep(p) ==
    missed[p] # None /\ missed'[p] # missed[p] =>
       /\ missed'[p] # None
       /\ status[p] \in Open /\ status'[p] = "unfulfilled"
       /\ \E s \in Slots : op[s].phase = "sweep" /\ <<p, missed'[p]>> \in op[s].todo

\* A settlement keeps a missed date (missedDueDate).
LEMMA SettlementKeepsMissed ==
    ASSUME Tables, NEW selected, Settle(selected), NEW p \in Promises, missed[p] # None
    PROVE  missed'[p] = missed[p]
<1> DEFINE new == Plan(Book, rows, Loaded, now, selected)
           seen == Loaded \cup new
           changed == {n.promise : n \in new}
<1>1. missed' = [q \in Promises |-> IF q \in changed THEN Missed(Book, seen, new, now, q) ELSE missed[q]]
  BY DEF Settle
<1>2. p \in changed => Exists(p)
  BY PlanIsPlanned, PlannedRows
<1> HIDE DEF changed, seen, new
<1>3. p \in changed => Missed(Book, seen, new, now, p) = missed[p]
  BY <1>2 DEF Missed, Book
<1> QED
  BY <1>1, <1>3

\* A sweep replaces it only for an open promise, with the date its list holds.
LEMMA SweepMisses ==
    ASSUME PromisesInv, NEW s \in Slots, NEW x \in op[s].todo, SweepOne(s, x), NEW p \in Promises
    PROVE  MissedStep(p)
<1>1. op[s].phase = "sweep" /\ op[s] \in Ops /\ PromisesTyped
  BY DEF SweepOne, PromisesInv, Handling, Tables
<1>2. x \in Promises \X DueDates
  <2>1. op[s] \in [phase : {"sweep"}, today : Nat, todo : SUBSET (Promises \X DueDates)]
    BY <1>1 DEF Ops, Idle
  <2> QED
    BY <2>1
<1>3. x = <<x[1], x[2]>> /\ x[2] # None /\ x[1] \in Promises
  BY <1>2, DatesAreNat
<1>4. CASE StillOverdue(x[1], op[s].today)
  <2>1. /\ status' = [status EXCEPT ![x[1]] = "unfulfilled"]
        /\ missed' = [missed EXCEPT ![x[1]] = x[2]]
        /\ status[x[1]] \in Open
    BY <1>4 DEF SweepOne, StillOverdue
  <2>2. CASE p = x[1]
    <3>1. missed'[p] = x[2] /\ status'[p] = "unfulfilled" /\ <<p, x[2]>> = x
      BY <1>1, <1>3, <2>1, <2>2 DEF PromisesTyped
    <3> QED
      BY <1>1, <1>3, <2>1, <2>2, <3>1 DEF MissedStep
  <2>3. CASE p # x[1]
    BY <1>1, <2>1, <2>3 DEF PromisesTyped, MissedStep
  <2> QED
    BY <2>2, <2>3
<1>5. CASE ~ StillOverdue(x[1], op[s].today)
  BY <1>5 DEF SweepOne, MissedStep
<1> QED
  BY <1>4, <1>5

\* A missed due date is never forgotten, and only a sweep that escalates an open
\* promise puts another in its place.
THEOREM MissedStays == Spec => MissedIsKept
<1> DEFINE Kept ==
       \A p \in Promises : missed[p] # None /\ missed'[p] # missed[p] =>
          /\ missed'[p] # None
          /\ status[p] \in Open /\ status'[p] = "unfulfilled"
          /\ \E s \in Slots : op[s].phase = "sweep" /\ <<p, missed'[p]>> \in op[s].todo
<1>1. PromisesInv /\ [Next]_vars => [Kept]_vars
  <2> SUFFICES ASSUME PromisesInv, [Next]_vars, NEW p \in Promises PROVE MissedStep(p)
    BY DEF MissedStep
  <2>1. CASE missed' = missed
    BY <2>1 DEF MissedStep
  <2>2. ASSUME NEW selected, Settle(selected) PROVE MissedStep(p)
    BY <2>2, SettlementKeepsMissed DEF MissedStep, PromisesInv
  <2>3. ASSUME NEW s \in Slots, Editing(s) PROVE MissedStep(p)
    <3>1. CASE \E q \in Promises : CreateCommit(s, q)
      BY <2>1, <3>1 DEF CreateCommit
    <3>2. CASE UpdateCommit(s)
      BY <2>1, <3>2 DEF UpdateCommit
    <3> QED
      BY <2>1, <2>3, <3>1, <3>2 DEF Editing, CreateRead, UpdateRead, Fail, ReadOnly, promises
  <2>4. ASSUME NEW s \in Slots, Deciding(s) PROVE MissedStep(p)
    BY <2>1, <2>4 DEF Deciding, SetStatusRead, SetStatusCommit, ReadOnly, promises
  <2>5. ASSUME NEW s \in Slots, Sweeping(s) PROVE MissedStep(p)
    <3>1. CASE SweepBegin(s)
      BY <2>2, <3>1 DEF SweepBegin
    <3>2. CASE \E x \in op[s].todo : SweepOne(s, x)
      BY <3>2, SweepMisses
    <3> QED
      BY <2>1, <2>5, <3>1, <3>2 DEF Sweeping, SweepRead, SweepEnd, ReadOnly, promises
  <2>6. ASSUME NEW s \in Slots, Reminding(s) PROVE MissedStep(p)
    BY <2>1, <2>6 DEF Reminding, RemindRead, RemindCheck, RemindWrite, RemindEnd, ReadOnly, promises
  <2>7. CASE Working \/ Merging \/ Books \/ UNCHANGED vars
    BY <2>1, <2>7 DEF Working, CloseDue, CompleteTask, Merging, Merge, Undo, Moved, Books, ShowRow,
                      HideRow, Reassign, Tick, vars, promises
  <2>8. CASE Settling
    BY <2>2, <2>8 DEF Settling, SettleTick
  <2> QED
    BY <2>3, <2>4, <2>5, <2>6, <2>7, <2>8 DEF Next
<1> QED
  BY <1>1, PromisesInvariance, PTL DEF Spec, MissedIsKept

\* A handler changes only what it itself remembers.
LEMMA OthersRest ==
    ASSUME Handling, NEW t \in Slots, Editing(t) \/ Deciding(t) \/ Sweeping(t) \/ Reminding(t),
           NEW s \in Slots, s # t
    PROVE  op'[s] = op[s]
<1>0. ASSUME NEW o, Become(t, o) PROVE op'[s] = op[s]
  BY <1>0 DEF Become, Handling
<1>1. ASSUME NEW o, Begin(t, o) PROVE op'[s] = op[s]
  BY <1>1 DEF Begin, Handling
<1>2. CASE Editing(t)
  BY <1>0, <1>1, <1>2 DEF Editing, CreateRead, CreateCommit, UpdateRead, UpdateCommit, Fail, Free
<1>3. CASE Deciding(t)
  BY <1>0, <1>1, <1>3 DEF Deciding, SetStatusRead, SetStatusCommit, Free
<1>4. CASE Sweeping(t)
  BY <1>0, <1>1, <1>4 DEF Sweeping, SweepBegin, SweepRead, SweepOne, SweepEnd, Free
<1>5. CASE Reminding(t)
  BY <1>0, <1>1, <1>5 DEF Reminding, RemindRead, RemindCheck, RemindWrite, RemindEnd, Free
<1> QED
  BY <1>2, <1>3, <1>4, <1>5

\* A handler in its sweep only goes on with it, or stops.
LEMMA SweepGoesOn ==
    ASSUME Handling, [Next]_vars, NEW s \in Slots, op[s].phase = "sweep", op'[s] # op[s]
    PROVE  (\E x \in op[s].todo : SweepOne(s, x)) \/ SweepEnd(s) \/ Fail(s)
<1>1. op[s] # Idle
  BY DEF Idle
<1>2. Editing(s) \/ Deciding(s) \/ Sweeping(s) \/ Reminding(s)
  <2>1. ~ Working /\ ~ Settling /\ ~ Merging /\ ~ Books /\ ~ UNCHANGED vars
    BY DEF Working, CloseDue, CompleteTask, Settling, SettleTick, Merging, Merge, Undo, Moved, Books,
           ShowRow, HideRow, Reassign, Tick, vars
  <2> QED
    BY <2>1, OthersRest DEF Next
<1>3. CASE Editing(s)
  BY <1>1, <1>3 DEF Editing, CreateRead, CreateCommit, UpdateRead, UpdateCommit, Begin
<1>4. CASE Deciding(s)
  BY <1>1, <1>4 DEF Deciding, SetStatusRead, SetStatusCommit, Begin
<1>5. CASE Sweeping(s)
  BY <1>1, <1>5 DEF Sweeping, SweepBegin, SweepRead, Begin
<1>6. CASE Reminding(s)
  BY <1>1, <1>6 DEF Reminding, RemindRead, RemindCheck, RemindWrite, RemindEnd, Begin
<1> QED
  BY <1>2, <1>3, <1>4, <1>5, <1>6

\* Whatever the sweep found when it made its list, it leaves alone a promise that has
\* reached a final status since (sweepOverdue).
THEOREM SweepsSpareTheFinal == Spec => SweepSpares
<1> DEFINE Spared ==
       \A s \in Slots :
          op[s].phase = "sweep" /\ op'[s] # op[s] =>
             \A p \in Promises : status[p] \in Final => status'[p] = status[p]
<1>1. PromisesInv /\ [Next]_vars => [Spared]_vars
  <2> SUFFICES ASSUME PromisesInv, [Next]_vars, NEW s \in Slots, op[s].phase = "sweep",
                      op'[s] # op[s], NEW p \in Promises, status[p] \in Final
               PROVE  status'[p] = status[p]
    OBVIOUS
  <2>1. Handling /\ status \in [Promises -> Statuses]
    BY DEF PromisesInv, Tables, PromisesTyped
  <2>2. status[p] \notin Open
    BY DEF Final, Open
  <2>3. CASE Fail(s)
    BY <2>3 DEF Fail, ReadOnly, promises
  <2>4. CASE SweepEnd(s)
    BY <2>2, <2>4 DEF SweepEnd, Open
  <2>5. ASSUME NEW x \in op[s].todo, SweepOne(s, x) PROVE status'[p] = status[p]
    <3>1. CASE StillOverdue(x[1], op[s].today)
      <4>1. x[1] # p /\ status' = [status EXCEPT ![x[1]] = "unfulfilled"]
        BY <2>2, <2>5, <3>1 DEF SweepOne, StillOverdue
      <4> QED
        BY <2>1, <4>1
    <3>2. CASE ~ StillOverdue(x[1], op[s].today)
      BY <2>5, <3>2 DEF SweepOne
    <3> QED
      BY <3>1, <3>2
  <2> QED
    BY <2>1, <2>3, <2>4, <2>5, SweepGoesOn
<1> QED
  BY <1>1, PromisesInvariance, PTL DEF Spec, SweepSpares

-----------------------------------------------------------------------------
(* Reminders, of runs that may stop anywhere and start again.              *)

\* At most one run of reminders is at work: the scheduler, or the endpoint that runs
\* them at once (runForOrganization), whichever other handlers are.
OneRun == \A s, t \in Slots : op[s].phase = "remind" /\ op[t].phase = "remind" => s = t

\* What is about to be written has not been written yet.
Pending ==
    \A s \in Slots :
       op[s].phase = "remind" /\ op[s].one # None =>
          LET x == <<op[s].one, op[s].day>> IN x \in Promises \X Days => reminders[x] = 0

OnceInv == Pending /\ OneReminderADay

\* A step that writes no reminder, and after which only what was found unwritten is
\* about to be written.
LEMMA RemindersRest ==
    ASSUME PromisesInv, OnceInv, UNCHANGED reminders,
           \A s \in Slots : op'[s] = op[s] \/ op'[s].phase # "remind" \/ op'[s].one = None
                            \/ ~ Reminded(op'[s].one, op'[s].day)
    PROVE  OnceInv'
<1>0. reminders \in [Promises \X Days -> Nat]
  BY DEF PromisesInv, Tables, PromisesTyped
<1>1. OneReminderADay'
  BY DEF OnceInv, OneReminderADay
<1>2. ASSUME NEW s \in Slots, op'[s].phase = "remind", op'[s].one # None,
             <<op'[s].one, op'[s].day>> \in Promises \X Days
      PROVE  reminders'[<<op'[s].one, op'[s].day>>] = 0
  <2>1. CASE op'[s] = op[s]
    <3>1. op[s].phase = "remind" /\ op[s].one # None /\ <<op[s].one, op[s].day>> \in Promises \X Days
      BY <1>2, <2>1
    <3>2. reminders[<<op[s].one, op[s].day>>] = 0
      BY <3>1 DEF OnceInv, Pending
    <3> QED
      BY <2>1, <3>2
  <2>2. CASE ~ Reminded(op'[s].one, op'[s].day)
    <3> DEFINE x == <<op'[s].one, op'[s].day>>
               X == Promises \X Days
    <3>1. ~ (reminders[x] > 0)
      BY <2>2 DEF Reminded
    <3>2. reminders \in [X -> Nat] /\ x \in X
      BY <1>0, <1>2
    <3> HIDE DEF x, X
    <3>3. reminders'[x] = 0
      BY <3>1, <3>2
    <3> QED
      BY <3>3 DEF x
  <2> QED
    BY <1>2, <2>1, <2>2
<1> QED
  BY <1>1, <1>2 DEF OnceInv, Pending

\* The one run writes the reminder it found missing.
LEMMA RemindWritesOnce ==
    ASSUME PromisesInv, OnceInv, OneRun, NEW s \in Slots, RemindWrite(s)
    PROVE  OnceInv'
<1> DEFINE o == op[s]
           key == <<o.one, o.day>>
           X == Promises \X Days
<1>0. reminders \in [X -> Nat] /\ op \in [Slots -> Ops]
  BY DEF PromisesInv, Tables, PromisesTyped, Handling
<1>1. /\ o.phase = "remind" /\ o.one # None
      /\ reminders' = [reminders EXCEPT ![key] = reminders[key] + 1]
      /\ op' = [op EXCEPT ![s] = [o EXCEPT !.one = None]]
  BY DEF RemindWrite, Become
<1>2. key \in X => reminders[key] = 0
  BY <1>1 DEF OnceInv, Pending
<1>3. \A x \in X : reminders[x] <= 1 /\ reminders[x] \in Nat
  BY <1>0 DEF OnceInv, OneReminderADay
<1>4. o \in [phase : {"remind"}, day : Nat, todo : SUBSET Promises,
             one : Promises \cup {None}, waking : SUBSET Promises]
  BY <1>0, <1>1 DEF Ops, Idle
<1>5. \A t \in Slots : op'[t].phase = "remind" => op'[t].one = None
  <2> TAKE t \in Slots
  <2>1. CASE t = s
    BY <1>0, <1>1, <1>4, <2>1
  <2>2. CASE t # s
    BY <1>0, <1>1, <2>2 DEF OneRun
  <2> QED
    BY <2>1, <2>2
<1> HIDE DEF key, X, o
<1>6. DOMAIN reminders' = X /\ \A x \in X : reminders'[x] = IF x = key THEN reminders[x] + 1 ELSE reminders[x]
  BY <1>0, <1>1
<1>7. \A x \in X : reminders'[x] <= 1
  BY <1>2, <1>3, <1>6
<1> QED
  BY <1>5, <1>6, <1>7 DEF OnceInv, OneReminderADay, Pending

\* Every step that begins with one run of reminders at most keeps to one a day.
LEMMA RemindersStep ==
    ASSUME PromisesInv, OnceInv, OneRun, [Next]_vars
    PROVE  OnceInv'
<1>0. op \in [Slots -> Ops] /\ \A s \in Slots : op[s] = Idle => op[s].phase = "idle"
  BY DEF PromisesInv, Handling, Idle
<1> DEFINE Quiet(o) == o.phase # "remind" \/ o.one = None \/ ~ Reminded(o.one, o.day)
<1>1. ASSUME NEW s \in Slots, NEW o, Become(s, o), Quiet(o), UNCHANGED reminders
      PROVE  OnceInv'
  <2>1. \A t \in Slots : op'[t] = op[t] \/ Quiet(op'[t])
    BY <1>0, <1>1 DEF Become
  <2> QED
    BY <1>1, <2>1, RemindersRest
<1>2. Quiet(Idle) /\ Quiet([phase |-> "swept"])
  BY DEF Idle
<1>3. ASSUME UNCHANGED <<reminders, op>> PROVE OnceInv'
  BY <1>3, RemindersRest
<1>4. ASSUME NEW s \in Slots, Editing(s) PROVE OnceInv'
  <2>1. ASSUME NEW c, NEW k, NEW cur, NEW d, NEW a, NEW f, CreateRead(s, c, k, cur, d, a, f)
        PROVE  OnceInv'
    BY <1>1, <2>1 DEF CreateRead, Begin, Become, ReadOnly
  <2>2. ASSUME NEW p, NEW d, NEW a, UpdateRead(s, p, d, a) PROVE OnceInv'
    <3> DEFINE o == [phase |-> "update", promise |-> p, due |-> d, amount |-> a,
                     status |-> IF d = None THEN None ELSE ForDueDate(d)]
    <3>1. Become(s, o) /\ UNCHANGED reminders /\ Quiet(o)
      BY <2>2 DEF UpdateRead, Begin, Become, ReadOnly
    <3> HIDE DEF o
    <3> QED
      BY <1>1, <3>1
  <2>3. ASSUME NEW p, CreateCommit(s, p) PROVE OnceInv'
    BY <1>1, <1>2, <2>3 DEF CreateCommit, Free
  <2>4. CASE UpdateCommit(s) \/ Fail(s)
    BY <1>1, <1>2, <2>4 DEF UpdateCommit, Fail, Free, ReadOnly
  <2> QED
    BY <1>4, <2>1, <2>2, <2>3, <2>4 DEF Editing
<1>5. ASSUME NEW s \in Slots, Deciding(s) PROVE OnceInv'
  <2>1. ASSUME NEW p, NEW to, NEW m, NEW d, SetStatusRead(s, p, to, m, d) PROVE OnceInv'
    <3> DEFINE o == [phase |-> "set", promise |-> p, to |-> to, due |-> d,
                     paid |-> IF to = "fulfilled" THEN expected[p] ELSE m]
    <3>1. Become(s, o) /\ UNCHANGED reminders /\ Quiet(o)
      BY <2>1 DEF SetStatusRead, Begin, Become, ReadOnly
    <3> HIDE DEF o
    <3> QED
      BY <1>1, <3>1
  <2>2. CASE SetStatusCommit(s)
    BY <1>1, <1>2, <2>2 DEF SetStatusCommit, Free
  <2> QED
    BY <1>5, <2>1, <2>2 DEF Deciding
<1>6. ASSUME NEW s \in Slots, Sweeping(s) PROVE OnceInv'
  <2>1. CASE SweepBegin(s)
    BY <1>1, <1>2, <2>1 DEF SweepBegin, Begin, Become, Settle
  <2>2. CASE SweepRead(s)
    BY <1>1, <2>2 DEF SweepRead, ReadOnly
  <2>3. ASSUME NEW x \in op[s].todo, SweepOne(s, x) PROVE OnceInv'
    <3> DEFINE o == op[s]
               rest == [o EXCEPT !.todo = o.todo \ {x}]
    <3>1. Become(s, rest) /\ UNCHANGED reminders /\ o.phase = "sweep"
      BY <2>3 DEF SweepOne
    <3>2. o \in [phase : {"sweep"}, today : Nat, todo : SUBSET (Promises \X DueDates)]
      BY <1>0, <3>1 DEF Ops, Idle
    <3>3. Quiet(rest)
      BY <3>2
    <3> HIDE DEF rest
    <3> QED
      BY <1>1, <3>1, <3>3
  <2>4. CASE SweepEnd(s)
    BY <1>1, <1>2, <2>4 DEF SweepEnd, Free
  <2> QED
    BY <1>6, <2>1, <2>2, <2>3, <2>4 DEF Sweeping
<1>7. ASSUME NEW s \in Slots, Reminding(s) PROVE OnceInv'
  <2>1. CASE RemindRead(s)
    BY <1>1, <2>1 DEF RemindRead, Begin, Become, ReadOnly
  <2>2. ASSUME NEW p \in Promises, RemindCheck(s, p) PROVE OnceInv'
    <3> DEFINE o == op[s]
               next == [o EXCEPT !.todo = o.todo \ {p}, !.one = IF Reminded(p, o.day) THEN None ELSE p]
    <3>1. Become(s, next) /\ UNCHANGED reminders /\ o.phase = "remind"
      BY <2>2 DEF RemindCheck, ReadOnly
    <3>2. o \in [phase : {"remind"}, day : Nat, todo : SUBSET Promises,
                 one : Promises \cup {None}, waking : SUBSET Promises]
      BY <1>0, <3>1 DEF Ops, Idle
    <3>3. next.one = (IF Reminded(p, o.day) THEN None ELSE p) /\ next.day = o.day
      BY <3>2
    <3> HIDE DEF next
    <3>4. Quiet(next)
      BY <3>3
    <3> QED
      BY <1>1, <3>1, <3>4
  <2>3. CASE RemindWrite(s)
    BY <2>3, RemindWritesOnce
  <2>4. CASE RemindEnd(s)
    BY <1>1, <1>2, <2>4 DEF RemindEnd, Free, ReadOnly
  <2> QED
    BY <1>7, <2>1, <2>2, <2>3, <2>4 DEF Reminding
<1>8. CASE Working \/ Merging \/ Books \/ Settling \/ UNCHANGED vars
  BY <1>3, <1>8 DEF Working, CloseDue, CompleteTask, Merging, Merge, Undo, Moved, Books, ShowRow,
                    HideRow, Reassign, Tick, Settling, SettleTick, Settle, vars
<1> QED
  BY <1>4, <1>5, <1>6, <1>7, <1>8 DEF Next

\* While no two runs of reminders overlap, no promise is reminded of twice on a day,
\* wherever a run is stopped, whoever starts it again and whatever other handlers do
\* in between (runForOrganization).
THEOREM RemindedOnce == Spec /\ []OneRun => []OneReminderADay
<1>1. Init => OnceInv
  BY DEF Init, OnceInv, Pending, OneReminderADay, Idle
<1>2. PromisesInv /\ OnceInv /\ OneRun /\ [Next]_vars => OnceInv'
  BY RemindersStep
<1>3. OnceInv => OneReminderADay
  BY DEF OnceInv
<1> QED
  BY <1>1, <1>2, <1>3, PromisesInvariance, PTL DEF Spec
=============================================================================
