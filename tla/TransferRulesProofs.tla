-------------------------- MODULE TransferRulesProofs --------------------------
(***************************************************************************)
(* Facts about the pure rules that the proofs about Ledger and LedgerServer *)
(* share: what they return, how they can change a balance, and how they    *)
(* change the sum of all balances.                                         *)
(***************************************************************************)
EXTENDS TransferRules, FiniteSetTheorems, WellFoundedInduction, TLAPS

(* The statements of lib/holds.js add an integer to a balance.               *)
LEMMA ChangeType ==
    ASSUME NEW t \in Transfers, NEW moves, NEW a \in Accounts
    PROVE  Change(t, moves, a) \in Int
<1>1. DebitOf(t, a) \in Int
    BY ContentAssumption DEF DebitOf, Debtors
<1>2. CreditOf(t, a) \in Int
    BY ContentAssumption DEF CreditOf, Creditors
<1>3. QED
    BY <1>1, <1>2 DEF Change

(* A step that moves no hold never lowers a balance, provided the amounts    *)
(* were validated; a hold lowers it by the debit at most.                    *)
LEMMA ChangeBound ==
    ASSUME NEW t \in Transfers, NEW moves, NEW a \in Accounts, ValidAmounts(t)
    PROVE  /\ "hold" \notin moves => Change(t, moves, a) >= 0
           /\ Change(t, moves, a) >= -DebitOf(t, a)
<1>1. DebitOf(t, a) \in Int /\ DebitOf(t, a) >= 0
    BY ContentAssumption DEF DebitOf, Debtors, ValidAmounts, Positive
<1>2. CreditOf(t, a) \in Int /\ CreditOf(t, a) >= 0
    BY ContentAssumption DEF CreditOf, Creditors, ValidAmounts, Positive
<1>3. QED
    BY <1>1, <1>2 DEF Change

(* An account outside the locked ones keeps its balance.                     *)
LEMMA ChangeOutside ==
    ASSUME NEW t \in Transfers, NEW moves \in SUBSET Moves, NEW a,
           a \notin AccountsOf(t, moves)
    PROVE  Change(t, moves, a) = 0
<1>1. CASE moves \cap {"hold", "return"} = {}
    BY <1>1 DEF Change, AccountsOf, CreditOf, Moves
<1>2. CASE moves \cap {"hold", "return"} # {}
    BY <1>2 DEF Change, AccountsOf, CreditOf, DebitOf, Moves
<1>3. QED
    BY <1>1, <1>2

------------------------------------------------------------------------------
(* The marks of one transfer are marks.                                      *)
LEMMA MarksType ==
    ASSUME NEW t \in Transfers
    PROVE  /\ Debtors(t) \subseteq Accounts
           /\ Creditors(t) \subseteq Accounts
           /\ Marks(t) \subseteq AllMarks
    BY ContentAssumption DEF Marks, AllMarks, Debtors, Creditors

LEMMA NoRowType == NoRow \in Rows
    BY DEF NoRow, Rows, States, Reasons, Conditions, NoTime

(* What each of the three transactions writes is a row again.                *)
LEMMA PutRowType ==
    ASSUME NEW t \in Transfers, NEW old \in Rows, NEW job \in Jobs, NEW now \in Int
    PROVE  PutRow(t, old, job, now) \in Rows
<1>1. StateIfExecuted(t, old, job) \in States
    BY DEF StateIfExecuted, StateIfPrepared, StateOnArrival, Rows, States
<1>2. /\ job.auth \subseteq AllMarks
      /\ job.rejectedBy \subseteq Accounts
      /\ job.reason \in Reasons
      /\ old.executedAt \in Int
      /\ old.fulfillment \in Conditions
    BY DEF Jobs, Rows
<1>3. QED
    BY <1>1, <1>2 DEF PutRow, Rows, States, Reasons

LEMMA FulfillRowType ==
    ASSUME NEW old \in Rows, NEW condition \in Conditions, NEW time \in Int
    PROVE  FulfillRow(old, condition, time) \in Rows
    BY DEF FulfillRow, Rows, States, Reasons

LEMMA ExpireRowType ==
    ASSUME NEW old \in Rows PROVE ExpireRow(old) \in Rows
    BY DEF ExpireRow, Rows, States, Reasons

(* ... and moves money in the three known ways only.                         *)
LEMMA MovesType ==
    ASSUME NEW t, NEW old, NEW job, NEW condition
    PROVE  /\ PutMoves(t, old, job) \subseteq Moves
           /\ FulfillMoves(old, condition) \subseteq Moves
           /\ ExpireMoves(old) \subseteq Moves
    BY DEF PutMoves, FulfillMoves, ExpireMoves, Moves

------------------------------------------------------------------------------
(* Sums.  SumFunction folds a function over its domain, by recursion on the  *)
(* set and in the order of CHOOSE; the lemmas give its equations.            *)

(* Whatever holds of a set when it holds of the set without any one of its   *)
(* elements holds of every finite set: a smallest exception has none.        *)
LEMMA SubsetInduction ==
    ASSUME NEW S, IsFiniteSet(S), NEW Good,
           \A s \in SUBSET S : (\A x \in s : s \ {x} \in Good) => s \in Good
    PROVE  SUBSET S \subseteq Good
<1> DEFINE Bad == {s \in SUBSET S : s \notin Good}
<1> SUFFICES ASSUME Bad # {} PROVE FALSE
    OBVIOUS
<1>1. Bad \subseteq FiniteSubsetsOf(S)
    BY FS_Subset DEF FiniteSubsetsOf
<1>2. PICK s \in Bad : \A u \in Bad : <<u, s>> \notin StrictSubsetOrdering(S)
    BY <1>1, FS_StrictSubsetOrderingWellFounded, WFMin
<1>3. ASSUME NEW x \in s PROVE s \ {x} \in Good
  <2>1. s \ {x} \in SUBSET S /\ s \ {x} \subseteq s /\ s \ {x} # s
      BY <1>3
  <2>2. <<s \ {x}, s>> \in StrictSubsetOrdering(S)
      BY <2>1 DEF StrictSubsetOrdering
  <2>3. QED
      BY <1>2, <2>1, <2>2
<1>4. QED
    BY <1>2, <1>3

Chosen(s) == CHOOSE x \in s : TRUE

LEMMA ChosenIn == ASSUME NEW s, s # {} PROVE Chosen(s) \in s
    BY DEF Chosen

(* The equation of the recursive function behind SumFunctionOnSet.           *)
Sums(f, S, iter) ==
    iter = [s \in SUBSET S |->
               IF s = {} THEN 0 ELSE f[Chosen(s)] + iter[s \ {Chosen(s)}]]

LEMMA SumIsFold ==
    ASSUME NEW f, NEW S
    PROVE  SumFunctionOnSet(f, S) = (CHOOSE iter : Sums(f, S, iter))[S]
    BY DEF SumFunctionOnSet, FoldFunctionOnSet, MapThenFoldSet, Chosen, Sums

(* The equation has a solution: partial ones, for the subsets up to a size,  *)
(* exist for every size.                                                     *)
LEMMA SumsExist ==
    ASSUME NEW f, NEW S, IsFiniteSet(S)
    PROVE  \E iter : Sums(f, S, iter)
<1> DEFINE UpTo(k) == {s \in SUBSET S : Cardinality(s) <= k}
           Extended(g, k) == [s \in UpTo(k) |->
               IF s = {} THEN 0 ELSE f[Chosen(s)] + g[s \ {Chosen(s)}]]
           Bad == {k \in Nat : ~ \E g : g = Extended(g, k)}
<1>1. ASSUME NEW s \in SUBSET S
      PROVE  /\ IsFiniteSet(s) /\ Cardinality(s) \in Nat
             /\ Cardinality(s) <= Cardinality(S)
             /\ s = {} <=> Cardinality(s) = 0
             /\ s # {} => /\ Chosen(s) \in s /\ s \ {Chosen(s)} \in SUBSET S
                          /\ Cardinality(s \ {Chosen(s)}) = Cardinality(s) - 1
  <2>1. IsFiniteSet(s)
      BY FS_Subset
  <2>2. Cardinality(s) \in Nat /\ Cardinality(s) <= Cardinality(S) /\ (s = {} <=> Cardinality(s) = 0)
      BY <2>1, FS_Subset, FS_CardinalityType, FS_EmptySet
  <2>3. s # {} => Cardinality(s \ {Chosen(s)}) = Cardinality(s) - 1
      BY <2>1, ChosenIn, FS_RemoveElement
  <2>4. QED
      BY <2>1, <2>2, <2>3, ChosenIn
<1>2. ASSUME NEW k \in Nat, k # 0
      PROVE  /\ UpTo(k - 1) \subseteq UpTo(k)
             /\ \A s \in UpTo(k) : s # {} => s \ {Chosen(s)} \in UpTo(k - 1)
  <2>1. ASSUME NEW s \in SUBSET S, Cardinality(s) <= k - 1 PROVE Cardinality(s) <= k
    <3>1. Cardinality(s) \in Nat
        BY <1>1
    <3>2. QED
        BY <2>1, <3>1
  <2>2. ASSUME NEW s \in SUBSET S, Cardinality(s) <= k, s # {}
        PROVE  Cardinality(s \ {Chosen(s)}) <= k - 1
    <3>1. Cardinality(s) \in Nat /\ Cardinality(s \ {Chosen(s)}) = Cardinality(s) - 1
        BY <1>1, <2>2
    <3>2. QED
        BY <2>2, <3>1
  <2>3. QED
      BY <1>1, <2>1, <2>2
<1>3. UpTo(0) = {{}}
  <2>1. {} \in SUBSET S
      OBVIOUS
  <2>2. ASSUME NEW s \in SUBSET S PROVE Cardinality(s) <= 0 <=> s = {}
    <3>1. Cardinality(s) \in Nat /\ (s = {} <=> Cardinality(s) = 0)
        BY <1>1
    <3>2. QED
        BY <3>1
  <2>3. QED
      BY <2>1, <2>2
<1> HIDE DEF UpTo
<1>4. Bad = {}
  <2> SUFFICES ASSUME Bad # {} PROVE FALSE
      OBVIOUS
  <2>1. PICK k \in Bad : \A j \in Bad : <<j, k>> \notin OpToRel(<, Nat)
      BY NatLessThanWellFounded, WFMin
  <2>2. CASE k = 0
    <3> DEFINE g == [s \in UpTo(0) |-> 0]
    <3>1. g = Extended(g, 0)
        BY <1>3
    <3>2. QED
        BY <2>2, <3>1
  <2>3. CASE k # 0
    <3>1. k \in Nat /\ k - 1 \in Nat /\ <<k - 1, k>> \in OpToRel(<, Nat)
        BY <2>3 DEF OpToRel
    <3>2. PICK g : g = Extended(g, k - 1)
        BY <2>1, <3>1
    <3> DEFINE h == Extended(g, k)
    <3>3. ASSUME NEW s \in UpTo(k - 1) PROVE h[s] = g[s]
      <4>1. s \in UpTo(k)
          BY <1>2, <2>3, <3>1
      <4>2. g[s] = IF s = {} THEN 0 ELSE f[Chosen(s)] + g[s \ {Chosen(s)}]
          BY <3>2
      <4>3. QED
          BY <4>1, <4>2
    <3>4. ASSUME NEW s \in UpTo(k), s # {}
          PROVE  h[s \ {Chosen(s)}] = g[s \ {Chosen(s)}]
        BY <1>2, <2>3, <3>1, <3>3, <3>4
    <3> HIDE DEF h
    <3>5. h = Extended(g, k)
        BY DEF h
    <3>6. h = Extended(h, k)
        BY <3>4, <3>5
    <3>7. QED
        BY <2>1, <3>6
  <2>4. QED
      BY <2>2, <2>3
<1>5. Cardinality(S) \in Nat /\ UpTo(Cardinality(S)) = SUBSET S
    BY <1>1, FS_CardinalityType DEF UpTo
<1>6. PICK g : g = Extended(g, Cardinality(S))
    BY <1>4, <1>5
<1>7. QED
    BY <1>5, <1>6 DEF Sums

(* ... and over a subset it is the same solution.                            *)
LEMMA SumsAgree ==
    ASSUME NEW f, NEW S, IsFiniteSet(S), NEW T \in SUBSET S,
           NEW g, Sums(f, S, g), NEW h, Sums(f, T, h)
    PROVE  \A s \in SUBSET T : g[s] = h[s]
<1> DEFINE Good == {s \in SUBSET T : g[s] = h[s]}
<1>1. ASSUME NEW s \in SUBSET T, \A x \in s : s \ {x} \in Good PROVE s \in Good
  <2>1. s \in SUBSET S
      OBVIOUS
  <2>2. /\ g[s] = IF s = {} THEN 0 ELSE f[Chosen(s)] + g[s \ {Chosen(s)}]
        /\ h[s] = IF s = {} THEN 0 ELSE f[Chosen(s)] + h[s \ {Chosen(s)}]
      BY <2>1 DEF Sums
  <2>3. s # {} => g[s \ {Chosen(s)}] = h[s \ {Chosen(s)}]
      BY <1>1, ChosenIn
  <2>4. QED
      BY <2>2, <2>3
<1>2. IsFiniteSet(T)
    BY FS_Subset
<1>3. \A s \in SUBSET T : (\A x \in s : s \ {x} \in Good) => s \in Good
    BY <1>1
<1> HIDE DEF Good
<1>4. SUBSET T \subseteq Good
    BY <1>2, <1>3, SubsetInduction
<1>5. QED
    BY <1>4 DEF Good

LEMMA SumEmpty ==
    ASSUME NEW f
    PROVE  SumFunctionOnSet(f, {}) = 0
<1>1. IsFiniteSet({})
    BY FS_EmptySet
<1> DEFINE iter == CHOOSE it : Sums(f, {}, it)
<1>2. Sums(f, {}, iter)
    BY <1>1, SumsExist
<1>3. SumFunctionOnSet(f, {}) = iter[{}]
    BY SumIsFold
<1>4. QED
    BY <1>2, <1>3 DEF Sums

LEMMA SumStep ==
    ASSUME NEW f, NEW S, IsFiniteSet(S), S # {}
    PROVE  SumFunctionOnSet(f, S) = f[Chosen(S)] + SumFunctionOnSet(f, S \ {Chosen(S)})
<1> DEFINE rest == S \ {Chosen(S)}
           iter(T) == CHOOSE it : Sums(f, T, it)
<1>1. IsFiniteSet(rest)
    BY FS_RemoveElement
<1>2. Sums(f, S, iter(S)) /\ Sums(f, rest, iter(rest))
    BY <1>1, SumsExist
<1>3. SumFunctionOnSet(f, S) = iter(S)[S] /\ SumFunctionOnSet(f, rest) = iter(rest)[rest]
    BY SumIsFold
<1> HIDE DEF iter
<1>4. iter(S)[S] = f[Chosen(S)] + iter(S)[rest]
    BY <1>2 DEF Sums
<1>5. rest \in SUBSET S /\ rest \in SUBSET rest
    OBVIOUS
<1> HIDE DEF rest
<1>6. iter(S)[rest] = iter(rest)[rest]
    BY <1>2, <1>5, SumsAgree
<1>7. QED
    BY <1>3, <1>4, <1>6 DEF rest

LEMMA SumType ==
    ASSUME NEW S, IsFiniteSet(S), NEW f, \A x \in S : f[x] \in Int
    PROVE  SumFunctionOnSet(f, S) \in Int
<1> DEFINE Good == {s \in SUBSET S : SumFunctionOnSet(f, s) \in Int}
<1>1. ASSUME NEW s \in SUBSET S, \A x \in s : s \ {x} \in Good PROVE s \in Good
  <2>1. CASE s = {}
      BY <2>1, SumEmpty
  <2>2. CASE s # {}
    <3>1. Chosen(s) \in s
        BY <2>2, ChosenIn
    <3>2. SumFunctionOnSet(f, s) = f[Chosen(s)] + SumFunctionOnSet(f, s \ {Chosen(s)})
        BY <2>2, SumStep, FS_Subset
    <3>3. SumFunctionOnSet(f, s \ {Chosen(s)}) \in Int /\ f[Chosen(s)] \in Int
        BY <1>1, <3>1
    <3>4. QED
        BY <3>2, <3>3
  <2>3. QED
      BY <2>1, <2>2
<1>2. QED
    BY <1>1, SubsetInduction

(* A sum does not depend on the order in which the elements are taken.       *)
LEMMA SumRemove ==
    ASSUME NEW S, IsFiniteSet(S), NEW f, \A x \in S : f[x] \in Int, NEW x \in S
    PROVE  SumFunctionOnSet(f, S) = f[x] + SumFunctionOnSet(f, S \ {x})
<1> DEFINE Sum(s) == SumFunctionOnSet(f, s)
           Good == {s \in SUBSET S : \A y \in s : Sum(s) = f[y] + Sum(s \ {y})}
<1>1. ASSUME NEW s \in SUBSET S PROVE IsFiniteSet(s) /\ Sum(s) \in Int
    BY FS_Subset, SumType
<1>2. ASSUME NEW s \in SUBSET S, s # {}
      PROVE  Chosen(s) \in s /\ Sum(s) = f[Chosen(s)] + Sum(s \ {Chosen(s)})
    BY <1>1, <1>2, SumStep, ChosenIn
<1> HIDE DEF Sum
<1>3. ASSUME NEW s \in SUBSET S, \A y \in s : s \ {y} \in Good PROVE s \in Good
  <2> SUFFICES ASSUME NEW y \in s PROVE Sum(s) = f[y] + Sum(s \ {y})
      OBVIOUS
  <2> DEFINE c == Chosen(s)
  <2>1. c \in s /\ Sum(s) = f[c] + Sum(s \ {c})
      BY <1>2
  <2> HIDE DEF c
  <2>2. CASE y = c
      BY <2>1, <2>2
  <2>3. CASE y # c
    <3>1. s \ {c} \in Good /\ s \ {y} \in Good
        BY <1>3, <2>1
    <3>2. Sum(s \ {c}) = f[y] + Sum((s \ {c}) \ {y})
        BY <2>3, <3>1
    <3>3. Sum(s \ {y}) = f[c] + Sum((s \ {y}) \ {c})
        BY <2>1, <2>3, <3>1
    <3>4. (s \ {c}) \ {y} = (s \ {y}) \ {c}
        OBVIOUS
    <3>5. (s \ {y}) \ {c} \in SUBSET S /\ f[y] \in Int /\ f[c] \in Int
        BY <2>1
    <3> DEFINE rest == Sum((s \ {y}) \ {c})
    <3>6. rest \in Int
        BY <1>1, <3>5
    <3>7. Sum(s \ {c}) = f[y] + rest
        BY <3>2, <3>4
    <3>8. Sum(s \ {y}) = f[c] + rest
        BY <3>3
    <3> HIDE DEF rest
    <3>9. Sum(s) = f[c] + (f[y] + rest)
        BY <2>1, <3>7
    <3>10. f[y] + Sum(s \ {y}) = f[y] + (f[c] + rest)
        BY <3>8
    <3>11. QED
        BY <3>5, <3>6, <3>9, <3>10
  <2>4. QED
      BY <2>2, <2>3
<1>4. \A s \in SUBSET S : (\A y \in s : s \ {y} \in Good) => s \in Good
    BY <1>3
<1> HIDE DEF Good
<1>5. S \in Good
    BY <1>4, SubsetInduction
<1>6. QED
    BY <1>5 DEF Good, Sum

LEMMA SumPlus ==
    ASSUME NEW S, IsFiniteSet(S), NEW f, NEW g, NEW h,
           \A x \in S : f[x] \in Int /\ g[x] \in Int /\ h[x] = f[x] + g[x]
    PROVE  SumFunctionOnSet(h, S) = SumFunctionOnSet(f, S) + SumFunctionOnSet(g, S)
<1> DEFINE Sum(k, s) == SumFunctionOnSet(k, s)
           Good == {s \in SUBSET S : Sum(h, s) = Sum(f, s) + Sum(g, s)}
<1>1. ASSUME NEW s \in SUBSET S
      PROVE  IsFiniteSet(s) /\ Sum(f, s) \in Int /\ Sum(g, s) \in Int
    BY FS_Subset, SumType
<1>2. ASSUME NEW s \in SUBSET S, NEW k, s # {}
      PROVE  Chosen(s) \in s /\ Sum(k, s) = k[Chosen(s)] + Sum(k, s \ {Chosen(s)})
    BY <1>1, <1>2, SumStep, ChosenIn
<1>3. \A k : Sum(k, {}) = 0
    BY SumEmpty
<1> HIDE DEF Sum
<1>4. ASSUME NEW s \in SUBSET S, \A x \in s : s \ {x} \in Good PROVE s \in Good
  <2>1. CASE s = {}
      BY <2>1, <1>3
  <2>2. CASE s # {}
    <3> DEFINE c == Chosen(s)
               rest == s \ {c}
    <3>1. /\ c \in s /\ Sum(h, s) = h[c] + Sum(h, rest)
          /\ Sum(f, s) = f[c] + Sum(f, rest) /\ Sum(g, s) = g[c] + Sum(g, rest)
        BY <1>2, <2>2
    <3>2. rest \in SUBSET S /\ rest \in Good
        BY <1>4, <3>1
    <3>3. Sum(f, rest) \in Int /\ Sum(g, rest) \in Int
        BY <1>1, <3>2
    <3> HIDE DEF c
    <3>4. f[c] \in Int /\ g[c] \in Int /\ h[c] = f[c] + g[c]
        BY <3>1
    <3>5. Sum(h, rest) = Sum(f, rest) + Sum(g, rest)
        BY <3>2
    <3>6. QED
        BY <3>1, <3>3, <3>4, <3>5
  <2>3. QED
      BY <2>1, <2>2
<1>5. \A s \in SUBSET S : (\A x \in s : s \ {x} \in Good) => s \in Good
    BY <1>4
<1> HIDE DEF Good
<1>6. S \in Good
    BY <1>5, SubsetInduction
<1>7. QED
    BY <1>6 DEF Good, Sum

LEMMA SumOutside ==
    ASSUME NEW S, IsFiniteSet(S), NEW T \in SUBSET S, NEW f, NEW g,
           \A x \in T : f[x] \in Int /\ g[x] = f[x],
           \A x \in S \ T : f[x] = 0
    PROVE  SumFunctionOnSet(f, S) = SumFunctionOnSet(g, T)
<1> DEFINE Sum(k, s) == SumFunctionOnSet(k, s)
           Good == {s \in SUBSET S : Sum(f, s) = Sum(g, s \cap T)}
<1>1. ASSUME NEW s \in SUBSET S, NEW c \in s
      PROVE  /\ Sum(f, s) = f[c] + Sum(f, s \ {c})
             /\ c \in T => Sum(g, s \cap T) = g[c] + Sum(g, (s \cap T) \ {c})
  <2>1. IsFiniteSet(s) /\ IsFiniteSet(s \cap T)
      BY FS_Subset
  <2>2. /\ \A x \in s : f[x] \in Int
        /\ \A x \in s \cap T : g[x] \in Int
      OBVIOUS
  <2>3. Sum(f, s) = f[c] + Sum(f, s \ {c})
      BY <2>1, <2>2, SumRemove
  <2>4. c \in T => Sum(g, s \cap T) = g[c] + Sum(g, (s \cap T) \ {c})
      BY <2>1, <2>2, SumRemove
  <2>5. QED
      BY <2>3, <2>4
<1>2. Sum(f, {}) = 0 /\ Sum(g, {}) = 0
    BY SumEmpty
<1>3. ASSUME NEW s \in SUBSET S PROVE Sum(f, s) \in Int
    BY FS_Subset, SumType
<1> HIDE DEF Sum
<1>4. ASSUME NEW s \in SUBSET S, \A x \in s : s \ {x} \in Good
      PROVE  Sum(f, s) = Sum(g, s \cap T)
  <2>1. CASE s = {}
    <3>1. s \cap T = {}
        BY <2>1
    <3>2. QED
        BY <2>1, <3>1, <1>2
  <2>2. CASE s # {}
    <3> PICK c \in s : TRUE
        BY <2>2
    <3> DEFINE rest == s \ {c}
    <3>1. rest \in SUBSET S /\ Sum(f, rest) = Sum(g, rest \cap T)
        BY <1>4
    <3>2. Sum(f, s) = f[c] + Sum(f, rest)
        BY <1>1
    <3>3. CASE c \in T
      <4>1. rest \cap T = (s \cap T) \ {c} /\ f[c] = g[c]
          BY <3>3
      <4>2. Sum(g, s \cap T) = g[c] + Sum(g, rest \cap T)
          BY <1>1, <3>3, <4>1
      <4>3. QED
          BY <3>1, <3>2, <4>1, <4>2
    <3>4. CASE c \notin T
      <4>1. rest \cap T = s \cap T /\ f[c] = 0
          BY <3>4
      <4>2. Sum(f, rest) \in Int
          BY <1>3, <3>1
      <4>3. Sum(f, s) = Sum(f, rest)
          BY <3>2, <4>1, <4>2
      <4>4. QED
          BY <3>1, <4>1, <4>3
    <3>5. QED
        BY <3>3, <3>4
  <2>3. QED
      BY <2>1, <2>2
<1>5. \A s \in SUBSET S : (\A x \in s : s \ {x} \in Good) => s \in Good
    BY <1>4
<1> HIDE DEF Good
<1>6. S \in Good
    BY <1>5, SubsetInduction
<1>7. S \cap T = T
    OBVIOUS
<1>8. QED
    BY <1>6, <1>7 DEF Good, Sum

(* Adding a value at one place adds it to the sum.                           *)
LEMMA SumUpdate ==
    ASSUME NEW S, IsFiniteSet(S), NEW f, NEW g, NEW x \in S,
           \A y \in S : f[y] \in Int /\ g[y] \in Int,
           \A y \in S \ {x} : g[y] = f[y]
    PROVE  SumFunctionOnSet(g, S) = SumFunctionOnSet(f, S) - f[x] + g[x]
<1> DEFINE rest == S \ {x}
<1>1. SumFunctionOnSet(f, S) = f[x] + SumFunctionOnSet(f, rest)
    BY SumRemove
<1>2. SumFunctionOnSet(g, S) = g[x] + SumFunctionOnSet(g, rest)
    BY SumRemove
<1>3. IsFiniteSet(rest) /\ rest \in SUBSET rest /\ rest \ rest = {}
    BY FS_RemoveElement
<1>4. \A y \in rest : f[y] \in Int /\ g[y] = f[y]
    OBVIOUS
<1> HIDE DEF rest
<1>5. SumFunctionOnSet(g, rest) = SumFunctionOnSet(f, rest)
    BY <1>3, <1>4, SumOutside
<1>6. SumFunctionOnSet(f, rest) \in Int
    BY <1>3, <1>4, SumType
<1>7. QED
    BY <1>1, <1>2, <1>5, <1>6

(* The sum of the opposites.                                                 *)
LEMMA SumOpposite ==
    ASSUME NEW S, IsFiniteSet(S), NEW f, NEW g,
           \A x \in S : f[x] \in Int /\ g[x] = -f[x]
    PROVE  SumFunctionOnSet(g, S) = -SumFunctionOnSet(f, S)
<1> DEFINE zero == [x \in S |-> 0]
<1>1. SumFunctionOnSet(zero, S) = SumFunctionOnSet(f, S) + SumFunctionOnSet(g, S)
    BY SumPlus
<1>2. SumFunctionOnSet(zero, S) = SumFunctionOnSet(zero, {})
    BY SumOutside
<1>3. SumFunctionOnSet(zero, {}) = 0
    BY SumEmpty
<1>4. SumFunctionOnSet(f, S) \in Int /\ SumFunctionOnSet(g, S) \in Int
    BY SumType
<1>5. QED
    BY <1>1, <1>2, <1>3, <1>4

------------------------------------------------------------------------------
(* What a transfer takes from its senders, and what it pays in all.          *)
TotalDebit(t) == SumFunction(Debit[t])
TotalCredit(t) == SumFunction(Credit[t])

LEMMA TotalsType ==
    ASSUME NEW t \in Transfers
    PROVE  TotalDebit(t) \in Int /\ TotalCredit(t) \in Int
<1>1. IsFiniteSet(Debtors(t)) /\ IsFiniteSet(Creditors(t))
    BY MarksType, FinitenessAssumption, FS_Subset
<1>2. /\ \A a \in Debtors(t) : Debit[t][a] \in Int
      /\ \A a \in Creditors(t) : Credit[t][a] \in Int
    BY ContentAssumption DEF Debtors, Creditors
<1>3. QED
    BY <1>1, <1>2, SumType DEF TotalDebit, TotalCredit, SumFunction, Debtors, Creditors

(* The statements of lib/holds.js change the sum of the balances by the      *)
(* totals of the transfer.                                                   *)
LEMMA PaySum ==
    ASSUME NEW t \in Transfers, NEW moves, NEW b \in [Accounts -> Int]
    PROVE  SumFunction([a \in Accounts |-> b[a] + Change(t, moves, a)])
               = SumFunction(b)
                 + (IF "hold" \in moves THEN -TotalDebit(t) ELSE 0)
                 + (IF "disburse" \in moves THEN TotalCredit(t) ELSE 0)
                 + (IF "return" \in moves THEN TotalDebit(t) ELSE 0)
<1> DEFINE Sum(f) == SumFunctionOnSet(f, Accounts)
           debits == [a \in Accounts |-> DebitOf(t, a)]
           credits == [a \in Accounts |-> CreditOf(t, a)]
           zero == [a \in Accounts |-> 0]
           hold == [a \in Accounts |-> IF "hold" \in moves THEN -DebitOf(t, a) ELSE 0]
           disburse == IF "disburse" \in moves THEN credits ELSE zero
           return == IF "return" \in moves THEN debits ELSE zero
           one == [a \in Accounts |-> b[a] + hold[a]]
           two == [a \in Accounts |-> one[a] + disburse[a]]
           three == [a \in Accounts |-> two[a] + return[a]]
<1>1. IsFiniteSet(Accounts)
    BY FinitenessAssumption
<1>2. \A a \in Accounts : DebitOf(t, a) \in Int /\ CreditOf(t, a) \in Int
    BY ContentAssumption DEF DebitOf, CreditOf, Debtors, Creditors
<1>3. Sum(debits) = TotalDebit(t)
  <2>1. /\ Debtors(t) \in SUBSET Accounts
        /\ \A a \in Debtors(t) : debits[a] \in Int /\ Debit[t][a] = debits[a]
        /\ \A a \in Accounts \ Debtors(t) : debits[a] = 0
      BY <1>2, MarksType DEF DebitOf
  <2>2. QED
      BY <1>1, <2>1, SumOutside DEF TotalDebit, SumFunction, Debtors
<1>4. Sum(credits) = TotalCredit(t)
  <2>1. /\ Creditors(t) \in SUBSET Accounts
        /\ \A a \in Creditors(t) : credits[a] \in Int /\ Credit[t][a] = credits[a]
        /\ \A a \in Accounts \ Creditors(t) : credits[a] = 0
      BY <1>2, MarksType DEF CreditOf
  <2>2. QED
      BY <1>1, <2>1, SumOutside DEF TotalCredit, SumFunction, Creditors
<1>5. Sum(zero) = 0
  <2>1. Sum(zero) = SumFunctionOnSet(zero, {})
      BY <1>1, SumOutside
  <2>2. QED
      BY <2>1, SumEmpty
<1>6. Sum(hold) = IF "hold" \in moves THEN -TotalDebit(t) ELSE 0
  <2>1. CASE "hold" \in moves
    <3>1. \A a \in Accounts : debits[a] \in Int /\ hold[a] = -debits[a]
        BY <1>2, <2>1
    <3>2. Sum(hold) = -Sum(debits)
        BY <1>1, <3>1, SumOpposite
    <3>3. QED
        BY <1>3, <2>1, <3>2
  <2>2. CASE "hold" \notin moves
    <3>1. hold = zero
        BY <2>2
    <3>2. QED
        BY <1>5, <2>2, <3>1
  <2>3. QED
      BY <2>1, <2>2
<1>7. /\ Sum(disburse) = IF "disburse" \in moves THEN TotalCredit(t) ELSE 0
      /\ Sum(return) = IF "return" \in moves THEN TotalDebit(t) ELSE 0
    BY <1>3, <1>4, <1>5
<1>8. \A a \in Accounts :
          b[a] \in Int /\ hold[a] \in Int /\ disburse[a] \in Int /\ return[a] \in Int
    BY <1>2
<1>9. [a \in Accounts |-> b[a] + Change(t, moves, a)] = three
  <2>1. ASSUME NEW a \in Accounts PROVE b[a] + Change(t, moves, a) = three[a]
    <3>1. /\ disburse[a] = IF "disburse" \in moves THEN CreditOf(t, a) ELSE 0
          /\ return[a] = IF "return" \in moves THEN DebitOf(t, a) ELSE 0
        OBVIOUS
    <3>2. Change(t, moves, a) = hold[a] + disburse[a] + return[a]
        BY <3>1 DEF Change
    <3>3. three[a] = b[a] + hold[a] + disburse[a] + return[a]
        OBVIOUS
    <3> HIDE DEF hold, disburse, return, three
    <3>4. QED
        BY <1>8, <3>2, <3>3
  <2>2. QED
      BY <2>1
<1>10. \A a \in Accounts : one[a] = b[a] + hold[a] /\ two[a] = one[a] + disburse[a]
                            /\ three[a] = two[a] + return[a]
    OBVIOUS
<1>11. DOMAIN three = Accounts /\ DOMAIN b = Accounts
    OBVIOUS
<1> HIDE DEF hold, disburse, return, one, two, three
<1>12. \A a \in Accounts : one[a] \in Int /\ two[a] \in Int
    BY <1>8, <1>10
<1>13. Sum(one) = Sum(b) + Sum(hold)
    BY <1>1, <1>8, <1>10, SumPlus
<1>14. Sum(two) = Sum(one) + Sum(disburse)
    BY <1>1, <1>8, <1>10, <1>12, SumPlus
<1>15. Sum(three) = Sum(two) + Sum(return)
    BY <1>1, <1>8, <1>10, <1>12, SumPlus
<1>16. SumFunction(three) = Sum(three) /\ SumFunction(b) = Sum(b)
    BY <1>11 DEF SumFunction
<1>17. QED
    BY <1>6, <1>7, <1>9, <1>13, <1>14, <1>15, <1>16
=============================================================================
