---------------------------- MODULE BudgetsProofs ----------------------------
(* The credit, its counters and those of the running requests, proved for   *)
(* any number of requests and any deployment: whatever order requests,      *)
(* payments, reconciles and changes of the period come in, what is held and *)
(* what is counted as running is what runs, and the credit is overdrawn by  *)
(* less than one request's hold, apart from the two amounts Overdraft names.*)
EXTENDS Budgets, FiniteSetTheorems, WellFoundedInduction, TLAPS

\* What a request's place tells of its hold and of its scopes.
Stage ==
  \A r \in Requests :
    /\ hold[r] \in {0, MaxHold}
    /\ pc[r] \in {"idle", "receive", "quotas", "hold"} => hold[r] = 0
    /\ r \in scoped => pc[r] \in {"started", "record", "sink", "end", "release", "done"}

\* Nothing is dated later than today.
Dated == running.start <= period /\ \A r \in Requests : now[r] <= period

\* The inductive invariant.
Inv == TypeOK /\ Stage /\ Dated /\ CountsMatch

\* The requests that count as running in the open window.
Running == {r \in scoped : now[r] = period /\ pc[r] \notin {"release", "done"}}

\* The bounds of a deployment are numbers.
LEMMA DeployOK ==
  ASSUME deploy \in Deployments
  PROVE  /\ Prepaid \in BOOLEAN /\ Invoiced \in BOOLEAN
         /\ Budget \in Nat /\ Quota \in Nat /\ Credit \in Int
         /\ MaxHold \in Nat /\ MaxHook \in Nat /\ MaxCost \in Nat
         /\ TopUp \in Nat /\ MaxTopUps \in Nat /\ MaxServed \in Nat
         /\ MaxPeriod \in Nat \ {0}
  BY BudgetsAssumption DEF BudgetsAssumption, Prepaid, Invoiced, Budget, Quota, Credit, MaxHold,
     MaxHook, MaxCost, TopUp, MaxTopUps, MaxServed, MaxPeriod

\* No step changes the bounds.
LEMMA DeployKept ==
  ASSUME UNCHANGED deploy
  PROVE  /\ MaxHold' = MaxHold /\ MaxTopUps' = MaxTopUps /\ MaxPeriod' = MaxPeriod
         /\ Periods' = Periods /\ Window' = Window
  BY DEF MaxHold, MaxTopUps, MaxPeriod, Periods, Window

\* A window that is added to stays a window.
LEMMA AddWindowType ==
  ASSUME MaxPeriod \in Nat, NEW win \in Window, NEW start \in 0..MaxPeriod, NEW n \in Nat
  PROVE  AddWindow(win, start, n) \in Window
  BY DEF AddWindow, Window

\* A table of numbers that is added to stays one.
LEMMA AddAt ==
  ASSUME NEW S, NEW f \in [S -> Nat], NEW x, NEW n \in Nat
  PROVE  [f EXCEPT ![x] = @ + n] \in [S -> Nat]
  <1>1. CASE x \in S
    BY <1>1
  <1>2. CASE x \notin S
    BY <1>2
  <1> QED
    BY <1>1, <1>2

-----------------------------------------------------------------------------
(* Sums.  SumFunction is a recursive function on the sets of indices; it   *)
(* is there because the index set is finite, by a least counterexample on  *)
(* the size of the set.                                                    *)

LEMMA Least ==
  ASSUME NEW T, T \subseteq Nat, T # {}
  PROVE  \E i \in T : \A j \in T : i <= j
  <1> DEFINE R == {ss \in Nat \X Nat : ss[1] < ss[2]}
  <1>1. OpToRel(<, Nat) = R
    BY Zenon DEF OpToRel
  <1>2. IsWellFoundedOn(R, Nat)
    BY <1>1, NatLessThanWellFounded, Zenon
  <1>3. T \subseteq Nat /\ T # {}
    OBVIOUS
  <1> HIDE DEF R
  <1>4. \E x \in T : \A y \in T : ~(<<y, x>> \in R)
    BY <1>2, <1>3, WFMin, Zenon
  <1>5. PICK x \in T : \A y \in T : ~(<<y, x>> \in R)
    BY <1>4
  <1>6. ASSUME NEW y \in T PROVE x <= y
    <2>1. x \in Nat /\ y \in Nat
      BY <1>3
    <2>2. <<y, x>> \in R <=> y < x
      BY <2>1 DEF R
    <2> QED
      BY <1>5, <2>1, <2>2
  <1> QED
    BY <1>5, <1>6

\* The index a sum takes first, and the ones that are left.
First(s) == CHOOSE x \in s : TRUE
Rest(s) == s \ {First(s)}

\* g sums f over each of the sets in D.
Sums(g, f, D) == g = [s \in D |-> IF s = {} THEN 0 ELSE f[First(s)] + g[Rest(s)]]

\* The subsets of a finite set S lose one member at a time.
LEMMA RestSmaller ==
  ASSUME NEW S, IsFiniteSet(S), NEW s \in SUBSET S
  PROVE  /\ Cardinality(s) \in Nat
         /\ Cardinality(s) <= Cardinality(S) /\ Cardinality(S) \in Nat
         /\ s # {} => /\ First(s) \in s /\ Rest(s) \in SUBSET S
                      /\ Cardinality(Rest(s)) = Cardinality(s) - 1
                      /\ Cardinality(s) # 0
  <1>1. IsFiniteSet(s) /\ Cardinality(s) <= Cardinality(S) /\ Cardinality(S) \in Nat
    BY FS_Subset, FS_CardinalityType
  <1>2. Cardinality(s) \in Nat
    BY <1>1, FS_CardinalityType
  <1>3. ASSUME s # {} PROVE /\ First(s) \in s /\ Rest(s) \in SUBSET S
                            /\ Cardinality(Rest(s)) = Cardinality(s) - 1
                            /\ Cardinality(s) # 0
    <2>1. First(s) \in s
      BY <1>3 DEF First
    <2>2. Cardinality(s \ {First(s)}) = Cardinality(s) - 1
      BY <1>1, <2>1, FS_RemoveElement
    <2>3. Cardinality(s) # 0
      BY <1>1, <1>3, FS_EmptySet
    <2> QED
      BY <2>1, <2>2, <2>3 DEF Rest
  <1> QED
    BY <1>1, <1>2, <1>3

\* What holds of the empty set, and of a set when it holds of what is left of
\* it, holds of every subset: Good is the set of those it holds of.
LEMMA SubsetInduction ==
  ASSUME NEW S, IsFiniteSet(S), NEW Good,
         {} \in Good,
         \A s \in SUBSET S : s # {} /\ Rest(s) \in Good => s \in Good
  PROVE  \A s \in SUBSET S : s \in Good
  <1> DEFINE Bad == {s \in SUBSET S : s \notin Good}
             Sizes == {Cardinality(s) : s \in Bad}
  <1>1. ASSUME Bad # {} PROVE FALSE
    <2>1. Sizes \subseteq Nat /\ Sizes # {}
      BY <1>1, RestSmaller
    <2>2. PICK n \in Sizes : \A m \in Sizes : n <= m
      <3> HIDE DEF Sizes
      <3> QED
        BY <2>1, Least
    <2>3. PICK s \in SUBSET S : s \notin Good /\ n = Cardinality(s)
      BY <2>2
    <2>4. s # {}
      BY <2>3
    <2>5. Rest(s) \in SUBSET S /\ Cardinality(Rest(s)) = n - 1 /\ n \in Nat
      BY <2>3, <2>4, RestSmaller
    <2>6. Rest(s) \notin Bad
      <3>1. Rest(s) \in Bad => Cardinality(Rest(s)) \in Sizes
        OBVIOUS
      <3> HIDE DEF Bad, Sizes
      <3> QED
        BY <3>1, <2>2, <2>5
    <2> QED
      BY <2>3, <2>4, <2>5, <2>6
  <1> QED
    BY <1>1

\* The sums over all subsets of a finite set are there.
LEMMA SumsThere ==
  ASSUME NEW S, IsFiniteSet(S), NEW f
  PROVE  \E g : Sums(g, f, SUBSET S)
  <1> DEFINE D(k) == {s \in SUBSET S : Cardinality(s) <= k}
             Bad == {k \in Nat : ~ \E g : Sums(g, f, D(k))}
  <1>1. ASSUME Bad # {} PROVE FALSE
    <2>1. PICK k \in Bad : \A j \in Bad : k <= j
      <3>1. Bad \subseteq Nat
        OBVIOUS
      <3> HIDE DEF Bad
      <3> QED
        BY <1>1, <3>1, Least
    <2>2. k \in Nat /\ ~ \E g : Sums(g, f, D(k))
      BY <2>1
    <2>3. k # 0
      <3>1. ASSUME k = 0 PROVE FALSE
        <4> DEFINE g == [s \in D(0) |-> 0]
        <4>1. \A s \in D(0) : s = {}
          BY RestSmaller
        <4>2. Sums(g, f, D(0))
          BY <4>1 DEF Sums
        <4> QED
          BY <4>2, <2>2, <3>1
      <3> QED
        BY <3>1
    <2>4. k - 1 \in Nat /\ \E g : Sums(g, f, D(k - 1))
      <3>1. k - 1 \in Nat /\ ~(k <= k - 1)
        BY <2>2, <2>3
      <3>2. k - 1 \notin Bad
        <4> HIDE DEF Bad
        <4> QED
          BY <3>1, <2>1
      <3> QED
        BY <3>1, <3>2
    <2>5. PICK g : Sums(g, f, D(k - 1))
      BY <2>4
    <2> DEFINE h == [s \in D(k) |-> IF s = {} THEN 0 ELSE f[First(s)] + g[Rest(s)]]
    <2>6. ASSUME NEW s \in D(k - 1) PROVE s \in D(k) /\ h[s] = g[s]
      <3>1. s \in D(k)
        BY <2>2, <2>4, RestSmaller
      <3> HIDE DEF D
      <3>2. g[s] = IF s = {} THEN 0 ELSE f[First(s)] + g[Rest(s)]
        BY <2>5 DEF Sums
      <3> QED
        BY <3>1, <3>2
    <2>7. ASSUME NEW s \in D(k), s # {} PROVE Rest(s) \in D(k - 1)
      BY <2>7, <2>2, <2>4, RestSmaller
    <2>8. Sums(h, f, D(k))
      <3> HIDE DEF D
      <3>1. ASSUME NEW s \in D(k)
            PROVE  h[s] = IF s = {} THEN 0 ELSE f[First(s)] + h[Rest(s)]
        <4>1. CASE s = {}
          BY <4>1
        <4>2. CASE s # {}
          <5>1. h[Rest(s)] = g[Rest(s)]
            BY <4>2, <2>6, <2>7
          <5> QED
            BY <4>2, <5>1
        <4> QED
          BY <4>1, <4>2
      <3>2. h = [s \in D(k) |-> h[s]]
        OBVIOUS
      <3> HIDE DEF h
      <3> QED
        BY <3>1, <3>2 DEF Sums
    <2> QED
      BY <2>8, <2>2
  <1>2. Cardinality(S) \in Nat /\ D(Cardinality(S)) = SUBSET S
    BY RestSmaller
  <1> QED
    BY <1>1, <1>2

LEMMA SumIs ==
  ASSUME NEW S, IsFiniteSet(S), NEW f \in [S -> Int]
  PROVE  \E g : /\ SumFunction(f) = g[S]
                /\ g[{}] = 0
                /\ \A s \in SUBSET S : s # {} => g[s] = f[First(s)] + g[Rest(s)]
  <1> DEFINE g == CHOOSE g : Sums(g, f, SUBSET S)
  <1>1. Sums(g, f, SUBSET S)
    BY SumsThere
  <1>2. SumFunction(f) = g[S]
    <2>1. DOMAIN f = S
      OBVIOUS
    <2> QED
      BY <2>1 DEF Sums, First, Rest, SumFunction, SumFunctionOnSet, FoldFunctionOnSet,
         MapThenFoldSet
  <1> HIDE DEF g
  <1>3. \A s \in SUBSET S : g[s] = IF s = {} THEN 0 ELSE f[First(s)] + g[Rest(s)]
    BY <1>1 DEF Sums
  <1> QED
    BY <1>2, <1>3

\* A sum of numbers that are not negative is not either.
LEMMA SumNat ==
  ASSUME NEW S, IsFiniteSet(S), NEW f \in [S -> Nat]
  PROVE  SumFunction(f) \in Nat
  <1>0. f \in [S -> Int]
    OBVIOUS
  <1>1. PICK g : /\ SumFunction(f) = g[S]
                 /\ g[{}] = 0
                 /\ \A s \in SUBSET S : s # {} => g[s] = f[First(s)] + g[Rest(s)]
    BY <1>0, SumIs
  <1> DEFINE Good == {s \in SUBSET S : g[s] \in Nat}
  <1>2. {} \in Good
    BY <1>1
  <1>3. \A s \in SUBSET S : s # {} /\ Rest(s) \in Good => s \in Good
    <2> TAKE s \in SUBSET S
    <2> HAVE s # {} /\ Rest(s) \in Good
    <2>1. First(s) \in S
      BY RestSmaller
    <2> QED
      BY <1>1, <2>1
  <1>4. S \in Good
    <2> HIDE DEF Good
    <2> QED
      BY <1>2, <1>3, SubsetInduction
  <1> QED
    BY <1>1, <1>4

\* A sum that gains at one index gains as much.
LEMMA SumMoves ==
  ASSUME NEW S, IsFiniteSet(S), NEW f \in [S -> Int], NEW h \in [S -> Int], NEW x \in S,
         \A y \in S \ {x} : h[y] = f[y]
  PROVE  SumFunction(h) = SumFunction(f) + (h[x] - f[x])
  <1> DEFINE d == h[x] - f[x]
  <1>1. PICK a : /\ SumFunction(f) = a[S]
                 /\ a[{}] = 0
                 /\ \A s \in SUBSET S : s # {} => a[s] = f[First(s)] + a[Rest(s)]
    BY SumIs
  <1>2. PICK b : /\ SumFunction(h) = b[S]
                 /\ b[{}] = 0
                 /\ \A s \in SUBSET S : s # {} => b[s] = h[First(s)] + b[Rest(s)]
    BY SumIs
  <1> DEFINE Good == {s \in SUBSET S : /\ a[s] \in Int /\ b[s] \in Int
                                       /\ b[s] = IF x \in s THEN a[s] + d ELSE a[s]}
  <1>3. {} \in Good
    BY <1>1, <1>2
  <1>4. \A s \in SUBSET S : s # {} /\ Rest(s) \in Good => s \in Good
    <2> TAKE s \in SUBSET S
    <2> HAVE s # {} /\ Rest(s) \in Good
    <2>1. First(s) \in s
      BY RestSmaller
    <2>2. a[s] = f[First(s)] + a[Rest(s)] /\ b[s] = h[First(s)] + b[Rest(s)]
      BY <1>1, <1>2
    <2>3. CASE x = First(s)
      <3>1. x \in s /\ x \notin Rest(s)
        BY <2>1, <2>3 DEF Rest
      <3> QED
        BY <2>2, <2>3, <3>1
    <2>4. CASE x # First(s)
      <3>1. (x \in s <=> x \in Rest(s)) /\ h[First(s)] = f[First(s)]
        BY <2>1, <2>4 DEF Rest
      <3>2. f[First(s)] \in Int
        BY <2>1
      <3> QED
        BY <2>2, <3>1, <3>2
    <2> QED
      BY <2>3, <2>4
  <1>5. S \in Good
    <2> HIDE DEF Good
    <2> QED
      BY <1>3, <1>4, SubsetInduction
  <1> QED
    BY <1>1, <1>2, <1>5

LEMMA SumZero ==
  ASSUME NEW S, IsFiniteSet(S), NEW f, f = [x \in S |-> 0]
  PROVE  SumFunction(f) = 0
  <1>0. f \in [S -> Int]
    OBVIOUS
  <1>1. PICK g : /\ SumFunction(f) = g[S]
                 /\ g[{}] = 0
                 /\ \A s \in SUBSET S : s # {} => g[s] = f[First(s)] + g[Rest(s)]
    BY <1>0, SumIs
  <1> DEFINE Good == {s \in SUBSET S : g[s] = 0}
  <1>2. {} \in Good
    BY <1>1
  <1>3. \A s \in SUBSET S : s # {} /\ Rest(s) \in Good => s \in Good
    <2> TAKE s \in SUBSET S
    <2> HAVE s # {} /\ Rest(s) \in Good
    <2>1. First(s) \in S
      BY RestSmaller
    <2> QED
      BY <1>1, <2>1
  <1>4. S \in Good
    <2> HIDE DEF Good
    <2> QED
      BY <1>2, <1>3, SubsetInduction
  <1> QED
    BY <1>1, <1>4

\* Two sums, added index by index, are the sum of both.
LEMMA SumAdds ==
  ASSUME NEW S, IsFiniteSet(S), NEW f \in [S -> Int], NEW h \in [S -> Int], NEW k \in [S -> Int],
         \A x \in S : k[x] = f[x] + h[x]
  PROVE  SumFunction(k) = SumFunction(f) + SumFunction(h)
  <1>1. PICK a : /\ SumFunction(f) = a[S]
                 /\ a[{}] = 0
                 /\ \A s \in SUBSET S : s # {} => a[s] = f[First(s)] + a[Rest(s)]
    BY SumIs
  <1>2. PICK b : /\ SumFunction(h) = b[S]
                 /\ b[{}] = 0
                 /\ \A s \in SUBSET S : s # {} => b[s] = h[First(s)] + b[Rest(s)]
    BY SumIs
  <1>3. PICK c : /\ SumFunction(k) = c[S]
                 /\ c[{}] = 0
                 /\ \A s \in SUBSET S : s # {} => c[s] = k[First(s)] + c[Rest(s)]
    BY SumIs
  <1> DEFINE Good == {s \in SUBSET S : a[s] \in Int /\ b[s] \in Int /\ c[s] = a[s] + b[s]}
  <1>4. {} \in Good
    BY <1>1, <1>2, <1>3
  <1>5. \A s \in SUBSET S : s # {} /\ Rest(s) \in Good => s \in Good
    <2> TAKE s \in SUBSET S
    <2> HAVE s # {} /\ Rest(s) \in Good
    <2>1. First(s) \in S
      BY RestSmaller
    <2>2. a[s] = f[First(s)] + a[Rest(s)] /\ b[s] = h[First(s)] + b[Rest(s)]
          /\ c[s] = k[First(s)] + c[Rest(s)]
      BY <1>1, <1>2, <1>3
    <2>3. k[First(s)] = f[First(s)] + h[First(s)] /\ f[First(s)] \in Int /\ h[First(s)] \in Int
      BY <2>1
    <2> QED
      BY <2>2, <2>3
  <1>6. S \in Good
    <2> HIDE DEF Good
    <2> QED
      BY <1>4, <1>5, SubsetInduction
  <1> QED
    BY <1>1, <1>2, <1>3, <1>6

\* What the requests of S cost at the prices f.
Worth(f, S) == SumFunction([r \in Requests |-> IF r \in S THEN f[r] ELSE 0])

LEMMA WorthNat ==
  ASSUME NEW f \in [Requests -> Nat], NEW S
  PROVE  Worth(f, S) \in Nat
  <1> DEFINE g == [r \in Requests |-> IF r \in S THEN f[r] ELSE 0]
  <1>1. g \in [Requests -> Nat]
    OBVIOUS
  <1> HIDE DEF g
  <1>2. SumFunction(g) \in Nat
    BY <1>1, SumNat, BudgetsAssumption DEF BudgetsAssumption
  <1> QED
    BY <1>2 DEF Worth, g

LEMMA WorthAdds ==
  ASSUME NEW f \in [Requests -> Nat], NEW S, NEW T, S \cap T = {}
  PROVE  Worth(f, S \cup T) = Worth(f, S) + Worth(f, T)
  <1> DEFINE a == [r \in Requests |-> IF r \in S THEN f[r] ELSE 0]
             b == [r \in Requests |-> IF r \in T THEN f[r] ELSE 0]
             c == [r \in Requests |-> IF r \in S \cup T THEN f[r] ELSE 0]
  <1>1. a \in [Requests -> Int] /\ b \in [Requests -> Int] /\ c \in [Requests -> Int]
    OBVIOUS
  <1>2. \A r \in Requests : c[r] = a[r] + b[r]
    OBVIOUS
  <1> HIDE DEF a, b, c
  <1>3. SumFunction(c) = SumFunction(a) + SumFunction(b)
    BY <1>1, <1>2, SumAdds, BudgetsAssumption DEF BudgetsAssumption
  <1> QED
    BY <1>3 DEF Worth, a, b, c

LEMMA WorthOne ==
  ASSUME NEW f \in [Requests -> Nat], NEW r \in Requests
  PROVE  Worth(f, {r}) = f[r] /\ Worth(f, {}) = 0
  <1> DEFINE z == [q \in Requests |-> 0]
             a == [q \in Requests |-> IF q \in {r} THEN f[q] ELSE 0]
             e == [q \in Requests |-> IF q \in {} THEN f[q] ELSE 0]
  <1>1. z \in [Requests -> Int] /\ a \in [Requests -> Int] /\ a[r] = f[r] /\ z[r] = 0 /\ e = z
        /\ (\A q \in Requests \ {r} : a[q] = z[q]) /\ f[r] \in Nat
    OBVIOUS
  <1>2. SumFunction(z) = 0
    <2>1. z = [q \in Requests |-> 0]
      OBVIOUS
    <2> HIDE DEF z
    <2> QED
      BY <2>1, SumZero, BudgetsAssumption DEF BudgetsAssumption
  <1>3. Worth(f, {}) = 0
    <2>1. Worth(f, {}) = SumFunction(e)
      BY DEF Worth
    <2> QED
      BY <1>1, <1>2, <2>1
  <1>4. Worth(f, {r}) = SumFunction(a)
    BY DEF Worth
  <1> HIDE DEF z, a, e
  <1>5. SumFunction(a) = SumFunction(z) + (a[r] - z[r])
    BY <1>1, SumMoves, BudgetsAssumption DEF BudgetsAssumption
  <1> QED
    BY <1>1, <1>2, <1>3, <1>4, <1>5

\* Members that are taken apart.
LEMMA WorthSplits ==
  ASSUME NEW f \in [Requests -> Nat], NEW S, NEW T, NEW U, S \cap T = {}, U = S \cup T
  PROVE  Worth(f, U) = Worth(f, S) + Worth(f, T)
  BY WorthAdds, Zenon

LEMMA WorthSame ==
  ASSUME NEW f, NEW g, NEW S, \A r \in S : g[r] = f[r]
  PROVE  Worth(g, S) = Worth(f, S)
  <1>1. [r \in Requests |-> IF r \in S THEN g[r] ELSE 0]
          = [r \in Requests |-> IF r \in S THEN f[r] ELSE 0]
    OBVIOUS
  <1> QED
    BY <1>1, Zenon DEF Worth

-----------------------------------------------------------------------------
LEMMA InitInv == Init => Inv
  <1> SUFFICES ASSUME Init PROVE Inv
    OBVIOUS
  <1>0. deploy \in Deployments /\ MaxPeriod \in Nat \ {0} /\ Credit \in Int /\ MaxHold \in Nat
        /\ MaxTopUps \in Nat
    BY DeployOK DEF Init
  <1>1. TypeOK
    BY <1>0 DEF Init, TypeOK, Window, NoWindow, Periods, Scopes, Reconcilers
  <1>2. Stage /\ Dated
    BY <1>0 DEF Init, Stage, Dated, NoWindow
  <1>3. CountsMatch
    <2>1. Holding = {} /\ Running = {} /\ InWindow(running, period) = 0
      BY DEF Init, Holding, Running, InWindow, NoWindow
    <2> QED
      BY <1>0, <2>1, FS_EmptySet DEF Init, CountsMatch, Running
  <1> QED
    BY <1>1, <1>2, <1>3 DEF Inv

(* The type invariant.                                                     *)

LEMMA TypeKept == TypeOK /\ Next /\ UNCHANGED deploy => TypeOK'
  <1> SUFFICES ASSUME TypeOK, Next, UNCHANGED deploy PROVE TypeOK'
    OBVIOUS
  <1>0. /\ MaxPeriod \in Nat \ {0} /\ MaxHold \in Nat /\ MaxCost \in Nat /\ MaxTopUps \in Nat /\ TopUp \in Nat
        /\ MaxTopUps' = MaxTopUps /\ MaxPeriod' = MaxPeriod
        /\ Periods' = Periods /\ Window' = Window
    BY DeployOK, DeployKept DEF TypeOK
  <1> USE <1>0
  <1>1. ASSUME NEW r \in Requests,
               Arrive(r) \/ Receive(r) \/ Abandon(r) \/ Refuse(r) \/ CheckQuotas(r)
                 \/ QuotaExceeded(r) \/ NoCredit(r) \/ HoldNothing(r) \/ CheckBudgets(r)
                 \/ ChargeCredit(r) \/ Record(r)
        PROVE  TypeOK'
    <2>1. CASE Arrive(r)
      BY <2>1 DEF TypeOK, Arrive, Go, Periods, local, db, snaps
    <2>2. CASE Receive(r)
      BY <2>2 DEF TypeOK, Receive, Go, Periods, local, db, snaps
    <2>3. CASE Abandon(r) \/ CheckQuotas(r) \/ QuotaExceeded(r) \/ NoCredit(r) \/ HoldNothing(r)
                 \/ CheckBudgets(r)
      BY <2>3 DEF TypeOK, Abandon, CheckQuotas, QuotaExceeded, NoCredit, HoldNothing,
         CheckBudgets, Go, local, db, snaps
    <2>4. CASE Refuse(r)
      BY <2>4 DEF TypeOK, Refuse, Go, local, db, snaps
    <2>5. CASE ChargeCredit(r)
      BY <2>5 DEF TypeOK, ChargeCredit, Go, db, snaps
    <2>6. CASE Record(r)
      BY <2>6 DEF TypeOK, Record, Go, local, snaps
    <2> QED
      BY <1>1, <2>1, <2>2, <2>3, <2>4, <2>5, <2>6
  <1>2. ASSUME NEW r \in Requests,
               HoldCredit(r) \/ StartRequest(r) \/ HookSpends(r) \/ Finish(r) \/ EndRequest(r)
                 \/ ReleaseCredit(r)
        PROVE  TypeOK'
    <2>1. CASE HoldCredit(r)
      BY <2>1 DEF TypeOK, HoldCredit, Go, db, snaps
    <2>2. CASE StartRequest(r)
      <3>1. running' \in Window
        BY <2>2, AddWindowType DEF TypeOK, StartRequest
      <3> QED
        BY <2>2, <3>1 DEF TypeOK, StartRequest, Go, db, snaps
    <2>3. CASE HookSpends(r)
      <3>1. w' \in [Scopes -> Window]
        BY <2>3, AddWindowType DEF TypeOK, HookSpends, Charge
      <3> QED
        BY <2>3, <3>1 DEF TypeOK, HookSpends, db, snaps
    <2>4. CASE Finish(r)
      <3>1. PICK c \in 0..(MaxCost - hook[r]) :
              Charge(r, c) /\ cost' = [cost EXCEPT ![r] = hook[r] + c]
        BY <2>4 DEF Finish
      <3>2. c \in Nat /\ hook[r] + c \in Nat
        BY <3>1 DEF TypeOK
      <3>3. w' \in [Scopes -> Window]
        BY <3>1, <3>2, AddWindowType DEF TypeOK, Charge
      <3>4. cost' \in [Requests -> Nat]
        BY <3>1, <3>2 DEF TypeOK
      <3> QED
        BY <2>4, <3>3, <3>4 DEF TypeOK, Finish, Go, db, snaps
    <2>5. CASE EndRequest(r)
      <3>1. running' \in Window
        BY <2>5 DEF TypeOK, EndRequest, Window, NoWindow
      <3>2. w' \in [Scopes -> Window]
        <4>1. AddWindow(w["requests"], now[r], 1) \in Window
          BY AddWindowType DEF TypeOK, Scopes
        <4> QED
          BY <2>5, <4>1 DEF TypeOK, EndRequest
      <3> QED
        BY <2>5, <3>1, <3>2 DEF TypeOK, EndRequest, Go, db, snaps
    <2>6. CASE ReleaseCredit(r)
      <3>1. held' \in Nat
        BY <2>6 DEF TypeOK, ReleaseCredit
      <3> QED
        BY <2>6, <3>1 DEF TypeOK, ReleaseCredit, Go, db, snaps
    <2> QED
      BY <1>2, <2>1, <2>2, <2>3, <2>4, <2>5, <2>6
  <1>3. ASSUME NEW r \in Requests, Write(r) PROVE TypeOK'
    <2>1. spend' \in [Scopes -> [Periods -> Nat]]
      <3>1. spend["money"] \in [Periods -> Nat] /\ spend["requests"] \in [Periods -> Nat]
        BY DEF TypeOK, Scopes
      <3>2. [spend["money"] EXCEPT ![ts[r]] = @ + cost[r]] \in [Periods -> Nat]
        BY <3>1, AddAt DEF TypeOK
      <3>3. [spend["requests"] EXCEPT ![ts[r]] = @ + IF r \in scoped THEN 1 ELSE 0]
              \in [Periods -> Nat]
        BY <3>1, AddAt DEF TypeOK
      <3> QED
        BY <1>3, <3>1, <3>2, <3>3 DEF TypeOK, Write, AddSpend, Scopes
    <2> QED
      BY <1>3, <2>1 DEF TypeOK, Write, local, calls, snaps
  <1>4. ASSUME NEW r \in Requests, Lose(r) PROVE TypeOK'
    BY <1>4 DEF TypeOK, Lose, local, calls, snaps
  <1>5. CASE Pay
    BY <1>5 DEF TypeOK, Pay, local, calls, snaps
  <1>6. CASE NextPeriod
    BY <1>6 DEF TypeOK, NextPeriod, Periods, local, calls, db, snaps
  <1>7. CASE Refresh
    <2>1. CASE LoadSpend
      <3>1. spendSnap' \in [Scopes -> Window]
        BY <2>1 DEF TypeOK, LoadSpend, Window, Periods
      <3> QED
        BY <2>1, <3>1 DEF TypeOK, LoadSpend, local, calls, db
    <2>2. CASE Reconcile
      BY <2>2 DEF TypeOK, Reconcile, AfterSpend, calls, db
    <2>3. CASE LoadCreditFails
      BY <2>3 DEF TypeOK, LoadCreditFails, local, calls, db
    <2>4. ASSUME NEW c \in Reconcilers, LoadCredit(c) PROVE TypeOK'
      BY <2>4 DEF TypeOK, LoadCredit, local, calls, db
    <2>5. ASSUME NEW c \in Reconcilers, ReconcileCredit(c) PROVE TypeOK'
      <3>1. creditSnap[c] \in [balance : Int, landed : SUBSET Requests]
        BY <2>5 DEF TypeOK, ReconcileCredit
      <3>2. gap' \in Nat
        <4>1. PICK n : n = Worth(cost, (OnWay \cup landed) \ creditSnap[c].landed)
          OBVIOUS
        <4>2. n \in Nat
          BY <4>1, WorthNat DEF TypeOK
        <4>3. gap' = IF n > gap THEN n ELSE gap
          BY <2>5, <4>1 DEF ReconcileCredit, CostOf, Worth
        <4> QED
          BY <4>2, <4>3 DEF TypeOK
      <3> QED
        BY <2>5, <3>1, <3>2 DEF TypeOK, ReconcileCredit, calls, db
    <2> QED
      BY <1>7, <2>1, <2>2, <2>3, <2>4, <2>5 DEF Refresh
  <1> QED
    BY <1>1, <1>2, <1>3, <1>4, <1>5, <1>6, <1>7 DEF Next, Serve

-----------------------------------------------------------------------------
(* The places of the requests, and the dates.                              *)

\* The steps a request takes that do not touch its hold and its scopes.
Plain(r) == Arrive(r) \/ Receive(r) \/ Abandon(r) \/ Refuse(r) \/ CheckQuotas(r)
              \/ QuotaExceeded(r) \/ NoCredit(r) \/ HoldNothing(r) \/ CheckBudgets(r)
              \/ HookSpends(r) \/ Finish(r) \/ ChargeCredit(r) \/ Record(r)

\* They leave the holds and the counters alone, and move the request alone.
LEMMA PlainSteps ==
  ASSUME TypeOK, Stage, NEW r \in Requests, Plain(r)
  PROVE  /\ UNCHANGED <<period, running, held, hold, scoped>>
         /\ \A q \in Requests \ {r} : pc'[q] = pc[q] /\ now'[q] = now[q]
         /\ pc'[r] \in {"receive", "quotas", "hold", "budgets", "start", "started", "record",
                        "sink", "end", "done"}
         /\ pc[r] \notin {"release", "done"}
         /\ pc'[r] \in {"receive", "quotas", "hold", "done"} => hold[r] = 0
         /\ r \in scoped => now'[r] = now[r] /\ pc'[r] \in {"started", "record", "sink", "end"}
         /\ now'[r] \in {now[r], period}
  <1>1. CASE Arrive(r) \/ Receive(r) \/ Abandon(r)
    BY <1>1 DEF Arrive, Receive, Abandon, Go, local, TypeOK, Stage
  <1>2. CASE Refuse(r) \/ CheckQuotas(r) \/ QuotaExceeded(r) \/ NoCredit(r) \/ HoldNothing(r)
    BY <1>2 DEF Refuse, CheckQuotas, QuotaExceeded, NoCredit, HoldNothing, Go, local, TypeOK, Stage
  <1>3. CASE CheckBudgets(r) \/ HookSpends(r) \/ Finish(r) \/ ChargeCredit(r) \/ Record(r)
    BY <1>3 DEF CheckBudgets, HookSpends, Finish, ChargeCredit, Record, Go, local, TypeOK, Stage
  <1> QED
    BY <1>1, <1>2, <1>3 DEF Plain

\* The rest of the system leaves them alone too.
Others == (\E r \in Requests : Write(r) \/ Lose(r)) \/ Pay \/ Refresh

LEMMA OtherSteps ==
  ASSUME Others
  PROVE  UNCHANGED <<period, running, held, hold, scoped, pc, now>>
  <1>1. CASE \E r \in Requests : Write(r) \/ Lose(r)
    BY <1>1 DEF Write, Lose, local, calls
  <1>2. CASE Pay
    BY <1>2 DEF Pay, local, calls
  <1>3. CASE Refresh
    BY <1>3 DEF Refresh, LoadSpend, Reconcile, LoadCreditFails, LoadCredit, ReconcileCredit,
       local, calls
  <1> QED
    BY <1>1, <1>2, <1>3 DEF Others

\* Every step is one of these, or one that the counters follow.
LEMMA NextSteps ==
  ASSUME Next
  PROVE  \/ \E r \in Requests : Plain(r) \/ HoldCredit(r) \/ StartRequest(r) \/ EndRequest(r)
                                  \/ ReleaseCredit(r)
         \/ Others \/ NextPeriod
  BY DEF Next, Serve, Plain, Others

LEMMA StageKept == TypeOK /\ Stage /\ Dated /\ Next /\ UNCHANGED deploy => Stage' /\ Dated'
  <1> SUFFICES ASSUME TypeOK, Stage, Dated, Next, UNCHANGED deploy PROVE Stage' /\ Dated'
    OBVIOUS
  <1>0. MaxHold \in Nat /\ MaxHold' = MaxHold /\ MaxPeriod \in Nat /\ period \in Nat
    BY DeployOK, DeployKept DEF TypeOK, Periods
  <1> USE <1>0
  <1>1. ASSUME NEW r \in Requests, Plain(r) PROVE Stage' /\ Dated'
    <2>1. Stage'
      BY <1>1, PlainSteps DEF TypeOK, Stage
    <2>2. Dated'
      BY <1>1, PlainSteps DEF TypeOK, Dated
    <2> QED
      BY <2>1, <2>2
  <1>2. ASSUME NEW r \in Requests, HoldCredit(r) PROVE Stage' /\ Dated'
    BY <1>2 DEF HoldCredit, Go, TypeOK, Stage, Dated
  <1>3. ASSUME NEW r \in Requests, StartRequest(r) PROVE Stage' /\ Dated'
    <2>1. Stage'
      BY <1>3 DEF StartRequest, Go, TypeOK, Stage
    <2>2. Dated'
      BY <1>3 DEF StartRequest, AddWindow, TypeOK, Window, Dated
    <2> QED
      BY <2>1, <2>2
  <1>4. ASSUME NEW r \in Requests, EndRequest(r) PROVE Stage' /\ Dated'
    <2>1. Stage'
      BY <1>4 DEF EndRequest, Go, TypeOK, Stage
    <2>2. Dated'
      BY <1>4, SMTT(20) DEF EndRequest, NoWindow, TypeOK, Window, Dated
    <2> QED
      BY <2>1, <2>2
  <1>5. ASSUME NEW r \in Requests, ReleaseCredit(r) PROVE Stage' /\ Dated'
    BY <1>5 DEF ReleaseCredit, Go, TypeOK, Stage, Dated
  <1>6. CASE Others
    BY <1>6, OtherSteps DEF Stage, Dated
  <1>7. CASE NextPeriod
    <2>1. Stage'
      BY <1>7 DEF NextPeriod, calls, Stage
    <2>2. Dated'
      BY <1>7 DEF NextPeriod, calls, local, TypeOK, Window, Dated
    <2> QED
      BY <2>1, <2>2
  <1> QED
    BY <1>1, <1>2, <1>3, <1>4, <1>5, <1>6, <1>7, NextSteps

-----------------------------------------------------------------------------
(* The counters.                                                           *)

\* Requests are finitely many, and so are those counted.
LEMMA CountedFinite ==
  ASSUME TypeOK
  PROVE  /\ IsFiniteSet(Holding) /\ Cardinality(Holding) \in Nat
         /\ IsFiniteSet(Running) /\ Cardinality(Running) \in Nat
  <1>1. Holding \in SUBSET Requests /\ Running \in SUBSET Requests
    BY DEF TypeOK, Holding, Running
  <1> QED
    BY <1>1, BudgetsAssumption, FS_Subset, FS_CardinalityType DEF BudgetsAssumption

\* CountsMatch, in terms of Holding and Running.
HeldOK    == held = MaxHold * Cardinality(Holding)
RunningOK == InWindow(running, period) = Cardinality(Running)

LEMMA CountsMatchParts == CountsMatch <=> HeldOK /\ RunningOK
  BY DEF CountsMatch, HeldOK, RunningOK, Running

\* Credit is given back once, and by the request it was held for.
LEMMA HeldKept == TypeOK /\ Stage /\ HeldOK /\ Next /\ UNCHANGED deploy => HeldOK'
  <1> SUFFICES ASSUME TypeOK, Stage, HeldOK, Next, UNCHANGED deploy PROVE HeldOK'
    OBVIOUS
  <1>0. MaxHold \in Nat /\ MaxHold' = MaxHold
    BY DeployOK, DeployKept DEF TypeOK
  <1>n. Cardinality(Holding) \in Nat /\ IsFiniteSet(Holding)
    BY CountedFinite
  <1>1. ASSUME NEW r \in Requests, Plain(r) PROVE HeldOK'
    <2>1. Holding' = Holding
      BY <1>1, PlainSteps DEF TypeOK, Holding
    <2> QED
      BY <1>0, <1>1, <2>1, PlainSteps DEF HeldOK
  <1>2. ASSUME NEW r \in Requests, HoldCredit(r) PROVE HeldOK'
    <2>1. held' = held + MaxHold
      BY <1>2 DEF HoldCredit
    <2>2. CASE MaxHold = 0
      <3>1. Holding' = Holding
        BY <1>2, <2>2 DEF HoldCredit, Go, TypeOK, Stage, Holding
      <3> QED
        BY <1>0, <1>n, <2>1, <2>2, <3>1 DEF HeldOK
    <2>3. CASE MaxHold > 0
      <3>1. r \notin Holding /\ Holding' = Holding \cup {r}
        BY <1>2, <2>3 DEF HoldCredit, Go, TypeOK, Stage, Holding
      <3>2. Cardinality(Holding') = Cardinality(Holding) + 1
        BY <1>n, <3>1, FS_AddElement
      <3> QED
        BY <1>0, <1>n, <2>1, <3>2 DEF HeldOK
    <2> QED
      BY <1>0, <2>2, <2>3
  <1>3. ASSUME NEW r \in Requests, StartRequest(r) \/ EndRequest(r) PROVE HeldOK'
    <2>1. Holding' = Holding
      BY <1>3 DEF StartRequest, EndRequest, Go, TypeOK, Holding
    <2> QED
      BY <1>0, <1>3, <2>1 DEF StartRequest, EndRequest, HeldOK
  <1>4. ASSUME NEW r \in Requests, ReleaseCredit(r) PROVE HeldOK'
    <2>1. held' = IF held > hold[r] THEN held - hold[r] ELSE 0
      BY <1>4 DEF ReleaseCredit
    <2>2. CASE hold[r] = 0
      <3>1. Holding' = Holding
        BY <1>4, <2>2 DEF ReleaseCredit, Go, TypeOK, Holding
      <3>2. held' = held
        BY <2>1, <2>2 DEF TypeOK
      <3> QED
        BY <1>0, <3>1, <3>2 DEF HeldOK
    <2>3. CASE hold[r] # 0
      <3>1. hold[r] = MaxHold /\ MaxHold > 0
        BY <1>0, <2>3 DEF Stage
      <3>2. r \in Holding /\ Holding' = Holding \ {r}
        BY <1>4, <3>1 DEF ReleaseCredit, Go, TypeOK, Holding
      <3>3. Cardinality(Holding') = Cardinality(Holding) - 1
        BY <1>n, <3>2, FS_RemoveElement
      <3>4. Cardinality(Holding') \in Nat
        BY <1>n, <3>2, FS_RemoveElement, FS_CardinalityType
      <3>5. held = MaxHold + MaxHold * Cardinality(Holding')
        BY <1>0, <1>n, <3>3 DEF HeldOK
      <3>6. MaxHold * Cardinality(Holding') \in Nat
        BY <1>0, <3>4
      <3>7. held' = MaxHold * Cardinality(Holding')
        BY <1>0, <2>1, <3>1, <3>5, <3>6
      <3> QED
        BY <1>0, <3>7 DEF HeldOK
    <2> QED
      BY <2>2, <2>3
  <1>5. CASE Others \/ NextPeriod
    <2>1. UNCHANGED <<held, hold, pc>>
      BY <1>5, OtherSteps DEF NextPeriod, local, calls
    <2>2. Holding' = Holding
      BY <2>1 DEF Holding
    <2> QED
      BY <1>0, <2>1, <2>2 DEF HeldOK
  <1> QED
    BY <1>1, <1>2, <1>3, <1>4, <1>5, NextSteps

\* A request that ends in an older window does not touch the open one's count.
LEMMA RunningKept == TypeOK /\ Stage /\ Dated /\ RunningOK /\ Next => RunningOK'
  <1> SUFFICES ASSUME TypeOK, Stage, Dated, RunningOK, Next PROVE RunningOK'
    OBVIOUS
  <1>0. /\ MaxPeriod \in Nat /\ period \in Nat \ {0}
        /\ running.start \in Nat /\ running.n \in Nat
        /\ running = [start |-> running.start, n |-> running.n]
    BY DeployOK DEF TypeOK, Periods, Window
  <1>n. Cardinality(Running) \in Nat /\ IsFiniteSet(Running)
    BY CountedFinite
  <1>1. ASSUME NEW r \in Requests, Plain(r) PROVE RunningOK'
    <2>1. Running' = Running
      BY <1>1, PlainSteps DEF TypeOK, Running
    <2> QED
      BY <1>1, <2>1, PlainSteps DEF RunningOK
  <1>2. ASSUME NEW r \in Requests, HoldCredit(r) \/ ReleaseCredit(r) PROVE RunningOK'
    <2>1. Running' = Running
      BY <1>2 DEF HoldCredit, ReleaseCredit, Go, TypeOK, Running
    <2> QED
      BY <1>2, <2>1 DEF HoldCredit, ReleaseCredit, RunningOK
  <1>3. ASSUME NEW r \in Requests, StartRequest(r) PROVE RunningOK'
    <2>0. now[r] \in Nat /\ now[r] <= period /\ period' = period /\ now' = now
          /\ running' = AddWindow(running, now[r], 1)
      BY <1>0, <1>3 DEF StartRequest, TypeOK, Dated
    <2>1. CASE now[r] = period
      <3>1. Running' = Running \cup {r} /\ r \notin Running
        BY <1>3, <2>0, <2>1 DEF StartRequest, Go, TypeOK, Stage, Running
      <3>2. Cardinality(Running') = Cardinality(Running) + 1
        BY <1>n, <3>1, FS_AddElement
      <3>3. InWindow(running, period)' = InWindow(running, period) + 1
        BY <1>0, <2>0, <2>1 DEF AddWindow, InWindow, Dated
      <3> QED
        BY <3>2, <3>3 DEF RunningOK
    <2>2. CASE now[r] # period
      <3>1. Running' = Running
        BY <1>3, <2>0, <2>2 DEF StartRequest, Go, TypeOK, Running
      <3>2. InWindow(running, period)' = InWindow(running, period)
        BY <1>0, <2>0, <2>2 DEF AddWindow, InWindow, Dated
      <3> QED
        BY <3>1, <3>2 DEF RunningOK
    <2> QED
      BY <2>1, <2>2
  <1>4. ASSUME NEW r \in Requests, EndRequest(r) PROVE RunningOK'
    <2>0. now[r] \in Nat /\ period' = period /\ now' = now /\ pc[r] = "end"
          /\ pc' = [pc EXCEPT ![r] = "release"] /\ scoped' = scoped
      BY <1>0, <1>4 DEF EndRequest, Go, TypeOK
    <2>1. CASE r \in Running
      <3>0. r \in scoped /\ now[r] = period
        BY <2>1 DEF Running
      <3>1. Running' = Running \ {r}
        BY <2>0 DEF Running, TypeOK
      <3>2. Cardinality(Running') = Cardinality(Running) - 1
        BY <1>n, <2>1, <3>1, FS_RemoveElement
      <3>3. Cardinality(Running) # 0
        BY <1>n, <2>1, FS_EmptySet
      <3>4. running.start = period /\ running.n = Cardinality(Running)
        BY <3>3 DEF RunningOK, InWindow
      <3>5. running' = IF running.n > 1 THEN [running EXCEPT !.n = @ - 1] ELSE NoWindow
        BY <1>4, <3>0, <3>4 DEF EndRequest
      <3>6. InWindow(running, period)' = running.n - 1
        <4>1. CASE running.n > 1
          BY <1>0, <2>0, <3>4, <3>5, <4>1 DEF InWindow
        <4>2. CASE ~(running.n > 1)
          BY <1>0, <1>n, <2>0, <3>3, <3>4, <3>5, <4>2 DEF InWindow, NoWindow
        <4> QED
          BY <4>1, <4>2
      <3> QED
        BY <3>2, <3>4, <3>6 DEF RunningOK
    <2>2. CASE r \notin Running
      <3>1. Running' = Running
        BY <2>0, <2>2 DEF Running, TypeOK
      <3>2. r \notin scoped \/ now[r] # period
        BY <2>0, <2>2 DEF Running
      <3>3. \/ running' = running
            \/ running.start # period /\ running'.start # period
        <4>1. CASE r \notin scoped \/ running.start # now[r]
          BY <1>4, <4>1 DEF EndRequest
        <4>2. CASE r \in scoped /\ running.start = now[r]
          BY <1>0, <1>4, <3>2, <4>2 DEF EndRequest, NoWindow
        <4> QED
          BY <4>1, <4>2
      <3>4. InWindow(running, period)' = InWindow(running, period)
        BY <2>0, <3>3 DEF InWindow
      <3> QED
        BY <3>1, <3>4 DEF RunningOK
    <2> QED
      BY <2>1, <2>2
  <1>5. CASE Others
    <2>1. UNCHANGED <<period, running, scoped, pc, now>>
      BY <1>5, OtherSteps
    <2>2. Running' = Running
      BY <2>1 DEF Running
    <2> QED
      BY <2>1, <2>2 DEF RunningOK
  <1>6. CASE NextPeriod
    <2>0. period' = period + 1 /\ UNCHANGED <<running, scoped, pc, now>>
      BY <1>6 DEF NextPeriod, local, calls
    <2>1. Running' = {}
      BY <1>0, <2>0 DEF Running, TypeOK, Dated
    <2>2. InWindow(running, period)' = 0
      BY <1>0, <2>0 DEF InWindow, Dated
    <2> QED
      BY <2>1, <2>2, FS_EmptySet DEF RunningOK
  <1> QED
    BY <1>1, <1>2, <1>3, <1>4, <1>5, <1>6, NextSteps

-----------------------------------------------------------------------------
(* What a charge, a write and a reconcile do to the figures.  W are the    *)
(* charges on their way, L the landed rows, M the rows a reconcile has     *)
(* read.                                                                   *)

LEMMA WorthJoins ==
  ASSUME NEW f \in [Requests -> Nat], NEW r \in Requests, NEW S, NEW S1, r \notin S, S1 = S \cup {r}
  PROVE  Worth(f, S1) = Worth(f, S) + f[r]
  <1>1. S \cap {r} = {}
    OBVIOUS
  <1>2. Worth(f, S1) = Worth(f, S) + Worth(f, {r})
    BY <1>1, WorthSplits
  <1> QED
    BY <1>2, WorthOne

-----------------------------------------------------------------------------
(* The credit.                                                             *)

Paying == Prepaid /\ ~Invoiced

\* The requests that have been charged, or are over.
Charged == {r \in Requests : pc[r] \in {"sink", "end", "release", "done"}}

\* The requests credit is held for that are still to be charged.
Ahead == {r \in Requests : hold[r] > 0 /\ r \notin Charged}

\* Where a row is tells where its request is, and a request that was not
\* admitted costs nothing.
Filed ==
  /\ buffer \cap landed = {}
  /\ \A r \in buffer \cup landed : pc[r] \in {"end", "release", "done"}

\* A balance that was read is too high only by the charges that landed since.
Snapped ==
  \A c \in Reconcilers : creditSnap[c] # None =>
     /\ creditSnap[c].landed \subseteq landed
     /\ creditSnap[c].balance <= account + CostOf(landed \ creditSnap[c].landed)

\* The local balance is too high by no more than one reconcile forgot.
Seen == Prepaid => balance <= Left + gap

\* What is left covers the holds to come, but for less than one.
Covers(n) == n >= 0 \/ n > -MaxHold
Covered == Paying /\ Credit >= 0 => Covers((Left + gap + beyond) - MaxHold * Cardinality(Ahead))

Books == Filed /\ Snapped /\ Seen /\ Covered

LEMMA FiledKept == TypeOK /\ Filed /\ Next => Filed'
  <1> SUFFICES ASSUME TypeOK, Filed, Next PROVE Filed'
    OBVIOUS
  <1>1. ASSUME NEW r \in Requests, Arrive(r) \/ Receive(r) \/ Abandon(r) \/ Refuse(r)
                 \/ CheckQuotas(r) \/ QuotaExceeded(r)
        PROVE  Filed'
    BY <1>1 DEF Arrive, Receive, Abandon, Refuse, CheckQuotas, QuotaExceeded, Go, db, TypeOK, Filed
  <1>2. ASSUME NEW r \in Requests, HoldCredit(r) \/ NoCredit(r) \/ HoldNothing(r)
                 \/ CheckBudgets(r) \/ StartRequest(r) \/ HookSpends(r)
        PROVE  Filed'
    BY <1>2 DEF HoldCredit, NoCredit, HoldNothing, CheckBudgets, StartRequest, HookSpends, Go, db,
       TypeOK, Filed
  <1>3. ASSUME NEW r \in Requests, Finish(r) \/ ChargeCredit(r) \/ EndRequest(r)
                 \/ ReleaseCredit(r)
        PROVE  Filed'
    BY <1>3 DEF Finish, ChargeCredit, EndRequest, ReleaseCredit, Go, db, TypeOK, Filed
  <1>4. ASSUME NEW r \in Requests, Record(r) \/ Write(r) \/ Lose(r)
        PROVE  Filed'
    BY <1>4, SMTT(30) DEF Record, Write, Lose, Go, calls, TypeOK, Filed
  <1>5. CASE Pay \/ NextPeriod
    BY <1>5 DEF Pay, NextPeriod, db, calls, Filed
  <1>6. CASE Refresh
    BY <1>6 DEF Refresh, LoadSpend, Reconcile, LoadCreditFails, LoadCredit, ReconcileCredit, db,
       calls, Filed
  <1> QED
    BY <1>1, <1>2, <1>3, <1>4, <1>5, <1>6 DEF Next, Serve

-----------------------------------------------------------------------------
(* What a step does to the credit.                                         *)

\* Nothing; perhaps a request that is not charged yet has its cost, or a
\* charge on its way is lost.
Still ==
  /\ UNCHANGED <<account, balance, landed, gap, creditSnap>>
  /\ OnWay' \subseteq OnWay /\ \A r \in OnWay \cup landed : cost'[r] = cost[r]

\* A request is charged.
Charging(r) ==
  /\ UNCHANGED <<account, landed, gap, creditSnap, cost, hold>>
  /\ r \notin OnWay /\ OnWay' = OnWay \cup {r}
  /\ r \notin Charged /\ Charged' = Charged \cup {r}
  /\ Prepaid => balance' = balance - cost[r]
  /\ beyond' = beyond + (IF cost[r] > hold[r] THEN cost[r] - hold[r] ELSE 0)

LEMMA CreditSteps ==
  ASSUME TypeOK, Stage, Filed, Next
  PROVE  \/ Still /\ Ahead' = Ahead /\ beyond' = beyond
         \/ \E r \in Requests : Still /\ HoldCredit(r)
         \/ \E r \in Requests : Charging(r)
         \/ \E r \in Requests : Write(r)
         \/ Pay
         \/ \E c \in Reconcilers : LoadCredit(c) \/ ReconcileCredit(c)
  <1>1. ASSUME NEW r \in Requests, Arrive(r) \/ Receive(r) \/ Abandon(r) \/ Refuse(r)
                 \/ CheckQuotas(r) \/ QuotaExceeded(r) \/ NoCredit(r) \/ HoldNothing(r)
        PROVE  Still /\ Ahead' = Ahead /\ beyond' = beyond
    <2>1. Still /\ beyond' = beyond
      BY <1>1 DEF Arrive, Receive, Abandon, Refuse, CheckQuotas, QuotaExceeded, NoCredit,
         HoldNothing, Go, local, db, snaps, TypeOK, OnWay, Still, Filed
    <2>2. Ahead' = Ahead
      BY <1>1 DEF Arrive, Receive, Abandon, Refuse, CheckQuotas, QuotaExceeded, NoCredit,
         HoldNothing, Go, TypeOK, Stage, Ahead, Charged
    <2> QED
      BY <2>1, <2>2
  <1>2. ASSUME NEW r \in Requests, CheckBudgets(r) \/ StartRequest(r) \/ HookSpends(r)
                 \/ Finish(r) \/ Record(r) \/ EndRequest(r) \/ ReleaseCredit(r)
        PROVE  Still /\ Ahead' = Ahead /\ beyond' = beyond
    <2>1. Still /\ beyond' = beyond
      BY <1>2 DEF CheckBudgets, StartRequest, HookSpends, Finish, Record, EndRequest,
         ReleaseCredit, Go, local, db, snaps, TypeOK, OnWay, Still, Filed
    <2>2. Ahead' = Ahead
      BY <1>2 DEF CheckBudgets, StartRequest, HookSpends, Finish, Record, EndRequest,
         ReleaseCredit, Go, TypeOK, Ahead, Charged
    <2> QED
      BY <2>1, <2>2
  <1>3. ASSUME NEW r \in Requests, HoldCredit(r) PROVE Still
    BY <1>3 DEF HoldCredit, Go, db, snaps, TypeOK, OnWay, Still
  <1>4. ASSUME NEW r \in Requests, ChargeCredit(r) PROVE Charging(r)
    BY <1>4 DEF ChargeCredit, Go, db, snaps, TypeOK, OnWay, Charged, Charging, Filed
  <1>5. ASSUME NEW r \in Requests, Lose(r) PROVE Still /\ Ahead' = Ahead /\ beyond' = beyond
    BY <1>5 DEF Lose, local, calls, snaps, OnWay, Still, Ahead, Charged
  <1>6. CASE NextPeriod \/ LoadSpend \/ Reconcile \/ LoadCreditFails
    BY <1>6 DEF NextPeriod, LoadSpend, Reconcile, LoadCreditFails, local, calls, db, snaps,
       OnWay, Still, Ahead, Charged
  <1> QED
    BY <1>1, <1>2, <1>3, <1>4, <1>5, <1>6 DEF Next, Serve, Refresh

\* The requests credit is held for ahead of their charge are finitely many,
\* and no more than those it is held for.
LEMMA AheadCount ==
  ASSUME TypeOK, HeldOK
  PROVE  /\ IsFiniteSet(Ahead) /\ Cardinality(Ahead) \in Nat
         /\ MaxHold * Cardinality(Ahead) <= held
  <1>1. Ahead \subseteq Holding
    BY DEF Ahead, Holding, Charged
  <1>2. IsFiniteSet(Holding) /\ Cardinality(Holding) \in Nat
    BY CountedFinite
  <1>3. IsFiniteSet(Ahead) /\ Cardinality(Ahead) <= Cardinality(Holding)
    BY <1>1, <1>2, FS_Subset
  <1>4. Cardinality(Ahead) \in Nat
    BY <1>3, FS_CardinalityType
  <1>5. MaxHold \in Nat
    BY DeployOK DEF TypeOK
  <1>6. \A k, m, n \in Nat : m <= n => k * m <= k * n
    OBVIOUS
  <1> QED
    BY <1>2, <1>3, <1>4, <1>5, <1>6 DEF HeldOK

\* What is left, in constants.
LEMMA LeftIs ==
  ASSUME TypeOK, NEW f, NEW W, f = cost, W = OnWay
  PROVE  /\ Left = account - Worth(f, W) /\ Worth(f, W) \in Nat
         /\ account \in Int /\ Left \in Int /\ f \in [Requests -> Nat]
  <1>1. f \in [Requests -> Nat] /\ account \in Int
    BY DEF TypeOK
  <1>2. Worth(f, W) \in Nat
    BY <1>1, WorthNat
  <1>3. Left = account - Worth(f, W)
    BY DEF Left, CostOf, Worth
  <1> QED
    BY <1>1, <1>2, <1>3

LEMMA StillKeeps ==
  ASSUME TypeOK, TypeOK', Snapped, Still
  PROVE  Left' >= Left /\ Snapped' /\ Left \in Int /\ Left' \in Int
  <1>1. PICK f, g, W, W1, L : f = cost /\ g = cost' /\ W = OnWay /\ W1 = OnWay' /\ L = landed
    OBVIOUS
  <1>2. W1 \subseteq W /\ \A r \in W \cup L : g[r] = f[r]
    BY <1>1 DEF Still
  <1>3. /\ Left = account - Worth(f, W) /\ Worth(f, W) \in Nat /\ account \in Int /\ Left \in Int
        /\ f \in [Requests -> Nat]
    BY <1>1, LeftIs
  <1>4. \A S : S \subseteq W \cup L => Worth(g, S) = Worth(f, S)
    BY <1>2, WorthSame
  <1>5. Worth(g, W1) = Worth(f, W1)
    <2>1. W1 \subseteq W \cup L
      BY <1>2
    <2> QED
      BY <1>4, <2>1
  <1>6. Worth(f, W) = Worth(f, W1) + Worth(f, W \ W1)
    <2>1. W = W1 \cup (W \ W1) /\ W1 \cap (W \ W1) = {}
      BY <1>2
    <2> QED
      BY <1>3, <2>1, WorthSplits
  <1>7. Worth(f, W1) \in Nat /\ Worth(f, W \ W1) \in Nat
    BY <1>3, WorthNat
  <1>8. Left' = account - Worth(g, W1)
    BY <1>1 DEF Left, CostOf, Worth, Still
  <1>9. Snapped'
    <2>1. SUFFICES ASSUME NEW c \in Reconcilers, creditSnap[c] # None
                   PROVE  /\ creditSnap[c].landed \subseteq landed
                          /\ creditSnap[c].balance <= account + Worth(g, L \ creditSnap[c].landed)
      BY <1>1 DEF Snapped, Still, CostOf, Worth
    <2>2. /\ creditSnap[c].landed \subseteq landed
          /\ creditSnap[c].balance <= account + Worth(f, L \ creditSnap[c].landed)
      BY <1>1, <2>1 DEF Snapped, CostOf, Worth
    <2>3. PICK M : M = creditSnap[c].landed
      OBVIOUS
    <2>4. L \ M \subseteq W \cup L
      OBVIOUS
    <2>5. Worth(g, L \ M) = Worth(f, L \ M)
      BY <1>4, <2>4
    <2> QED
      BY <2>2, <2>3, <2>5
  <1> QED
    BY <1>3, <1>5, <1>6, <1>7, <1>8, <1>9

LEMMA ChargingKeeps ==
  ASSUME TypeOK, Snapped, NEW r \in Requests, Charging(r)
  PROVE  Left' = Left - cost[r] /\ Snapped' /\ Left \in Int /\ cost[r] \in Nat
  <1>1. PICK f, W, W1 : f = cost /\ W = OnWay /\ W1 = OnWay'
    OBVIOUS
  <1>2. /\ Left = account - Worth(f, W) /\ Worth(f, W) \in Nat /\ account \in Int /\ Left \in Int
        /\ f \in [Requests -> Nat] /\ f[r] \in Nat
    BY <1>1, LeftIs
  <1>3. Worth(f, W1) = Worth(f, W) + f[r]
    <2>1. r \notin W /\ W1 = W \cup {r}
      BY <1>1 DEF Charging
    <2> QED
      BY <1>2, <2>1, WorthJoins
  <1>4. Left' = account - Worth(f, W1)
    BY <1>1 DEF Left, CostOf, Worth, Charging
  <1>5. Snapped'
    BY DEF Snapped, Charging, CostOf
  <1> QED
    BY <1>1, <1>2, <1>3, <1>4, <1>5

LEMMA WriteKeeps ==
  ASSUME TypeOK, TypeOK', Filed, Snapped, NEW r \in Requests, Write(r)
  PROVE  Left' = Left /\ Snapped' /\ Left \in Int
  <1>1. PICK f, W, W1, L, L1 : f = cost /\ W = OnWay /\ W1 = OnWay' /\ L = landed /\ L1 = landed'
    OBVIOUS
  <1>2. UNCHANGED <<cost, pc, creditSnap>> /\ account' = account - cost[r]
    BY DEF Write, calls, snaps
  <1>3. /\ r \notin L /\ L1 = L \cup {r} /\ r \notin W1 /\ W = W1 \cup {r}
    <2>1. r \in buffer /\ buffer' = buffer \ {r} /\ pc[r] # "sink" /\ r \notin landed
          /\ landed' = landed \cup {r}
      BY DEF Filed, Write
    <2> QED
      BY <1>1, <1>2, <2>1 DEF OnWay
  <1>4. /\ Left = account - Worth(f, W) /\ Worth(f, W) \in Nat /\ account \in Int /\ Left \in Int
        /\ f \in [Requests -> Nat] /\ f[r] \in Nat
    BY <1>1, LeftIs
  <1>5. Worth(f, W) = Worth(f, W1) + f[r] /\ Worth(f, W1) \in Nat
    BY <1>3, <1>4, WorthJoins, WorthNat
  <1>6. Left' = account' - Worth(f, W1)
    BY <1>1, <1>2 DEF Left, CostOf, Worth
  <1>7. Snapped'
    <2>1. SUFFICES ASSUME NEW c \in Reconcilers, creditSnap[c] # None
                   PROVE  /\ creditSnap[c].landed \subseteq L1
                          /\ creditSnap[c].balance <= account' + Worth(f, L1 \ creditSnap[c].landed)
      BY <1>1, <1>2 DEF Snapped, CostOf, Worth
    <2>2. /\ creditSnap[c].landed \subseteq L
          /\ creditSnap[c].balance <= account + Worth(f, L \ creditSnap[c].landed)
      BY <1>1, <2>1 DEF Snapped, CostOf, Worth
    <2>3. PICK M, b : M = creditSnap[c].landed /\ b = creditSnap[c].balance
      OBVIOUS
    <2>4. b \in Int
      BY <2>1, <2>3 DEF TypeOK
    <2>5. Worth(f, L \ M) \in Nat
      BY <1>4, WorthNat
    <2>6. Worth(f, L1 \ M) = Worth(f, L \ M) + f[r] /\ M \subseteq L1
      <3>1. M \subseteq L1 /\ r \notin L \ M /\ L1 \ M = (L \ M) \cup {r}
        BY <1>3, <2>2, <2>3
      <3> QED
        BY <1>4, <3>1, WorthJoins
    <2>7. b <= account' + Worth(f, L1 \ M)
      BY <1>1, <1>2, <1>4, <2>2, <2>3, <2>4, <2>5, <2>6
    <2> QED
      BY <2>3, <2>6, <2>7
  <1> QED
    BY <1>1, <1>2, <1>4, <1>5, <1>6, <1>7

LEMMA PayKeeps ==
  ASSUME TypeOK, TypeOK', Snapped, Pay
  PROVE  Left' >= Left /\ Snapped' /\ Left \in Int /\ Left' \in Int
  <1>1. PICK f, W, L : f = cost /\ W = OnWay /\ L = landed
    OBVIOUS
  <1>2. /\ UNCHANGED <<cost, pc, buffer, creditSnap, landed>> /\ account' = account + TopUp
        /\ TopUp \in Nat
    BY DeployOK DEF Pay, calls, snaps, TypeOK
  <1>3. /\ Left = account - Worth(f, W) /\ Worth(f, W) \in Nat /\ account \in Int /\ Left \in Int
        /\ f \in [Requests -> Nat]
    BY <1>1, LeftIs
  <1>4. Left' = account' - Worth(f, W)
    BY <1>1, <1>2 DEF Left, OnWay, CostOf, Worth
  <1>5. Snapped'
    <2>1. SUFFICES ASSUME NEW c \in Reconcilers, creditSnap[c] # None
                   PROVE  /\ creditSnap[c].landed \subseteq landed
                          /\ creditSnap[c].balance <= account' + Worth(f, L \ creditSnap[c].landed)
      BY <1>1, <1>2 DEF Snapped, CostOf, Worth
    <2>2. /\ creditSnap[c].landed \subseteq landed
          /\ creditSnap[c].balance <= account + Worth(f, L \ creditSnap[c].landed)
      BY <1>1, <2>1 DEF Snapped, CostOf, Worth
    <2>3. PICK M, b : M = creditSnap[c].landed /\ b = creditSnap[c].balance
      OBVIOUS
    <2>4. b \in Int
      BY <2>1, <2>3 DEF TypeOK
    <2>5. Worth(f, L \ M) \in Nat
      BY <1>3, WorthNat
    <2>6. b <= account' + Worth(f, L \ M)
      BY <1>2, <1>3, <2>2, <2>3, <2>4, <2>5
    <2> QED
      BY <2>2, <2>3, <2>6
  <1> QED
    BY <1>2, <1>3, <1>4, <1>5

LEMMA LoadKeeps ==
  ASSUME TypeOK, Snapped, NEW c \in Reconcilers, LoadCredit(c)
  PROVE  Left' = Left /\ Snapped' /\ Left \in Int
  <1>1. PICK f, W, L : f = cost /\ W = OnWay /\ L = landed
    OBVIOUS
  <1>2. /\ UNCHANGED <<cost, pc, buffer, landed, account>>
        /\ creditSnap' = [creditSnap EXCEPT ![c] = [balance |-> account, landed |-> landed]]
    BY DEF LoadCredit, calls, db
  <1>3. account \in Int /\ Left \in Int /\ f \in [Requests -> Nat]
    BY <1>1, LeftIs
  <1>4. Left' = Left
    BY <1>2 DEF Left, OnWay, CostOf
  <1>5. Snapped'
    <2>1. SUFFICES ASSUME NEW d \in Reconcilers, creditSnap'[d] # None
                   PROVE  /\ creditSnap'[d].landed \subseteq landed
                          /\ creditSnap'[d].balance
                               <= account + CostOf(landed \ creditSnap'[d].landed)
      BY <1>2 DEF Snapped, CostOf
    <2>2. CASE d # c
      <3>1. creditSnap'[d] = creditSnap[d]
        BY <1>2, <2>2 DEF TypeOK
      <3> QED
        BY <2>1, <3>1 DEF Snapped
    <2>3. CASE d = c
      <3>1. creditSnap'[d].landed = landed /\ creditSnap'[d].balance = account
        BY <1>2, <2>3 DEF TypeOK
      <3>2. PICK M : M = creditSnap'[d].landed
        OBVIOUS
      <3>3. Worth(f, L \ M) \in Nat
        BY <1>3, WorthNat
      <3>4. CostOf(landed \ creditSnap'[d].landed) = Worth(f, L \ M)
        BY <1>1, <3>2 DEF CostOf, Worth
      <3> QED
        BY <1>3, <3>1, <3>3, <3>4
    <2> QED
      BY <2>2, <2>3
  <1> QED
    BY <1>3, <1>4, <1>5

\* What a reconcile brings is at most what is left and what it forgets.
LEMMA ReconcileKeeps ==
  ASSUME TypeOK, TypeOK', Filed, Snapped, NEW c \in Reconcilers, ReconcileCredit(c)
  PROVE  /\ Left' = Left /\ gap' >= gap /\ balance' <= Left' + gap' /\ Snapped' /\ Left \in Int
         /\ beyond' = beyond
  <1>1. PICK f, W, L, M, b : /\ f = cost /\ W = OnWay /\ L = landed
                             /\ M = creditSnap[c].landed /\ b = creditSnap[c].balance
    OBVIOUS
  <1>2. /\ UNCHANGED <<cost, pc, buffer, landed, account, beyond>>
        /\ creditSnap' = [creditSnap EXCEPT ![c] = None] /\ creditSnap[c] # None
        /\ balance' = b
    BY <1>1 DEF ReconcileCredit, calls, db
  <1>b. b \in Int
    BY <1>1, <1>2 DEF TypeOK
  <1>3. M \subseteq L /\ W \cap L = {}
    BY <1>1, <1>2 DEF Snapped, Filed, OnWay
  <1>4. b <= account + Worth(f, L \ M)
    BY <1>1, <1>2 DEF Snapped, CostOf, Worth
  <1>5. /\ Left = account - Worth(f, W) /\ Worth(f, W) \in Nat /\ account \in Int /\ Left \in Int
        /\ f \in [Requests -> Nat]
    BY <1>1, LeftIs
  <1>6. Worth(f, (W \cup L) \ M) = Worth(f, W) + Worth(f, L \ M) /\ Worth(f, L \ M) \in Nat
    <2>0. f \in [Requests -> Nat]
      BY <1>5
    <2>1. Worth(f, (W \cup L) \ M) = Worth(f, W) + Worth(f, L \ M)
      <3>1. PICK K, N : K = (W \cup L) \ M /\ N = L \ M
        OBVIOUS
      <3>2. Worth(f, K) = Worth(f, W) + Worth(f, N)
        <4>1. K = W \cup N /\ W \cap N = {}
          BY <1>3, <3>1
        <4> QED
          BY <2>0, <4>1, WorthSplits
      <3> QED
        BY <3>1, <3>2
    <2>2. Worth(f, L \ M) \in Nat
      BY <1>5, WorthNat
    <2> QED
      BY <2>1, <2>2
  <1>7. gap' >= gap /\ gap' >= Worth(f, (W \cup L) \ M) /\ gap \in Nat /\ gap' \in Nat
    <2>1. PICK n : n = Worth(f, (W \cup L) \ M)
      OBVIOUS
    <2>2. gap' = IF n > gap THEN n ELSE gap
      BY <1>1, <2>1 DEF ReconcileCredit, CostOf, Worth
    <2>3. n \in Nat /\ gap \in Nat
      BY <1>5, <2>1, WorthNat DEF TypeOK
    <2> QED
      BY <2>1, <2>2, <2>3
  <1>8. Left' = Left
    BY <1>2 DEF Left, OnWay, CostOf
  <1>9. Snapped'
    <2>1. SUFFICES ASSUME NEW d \in Reconcilers, creditSnap'[d] # None
                   PROVE  /\ creditSnap'[d].landed \subseteq landed
                          /\ creditSnap'[d].balance
                               <= account + CostOf(landed \ creditSnap'[d].landed)
      BY <1>2 DEF Snapped, CostOf
    <2>2. creditSnap'[d] = creditSnap[d]
      BY <1>2, <2>1 DEF TypeOK
    <2> QED
      BY <2>1, <2>2 DEF Snapped
  <1>10. balance' <= Left' + gap'
    BY <1>2, <1>b, <1>4, <1>5, <1>6, <1>7, <1>8
  <1> QED
    BY <1>2, <1>5, <1>7, <1>8, <1>9, <1>10

\* The arithmetic of the steps below.
LEMMA Grows ==
  ASSUME NEW a \in Int, NEW a1 \in Int, NEW g \in Nat, NEW g1 \in Nat, NEW d \in Nat,
         a1 >= a, g1 >= g
  PROVE  /\ a + g + d \in Int /\ a1 + g1 + d \in Int /\ a1 + g1 + d >= a + g + d
         /\ \A b \in Int : b <= a + g => b <= a1 + g1
  OBVIOUS

LEMMA GrowsFrom ==
  ASSUME NEW a \in Int, NEW a1 \in Int, NEW g \in Nat, NEW g1 \in Nat, NEW d \in Nat,
         NEW b \in Int, NEW h \in Nat, NEW k \in Nat,
         a1 >= a, g1 = g, d = 0, k <= h, b - h > 0, b <= a + g
  PROVE  a1 + g1 + d \in Int /\ (a1 + g1 + d) - k > 0
  OBVIOUS

\* Every step.
LEMMA CreditKept ==
  ASSUME TypeOK, TypeOK', HeldOK, HeldOK', Stage, Filed, Snapped, Seen, Covered,
         Next, UNCHANGED deploy
  PROVE  Snapped' /\ Seen' /\ Covered'
  <1>0. /\ MaxHold \in Nat /\ MaxHold' = MaxHold /\ Credit' = Credit
        /\ (Paying' <=> Paying) /\ (Prepaid' <=> Prepaid)
    BY DeployOK, DeployKept DEF TypeOK, Paying, Prepaid, Invoiced, Credit
  <1>1. /\ IsFiniteSet(Ahead) /\ Cardinality(Ahead) \in Nat
        /\ MaxHold * Cardinality(Ahead) <= held
    BY AheadCount
  <1>t. /\ held \in Nat /\ balance \in Int /\ balance' \in Int
        /\ gap \in Nat /\ gap' \in Nat /\ beyond \in Nat /\ beyond' \in Nat
    BY DEF TypeOK
  <1> DEFINE n == MaxHold * Cardinality(Ahead)
             m == MaxHold * Cardinality(Ahead')
             x == Left + gap + beyond
             y == Left' + gap' + beyond'
  <1>2. n \in Nat /\ n <= held
    BY <1>0, <1>1
  <1>3. Covered' <=> (Paying /\ Credit >= 0 => y - m >= 0 \/ y - m > -MaxHold)
    BY <1>0 DEF Covered, Covers
  <1>4. Paying /\ Credit >= 0 => x - n >= 0 \/ x - n > -MaxHold
    BY DEF Covered, Covers
  <1>5. Prepaid => balance <= Left + gap
    BY DEF Seen
  <1>6. (Prepaid => balance' <= Left' + gap') => Seen'
    BY <1>0 DEF Seen
  \* Whatever leaves the holds alone and takes nothing.
  <1>7. ASSUME Left' >= Left, gap' >= gap, beyond' = beyond, Left \in Int, Left' \in Int, Snapped',
               Ahead' = Ahead, balance' = balance \/ balance' <= Left' + gap'
        PROVE  Snapped' /\ Seen' /\ Covered'
    <2>1. m = n
      BY <1>7
    <2>2. y >= x /\ x \in Int /\ y \in Int
      BY <1>t, <1>7, Grows
    <2> HIDE DEF n, m, x, y
    <2>3. Covered'
      BY <1>0, <1>2, <1>3, <1>4, <2>1, <2>2
    <2>4. Prepaid => balance' <= Left' + gap'
      BY <1>t, <1>5, <1>7, Grows
    <2> QED
      BY <1>6, <1>7, <2>3, <2>4
  <1>8. CASE Still /\ Ahead' = Ahead /\ beyond' = beyond
    <2>1. Left' >= Left /\ Snapped' /\ Left \in Int /\ Left' \in Int
      BY <1>8, StillKeeps
    <2>2. balance' = balance /\ gap' = gap
      BY <1>8 DEF Still
    <2> QED
      BY <1>t, <1>7, <1>8, <2>1, <2>2
  <1>9. ASSUME NEW r \in Requests, Still, HoldCredit(r) PROVE Snapped' /\ Seen' /\ Covered'
    <2>1. Left' >= Left /\ Snapped' /\ Left \in Int /\ Left' \in Int
      BY <1>9, StillKeeps
    <2>2. /\ balance' = balance /\ hold' = [hold EXCEPT ![r] = MaxHold] /\ gap' = gap /\ beyond' = 0
          /\ balance - held > 0 /\ Prepaid /\ pc[r] = "hold" /\ hold[r] = 0
          /\ pc' = [pc EXCEPT ![r] = "budgets"]
      BY <1>9 DEF HoldCredit, Go, Still, Stage
    <2>3. r \notin Charged /\ Charged' = Charged /\ hold \in [Requests -> Nat]
      BY <2>2 DEF Charged, TypeOK
    <2>4. m = n \/ m = n + MaxHold
      <3>1. CASE MaxHold = 0
        <4>1. Ahead' = Ahead
          BY <2>2, <2>3, <3>1 DEF Ahead
        <4> QED
          BY <4>1
      <3>2. CASE MaxHold > 0
        <4>1. Ahead' = Ahead \cup {r} /\ r \notin Ahead
          BY <2>2, <2>3, <3>2 DEF Ahead
        <4>2. Cardinality(Ahead') = Cardinality(Ahead) + 1
          BY <1>1, <4>1, FS_AddElement
        <4> QED
          BY <1>0, <1>1, <4>2
      <3> QED
        BY <1>0, <3>1, <3>2
    <2> HIDE DEF n, m
    <2>5. y - n > 0 /\ y \in Int
      <3>1. PICK k : k = n
        OBVIOUS
      <3>2. balance <= Left + gap /\ balance - held > 0 /\ Left' >= Left /\ gap' = gap /\ beyond' = 0
        BY <1>5, <2>1, <2>2
      <3>3. k \in Nat /\ k <= held
        BY <1>2, <3>1
      <3>4. y - k > 0 /\ y \in Int
        BY <1>t, <2>1, <3>2, <3>3, GrowsFrom
      <3> QED
        BY <3>1, <3>4
    <2>6. balance' <= Left' + gap'
      <3>1. balance <= Left + gap /\ balance' = balance /\ gap' = gap
        BY <1>5, <2>2
      <3>2. gap' >= gap
        BY <1>t, <3>1
      <3> QED
        BY <1>t, <2>1, <3>1, <3>2, Grows
    <2> HIDE DEF y
    <2>7. Covered'
      BY <1>0, <1>2, <1>3, <2>4, <2>5
    <2> QED
      BY <1>6, <2>1, <2>6, <2>7
  <1>10. ASSUME NEW r \in Requests, Charging(r) PROVE Snapped' /\ Seen' /\ Covered'
    <2>1. Left' = Left - cost[r] /\ Snapped' /\ Left \in Int /\ cost[r] \in Nat
      BY <1>10, ChargingKeeps
    <2>2. r \notin Charged /\ Charged' = Charged \cup {r} /\ hold' = hold /\ gap' = gap
          /\ (Prepaid => balance' = balance - cost[r]) /\ hold[r] \in {0, MaxHold}
          /\ beyond' = beyond + (IF cost[r] > hold[r] THEN cost[r] - hold[r] ELSE 0)
      BY <1>10 DEF Charging, Stage
    <2>3. Seen'
      BY <1>t, <1>5, <1>6, <2>1, <2>2
    <2>4. x \in Int /\ y \in Int /\ y >= x - hold[r] /\ hold[r] \in Nat
      BY <1>0, <1>t, <2>1, <2>2
    <2>5. m = n - hold[r]
      <3>1. CASE hold[r] = 0
        <4>1. Ahead' = Ahead
          BY <2>2, <3>1 DEF Ahead
        <4> QED
          BY <1>0, <1>1, <3>1, <4>1
      <3>2. CASE hold[r] # 0
        <4>1. hold[r] = MaxHold /\ MaxHold > 0
          BY <1>0, <2>2, <3>2
        <4>2. Ahead' = Ahead \ {r} /\ r \in Ahead
          BY <2>2, <4>1 DEF Ahead
        <4>3. Cardinality(Ahead') = Cardinality(Ahead) - 1
          BY <1>1, <4>2, FS_RemoveElement
        <4> QED
          BY <1>0, <1>1, <4>1, <4>3
      <3> QED
        BY <3>1, <3>2
    <2> HIDE DEF n, m, x, y
    <2>6. Covered'
      BY <1>0, <1>2, <1>3, <1>4, <2>4, <2>5
    <2> QED
      BY <2>1, <2>3, <2>6
  <1>11. ASSUME NEW r \in Requests, Write(r) PROVE Snapped' /\ Seen' /\ Covered'
    <2>1. UNCHANGED <<pc, hold, balance, gap, beyond>>
      BY <1>11 DEF Write, local, calls, snaps
    <2>2. Left' = Left /\ Snapped' /\ Left \in Int
      BY <1>11, WriteKeeps
    <2>3. Left' >= Left /\ Left' \in Int /\ gap' >= gap /\ Ahead' = Ahead
      BY <1>t, <2>1, <2>2 DEF Ahead, Charged
    <2> QED
      BY <1>7, <2>1, <2>2, <2>3
  <1>12. CASE Pay
    <2>1. UNCHANGED <<pc, hold, balance, gap, beyond>>
      BY <1>12 DEF Pay, local, calls, snaps
    <2>2. gap' >= gap /\ Ahead' = Ahead
      BY <1>t, <2>1 DEF Ahead, Charged
    <2> QED
      BY <1>7, <1>12, <2>1, <2>2, PayKeeps
  <1>13. ASSUME NEW c \in Reconcilers, LoadCredit(c) PROVE Snapped' /\ Seen' /\ Covered'
    <2>1. UNCHANGED <<pc, hold, balance, gap, beyond>>
      BY <1>13 DEF LoadCredit, local, calls
    <2>2. Left' = Left /\ Snapped' /\ Left \in Int
      BY <1>13, LoadKeeps
    <2>3. Left' >= Left /\ Left' \in Int /\ gap' >= gap /\ Ahead' = Ahead
      BY <1>t, <2>1, <2>2 DEF Ahead, Charged
    <2> QED
      BY <1>7, <2>1, <2>2, <2>3
  <1>14. ASSUME NEW c \in Reconcilers, ReconcileCredit(c) PROVE Snapped' /\ Seen' /\ Covered'
    <2>1. UNCHANGED <<pc, hold>>
      BY <1>14 DEF ReconcileCredit, calls
    <2>2. /\ Left' = Left /\ gap' >= gap /\ balance' <= Left' + gap' /\ Snapped' /\ Left \in Int
          /\ beyond' = beyond
      BY <1>14, ReconcileKeeps
    <2>3. Left' >= Left /\ Left' \in Int /\ Ahead' = Ahead
      BY <2>1, <2>2 DEF Ahead, Charged
    <2> QED
      BY <1>7, <2>2, <2>3
  <1> QED
    BY <1>8, <1>9, <1>10, <1>11, <1>12, <1>13, <1>14, CreditSteps

LEMMA BooksAtFirst == Init => Books
  <1> SUFFICES ASSUME Init PROVE Books
    OBVIOUS
  <1>0. TypeOK /\ MaxHold \in Nat /\ Credit \in Int
    BY InitInv, DeployOK DEF Inv, TypeOK
  <1>1. OnWay = {} /\ Ahead = {}
    BY DEF Init, OnWay, Charged, Ahead
  <1>2. Filed /\ Snapped
    BY DEF Init, Filed, Snapped
  <1>3. Left = Credit
    <2>1. PICK f, W : f = cost /\ W = OnWay
      OBVIOUS
    <2>2. W = {} /\ f \in [Requests -> Nat] /\ account = Credit
      BY <1>1, <2>1 DEF Init
    <2>3. Worth(f, {}) = 0
      <3>1. PICK z : z = [r \in Requests |-> 0]
        OBVIOUS
      <3>2. [r \in Requests |-> IF r \in {} THEN f[r] ELSE 0] = z
        BY <3>1
      <3>3. SumFunction(z) = 0
        BY <3>1, SumZero, BudgetsAssumption DEF BudgetsAssumption
      <3> QED
        BY <3>2, <3>3, Zenon DEF Worth
    <2>4. Worth(f, W) = 0
      BY <2>2, <2>3, Zenon
    <2>5. Left = account - Worth(f, W)
      BY <1>0, <2>1, LeftIs
    <2> QED
      BY <1>0, <2>2, <2>4, <2>5
  <1>4. Cardinality(Ahead) = 0 /\ MaxHold * 0 = 0
    BY <1>0, <1>1, FS_EmptySet
  <1>5. Seen /\ Covered
    BY <1>0, <1>3, <1>4 DEF Init, Seen, Covered, Covers
  <1> QED
    BY <1>2, <1>5 DEF Books

LEMMA BooksKept ==
  ASSUME Inv, Inv', Books, [Next /\ UNCHANGED deploy]_<<deploy, vars>>
  PROVE  Books'
  <1>0. /\ TypeOK /\ TypeOK' /\ HeldOK /\ HeldOK' /\ Stage
        /\ Filed /\ Snapped /\ Seen /\ Covered
    BY CountsMatchParts DEF Inv, Books, CountsMatch, HeldOK
  <1>1. CASE Next /\ UNCHANGED deploy
    <2>1. Filed'
      BY <1>0, <1>1, FiledKept
    <2>2. Snapped' /\ Seen' /\ Covered'
      BY <1>0, <1>1, CreditKept
    <2> QED
      BY <2>1, <2>2 DEF Books
  <1>2. CASE UNCHANGED <<deploy, vars>>
    <2>1. /\ UNCHANGED <<deploy, pc, hold, hook, cost, balance, buffer, landed, account, creditSnap,
                         gap, beyond>>
      BY <1>2 DEF vars, local, calls, db, snaps
    <2>2. OnWay' = OnWay /\ Ahead' = Ahead
      BY <2>1 DEF OnWay, Charged, Ahead
    <2>3. Left' = Left
      BY <2>1, <2>2 DEF Left, CostOf
    <2>4. Filed' /\ Snapped'
      BY <1>0, <2>1, <2>2 DEF Filed, Snapped, CostOf
    <2>5. Seen' /\ Covered'
      BY <1>0, <2>1, <2>2, <2>3 DEF Seen, Covered, Covers, Paying, Prepaid, Invoiced, Credit,
         MaxHold
    <2> QED
      BY <2>4, <2>5 DEF Books
  <1> QED
    BY <1>1, <1>2

-----------------------------------------------------------------------------
LEMMA InvKept == Inv /\ [Next /\ UNCHANGED deploy]_<<deploy, vars>> => Inv'
  <1> SUFFICES ASSUME Inv, [Next /\ UNCHANGED deploy]_<<deploy, vars>> PROVE Inv'
    OBVIOUS
  <1>1. CASE Next /\ UNCHANGED deploy
    BY <1>1, TypeKept, StageKept, HeldKept, RunningKept, CountsMatchParts DEF Inv, HeldOK,
       RunningOK, CountsMatch, Running
  <1>2. CASE UNCHANGED <<deploy, vars>>
    <2>1. UNCHANGED <<period, local, calls, db, snaps, beyond>> /\ UNCHANGED deploy
      BY <1>2 DEF vars
    <2>2. TypeOK'
      BY <2>1, DeployKept DEF Inv, TypeOK, local, calls, db, snaps
    <2>3. Stage' /\ Dated'
      BY <2>1, DeployKept DEF Inv, Stage, Dated, local, calls
    <2>4. Holding' = Holding /\ Running' = Running
      BY <2>1 DEF Holding, Running, calls
    <2>5. CountsMatch'
      BY <2>1, <2>4, DeployKept DEF Inv, CountsMatch, Running, InWindow, local
    <2> QED
      BY <2>2, <2>3, <2>5 DEF Inv
  <1> QED
    BY <1>1, <1>2

LEMMA InvHolds == Spec => []Inv
  BY InitInv, InvKept, PTL DEF Spec

(* Every variable of the budgets keeps its type; in particular neither the *)
(* held credit nor a window's figure goes below zero, though ReleaseCredit *)
(* and EndRequest subtract from them.                                      *)
THEOREM BudgetsTypeOK == Spec => []TypeOK
  <1>1. Inv => TypeOK
    BY DEF Inv
  <1> QED
    BY <1>1, InvHolds, PTL

(* HoldCredit and ReleaseCredit, StartRequest and EndRequest pair up on    *)
(* every way through a request: the credit held is the holds of the        *)
(* requests that have not ended, and the open window counts exactly the    *)
(* requests started in it that have not ended.                             *)
THEOREM BudgetsCountsMatch == Spec => []CountsMatch
  <1>1. Inv => CountsMatch
    BY DEF Inv
  <1> QED
    BY <1>1, InvHolds, PTL

(* However many requests start together, and whatever reconciles, payments *)
(* and lost rows come between, the credit is overdrawn by less than one    *)
(* request's hold, but for the most one reconcile forgot and for what the  *)
(* requests charged since the last hold cost beyond their holds:           *)
(* HoldCredit, ChargeCredit and ReconcileCredit in                         *)
(* internal/registry/budget.go.                                            *)
THEOREM BudgetsOverdraft == Spec => []Overdraft
  <1>1. Inv /\ Books => Overdraft
    <2> SUFFICES ASSUME Inv, Books, Prepaid, ~Invoiced, Credit >= 0
                 PROVE  Left + gap + beyond >= 0 \/ Left + gap + beyond > -MaxHold
      BY DEF Overdraft
    <2>1. TypeOK /\ HeldOK
      BY CountsMatchParts DEF Inv
    <2>2. /\ Cardinality(Ahead) \in Nat /\ MaxHold \in Nat /\ gap \in Nat /\ beyond \in Nat
          /\ Left \in Int
      BY <2>1, AheadCount, DeployOK, LeftIs DEF TypeOK
    <2> DEFINE n == MaxHold * Cardinality(Ahead)
               x == Left + gap + beyond
    <2>3. n \in Nat /\ x \in Int
      BY <2>2
    <2>4. x - n >= 0 \/ x - n > -MaxHold
      BY DEF Books, Covered, Covers, Paying
    <2> HIDE DEF n, x
    <2>5. x >= 0 \/ x > -MaxHold
      BY <2>2, <2>3, <2>4
    <2> QED
      BY <2>5 DEF x
  <1>2. Inv /\ Books /\ [Next /\ UNCHANGED deploy]_<<deploy, vars>> => Inv' /\ Books'
    BY InvKept, BooksKept
  <1> QED
    BY <1>1, <1>2, InitInv, BooksAtFirst, PTL DEF Spec
=============================================================================
