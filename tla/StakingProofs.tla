---------------------------- MODULE StakingProofs ----------------------------
(***************************************************************************)
(* Proofs about the validators set, the query of the puppeteer and the     *)
(* plans of deposits and withdrawals, for any validators, weights, stakes, *)
(* amounts and precision of a Decimal.                                     *)
(*                                                                         *)
(* A plan is two folds over the validators: the ideal stakes are handed    *)
(* out, then the gaps are filled.  Each becomes a run (IdealRun, FillRun), *)
(* about which an invariant is shown by induction (IdealOK, FillOK); what  *)
(* the changes add up to follows from sums of both lists.                  *)
(***************************************************************************)
EXTENDS Staking, SumProofs, TLAPS

LEMMA InitWatchedAreMembers == Init => WatchedAreMembers
  BY DEF Init, WatchedAreMembers

(* Only the factory's messages touch the set and the query; all else leaves both. *)
LEMMA SetOrNothing ==
  ASSUME [Next]_vars
  PROVE  \/ UNCHANGED <<members, watched>>
         \/ \E list \in Lists : UpdateValidators(list)
         \/ \E v \in Validators, weight \in Weights : UpdateValidator(v, weight)
<1>1. CASE OpenAccount \/ NewBlock \/ \E amount \in Amounts : ComeIn(amount)
  BY <1>1 DEF OpenAccount, NewBlock, ComeIn, setVars
<1>2. CASE ReadRemote \/ SudoKVQueryResult \/ ResultRefused
  BY <1>2 DEF ReadRemote, SudoKVQueryResult, ResultRefused, setVars
<1>3. CASE PlanDelegate \/ \E withdraw \in Amounts : PlanUndelegate(withdraw)
  BY <1>3 DEF PlanDelegate, PlanUndelegate, setVars
<1>4. CASE RemotePerform \/ RemoteRefuse \/ PuppeteerHook
  BY <1>4 DEF RemotePerform, RemoteRefuse, PuppeteerHook, setVars
<1>5. CASE \E v \in Validators : Slash(v)
  BY <1>5 DEF Slash, setVars
<1>6. CASE UNCHANGED vars
  BY <1>6 DEF vars, setVars
<1> QED BY <1>1, <1>2, <1>3, <1>4, <1>5, <1>6 DEF Next

LEMMA NextWatchedAreMembers ==
  ASSUME WatchedAreMembers, [Next]_vars
  PROVE  WatchedAreMembers'
<1>1. CASE UNCHANGED <<members, watched>>
  BY <1>1 DEF WatchedAreMembers
<1>2. CASE \E list \in Lists : UpdateValidators(list)
  BY <1>2 DEF UpdateValidators, ReplaceSet, WatchValidators, KeysFor, WatchedAreMembers
<1>3. CASE \E v \in Validators, weight \in Weights : UpdateValidator(v, weight)
  BY <1>3 DEF UpdateValidator, WriteValidator, WatchedAreMembers
<1> QED BY <1>1, <1>2, <1>3, SetOrNothing

(* The query asks for members of the set only, after any updates of either kind. *)
THEOREM WatchedAreMembersAlways == Spec => []WatchedAreMembers
<1> QED BY InitWatchedAreMembers, NextWatchedAreMembers, PTL DEF Spec

-----------------------------------------------------------------------------
(***************************************************************************)
(* Arithmetic of the plans                                                 *)
(***************************************************************************)

(* A division rounds down. *)
LEMMA DivRoundsDown ==
  ASSUME NEW a \in Nat, NEW b \in Nat \ {0}
  PROVE  a \div b \in Nat /\ b * (a \div b) <= a /\ a < b * (a \div b) + b
  BY Z3

(* Another rounds up. *)
LEMMA DivUpRoundsUp ==
  ASSUME NEW a \in Nat, NEW b \in Nat \ {0}
  PROVE  DivUp(a, b) \in Nat /\ b * DivUp(a, b) >= a
<1>1. a + b - 1 \in Nat
  OBVIOUS
<1> DEFINE q == (a + b - 1) \div b
<1>2. q \in Nat /\ a + b - 1 < b * q + b
  BY <1>1, DivRoundsDown
<1> HIDE DEF q
<1>3. b * q \in Nat
  BY <1>2
<1> DEFINE r == b * q
<1>4. r \in Nat /\ a + b - 1 < r + b
  BY <1>2, <1>3
<1> HIDE DEF r
<1>5. r >= a
  BY <1>4
<1> QED BY <1>2, <1>5 DEF DivUp, q, r

(* Any finite set of numbers can be put in order. *)
LEMMA GreatestExists ==
  ASSUME NEW S, IsFiniteSet(S), S \subseteq Nat, S # {}
  PROVE  \E m \in S : \A y \in S : m >= y
<1> DEFINE G == {T \in SUBSET S : T # {} => \E m \in T : \A y \in T : m >= y}
<1>1. ASSUME NEW T \in SUBSET S, \A U \in SUBSET T : U # T => U \in G
      PROVE  T \in G
  <2>1. SUFFICES ASSUME T # {} PROVE \E m \in T : \A y \in T : m >= y
    OBVIOUS
  <2>2. PICK x \in T : TRUE
    BY <2>1
  <2>3. T \ {x} \in G
    BY <1>1
  <2>4. CASE T \ {x} = {}
    BY <2>4
  <2>5. CASE T \ {x} # {}
    <3>1. PICK m \in T \ {x} : \A y \in T \ {x} : m >= y
      BY <2>3, <2>5
    <3>2. m \in Nat /\ x \in Nat
      OBVIOUS
    <3>3. CASE m >= x
      BY <3>1, <3>3
    <3>4. CASE x > m
      <4>1. \A y \in T : y \in Nat
        OBVIOUS
      <4>2. \A y \in T : x >= y
        BY <3>1, <3>2, <3>4, <4>1
      <4> QED BY <4>2
    <3> QED BY <3>2, <3>3, <3>4
  <2> QED BY <2>4, <2>5
<1> HIDE DEF G
<1>2. S \in G
  BY <1>1, SubsetsByInduction
<1> QED BY <1>2 DEF G

IsOrder(s, S) ==
  /\ s \in [1..Cardinality(S) -> S]
  /\ \A i, j \in 1..Cardinality(S) : i < j => s[i] < s[j]

LEMMA InOrderIsOrder ==
  ASSUME NEW S, IsFiniteSet(S), S \subseteq Nat
  PROVE  IsOrder(InOrder(S), S)
<1> DEFINE G == {T \in SUBSET S : \E s : IsOrder(s, T)}
<1>1. ASSUME NEW T \in SUBSET S, \A U \in SUBSET T : U # T => U \in G
      PROVE  T \in G
  <2>f. IsFiniteSet(T) /\ Cardinality(T) \in Nat
    BY FS_Subset, FS_CardinalityType
  <2>1. CASE T = {}
    <3>1. Cardinality(T) = 0
      BY <2>1, FS_EmptySet
    <3> DEFINE s == [i \in 1..0 |-> 0]
    <3>2. s \in [1..0 -> T] /\ \A i, j \in 1..0 : i < j => s[i] < s[j]
      OBVIOUS
    <3>3. IsOrder(s, T)
      BY <3>1, <3>2 DEF IsOrder
    <3> QED BY <3>3
  <2>2. CASE T # {}
    <3>1. PICK m \in T : \A y \in T : m >= y
      BY <2>2, <2>f, GreatestExists
    <3> DEFINE U == T \ {m}  c == Cardinality(T)
    <3>2. c \in Nat \ {0} /\ Cardinality(U) = c - 1
      BY <2>f, <3>1, FS_RemoveElement, FS_CardinalityType, FS_Subset, FS_EmptySet
    <3>3. PICK s : IsOrder(s, U)
      BY <1>1, <3>1
    <3> DEFINE t == [i \in 1..c |-> IF i = c THEN m ELSE s[i]]
    <3> HIDE DEF c
    <3>4. s \in [1..(c - 1) -> U] /\ \A i, j \in 1..(c - 1) : i < j => s[i] < s[j]
      BY <3>2, <3>3 DEF IsOrder
    <3>5. \A i \in 1..c : i # c => i \in 1..(c - 1)
      BY <3>2
    <3>6. t \in [1..c -> T]
      BY <3>1, <3>4, <3>5
    <3>7. ASSUME NEW i \in 1..c, NEW j \in 1..c, i < j
          PROVE  t[i] < t[j]
      <4>1. i # c /\ i \in 1..(c - 1)
        BY <3>2, <3>5, <3>7
      <4>2. t[i] = s[i] /\ s[i] \in U
        BY <3>4, <4>1
      <4>3. CASE j = c
        <5>1. s[i] \in Nat /\ m \in Nat /\ m >= s[i] /\ s[i] # m
          BY <3>1, <4>2
        <5> QED BY <4>2, <4>3, <5>1
      <4>4. CASE j # c
        BY <3>4, <3>5, <4>1, <4>4, <3>7
      <4> QED BY <4>3, <4>4
    <3>8. IsOrder(t, T)
      BY <3>6, <3>7 DEF IsOrder, c
    <3> QED BY <3>8
  <2> QED BY <2>1, <2>2
<1> HIDE DEF G
<1>2. S \in G
  BY <1>1, SubsetsByInduction
<1>3. \E s \in [1..Cardinality(S) -> S] :
        \A i, j \in 1..Cardinality(S) : i < j => s[i] < s[j]
  BY <1>2 DEF G, IsOrder
<1> QED BY <1>3 DEF InOrder, IsOrder

-----------------------------------------------------------------------------
(***************************************************************************)
(* The two folds of a plan, as runs over the validators                    *)
(***************************************************************************)

Delegation == [valoper : Validators, stake : Nat, weight : Nat]
IdealAcc == [left : Nat, done : BOOLEAN, list : Seq(Item)]
FillAcc == [left : Nat, list : Seq(Item)]
PerWeight(total, ds) == (total * Precision) \div TotalWeight(ds)
IdealStart(total) == [left |-> total, done |-> FALSE, list |-> <<>>]

LEMMA IdealType ==
  ASSUME NEW p \in Nat, NEW d \in Delegation, NEW left \in Nat
  PROVE  /\ Ideal(p, d, left) \in Nat /\ Ideal(p, d, left) <= left
         /\ Ideal(p, d, left) # left => Ideal(p, d, left) = DivUp(p * d.weight, Precision)
<1>1. d.weight \in Nat
  BY DEF Delegation
<1>2. p * d.weight \in Nat
  BY <1>1
<1>3. DivUp(p * d.weight, Precision) \in Nat
  BY <1>2, DivUpRoundsUp, PrecisionAssumption
<1> QED BY <1>3 DEF Ideal, Lesser

LEMMA AddIdealType ==
  ASSUME NEW p \in Nat, NEW d \in Delegation, NEW acc \in IdealAcc
  PROVE  AddIdeal(p, acc, d) \in IdealAcc
<1> DEFINE ideal == Ideal(p, d, acc.left)
           item == [valoper |-> d.valoper, ideal |-> ideal, current |-> d.stake, change |-> 1]
<1>1. acc.left \in Nat /\ acc.list \in Seq(Item)
  BY DEF IdealAcc
<1>2. ideal \in Nat /\ ideal <= acc.left
  BY <1>1, IdealType
<1>3. item \in Item
  BY <1>2 DEF Item, Delegation
<1> HIDE DEF item, ideal
<1>4. Append(acc.list, item) \in Seq(Item) /\ acc.left - ideal \in Nat
  BY <1>1, <1>2, <1>3
<1>5. [left |-> acc.left - ideal, done |-> acc.left = ideal, list |-> Append(acc.list, item)] \in IdealAcc
  BY <1>4 DEF IdealAcc
<1> QED BY <1>5 DEF AddIdeal, item, ideal

LEMMA IdealRun ==
  ASSUME NEW n \in Nat, NEW ds \in [1..n -> Delegation], NEW total \in Nat,
         PerWeight(total, ds) \in Nat
  PROVE  \E run \in [0..n -> IdealAcc] :
           /\ run[0] = IdealStart(total)
           /\ \A k \in 1..n : run[k] = AddIdeal(PerWeight(total, ds), run[k - 1], ds[k])
           /\ CalcIdealStake(total, ds) = run[n].list
<1> DEFINE p == PerWeight(total, ds)
           start == IdealStart(total)
           Steps == [k \in 1..n |-> [acc \in IdealAcc |-> AddIdeal(p, acc, ds[k])]]
           Eq(h) == h = [s \in SUBSET (1..n) |->
                          IF s = {} THEN start ELSE AddIdeal(p, h[s \ {Max(s)}], ds[Max(s)])]
           Chosen == CHOOSE h : Eq(h)
<1>0. PICK S : S = 1..n
  OBVIOUS
<1>1. start \in IdealAcc
  BY DEF IdealStart, IdealAcc
<1>2. ASSUME NEW k \in 1..n, NEW acc \in IdealAcc
      PROVE  Steps[k][acc] \in IdealAcc /\ Steps[k][acc] = AddIdeal(p, acc, ds[k])
  BY AddIdealType
<1> HIDE DEF Steps, start, p
<1>3. StepsIn(Steps, S, IdealAcc)
  BY <1>0, <1>2 DEF StepsIn
<1>4. PICK g, run : /\ IsFold(Steps, start, n, g) /\ FoldIn(g, S, IdealAcc)
                    /\ IsRun(run, n, IdealAcc, Steps, start) /\ run[n] = g[S]
  <2> HIDE DEF Eq, Chosen
  <2> QED BY <1>0, <1>1, <1>3, FoldRuns
<1>5. ASSUME NEW s \in SUBSET (1..n), s # {}
      PROVE  /\ Max(s) \in 1..n
             /\ FoldStep(Steps, start, g, s) = AddIdeal(p, g[s \ {Max(s)}], ds[Max(s)])
  <2>1. Max(s) \in 1..n /\ s \ {Max(s)} \in SUBSET (1..n)
    BY <1>5, MaxIsGreatest
  <2>2. g[s \ {Max(s)}] \in IdealAcc
    BY <1>0, <1>4, <2>1 DEF FoldIn
  <2>3. FoldStep(Steps, start, g, s) = Steps[Max(s)][g[s \ {Max(s)}]]
    BY <1>5 DEF FoldStep
  <2> QED BY <1>2, <2>1, <2>2, <2>3
<1>6. Eq(g)
  BY <1>4, <1>5 DEF IsFold, FoldStep
<1>7. Eq(Chosen)
  BY <1>6
<1>8. CalcIdealStake(total, ds) = Chosen[1..n].list
  BY DEF CalcIdealStake, FoldLeft, MapThenFoldSet, PerWeight, IdealStart, p, start
<1> HIDE DEF Chosen
<1>9. TakesSteps(Chosen, g, start, S)
  <2>1. ASSUME NEW s \in SUBSET (1..n)
        PROVE  \/ s = {} /\ Chosen[s] = start
               \/ s # {} /\ (Chosen[s \ {Max(s)}] = g[s \ {Max(s)}] => Chosen[s] = g[s])
    BY <1>6, <1>7
  <2> QED BY <1>0, <2>1 DEF TakesSteps
<1> HIDE DEF Eq
<1>10. Chosen[S] = g[S]
  BY <1>0, <1>4, <1>9, FoldsAgree
<1>11. run \in [0..n -> IdealAcc] /\ run[0] = start
  BY <1>4 DEF IsRun
<1>12. ASSUME NEW k \in 1..n
       PROVE  run[k] = AddIdeal(p, run[k - 1], ds[k])
  <2>1. run[k] = Steps[k][run[k - 1]] /\ k - 1 \in 0..n
    BY <1>4 DEF IsRun
  <2>2. run[k - 1] \in IdealAcc
    BY <1>11, <2>1
  <2> QED BY <1>2, <2>1, <2>2
<1>13. CalcIdealStake(total, ds) = run[n].list
  BY <1>0, <1>4, <1>8, <1>10
<1> QED BY <1>11, <1>12, <1>13 DEF p, start

LEMMA FillType ==
  ASSUME NEW isDeposit \in BOOLEAN, NEW d \in Item, NEW acc \in FillAcc
  PROVE  Fill(isDeposit, acc, d) \in FillAcc
<1> DEFINE gap == Gap(d, isDeposit)
           change == Change(gap, acc.left)
           item == [d EXCEPT !.change = change]
<1>1. acc.left \in Nat /\ acc.list \in Seq(Item) /\ gap \in Int
  BY DEF FillAcc, Item, Gap
<1> HIDE DEF gap
<1>2. CASE gap <= 0 \/ acc.left = 0
  <2>1. Append(acc.list, d) \in Seq(Item)
    BY <1>1
  <2>2. [left |-> acc.left, list |-> Append(acc.list, d)] \in FillAcc
    BY <1>1, <2>1 DEF FillAcc
  <2> QED BY <1>2, <2>2 DEF Fill, gap
<1>3. CASE ~(gap <= 0 \/ acc.left = 0)
  <2>1. change \in Nat /\ change <= acc.left + 1
    BY <1>1, <1>3 DEF Change, Lesser
  <2> HIDE DEF change
  <2>2. item \in Item
    BY <2>1 DEF Item
  <2> HIDE DEF item
  <2>3. Append(acc.list, item) \in Seq(Item) /\ acc.left + 1 - change \in Nat
    BY <1>1, <2>1, <2>2
  <2>4. [left |-> acc.left + 1 - change, list |-> Append(acc.list, item)] \in FillAcc
    BY <2>3 DEF FillAcc
  <2> QED BY <1>3, <2>4 DEF Fill, gap, change, item
<1> QED BY <1>2, <1>3

LEMMA FillRun ==
  ASSUME NEW n \in Nat, NEW ideals \in [1..n -> Item], Len(ideals) = n, NEW amount \in Nat,
         amount >= n, NEW isDeposit \in BOOLEAN
  PROVE  \E run \in [0..n -> FillAcc] :
           /\ run[0] = [left |-> amount - n, list |-> <<>>]
           /\ \A k \in 1..n : run[k] = Fill(isDeposit, run[k - 1], ideals[k])
           /\ Distribute(amount, ideals, isDeposit) = run[n].list
<1> DEFINE start == [left |-> amount - n, list |-> <<>>]
           Steps == [k \in 1..n |-> [acc \in FillAcc |-> Fill(isDeposit, acc, ideals[k])]]
           Eq(h) == h = [s \in SUBSET (1..n) |->
                          IF s = {} THEN start ELSE Fill(isDeposit, h[s \ {Max(s)}], ideals[Max(s)])]
           Chosen == CHOOSE h : Eq(h)
<1>0. PICK S : S = 1..n
  OBVIOUS
<1>1. start \in FillAcc
  BY DEF FillAcc
<1>2. ASSUME NEW k \in 1..n, NEW acc \in FillAcc
      PROVE  Steps[k][acc] \in FillAcc /\ Steps[k][acc] = Fill(isDeposit, acc, ideals[k])
  BY FillType
<1> HIDE DEF Steps, start
<1>3. StepsIn(Steps, S, FillAcc)
  BY <1>0, <1>2 DEF StepsIn
<1>4. PICK g, run : /\ IsFold(Steps, start, n, g) /\ FoldIn(g, S, FillAcc)
                    /\ IsRun(run, n, FillAcc, Steps, start) /\ run[n] = g[S]
  <2> HIDE DEF Eq, Chosen
  <2> QED BY <1>0, <1>1, <1>3, FoldRuns
<1>5. ASSUME NEW s \in SUBSET (1..n), s # {}
      PROVE  /\ Max(s) \in 1..n
             /\ FoldStep(Steps, start, g, s) = Fill(isDeposit, g[s \ {Max(s)}], ideals[Max(s)])
  <2>1. Max(s) \in 1..n /\ s \ {Max(s)} \in SUBSET (1..n)
    BY <1>5, MaxIsGreatest
  <2>2. g[s \ {Max(s)}] \in FillAcc
    BY <1>0, <1>4, <2>1 DEF FoldIn
  <2>3. FoldStep(Steps, start, g, s) = Steps[Max(s)][g[s \ {Max(s)}]]
    BY <1>5 DEF FoldStep
  <2> QED BY <1>2, <2>1, <2>2, <2>3
<1>6. Eq(g)
  BY <1>4, <1>5 DEF IsFold, FoldStep
<1>7. Eq(Chosen)
  BY <1>6
<1>8. Distribute(amount, ideals, isDeposit) = Chosen[1..n].list
  BY DEF Distribute, FoldLeft, MapThenFoldSet, start
<1> HIDE DEF Chosen
<1>9. TakesSteps(Chosen, g, start, S)
  <2>1. ASSUME NEW s \in SUBSET (1..n)
        PROVE  \/ s = {} /\ Chosen[s] = start
               \/ s # {} /\ (Chosen[s \ {Max(s)}] = g[s \ {Max(s)}] => Chosen[s] = g[s])
    BY <1>6, <1>7
  <2> QED BY <1>0, <2>1 DEF TakesSteps
<1> HIDE DEF Eq
<1>10. Chosen[S] = g[S]
  BY <1>0, <1>4, <1>9, FoldsAgree
<1>11. run \in [0..n -> FillAcc] /\ run[0] = start
  BY <1>4 DEF IsRun
<1>12. ASSUME NEW k \in 1..n
       PROVE  run[k] = Fill(isDeposit, run[k - 1], ideals[k])
  <2>1. run[k] = Steps[k][run[k - 1]] /\ k - 1 \in 0..n
    BY <1>4 DEF IsRun
  <2>2. run[k - 1] \in FillAcc
    BY <1>11, <2>1
  <2> QED BY <1>2, <2>1, <2>2
<1>13. Distribute(amount, ideals, isDeposit) = run[n].list
  BY <1>0, <1>4, <1>8, <1>10
<1> QED BY <1>11, <1>12, <1>13 DEF start

-----------------------------------------------------------------------------
(***************************************************************************)
(* What the ideal stakes add up to                                         *)
(***************************************************************************)

IdealsOf(list) == [i \in DOMAIN list |-> list[i].ideal]
ChangesOf(list) == [i \in DOMAIN list |-> list[i].change]
CurrentsOf(list) == [i \in DOMAIN list |-> list[i].current]
WeightsOf(ds) == [i \in DOMAIN ds |-> ds[i].weight]
StakesOf(ds) == [i \in DOMAIN ds |-> ds[i].stake]

(* One more value at the end of a list *)
LEMMA SumAppended ==
  ASSUME NEW k \in Nat, NEW f, NEW h, \A i \in 1..k : f[i] \in Int /\ h[i] = f[i],
         h[k + 1] \in Int
  PROVE  SumFunctionOnSet(h, 1..(k + 1)) = SumFunctionOnSet(f, 1..k) + h[k + 1]
<1>1. \A i \in 1..(k + 1) : i \in 1..k \/ i = k + 1
  OBVIOUS
<1>2. \A i \in 1..(k + 1) : h[i] \in Int
  BY <1>1
<1>3. k + 1 \in Nat \ {0} /\ (k + 1) - 1 = k
  OBVIOUS
<1>4. SumFunctionOnSet(h, 1..(k + 1)) = SumFunctionOnSet(h, 1..k) + h[k + 1]
  BY <1>2, <1>3, SumLast
<1>5. SumFunctionOnSet(h, 1..k) = SumFunctionOnSet(f, 1..k)
  <2> DEFINE S == 1..k
  <2>1. IsFiniteSet(S) /\ \A i \in S : h[i] \in Int /\ f[i] \in Int /\ h[i] = f[i]
    BY FS_Interval
  <2> HIDE DEF S
  <2>2. SumFunctionOnSet(h, S) = SumFunctionOnSet(f, S)
    BY <2>1, SumMonotone
  <2> QED BY <2>2 DEF S
<1> QED BY <1>4, <1>5

(* The list keeps the order of the validators, ideals add up to what is handed out, and
   as long as something is left to hand out nobody got less than the share of the
   weight. *)
HandedOut(acc) == SumFunctionOnSet(IdealsOf(acc.list), 1..Len(acc.list))
WeightTo(ds, k) == SumFunctionOnSet(WeightsOf(ds), 1..k)

IdealOK(k, acc, p, total, ds) ==
  /\ Len(acc.list) <= k
  /\ ~acc.done => Len(acc.list) = k
  /\ \A i \in 1..Len(acc.list) : acc.list[i].current = ds[i].stake /\ acc.list[i].change = 1
  /\ acc.left = total - HandedOut(acc)
  /\ acc.done => acc.left = 0
  /\ ~acc.done => Precision * HandedOut(acc) >= p * WeightTo(ds, k)

LEMMA HandedOutType ==
  ASSUME NEW acc \in IdealAcc
  PROVE  HandedOut(acc) \in Nat
<1>1. acc.list \in Seq(Item) /\ Len(acc.list) \in Nat /\ DOMAIN acc.list = 1..Len(acc.list)
  BY DEF IdealAcc
<1>2. \A i \in 1..Len(acc.list) : IdealsOf(acc.list)[i] \in Nat
  <2> SUFFICES ASSUME NEW i \in 1..Len(acc.list) PROVE IdealsOf(acc.list)[i] \in Nat
    OBVIOUS
  <2>1. acc.list[i] \in Item /\ i \in DOMAIN acc.list
    BY <1>1
  <2> QED BY <2>1 DEF IdealsOf, Item
<1>3. IsFiniteSet(1..Len(acc.list))
  BY <1>1, FS_Interval
<1> QED BY <1>2, <1>3, SumType DEF HandedOut

LEMMA WeightToType ==
  ASSUME NEW n \in Nat, NEW ds \in [1..n -> Delegation], NEW k \in 0..n
  PROVE  /\ WeightTo(ds, k) \in Nat
         /\ k + 1 \in 1..n => WeightTo(ds, k + 1) = WeightTo(ds, k) + ds[k + 1].weight
<1>1. \A i \in 1..n : WeightsOf(ds)[i] = ds[i].weight /\ ds[i].weight \in Nat
  BY DEF WeightsOf, Delegation
<1>2. IsFiniteSet(1..k) /\ \A i \in 1..k : i \in 1..n
  BY FS_Interval
<1>3. WeightTo(ds, k) \in Nat
  BY <1>1, <1>2, SumType DEF WeightTo
<1>4. ASSUME k + 1 \in 1..n
      PROVE  WeightTo(ds, k + 1) = WeightTo(ds, k) + ds[k + 1].weight
  <2>1. k \in Nat /\ \A i \in 1..k : WeightsOf(ds)[i] \in Int
    BY <1>1, <1>2
  <2>2. WeightsOf(ds)[k + 1] \in Int /\ WeightsOf(ds)[k + 1] = ds[k + 1].weight
    BY <1>1, <1>4
  <2> DEFINE f == WeightsOf(ds)
  <2> HIDE DEF f
  <2>3. SumFunctionOnSet(f, 1..(k + 1)) = SumFunctionOnSet(f, 1..k) + f[k + 1]
    BY <2>1, <2>2, SumAppended DEF f
  <2> QED BY <2>2, <2>3 DEF f, WeightTo
<1> QED BY <1>3, <1>4

LEMMA AddIdealKeeps ==
  ASSUME NEW n \in Nat, NEW ds \in [1..n -> Delegation], NEW k \in 0..n, k + 1 \in 1..n,
         NEW p \in Nat, NEW total \in Nat, NEW acc \in IdealAcc, IdealOK(k, acc, p, total, ds)
  PROVE  IdealOK(k + 1, AddIdeal(p, acc, ds[k + 1]), p, total, ds)
<1> DEFINE d == ds[k + 1]
           next == AddIdeal(p, acc, d)
           ideal == Ideal(p, d, acc.left)
           item == [valoper |-> d.valoper, ideal |-> ideal, current |-> d.stake, change |-> 1]
<1>1. d \in Delegation /\ d.weight \in Nat /\ k \in Nat /\ acc.left \in Nat
  BY DEF Delegation, IdealAcc
<1>2. next \in IdealAcc
  BY <1>1, AddIdealType
<1>3. acc.list \in Seq(Item) /\ Len(acc.list) \in Nat /\ DOMAIN acc.list = 1..Len(acc.list)
  BY DEF IdealAcc
<1>4. HandedOut(acc) \in Nat
  BY HandedOutType
<1>5. CASE acc.done
  <2>1. next = acc
    BY <1>5 DEF AddIdeal
  <2>2. IdealOK(k + 1, acc, p, total, ds)
    BY <1>1, <1>3, <1>5 DEF IdealOK
  <2> QED BY <2>1, <2>2
<1>6. CASE ~acc.done
  <2>1. ideal \in Nat /\ ideal <= acc.left /\ (ideal # acc.left => ideal = DivUp(p * d.weight, Precision))
    BY <1>1, IdealType
  <2>2. item \in Item
    BY <1>1, <2>1 DEF Item, Delegation
  <2>3. next.left = acc.left - ideal /\ next.done = (acc.left = ideal) /\ next.list = Append(acc.list, item)
    BY <1>6 DEF AddIdeal
  <2>4. item.ideal = ideal /\ item.current = d.stake /\ item.change = 1
    OBVIOUS
  <2> HIDE DEF item, ideal, next, d
  <2>5. Len(acc.list) = k
    BY <1>6 DEF IdealOK
  <2>6. /\ Len(next.list) = k + 1 /\ next.list[k + 1] = item
        /\ \A i \in 1..k : next.list[i] = acc.list[i]
        /\ DOMAIN next.list = 1..(k + 1)
    BY <1>3, <2>2, <2>3, <2>5
  <2>7. HandedOut(next) = HandedOut(acc) + ideal
    <3> DEFINE f == IdealsOf(acc.list)  h == IdealsOf(next.list)
    <3>1. ASSUME NEW i \in 1..k
          PROVE  f[i] = acc.list[i].ideal /\ acc.list[i].ideal \in Nat /\ i \in 1..(k + 1)
      <4>1. acc.list[i] \in Item /\ i \in DOMAIN acc.list /\ i \in 1..(k + 1)
        BY <1>1, <1>3, <2>5
      <4> QED BY <4>1 DEF IdealsOf, Item
    <3>2. \A i \in 1..k : f[i] \in Int /\ h[i] = f[i]
      BY <2>6, <3>1 DEF IdealsOf
    <3>3. k + 1 \in 1..(k + 1)
      BY <1>1
    <3>4. h[k + 1] = ideal
      BY <2>4, <2>6, <3>3 DEF IdealsOf
    <3> HIDE DEF f, h
    <3>5. SumFunctionOnSet(h, 1..(k + 1)) = SumFunctionOnSet(f, 1..k) + h[k + 1]
      <4>1. h[k + 1] \in Int /\ k \in Nat
        BY <1>1, <2>1, <3>4
      <4> QED BY <3>2, <4>1, SumAppended
    <3> QED BY <2>5, <2>6, <3>4, <3>5 DEF HandedOut, f, h
  <2>8. \A i \in 1..Len(next.list) : next.list[i].current = ds[i].stake /\ next.list[i].change = 1
    <3> SUFFICES ASSUME NEW i \in 1..(k + 1)
                 PROVE  next.list[i].current = ds[i].stake /\ next.list[i].change = 1
      BY <2>6
    <3>1. CASE i = k + 1
      BY <2>4, <2>6, <3>1 DEF d
    <3>2. CASE i # k + 1
      <4>1. i \in 1..k
        BY <1>1, <3>2
      <4> QED BY <2>5, <2>6, <4>1 DEF IdealOK
    <3> QED BY <3>1, <3>2
  <2>9. next.left = total - HandedOut(next)
    <3>1. acc.left = total - HandedOut(acc)
      BY DEF IdealOK
    <3> QED BY <1>1, <1>4, <2>1, <2>3, <2>7, <3>1
  <2>10. next.done => next.left = 0
    <3>1. next.done => acc.left = ideal
      BY <2>3
    <3>2. acc.left = ideal => next.left = 0
      BY <1>1, <2>3
    <3> QED BY <3>1, <3>2
  <2>11. ASSUME ~next.done
         PROVE  Precision * HandedOut(next) >= p * WeightTo(ds, k + 1)
    <3> DEFINE H == HandedOut(acc)  W == WeightTo(ds, k)  w == d.weight
    <3>1. Precision * H >= p * W
      BY <1>6 DEF IdealOK
    <3>2. W \in Nat /\ WeightTo(ds, k + 1) = W + w
      BY WeightToType DEF d
    <3>3. ideal = DivUp(p * w, Precision)
      BY <2>1, <2>3, <2>11
    <3>4. p * w \in Nat
      BY <1>1
    <3>5. Precision * ideal >= p * w
      BY <3>3, <3>4, DivUpRoundsUp, PrecisionAssumption
    <3>6. HandedOut(next) = H + ideal /\ H \in Nat /\ w \in Nat
      BY <1>1, <1>4, <2>7
    <3> HIDE DEF H, W, w
    <3>7. p * (W + w) = p * W + p * w
      BY <3>2, <3>6
    <3>8. Precision * (H + ideal) = Precision * H + Precision * ideal
      BY <2>1, <3>6, PrecisionAssumption
    <3>9. p * W \in Nat /\ p * w \in Nat /\ Precision * H \in Nat /\ Precision * ideal \in Nat
      BY <2>1, <3>2, <3>6, PrecisionAssumption
    <3> DEFINE a == p * W  b == p * w  c == Precision * H  e == Precision * ideal
    <3>10. a \in Nat /\ b \in Nat /\ c \in Nat /\ e \in Nat /\ c >= a /\ e >= b
      BY <3>1, <3>5, <3>9
    <3>11. c + e >= a + b
      <4> HIDE DEF a, b, c, e
      <4> QED BY <3>10
    <3> QED BY <3>2, <3>6, <3>7, <3>8, <3>11
  <2>12. Len(next.list) <= k + 1 /\ Len(next.list) = k + 1
    BY <1>1, <2>6
  <2>13. IdealOK(k + 1, next, p, total, ds)
    BY <2>8, <2>9, <2>10, <2>11, <2>12 DEF IdealOK
  <2> QED BY <2>13 DEF next, d
<1> QED BY <1>5, <1>6

LEMMA TotalWeightIs ==
  ASSUME NEW n \in Nat, NEW ds \in [1..n -> Delegation]
  PROVE  TotalWeight(ds) = WeightTo(ds, n) /\ TotalWeight(ds) \in Nat
<1>1. DOMAIN WeightsOf(ds) = 1..n
  BY DEF WeightsOf
<1>2. TotalWeight(ds) = SumFunctionOnSet(WeightsOf(ds), DOMAIN WeightsOf(ds))
  BY DEF TotalWeight, SumFunction, WeightsOf
<1>3. n \in 0..n
  OBVIOUS
<1> QED BY <1>1, <1>2, <1>3, WeightToType DEF WeightTo

(* The list of ideal stakes: what they add up to, and that nothing is left unless the
   weights add up to more than the precision of a Decimal. *)
LEMMA IdealStakes ==
  ASSUME NEW n \in Nat, NEW ds \in [1..n -> Delegation], NEW total \in Nat, TotalWeight(ds) # 0
  PROVE  LET list == CalcIdealStake(total, ds)
             sum == SumFunctionOnSet(IdealsOf(list), 1..Len(list))
         IN  /\ list \in Seq(Item) /\ Len(list) <= n
             /\ \A i \in 1..Len(list) : list[i].current = ds[i].stake /\ list[i].change = 1
             /\ sum \in Nat /\ sum <= total
             /\ TotalWeight(ds) <= Precision => sum = total
<1> DEFINE W == TotalWeight(ds)
           p == PerWeight(total, ds)
           list == CalcIdealStake(total, ds)
           sum == SumFunctionOnSet(IdealsOf(list), 1..Len(list))
<1>1. W \in Nat \ {0} /\ W = WeightTo(ds, n)
  BY TotalWeightIs
<1>2. total * Precision \in Nat /\ Precision \in Nat \ {0}
  BY PrecisionAssumption
<1>3. p \in Nat /\ total * Precision < W * p + W
  <2> HIDE DEF W
  <2>1. (total * Precision) \div W \in Nat /\ total * Precision < W * ((total * Precision) \div W) + W
    BY <1>1, <1>2, DivRoundsDown
  <2> QED BY <2>1 DEF PerWeight, W
<1> HIDE DEF p
<1>4. PICK run \in [0..n -> IdealAcc] :
        /\ run[0] = IdealStart(total)
        /\ \A k \in 1..n : run[k] = AddIdeal(p, run[k - 1], ds[k])
        /\ list = run[n].list
  BY <1>3, IdealRun DEF p
<1> DEFINE G == {k \in Nat : k <= n => IdealOK(k, run[k], p, total, ds)}
<1>5. 0 \in G
  <2> DEFINE acc == IdealStart(total)
  <2>1. acc.list = <<>> /\ Len(acc.list) = 0 /\ ~acc.done /\ acc.left = total
    BY DEF IdealStart
  <2> HIDE DEF acc
  <2>2. HandedOut(acc) = 0
    <3>1. 1..0 = {}
      OBVIOUS
    <3> QED BY <2>1, <3>1, SumEmpty DEF HandedOut
  <2>3. WeightTo(ds, 0) = 0
    <3>1. 1..0 = {}
      OBVIOUS
    <3> QED BY <3>1, SumEmpty DEF WeightTo
  <2>4. IdealOK(0, acc, p, total, ds)
    BY <1>2, <1>3, <2>1, <2>2, <2>3 DEF IdealOK
  <2> QED BY <1>4, <2>4 DEF acc
<1>6. ASSUME NEW k \in Nat, k \in G
      PROVE  k + 1 \in G
  <2> SUFFICES ASSUME k + 1 <= n PROVE IdealOK(k + 1, run[k + 1], p, total, ds)
    OBVIOUS
  <2>1. k \in 0..n /\ k + 1 \in 1..n /\ (k + 1) - 1 = k
    OBVIOUS
  <2>2. run[k] \in IdealAcc /\ IdealOK(k, run[k], p, total, ds)
    BY <1>6, <2>1
  <2>3. run[k + 1] = AddIdeal(p, run[k], ds[k + 1])
    BY <1>4, <2>1
  <2>4. IdealOK(k + 1, AddIdeal(p, run[k], ds[k + 1]), p, total, ds)
    BY <1>3, <2>1, <2>2, AddIdealKeeps
  <2> QED BY <2>3, <2>4
<1>7. n \in G
  <2> HIDE DEF G
  <2> QED BY <1>5, <1>6, NumbersByInduction
<1> DEFINE acc == run[n]
<1>8. IdealOK(n, acc, p, total, ds) /\ acc \in IdealAcc
  BY <1>7
<1> HIDE DEF acc
<1>9. list \in Seq(Item) /\ sum = HandedOut(acc) /\ Len(list) <= n
  BY <1>4, <1>8 DEF acc, IdealOK, IdealAcc, HandedOut
<1>10. \A i \in 1..Len(list) : list[i].current = ds[i].stake /\ list[i].change = 1
  BY <1>4, <1>8 DEF acc, IdealOK
<1> HIDE DEF list
<1>11. sum \in Nat /\ acc.left = total - sum /\ acc.left \in Nat
  <2>1. HandedOut(acc) \in Nat /\ acc.left = total - HandedOut(acc) /\ acc.left \in Nat
    BY <1>8, HandedOutType DEF IdealOK, IdealAcc
  <2> QED BY <1>9, <2>1
<1> HIDE DEF sum
<1>12. sum <= total
  BY <1>11
<1>13. ASSUME W <= Precision
       PROVE  sum = total
  <2>1. CASE acc.done
    BY <1>8, <1>11, <2>1 DEF IdealOK
  <2>2. CASE ~acc.done
    <3>1. Precision * sum >= p * W
      BY <1>1, <1>8, <1>9, <2>2 DEF IdealOK
    <3> HIDE DEF W
    <3>2. p * W = W * p /\ p * W \in Nat /\ W \in Nat
      BY <1>1, <1>3
    <3>3. Precision * sum > total * Precision - Precision
      <4>1. Precision * sum \in Nat
        BY <1>2, <1>11
      <4> DEFINE a == Precision * sum  b == total * Precision  c == p * W
      <4>2. a \in Nat /\ b \in Nat /\ c \in Nat /\ a >= c /\ b < c + W
        BY <1>2, <1>3, <3>1, <3>2, <4>1
      <4>3. a > b - Precision
        <5> HIDE DEF a, b, c
        <5> QED BY <1>2, <1>13, <3>2, <4>2
      <4> QED BY <4>3
    <3>4. CASE sum < total
      <4>1. sum <= total - 1
        BY <1>11, <3>4
      <4>2. Precision * sum <= Precision * (total - 1)
        BY <1>2, <1>11, <4>1
      <4>3. Precision * (total - 1) = total * Precision - Precision
        BY <1>2
      <4>4. Precision * sum \in Int /\ Precision * (total - 1) \in Int
        BY <1>2, <1>11
      <4> QED BY <3>3, <4>2, <4>3, <4>4
    <3> QED BY <1>11, <1>12, <3>4
  <2> QED BY <2>1, <2>2
<1> QED BY <1>9, <1>10, <1>11, <1>12, <1>13 DEF list, sum, W

-----------------------------------------------------------------------------
(***************************************************************************)
(* What the changes add up to                                              *)
(***************************************************************************)

GapsOf(list, isDeposit) == [i \in DOMAIN list |-> Gap(list[i], isDeposit)]

(* What was set aside, and what was not left, is in the changes.  Each of them is the
   token set aside or within the gap, and fills it while something is left. *)
FillOK(k, acc, ideals, isDeposit, spare) ==
  /\ Len(acc.list) = k
  /\ \A i \in 1..k :
       /\ acc.list[i].current = ideals[i].current
       /\ acc.list[i].change = 1 \/ acc.list[i].change <= Gap(ideals[i], isDeposit)
       /\ acc.left > 0 => acc.list[i].change >= Gap(ideals[i], isDeposit)
  /\ SumFunctionOnSet(ChangesOf(acc.list), 1..k) = k + spare - acc.left

LEMMA FillKeeps ==
  ASSUME NEW k \in Nat, NEW acc \in FillAcc, NEW ideals, ideals[k + 1] \in Item,
         ideals[k + 1].change = 1, NEW isDeposit \in BOOLEAN, NEW spare \in Nat,
         FillOK(k, acc, ideals, isDeposit, spare)
  PROVE  FillOK(k + 1, Fill(isDeposit, acc, ideals[k + 1]), ideals, isDeposit, spare)
<1> DEFINE d == ideals[k + 1]
           gap == Gap(d, isDeposit)
           change == Change(gap, acc.left)
           next == Fill(isDeposit, acc, d)
<1>1. d \in Item /\ gap \in Int /\ acc.left \in Nat /\ acc.list \in Seq(Item)
  BY DEF Item, Gap, FillAcc
<1>2. next \in FillAcc
  BY <1>1, FillType
<1>3. \E item \in Item : /\ next.list = Append(acc.list, item)
                         /\ item.current = d.current
                         /\ item.change = 1 \/ item.change <= gap
                         /\ next.left = acc.left + 1 - item.change /\ next.left <= acc.left
                         /\ next.left > 0 => item.change >= gap
  <2>1. CASE gap <= 0 \/ acc.left = 0
    <3>1. next = [left |-> acc.left, list |-> Append(acc.list, d)]
      BY <2>1 DEF Fill
    <3>2. next.list = Append(acc.list, d) /\ next.left = acc.left
      BY <3>1
    <3>3. d.change = 1
      OBVIOUS
    <3> HIDE DEF d, gap, next
    <3> QED BY <1>1, <2>1, <3>2, <3>3
  <2>2. CASE ~(gap <= 0 \/ acc.left = 0)
    <3> DEFINE item == [d EXCEPT !.change = change]
    <3>1. next = [left |-> acc.left + 1 - change, list |-> Append(acc.list, item)]
      BY <2>2 DEF Fill
    <3>2. next.list = Append(acc.list, item) /\ next.left = acc.left + 1 - change
      BY <3>1
    <3>3. change \in Nat /\ change >= 1 /\ change <= gap /\ (change = gap \/ change = acc.left + 1)
      BY <1>1, <2>2 DEF Change, Lesser
    <3>4. item \in Item /\ item.change = change /\ item.current = d.current
      <4> HIDE DEF change
      <4> QED BY <1>1, <3>3 DEF Item
    <3> HIDE DEF d, gap, next, change, item
    <3>5. next.left <= acc.left
      BY <1>1, <3>2, <3>3
    <3>6. next.left > 0 => change >= gap
      BY <1>1, <3>2, <3>3
    <3> QED BY <3>2, <3>3, <3>4, <3>5, <3>6
  <2> QED BY <2>1, <2>2
<1>4. PICK item \in Item : /\ next.list = Append(acc.list, item)
                           /\ item.current = d.current
                           /\ item.change = 1 \/ item.change <= gap
                           /\ next.left = acc.left + 1 - item.change /\ next.left <= acc.left
                           /\ next.left > 0 => item.change >= gap
  BY <1>3
<1> HIDE DEF next, change, gap
<1>5. item.change \in Nat /\ next.left \in Nat
  BY <1>2 DEF Item, FillAcc
<1>6. Len(acc.list) = k
  BY DEF FillOK
<1>7. /\ Len(next.list) = k + 1 /\ next.list[k + 1] = item
      /\ \A i \in 1..k : next.list[i] = acc.list[i]
      /\ DOMAIN next.list = 1..(k + 1)
  BY <1>1, <1>4, <1>6
<1>8. SumFunctionOnSet(ChangesOf(next.list), 1..(k + 1)) = (k + 1) + spare - next.left
  <2> DEFINE f == ChangesOf(acc.list)  h == ChangesOf(next.list)
  <2>1. ASSUME NEW i \in 1..k
        PROVE  f[i] = acc.list[i].change /\ acc.list[i].change \in Nat /\ i \in 1..(k + 1)
    <3>1. acc.list[i] \in Item /\ i \in DOMAIN acc.list /\ i \in 1..(k + 1)
      BY <1>1, <1>6
    <3> QED BY <3>1 DEF ChangesOf, Item
  <2>2. \A i \in 1..k : f[i] \in Int /\ h[i] = f[i]
    BY <1>7, <2>1 DEF ChangesOf
  <2>3. k + 1 \in 1..(k + 1)
    OBVIOUS
  <2>4. h[k + 1] = item.change
    BY <1>7, <2>3 DEF ChangesOf
  <2> HIDE DEF h
  <2>5. SumFunctionOnSet(h, 1..(k + 1)) = SumFunctionOnSet(f, 1..k) + h[k + 1]
    <3>1. h[k + 1] \in Int
      BY <1>5, <2>4
    <3> HIDE DEF f
    <3> QED BY <2>2, <3>1, SumAppended
  <2>6. SumFunctionOnSet(f, 1..k) = k + spare - acc.left
    BY DEF FillOK
  <2>7. SumFunctionOnSet(h, 1..(k + 1)) = (k + spare - acc.left) + item.change
    BY <2>4, <2>5, <2>6
  <2>8. (k + spare - acc.left) + item.change = (k + 1) + spare - next.left
    <3> DEFINE l == acc.left  m == next.left  c == item.change
    <3>1. l \in Int /\ m \in Int /\ c \in Int
      BY <1>1, <1>5
    <3>2. m = l + 1 - c
      BY <1>4
    <3> HIDE DEF l, m, c
    <3>3. (k + spare - l) + c = (k + 1) + spare - m
      BY <3>1, <3>2
    <3> QED BY <3>3 DEF l, m, c
  <2> QED BY <2>7, <2>8 DEF h
<1>9. ASSUME NEW i \in 1..(k + 1)
      PROVE  /\ next.list[i].current = ideals[i].current
             /\ next.list[i].change = 1 \/ next.list[i].change <= Gap(ideals[i], isDeposit)
             /\ next.left > 0 => next.list[i].change >= Gap(ideals[i], isDeposit)
  <2>1. CASE i = k + 1
    BY <1>4, <1>7, <2>1 DEF gap
  <2>2. CASE i # k + 1
    <3>1. i \in 1..k /\ next.list[i] = acc.list[i]
      BY <1>7, <2>2
    <3>2. next.left > 0 => acc.left > 0
      BY <1>1, <1>4, <1>5
    <3> QED BY <3>1, <3>2 DEF FillOK
  <2> QED BY <2>1, <2>2
<1>10. FillOK(k + 1, next, ideals, isDeposit, spare)
  BY <1>7, <1>8, <1>9 DEF FillOK
<1> QED BY <1>10 DEF next

LEMMA TotalChangeIs ==
  ASSUME NEW list \in Seq(Item)
  PROVE  /\ TotalChange(list) = SumFunctionOnSet(ChangesOf(list), 1..Len(list))
         /\ TotalChange(list) \in Nat
<1>1. DOMAIN ChangesOf(list) = 1..Len(list)
  BY DEF ChangesOf
<1>2. TotalChange(list) = SumFunctionOnSet(ChangesOf(list), DOMAIN ChangesOf(list))
  BY DEF TotalChange, SumFunction, ChangesOf
<1>3. ASSUME NEW i \in 1..Len(list)
      PROVE  ChangesOf(list)[i] \in Nat
  <2>1. list[i] \in Item /\ i \in DOMAIN list
    OBVIOUS
  <2> QED BY <2>1 DEF ChangesOf, Item
<1>4. IsFiniteSet(1..Len(list))
  BY FS_Interval
<1>5. SumFunctionOnSet(ChangesOf(list), 1..Len(list)) \in Nat
  BY <1>3, <1>4, SumType
<1> QED BY <1>1, <1>2, <1>5

(* nobody changes by more than its gap, but for the token set aside *)
WithinGaps(list, ideals, isDeposit) ==
  \A i \in 1..Len(list) :
    /\ list[i].current = ideals[i].current
    /\ list[i].change = 1 \/ list[i].change <= Gap(ideals[i], isDeposit)

(* A plan: no more than the amount is given out, and all of it if the gaps can take it. *)
LEMMA Distributed ==
  ASSUME NEW ideals \in Seq(Item), \A i \in 1..Len(ideals) : ideals[i].change = 1,
         NEW amount \in Nat, amount >= Len(ideals), NEW isDeposit \in BOOLEAN
  PROVE  LET list == Distribute(amount, ideals, isDeposit)
             gaps == SumFunctionOnSet(GapsOf(ideals, isDeposit), 1..Len(ideals))
         IN  /\ list \in Seq(Item) /\ Len(list) = Len(ideals)
             /\ WithinGaps(list, ideals, isDeposit)
             /\ TotalChange(list) <= amount
             /\ gaps >= amount => TotalChange(list) = amount
<1> DEFINE n == Len(ideals)
           list == Distribute(amount, ideals, isDeposit)
           gaps == SumFunctionOnSet(GapsOf(ideals, isDeposit), 1..n)
           spare == amount - n
<1>1. n \in Nat /\ ideals \in [1..n -> Item] /\ spare \in Nat /\ DOMAIN ideals = 1..n
  OBVIOUS
<1>2. PICK run \in [0..n -> FillAcc] :
        /\ run[0] = [left |-> spare, list |-> <<>>]
        /\ \A k \in 1..n : run[k] = Fill(isDeposit, run[k - 1], ideals[k])
        /\ list = run[n].list
  BY <1>1, FillRun
<1> HIDE DEF list
<1> DEFINE G == {k \in Nat : k <= n => FillOK(k, run[k], ideals, isDeposit, spare)}
<1>3. 0 \in G
  <2> DEFINE acc == run[0]
  <2>1. acc.left = spare /\ acc.list = <<>> /\ Len(acc.list) = 0
    BY <1>2
  <2> HIDE DEF acc
  <2>2. 1..0 = {} /\ SumFunctionOnSet(ChangesOf(acc.list), {}) = 0
    BY SumEmpty
  <2>3. SumFunctionOnSet(ChangesOf(acc.list), 1..0) = 0 + spare - acc.left
    BY <1>1, <2>1, <2>2
  <2>4. FillOK(0, acc, ideals, isDeposit, spare)
    BY <2>1, <2>3 DEF FillOK
  <2> QED BY <2>4 DEF acc
<1>4. ASSUME NEW k \in Nat, k \in G
      PROVE  k + 1 \in G
  <2> SUFFICES ASSUME k + 1 <= n PROVE FillOK(k + 1, run[k + 1], ideals, isDeposit, spare)
    OBVIOUS
  <2>1. k \in 0..n /\ k + 1 \in 1..n /\ (k + 1) - 1 = k
    BY <1>1
  <2>2. run[k] \in FillAcc /\ FillOK(k, run[k], ideals, isDeposit, spare)
    BY <1>4, <2>1
  <2>3. run[k + 1] = Fill(isDeposit, run[k], ideals[k + 1])
    BY <1>2, <2>1
  <2>4. ideals[k + 1] \in Item /\ ideals[k + 1].change = 1
    BY <1>1, <2>1
  <2> HIDE DEF spare
  <2>5. FillOK(k + 1, Fill(isDeposit, run[k], ideals[k + 1]), ideals, isDeposit, spare)
    BY <1>1, <2>2, <2>4, FillKeeps
  <2> QED BY <2>3, <2>5
<1>5. n \in G
  <2> HIDE DEF G, n
  <2> QED BY <1>1, <1>3, <1>4, NumbersByInduction
<1> DEFINE acc == run[n]
<1>6. FillOK(n, acc, ideals, isDeposit, spare) /\ acc \in FillAcc /\ list = acc.list
  BY <1>1, <1>2, <1>5
<1> HIDE DEF acc, G
<1>7. list \in Seq(Item) /\ Len(list) = n /\ acc.left \in Nat
  BY <1>6 DEF FillOK, FillAcc
<1>8. \A i \in 1..n : /\ list[i].current = ideals[i].current
                      /\ list[i].change = 1 \/ list[i].change <= Gap(ideals[i], isDeposit)
                      /\ acc.left > 0 => list[i].change >= Gap(ideals[i], isDeposit)
  BY <1>6 DEF FillOK
<1>9. TotalChange(list) = SumFunctionOnSet(ChangesOf(list), 1..n) /\ TotalChange(list) \in Nat
  BY <1>7, TotalChangeIs
<1>10. TotalChange(list) = amount - acc.left
  <2>1. SumFunctionOnSet(ChangesOf(list), 1..n) = n + spare - acc.left
    BY <1>6 DEF FillOK
  <2> QED BY <1>1, <1>7, <1>9, <2>1
<1>11. TotalChange(list) <= amount
  BY <1>7, <1>10
<1>12. ASSUME gaps >= amount
       PROVE  TotalChange(list) = amount
  <2>1. CASE acc.left = 0
    BY <1>10, <2>1
  <2>2. CASE acc.left # 0
    <3> DEFINE S == 1..n  f == GapsOf(ideals, isDeposit)  h == ChangesOf(list)
    <3>1. ASSUME NEW i \in S
          PROVE  f[i] \in Int /\ h[i] \in Int /\ f[i] <= h[i]
      <4>1. ideals[i] \in Item /\ list[i] \in Item /\ i \in DOMAIN ideals /\ i \in DOMAIN list
        BY <1>1, <1>7
      <4>2. f[i] = Gap(ideals[i], isDeposit) /\ h[i] = list[i].change
        BY <4>1 DEF GapsOf, ChangesOf
      <4>3. f[i] \in Int /\ h[i] \in Int
        BY <4>1, <4>2 DEF Gap, Item
      <4>4. list[i].change >= Gap(ideals[i], isDeposit)
        BY <1>7, <1>8, <2>2
      <4> QED BY <4>2, <4>3, <4>4
    <3>2. IsFiniteSet(S)
      BY <1>1, FS_Interval
    <3> HIDE DEF S, f, h
    <3>3. SumFunctionOnSet(f, S) <= SumFunctionOnSet(h, S) /\ SumFunctionOnSet(f, S) \in Int
      BY <3>1, <3>2, SumMonotone, SumType
    <3>4. SumFunctionOnSet(h, S) = TotalChange(list) /\ SumFunctionOnSet(f, S) = gaps
      BY <1>9 DEF S, f, h
    <3> HIDE DEF gaps
    <3> QED BY <1>7, <1>9, <1>10, <1>12, <2>2, <3>3, <3>4
  <2> QED BY <2>1, <2>2
<1>13. WithinGaps(list, ideals, isDeposit)
  BY <1>7, <1>8 DEF WithinGaps
<1> QED BY <1>7, <1>11, <1>12, <1>13 DEF list

-----------------------------------------------------------------------------
(***************************************************************************)
(* The two plans                                                           *)
(***************************************************************************)

LEMMA TotalStakeIs ==
  ASSUME NEW n \in Nat, NEW ds \in [1..n -> Delegation], NEW k \in 0..n
  PROVE  /\ TotalStake(ds) = SumFunctionOnSet(StakesOf(ds), 1..n) /\ TotalStake(ds) \in Nat
         /\ SumFunctionOnSet(StakesOf(ds), 1..k) <= TotalStake(ds)
<1> DEFINE f == StakesOf(ds)  N == 1..n  K == 1..k
<1>1. DOMAIN f = N
  BY DEF StakesOf
<1>2. TotalStake(ds) = SumFunctionOnSet(f, DOMAIN f)
  BY DEF TotalStake, SumFunction, StakesOf
<1>3. IsFiniteSet(N) /\ K \subseteq N /\ \A i \in N : f[i] \in Nat
  BY FS_Interval DEF StakesOf, Delegation
<1> HIDE DEF f, N, K
<1>4. SumFunctionOnSet(f, N) \in Nat
  BY <1>3, SumType
<1>5. SumFunctionOnSet(f, K) <= SumFunctionOnSet(f, N)
  <2>1. \A i \in N : f[i] \in Int
    BY <1>3
  <2>2. \A i \in N \ K : f[i] >= 0
    BY <1>3
  <2> QED BY <1>3, <2>1, <2>2, SumSubset
<1> QED BY <1>1, <1>2, <1>4, <1>5 DEF f, N, K

(* The gaps add up to the difference of the ideal and the present stakes. *)
LEMMA GapsAddUp ==
  ASSUME NEW n \in Nat, NEW ds \in [1..n -> Delegation], NEW list \in Seq(Item), Len(list) <= n,
         \A i \in 1..Len(list) : list[i].current = ds[i].stake, NEW isDeposit \in BOOLEAN
  PROVE  LET k == Len(list)
             gaps == SumFunctionOnSet(GapsOf(list, isDeposit), 1..k)
             ideals == SumFunctionOnSet(IdealsOf(list), 1..k)
             currents == SumFunctionOnSet(StakesOf(ds), 1..k)
         IN  /\ gaps \in Int /\ ideals \in Int /\ currents \in Int
             /\ gaps = IF isDeposit THEN ideals - currents ELSE currents - ideals
<1> DEFINE k == Len(list)  S == 1..k
           f == GapsOf(list, isDeposit)  g == IdealsOf(list)  h == StakesOf(ds)
<1>1. ASSUME NEW i \in S
      PROVE  /\ f[i] \in Int /\ g[i] \in Int /\ h[i] \in Int
             /\ f[i] = IF isDeposit THEN g[i] - h[i] ELSE h[i] - g[i]
  <2>1. list[i] \in Item /\ i \in DOMAIN list /\ i \in 1..n /\ list[i].current = ds[i].stake
    OBVIOUS
  <2>2. g[i] = list[i].ideal /\ h[i] = list[i].current /\ f[i] = Gap(list[i], isDeposit)
    BY <2>1 DEF IdealsOf, StakesOf, GapsOf
  <2>3. list[i].ideal \in Nat /\ list[i].current \in Nat
    BY <2>1 DEF Item
  <2> HIDE DEF f, g, h
  <2> QED BY <2>2, <2>3 DEF Gap
<1>2. IsFiniteSet(S)
  BY FS_Interval
<1> HIDE DEF k, S, f, g, h
<1>3. /\ SumFunctionOnSet(f, S) \in Int /\ SumFunctionOnSet(g, S) \in Int
      /\ SumFunctionOnSet(h, S) \in Int
  BY <1>1, <1>2, SumType
<1>4. CASE isDeposit
  <2>1. \A i \in S : f[i] \in Int /\ h[i] \in Int /\ g[i] \in Int /\ g[i] = f[i] + h[i]
    BY <1>1, <1>4
  <2>2. SumFunctionOnSet(g, S) = SumFunctionOnSet(f, S) + SumFunctionOnSet(h, S)
    BY <1>2, <2>1, SumPlus
  <2>3. SumFunctionOnSet(f, S) = SumFunctionOnSet(g, S) - SumFunctionOnSet(h, S)
    BY <1>3, <2>2
  <2> QED BY <1>3, <1>4, <2>3 DEF k, S, f, g, h
<1>5. CASE ~isDeposit
  <2>1. \A i \in S : f[i] \in Int /\ g[i] \in Int /\ h[i] \in Int /\ h[i] = f[i] + g[i]
    BY <1>1, <1>5
  <2>2. SumFunctionOnSet(h, S) = SumFunctionOnSet(f, S) + SumFunctionOnSet(g, S)
    BY <1>2, <2>1, SumPlus
  <2>3. SumFunctionOnSet(f, S) = SumFunctionOnSet(h, S) - SumFunctionOnSet(g, S)
    BY <1>3, <2>2
  <2> QED BY <1>3, <1>5, <2>3 DEF k, S, f, g, h
<1> QED BY <1>4, <1>5

(* calc_withdraw, whatever the weights are: the changes add up to what is withdrawn, or to
   less if the list breaks off before a validator; each is within its stake, or the one
   token set aside for it. *)
THEOREM WithdrawPlanned ==
  ASSUME NEW n \in Nat, NEW ds \in [1..n -> Delegation], NEW withdraw \in Nat,
         WithdrawSucceeds(withdraw, ds)
  PROVE  LET items == CalcWithdraw(withdraw, ds)
         IN  /\ items \in Seq(Item) /\ Len(items) <= n
             /\ TotalChange(items) <= withdraw
             /\ Len(items) = n => TotalChange(items) = withdraw
             /\ \A i \in 1..Len(items) : items[i].change <= items[i].current \/ items[i].change = 1
<1> DEFINE total == TotalStake(ds) - withdraw
           ideals == CalcIdealStake(total, ds)
           items == CalcWithdraw(withdraw, ds)
           sum == SumFunctionOnSet(IdealsOf(ideals), 1..Len(ideals))
           gaps == SumFunctionOnSet(GapsOf(ideals, FALSE), 1..Len(ideals))
           stakes == SumFunctionOnSet(StakesOf(ds), 1..Len(ideals))
<1>1. TotalStake(ds) \in Nat /\ TotalStake(ds) >= withdraw /\ total \in Nat
  <2>1. n \in 0..n
    OBVIOUS
  <2>2. TotalStake(ds) \in Nat /\ TotalStake(ds) >= withdraw
    BY <2>1, TotalStakeIs DEF WithdrawSucceeds
  <2> QED BY <2>2
<1>2. TotalWeight(ds) # 0 /\ withdraw >= Len(ideals) /\ items = Distribute(withdraw, ideals, FALSE)
  BY TotalWeightIs DEF WithdrawSucceeds, CalcWithdraw
<1> HIDE DEF items, total, ideals
<1>3. /\ ideals \in Seq(Item) /\ Len(ideals) <= n
      /\ \A i \in 1..Len(ideals) : ideals[i].current = ds[i].stake /\ ideals[i].change = 1
      /\ sum \in Nat /\ sum <= total
  BY <1>1, <1>2, IdealStakes DEF ideals
<1>4. /\ items \in Seq(Item) /\ Len(items) = Len(ideals)
      /\ WithinGaps(items, ideals, FALSE)
      /\ TotalChange(items) <= withdraw
      /\ gaps >= withdraw => TotalChange(items) = withdraw
  <2>1. ideals \in Seq(Item) /\ \A i \in 1..Len(ideals) : ideals[i].change = 1
    BY <1>3
  <2>2. FALSE \in BOOLEAN
    OBVIOUS
  <2>3. /\ items \in Seq(Item) /\ Len(items) = Len(ideals)
        /\ TotalChange(items) <= withdraw
        /\ gaps >= withdraw => TotalChange(items) = withdraw
    BY <1>2, <2>1, <2>2, Distributed
  <2>4. WithinGaps(items, ideals, FALSE)
    BY <1>2, <2>1, <2>2, Distributed
  <2> QED BY <2>3, <2>4
<1>5. ASSUME NEW i \in 1..Len(items)
      PROVE  items[i].change <= items[i].current \/ items[i].change = 1
  <2>1. ideals[i] \in Item /\ items[i] \in Item
    BY <1>3, <1>4
  <2>2. Gap(ideals[i], FALSE) <= ideals[i].current /\ Gap(ideals[i], FALSE) \in Int
    BY <2>1 DEF Gap, Item
  <2>3. items[i].change \in Int /\ items[i].current \in Int
    BY <2>1 DEF Item
  <2>4. /\ items[i].current = ideals[i].current
        /\ items[i].change = 1 \/ items[i].change <= Gap(ideals[i], FALSE)
    BY <1>4 DEF WithinGaps
  <2> DEFINE a == Gap(ideals[i], FALSE)  b == items[i].change  c == items[i].current
  <2>5. a <= c /\ a \in Int /\ b \in Int /\ c \in Int /\ (b = 1 \/ b <= a)
    BY <2>2, <2>3, <2>4
  <2>6. b <= c \/ b = 1
    <3> HIDE DEF a, b, c
    <3> QED BY <2>5
  <2> QED BY <2>6
<1>6. ASSUME Len(items) = n
      PROVE  TotalChange(items) = withdraw
  <2>1. gaps \in Int /\ sum \in Int /\ stakes \in Int /\ gaps = stakes - sum
    BY <1>3, GapsAddUp
  <2>2. stakes = TotalStake(ds)
    <3>1. n \in 0..n
      OBVIOUS
    <3> QED BY <1>4, <1>6, <3>1, TotalStakeIs
  <2> HIDE DEF gaps, sum, stakes
  <2>3. gaps >= withdraw
    BY <1>1, <1>3, <2>1, <2>2 DEF total
  <2> QED BY <1>4, <2>3
<1>7. Len(items) <= n
  BY <1>3, <1>4
<1> QED BY <1>4, <1>5, <1>6, <1>7 DEF items

(* calc_deposit: the changes add up to the deposit, if the weights add up to no more than
   the precision of a Decimal. *)
THEOREM DepositPlanned ==
  ASSUME NEW n \in Nat, NEW ds \in [1..n -> Delegation], NEW deposit \in Nat,
         DepositSucceeds(deposit, ds)
  PROVE  LET items == CalcDeposit(deposit, ds)
         IN  /\ items \in Seq(Item)
             /\ TotalWeight(ds) <= Precision => TotalChange(items) = deposit
<1> DEFINE total == TotalStake(ds) + deposit
           ideals == CalcIdealStake(total, ds)
           items == CalcDeposit(deposit, ds)
           sum == SumFunctionOnSet(IdealsOf(ideals), 1..Len(ideals))
           gaps == SumFunctionOnSet(GapsOf(ideals, TRUE), 1..Len(ideals))
           stakes == SumFunctionOnSet(StakesOf(ds), 1..Len(ideals))
<1>1. TotalStake(ds) \in Nat /\ total \in Nat
  <2>1. n \in 0..n
    OBVIOUS
  <2>2. TotalStake(ds) \in Nat
    BY <2>1, TotalStakeIs
  <2> QED BY <2>2
<1>2. TotalWeight(ds) # 0 /\ deposit >= Len(ideals) /\ items = Distribute(deposit, ideals, TRUE)
  BY TotalWeightIs DEF DepositSucceeds, CalcDeposit
<1> HIDE DEF items, total, ideals
<1>3. /\ ideals \in Seq(Item) /\ Len(ideals) <= n
      /\ \A i \in 1..Len(ideals) : ideals[i].current = ds[i].stake /\ ideals[i].change = 1
      /\ TotalWeight(ds) <= Precision => sum = total
  BY <1>1, <1>2, IdealStakes DEF ideals
<1>4. /\ items \in Seq(Item)
      /\ gaps >= deposit => TotalChange(items) = deposit
  BY <1>2, <1>3, Distributed
<1>5. ASSUME TotalWeight(ds) <= Precision
      PROVE  TotalChange(items) = deposit
  <2>1. gaps \in Int /\ sum \in Int /\ stakes \in Int /\ gaps = sum - stakes
    BY <1>3, GapsAddUp
  <2>2. stakes <= TotalStake(ds)
    <3>1. Len(ideals) \in 0..n
      BY <1>3
    <3> QED BY <3>1, TotalStakeIs
  <2> HIDE DEF gaps, sum, stakes
  <2>3. sum = total
    BY <1>3, <1>5
  <2>4. gaps >= deposit
    BY <1>1, <2>1, <2>2, <2>3 DEF total
  <2> QED BY <1>4, <2>4
<1> QED BY <1>4, <1>5 DEF items

-----------------------------------------------------------------------------
(***************************************************************************)
(* The types of the state                                                  *)
(***************************************************************************)

TxType == [kind : {"none", "Delegate", "Undelegate"}, amount : Nat, items : Seq(Item),
           state : {"none", "sent", "done", "failed"}, whole : BOOLEAN, latest : BOOLEAN]
ResultType == [reading : Readings, keys : SUBSET Validators]
SnapshotType == [reading : Readings, known : BOOLEAN]

LEMMA DelegationsType ==
  ASSUME TypeOK
  PROVE  LET n == Cardinality(DOMAIN members)
         IN  n \in Nat /\ Delegations \in [1..n -> Delegation]
<1> DEFINE S == DOMAIN members  n == Cardinality(S)  s == InOrder(S)
<1>1. S \subseteq Validators /\ IsFiniteSet(S) /\ S \subseteq Nat /\ \A v \in S : members[v] \in Nat
  BY StakingAssumption, FS_Subset DEF TypeOK
<1>2. n \in Nat
  BY <1>1, FS_CardinalityType
<1>3. s \in [1..n -> S]
  <2> HIDE DEF S
  <2> QED BY <1>1, InOrderIsOrder DEF IsOrder
<1>4. snapshot.reading.stake \in Stakes
  BY DEF TypeOK, Readings
<1>5. Delegations = [i \in 1..n |-> [valoper |-> s[i], stake |-> snapshot.reading.stake[s[i]],
                                     weight |-> members[s[i]]]]
  BY DEF Delegations
<1> HIDE DEF s, n, S
<1>6. ASSUME NEW i \in 1..n
      PROVE  [valoper |-> s[i], stake |-> snapshot.reading.stake[s[i]],
              weight |-> members[s[i]]] \in Delegation
  <2>1. s[i] \in S /\ s[i] \in Validators
    BY <1>1, <1>3
  <2>2. snapshot.reading.stake[s[i]] \in Nat /\ members[s[i]] \in Nat
    BY <1>1, <1>4, <2>1 DEF Stakes
  <2> QED BY <2>1, <2>2 DEF Delegation
<1> QED BY <1>2, <1>5, <1>6 DEF n, S

LEMMA InitTypeOK == Init => TypeOK
<1> SUFFICES ASSUME Init PROVE TypeOK
  OBVIOUS
<1>1. NoReading \in Readings
  BY DEF NoReading, Readings, Stakes
<1>2. NoResult \in ResultType
  BY <1>1 DEF NoResult, ResultType
<1>3. [reading |-> NoReading, known |-> FALSE] \in SnapshotType
  BY <1>1 DEF SnapshotType
<1>4. NoTx \in TxType
  <2>1. <<>> \in Seq(Item)
    OBVIOUS
  <2> QED BY <2>1 DEF NoTx, TxType
<1>5. DOMAIN members = {}
  BY DEF Init, SetInit
<1> QED BY <1>2, <1>3, <1>4, <1>5 DEF Init, TypeOK, TxType, ResultType, SnapshotType, Stakes

LEMMA SendType ==
  ASSUME TypeOK, NEW kind \in {"Delegate", "Undelegate"}, NEW amount \in Nat,
         NEW items \in Seq(Item), Send(kind, amount, items)
  PROVE  tx' \in TxType
<1>1. snapshot.reading.latest \in BOOLEAN
  BY DEF TypeOK, Readings
<1> QED BY <1>1 DEF Send, TxType

LEMMA ChangeOfType ==
  ASSUME TypeOK, NEW v \in Validators
  PROVE  ChangeOf(v) \in Nat
<1> DEFINE items == tx.items  f == ChangesOf(items)
           S == {i \in DOMAIN items : items[i].valoper = v}
<1>1. items \in Seq(Item)
  BY DEF TypeOK
<1>2. IsFiniteSet(1..Len(items)) /\ S \subseteq 1..Len(items)
  BY <1>1, FS_Interval
<1>3. IsFiniteSet(S)
  BY <1>2, FS_Subset
<1>4. ASSUME NEW i \in S
      PROVE  f[i] \in Nat
  <2>1. items[i] \in Item /\ i \in DOMAIN items
    BY <1>1
  <2> QED BY <2>1 DEF ChangesOf, Item
<1>5. ChangeOf(v) = SumFunctionOnSet(f, S)
  BY DEF ChangeOf, ChangesOf
<1> HIDE DEF f, S
<1> QED BY <1>3, <1>4, <1>5, SumType

(* The deposit of a plan is a number of tokens, whatever the fee is. *)
LEMMA DepositOfPlan ==
  ASSUME TypeOK, PlanDelegate
  PROVE  \E deposit \in Nat : /\ DepositSucceeds(deposit, Delegations)
                              /\ Send("Delegate", deposit, DepositPlan(deposit))
<1>1. PICK rate \in Fees : /\ Deposit(rate) >= 0
                           /\ DepositSucceeds(Deposit(rate), Delegations)
                           /\ Send("Delegate", Deposit(rate), DepositPlan(Deposit(rate)))
  BY DEF PlanDelegate
<1> DEFINE balance == snapshot.reading.balance  kept == (rate * balance) \div Precision
<1>2. balance \in Nat /\ rate \in Nat /\ Precision \in Nat \ {0}
  BY PrecisionAssumption, StakingAssumption DEF TypeOK, Readings
<1>3. rate * balance \in Nat
  BY <1>2
<1>4. kept \in Nat
  BY <1>2, <1>3, DivRoundsDown
<1>5. Deposit(rate) = balance - kept
  BY DEF Deposit
<1> HIDE DEF balance, kept
<1>6. Deposit(rate) \in Nat
  BY <1>1, <1>2, <1>4, <1>5
<1> QED BY <1>1, <1>6

(* what is planned *)
LEMMA PlansType ==
  ASSUME TypeOK
  PROVE  /\ PlanDelegate => tx' \in TxType
         /\ \A withdraw \in Amounts : PlanUndelegate(withdraw) => tx' \in TxType
<1> DEFINE n == Cardinality(DOMAIN members)
<1>1. n \in Nat /\ Delegations \in [1..n -> Delegation]
  BY DelegationsType
<1> HIDE DEF n
<1>2. ASSUME PlanDelegate PROVE tx' \in TxType
  <2>1. PICK deposit \in Nat : /\ DepositSucceeds(deposit, Delegations)
                               /\ Send("Delegate", deposit, DepositPlan(deposit))
    BY <1>2, DepositOfPlan
  <2>2. DepositPlan(deposit) \in Seq(Item)
    BY <1>1, <2>1, DepositPlanned DEF DepositPlan
  <2> QED BY <2>1, <2>2, SendType
<1>3. ASSUME NEW withdraw \in Amounts, PlanUndelegate(withdraw) PROVE tx' \in TxType
  <2>1. withdraw \in Nat
    BY StakingAssumption
  <2>2. WithdrawPlan(withdraw) \in Seq(Item)
    BY <1>1, <1>3, <2>1, WithdrawPlanned DEF PlanUndelegate, WithdrawPlan
  <2>3. Send("Undelegate", withdraw, WithdrawPlan(withdraw))
    BY <1>3 DEF PlanUndelegate
  <2> QED BY <2>1, <2>2, <2>3, SendType
<1> QED BY <1>2, <1>3

LEMMA PerformType ==
  ASSUME TypeOK, RemotePerform
  PROVE  liquid' \in Nat /\ stake' \in Stakes
<1>1. tx.items \in Seq(Item) /\ liquid \in Nat /\ stake \in Stakes
  BY DEF TypeOK
<1>2. TotalChange(tx.items) \in Nat
  BY <1>1, TotalChangeIs
<1>3. \A v \in Validators : ChangeOf(v) \in Nat /\ stake[v] \in Nat
  BY <1>1, ChangeOfType DEF Stakes
<1>4. CASE tx.kind = "Delegate"
  <2>1. TotalChange(tx.items) <= liquid /\ liquid' = liquid - TotalChange(tx.items)
        /\ stake' = [v \in Validators |-> stake[v] + ChangeOf(v)]
    BY <1>4 DEF RemotePerform
  <2>2. liquid' \in Nat
    BY <1>1, <1>2, <2>1
  <2>3. \A v \in Validators : stake[v] + ChangeOf(v) \in Nat
    BY <1>3
  <2> QED BY <2>1, <2>2, <2>3 DEF Stakes
<1>5. CASE tx.kind # "Delegate"
  <2>1. /\ \A v \in Validators : ChangeOf(v) <= stake[v]
        /\ stake' = [v \in Validators |-> stake[v] - ChangeOf(v)]
        /\ liquid' = liquid
    BY <1>5 DEF RemotePerform
  <2>2. \A v \in Validators : stake[v] - ChangeOf(v) \in Nat
    BY <1>3, <2>1
  <2> QED BY <1>1, <2>1, <2>2 DEF Stakes
<1> QED BY <1>4, <1>5

LEMMA NextTypeOK ==
  ASSUME TypeOK, [Next]_vars
  PROVE  TypeOK'
<1> USE DEF setVars, queryVars, heightVars, remoteVars
<1>0. /\ result \in ResultType /\ snapshot \in SnapshotType /\ tx \in TxType /\ stake \in Stakes
      /\ liquid \in Nat /\ watched \subseteq Validators
  BY DEF TypeOK, ResultType, SnapshotType, TxType
<1>1. CASE OpenAccount
  BY <1>1 DEF OpenAccount, TypeOK
<1>2. CASE \E list \in Lists : UpdateValidators(list)
  <2>1. PICK list \in Lists : UpdateValidators(list)
    BY <1>2
  <2>2. DOMAIN list \subseteq Validators /\ \A v \in DOMAIN list : list[v] \in Nat
    BY StakingAssumption DEF Range
  <2> QED BY <2>1, <2>2
      DEF UpdateValidators, ReplaceSet, WatchValidators, KeysFor, NoteQuery, TypeOK
<1>3. CASE \E v \in Validators, weight \in Weights : UpdateValidator(v, weight)
  <2>1. PICK v \in Validators, weight \in Weights : UpdateValidator(v, weight)
    BY <1>3
  <2>2. weight \in Nat
    BY StakingAssumption
  <2>3. DOMAIN members' = DOMAIN members \cup {v}
        /\ \A w \in DOMAIN members' : members'[w] = IF w = v THEN weight ELSE members[w]
    BY <2>1 DEF UpdateValidator, WriteValidator
  <2>4. DOMAIN members' \subseteq Validators /\ \A w \in DOMAIN members' : members'[w] \in Nat
    BY <2>2, <2>3 DEF TypeOK
  <2>5. UNCHANGED <<icaReady, watched, registered, queryVars, heightVars, tx, remoteVars>>
    BY <2>1 DEF UpdateValidator
  <2> QED BY <2>4, <2>5 DEF TypeOK
<1>4. CASE ReadRemote
  <2>1. Reconstruct \in Readings
    <3>1. \A v \in Validators : (IF v \in watched THEN stake[v] ELSE 0) \in Nat
      BY <1>0 DEF Stakes
    <3> QED BY <1>0, <3>1 DEF Reconstruct, Readings, Stakes
  <2>2. result' \in ResultType
    BY <1>0, <1>4, <2>1 DEF ReadRemote, ResultType
  <2> QED BY <1>4, <2>2 DEF ReadRemote, TypeOK, ResultType
<1>5. CASE SudoKVQueryResult
  <2>0. NoResult \in ResultType
    BY DEF NoResult, ResultType, NoReading, Readings, Stakes
  <2>1. snapshot' \in SnapshotType /\ result' \in ResultType
    BY <1>0, <1>5, <2>0 DEF SudoKVQueryResult, SnapshotType, ResultType
  <2> QED BY <1>5, <2>1 DEF SudoKVQueryResult, TypeOK, SnapshotType, ResultType
<1>6. CASE ResultRefused
  <2>1. NoResult \in ResultType
    BY DEF NoResult, ResultType, NoReading, Readings, Stakes
  <2> QED BY <1>6, <2>1 DEF ResultRefused, TypeOK, ResultType
<1>7. CASE PlanDelegate
  BY <1>7, PlansType DEF PlanDelegate, TypeOK, TxType
<1>8. CASE \E withdraw \in Amounts : PlanUndelegate(withdraw)
  BY <1>8, PlansType DEF PlanUndelegate, TypeOK, TxType
<1>9. CASE RemotePerform
  <2>1. liquid' \in Nat /\ stake' \in Stakes
    BY <1>9, PerformType
  <2>2. tx' = [tx EXCEPT !.state = "done"]
        /\ result' = [result EXCEPT !.reading.latest = FALSE]
        /\ snapshot' = [snapshot EXCEPT !.reading.latest = FALSE]
        /\ inThisBlock' = FALSE
        /\ UNCHANGED <<icaReady, members, watched, registered, outdated>>
    BY <1>9 DEF RemotePerform
  <2>3. tx' \in TxType
    BY <1>0, <2>2 DEF TxType
  <2>4. result' \in ResultType
    BY <1>0, <2>2 DEF ResultType, Readings
  <2>5. snapshot' \in SnapshotType
    BY <1>0, <2>2 DEF SnapshotType, Readings
  <2> QED BY <2>1, <2>2, <2>3, <2>4, <2>5 DEF TypeOK, TxType, ResultType, SnapshotType
<1>10. CASE RemoteRefuse
  <2>1. tx' \in TxType
    BY <1>0, <1>10 DEF RemoteRefuse, TxType
  <2> QED BY <1>10, <2>1 DEF RemoteRefuse, TypeOK, TxType
<1>11. CASE PuppeteerHook
  <2>1. NoTx \in TxType
    <3>1. <<>> \in Seq(Item)
      OBVIOUS
    <3> QED BY <3>1 DEF NoTx, TxType
  <2>2. outdated' \in BOOLEAN
    BY <1>11 DEF PuppeteerHook, TypeOK
  <2> QED BY <1>11, <2>1, <2>2 DEF PuppeteerHook, TypeOK, TxType
<1>12. CASE \E amount \in Amounts : ComeIn(amount)
  <2>1. PICK amount \in Amounts : ComeIn(amount)
    BY <1>12
  <2>2. liquid' = liquid + amount /\ amount \in Nat
    BY <2>1, StakingAssumption DEF ComeIn
  <2>3. liquid' \in Nat
    BY <1>0, <2>2
  <2> QED BY <2>1, <2>3 DEF ComeIn, TypeOK
<1>13. CASE \E v \in Validators : Slash(v)
  <2>1. PICK v \in Validators : Slash(v)
    BY <1>13
  <2>2. stake' = [stake EXCEPT ![v] = stake[v] - 1] /\ stake[v] - 1 \in Nat
    BY <1>0, <2>1 DEF Slash, Stakes
  <2>3. stake' \in Stakes
    BY <1>0, <2>2 DEF Stakes
  <2> QED BY <2>1, <2>3 DEF Slash, TypeOK
<1>14. CASE NewBlock
  BY <1>14 DEF NewBlock, TypeOK
<1>15. CASE UNCHANGED vars
  BY <1>15 DEF vars, TypeOK
<1> QED BY <1>1, <1>2, <1>3, <1>4, <1>5, <1>6, <1>7, <1>8, <1>9, <1>10, <1>11, <1>12,
           <1>13, <1>14, <1>15 DEF Next

(* All state is of its type: in particular no step takes more from an account or a
   validator than there is, which would end below zero. *)
THEOREM TypeCorrect == Spec => []TypeOK
<1> QED BY InitTypeOK, NextTypeOK, PTL DEF Spec

-----------------------------------------------------------------------------
(***************************************************************************)
(* What the plans hand out                                                 *)
(***************************************************************************)

(* A plan is made in one step, and stays what it is until it is dropped. *)
LEMMA PlanOrNothing ==
  ASSUME TypeOK, [Next]_vars
  PROVE  \/ PlanDelegate
         \/ \E withdraw \in Amounts : PlanUndelegate(withdraw)
         \/ tx'.kind = "none"
         \/ /\ tx'.kind = tx.kind /\ tx'.amount = tx.amount /\ tx'.items = tx.items
            /\ tx'.whole = tx.whole
<1> DEFINE Same == /\ tx'.kind = tx.kind /\ tx'.amount = tx.amount /\ tx'.items = tx.items
                   /\ tx'.whole = tx.whole
<1>1. ASSUME UNCHANGED tx PROVE Same
  BY <1>1
<1>2. CASE OpenAccount \/ NewBlock \/ \E amount \in Amounts : ComeIn(amount)
  BY <1>2 DEF OpenAccount, NewBlock, ComeIn
<1>3. CASE ReadRemote \/ SudoKVQueryResult \/ ResultRefused
  BY <1>3 DEF ReadRemote, SudoKVQueryResult, ResultRefused
<1>4. CASE \/ \E list \in Lists : UpdateValidators(list)
           \/ \E v \in Validators, weight \in Weights : UpdateValidator(v, weight)
  BY <1>4 DEF UpdateValidators, UpdateValidator
<1>5. CASE RemotePerform \/ RemoteRefuse
  <2>1. \E s : tx' = [tx EXCEPT !.state = s]
    BY <1>5 DEF RemotePerform, RemoteRefuse
  <2>2. tx \in TxType
    BY DEF TypeOK, TxType
  <2> QED BY <2>1, <2>2 DEF TxType
<1>6. CASE PuppeteerHook
  BY <1>6 DEF PuppeteerHook, NoTx
<1>7. CASE \E v \in Validators : Slash(v)
  BY <1>7 DEF Slash
<1>8. CASE UNCHANGED vars
  BY <1>8 DEF vars
<1> QED BY <1>1, <1>2, <1>3, <1>4, <1>5, <1>6, <1>7, <1>8 DEF Next

LEMMA NextWithdrawInBounds ==
  ASSUME TypeOK, WithdrawInBounds, [Next]_vars
  PROVE  WithdrawInBounds'
<1>1. CASE PlanDelegate
  BY <1>1 DEF PlanDelegate, Send, WithdrawInBounds
<1>2. CASE \E withdraw \in Amounts : PlanUndelegate(withdraw)
  <2>1. PICK withdraw \in Amounts : PlanUndelegate(withdraw)
    BY <1>2
  <2> DEFINE n == Cardinality(DOMAIN members)  items == WithdrawPlan(withdraw)
  <2>2. withdraw \in Nat /\ WithdrawSucceeds(withdraw, Delegations)
    BY <2>1, StakingAssumption DEF PlanUndelegate
  <2>3. n \in Nat /\ Delegations \in [1..n -> Delegation]
    BY DelegationsType
  <2>4. items = CalcWithdraw(withdraw, Delegations)
    BY DEF WithdrawPlan
  <2>5. tx'.amount = withdraw /\ tx'.items = items /\ tx'.whole = (Len(items) = n)
    BY <2>1 DEF PlanUndelegate, Send
  <2> HIDE DEF n, items
  <2>6. /\ items \in Seq(Item) /\ TotalChange(items) <= withdraw
        /\ Len(items) = n => TotalChange(items) = withdraw
        /\ \A i \in 1..Len(items) : items[i].change <= items[i].current \/ items[i].change = 1
    BY <2>2, <2>3, <2>4, WithdrawPlanned
  <2>7. DOMAIN items = 1..Len(items)
    BY <2>6
  <2> QED BY <2>5, <2>6, <2>7 DEF WithdrawInBounds
<1>3. CASE tx'.kind = "none"
  BY <1>3 DEF WithdrawInBounds
<1>4. CASE /\ tx'.kind = tx.kind /\ tx'.amount = tx.amount /\ tx'.items = tx.items
           /\ tx'.whole = tx.whole
  BY <1>4 DEF WithdrawInBounds
<1> QED BY <1>1, <1>2, <1>3, <1>4, PlanOrNothing

LEMMA InitWithdrawInBounds == Init => WithdrawInBounds
  BY DEF Init, NoTx, WithdrawInBounds

(* calc_withdraw: no more than asked for is withdrawn, exactly that from a whole set, and
   of nobody more than the query knows of it but for the token set aside: for any number
   of validators, weights and stakes, also between a change of the set or a slashing and
   the next result of the query. *)
THEOREM WithdrawInBoundsAlways == Spec => []WithdrawInBounds
<1>1. TypeOK /\ WithdrawInBounds /\ [Next]_vars => (TypeOK /\ WithdrawInBounds)'
  BY NextTypeOK, NextWithdrawInBounds
<1> QED BY <1>1, InitTypeOK, InitWithdrawInBounds, PTL DEF Spec

-----------------------------------------------------------------------------
(***************************************************************************)
(* Deposits.  A share is a weight times a Decimal rounded down: if the     *)
(* weights add up to more than the precision of a Decimal, 10^18 in the    *)
(* code, what the rounding loses can exceed what rounding the shares up    *)
(* gives back.  The code does not bound the weights.                       *)
(***************************************************************************)

(* no weight is above w, and so many weights are within the precision *)
WeightsWithin(w) ==
  /\ \A weight \in Weights : weight <= w
  /\ \A list \in Lists : \A v \in DOMAIN list : list[v] <= w
  /\ w * Cardinality(Validators) <= Precision

MembersWithin(w) == \A v \in DOMAIN members : members[v] <= w

LEMMA NextMembersWithin ==
  ASSUME NEW w \in Nat, WeightsWithin(w), MembersWithin(w), [Next]_vars
  PROVE  MembersWithin(w)'
<1>1. CASE UNCHANGED <<members, watched>>
  BY <1>1 DEF MembersWithin
<1>2. CASE \E list \in Lists : UpdateValidators(list)
  BY <1>2 DEF UpdateValidators, ReplaceSet, MembersWithin, WeightsWithin
<1>3. CASE \E v \in Validators, weight \in Weights : UpdateValidator(v, weight)
  BY <1>3 DEF UpdateValidator, WriteValidator, MembersWithin, WeightsWithin
<1> QED BY <1>1, <1>2, <1>3, SetOrNothing

LEMMA WeightIsWithin ==
  ASSUME NEW w \in Nat, WeightsWithin(w), MembersWithin(w), TypeOK
  PROVE  TotalWeight(Delegations) <= Precision
<1> DEFINE S == DOMAIN members  n == Cardinality(S)  ds == Delegations
<1>1. n \in Nat /\ ds \in [1..n -> Delegation]
  BY DelegationsType
<1>2. S \subseteq Validators /\ S \subseteq Nat /\ IsFiniteSet(S) /\ IsFiniteSet(Validators)
  BY StakingAssumption, FS_Subset DEF TypeOK
<1>3. n <= Cardinality(Validators) /\ Cardinality(Validators) \in Nat
  BY <1>2, FS_Subset, FS_CardinalityType
<1>4. ASSUME NEW i \in 1..n
      PROVE  ds[i].weight \in Nat /\ ds[i].weight <= w
  <2>1. InOrder(S) \in [1..n -> S]
    <3> HIDE DEF S
    <3> QED BY <1>2, InOrderIsOrder DEF IsOrder
  <2>2. InOrder(S)[i] \in S
    BY <2>1
  <2>3. ds[i].weight = members[InOrder(S)[i]]
    BY DEF Delegations
  <2>4. members[InOrder(S)[i]] \in Nat /\ members[InOrder(S)[i]] <= w
    BY <2>2 DEF TypeOK, MembersWithin
  <2> QED BY <2>3, <2>4
<1> HIDE DEF n, ds, S
<1> DEFINE G == {k \in Nat : k <= n => WeightTo(ds, k) <= w * k}
<1>5. 0 \in G
  <2>1. 1..0 = {}
    OBVIOUS
  <2>2. WeightTo(ds, 0) = 0
    BY <2>1, SumEmpty DEF WeightTo
  <2> QED BY <2>2
<1>6. ASSUME NEW k \in Nat, k \in G
      PROVE  k + 1 \in G
  <2> SUFFICES ASSUME k + 1 <= n PROVE WeightTo(ds, k + 1) <= w * (k + 1)
    OBVIOUS
  <2>1. k \in 0..n /\ k + 1 \in 1..n
    BY <1>1
  <2>2. /\ WeightTo(ds, k + 1) = WeightTo(ds, k) + ds[k + 1].weight /\ WeightTo(ds, k) \in Nat
    BY <1>1, <2>1, WeightToType
  <2>3. WeightTo(ds, k) <= w * k
    BY <1>1, <1>6, <2>1
  <2>4. w * (k + 1) = w * k + w /\ w * k \in Nat
    OBVIOUS
  <2> DEFINE a == WeightTo(ds, k)  b == ds[k + 1].weight  c == w * k
  <2>5. a \in Nat /\ b \in Nat /\ c \in Nat /\ a <= c /\ b <= w
    BY <1>4, <2>1, <2>2, <2>3, <2>4
  <2>6. a + b <= c + w
    <3> HIDE DEF a, b, c
    <3> QED BY <2>5
  <2> QED BY <2>2, <2>4, <2>6
<1>7. n \in G
  <2> HIDE DEF G
  <2> QED BY <1>1, <1>5, <1>6, NumbersByInduction
<1>8. WeightTo(ds, n) <= w * n /\ TotalWeight(ds) = WeightTo(ds, n) /\ TotalWeight(ds) \in Nat
  BY <1>1, <1>7, TotalWeightIs
<1>9. w * n <= w * Cardinality(Validators)
  BY <1>1, <1>3
<1>10. w * Cardinality(Validators) <= Precision
  BY DEF WeightsWithin
<1>11. w * n \in Nat /\ w * Cardinality(Validators) \in Nat /\ Precision \in Nat
  BY <1>1, <1>3, PrecisionAssumption
<1>12. TotalWeight(ds) <= Precision
  <2> DEFINE a == w * n  b == w * Cardinality(Validators)  c == TotalWeight(ds)
  <2>1. c <= a /\ a <= b /\ b <= Precision /\ a \in Nat /\ b \in Nat /\ c \in Nat
    BY <1>8, <1>9, <1>10, <1>11
  <2> HIDE DEF a, b, c
  <2>2. c <= Precision
    BY <1>11, <2>1
  <2> QED BY <2>2 DEF c
<1> QED BY <1>12 DEF ds

LEMMA NextDepositAddsUp ==
  ASSUME NEW w \in Nat, WeightsWithin(w), MembersWithin(w), TypeOK, DepositAddsUp, [Next]_vars
  PROVE  DepositAddsUp'
<1>1. CASE PlanDelegate
  <2> PICK deposit \in Nat : /\ DepositSucceeds(deposit, Delegations)
                             /\ Send("Delegate", deposit, DepositPlan(deposit))
    BY <1>1, DepositOfPlan
  <2> DEFINE n == Cardinality(DOMAIN members)  items == DepositPlan(deposit)
  <2>1. deposit \in Nat /\ DepositSucceeds(deposit, Delegations)
    OBVIOUS
  <2>2. n \in Nat /\ Delegations \in [1..n -> Delegation]
    BY DelegationsType
  <2>3. items = CalcDeposit(deposit, Delegations)
    BY DEF DepositPlan
  <2>4. tx'.amount = deposit /\ tx'.items = items
    BY DEF Send
  <2>5. TotalWeight(Delegations) <= Precision
    BY WeightIsWithin
  <2> HIDE DEF n, items
  <2>6. TotalChange(items) = deposit
    BY <2>1, <2>2, <2>3, <2>5, DepositPlanned
  <2> QED BY <2>4, <2>6 DEF DepositAddsUp
<1>2. CASE \E withdraw \in Amounts : PlanUndelegate(withdraw)
  BY <1>2 DEF PlanUndelegate, Send, DepositAddsUp
<1>3. CASE tx'.kind = "none"
  BY <1>3 DEF DepositAddsUp
<1>4. CASE /\ tx'.kind = tx.kind /\ tx'.amount = tx.amount /\ tx'.items = tx.items
           /\ tx'.whole = tx.whole
  BY <1>4 DEF DepositAddsUp
<1> QED BY <1>1, <1>2, <1>3, <1>4, PlanOrNothing

(* calc_deposit: a deposit is handed out to the last token, with any stakes and any
   weights that are small enough for the precision of a Decimal. *)
THEOREM DepositAddsUpAlways ==
  ASSUME NEW w \in Nat, WeightsWithin(w)
  PROVE  Spec => []DepositAddsUp
<1> DEFINE Inv == TypeOK /\ MembersWithin(w) /\ DepositAddsUp
<1>1. Init => Inv
  <2>1. Init => MembersWithin(w)
    BY DEF Init, SetInit, MembersWithin
  <2>2. Init => DepositAddsUp
    BY DEF Init, NoTx, DepositAddsUp
  <2> QED BY <2>1, <2>2, InitTypeOK
<1>2. Inv /\ [Next]_vars => Inv'
  BY NextTypeOK, NextMembersWithin, NextDepositAddsUp
<1>3. Inv => DepositAddsUp
  OBVIOUS
<1> QED BY <1>1, <1>2, <1>3, PTL DEF Spec

=============================================================================
