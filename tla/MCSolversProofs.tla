--------------------------- MODULE MCSolversProofs --------------------------
(***************************************************************************)
(* The solvers, for every state space, every graph and every order of      *)
(* what the code leaves open.  DFS: current_actions and the stack fit      *)
(* together.  A*, BFS and DFS: no way to a final state is lost, and what   *)
(* they return is as short as promised.  The six solvers of the maximum    *)
(* independent set: what they return is independent, and maximal where     *)
(* the solver sees to it; what ramsey() returns is as large as Ramsey's    *)
(* theorem promises; and the tables of BMASolver hold independent paths.   *)
(***************************************************************************)
EXTENDS MCSolvers, SequenceTheorems, SetInduction

-----------------------------------------------------------------------------
(* DFS: the stack and current_actions. *)

\* How deep the i-th item of the stack lies.
DepthAt(i) == stack[i][2]

\* current_actions is as long as the way to the item last inspected, or to the
\* one on top of the stack, if that one is deeper; what is deeper is above.
ChainKept ==
  /\ stack # << >> =>
       Len(chain) = IF previousDepth > TopDepth THEN previousDepth ELSE TopDepth
  /\ \A i, j \in 1 .. Len(stack) : i <= j => DepthAt(i) <= DepthAt(j)

DepthTypes ==
  /\ next \in [States -> SUBSET States]
  /\ stack \in Seq(States \X Nat) /\ chain \in Seq(States) /\ previousDepth \in Nat
  /\ limit \in Nat

DepthLimited == \A i \in 1 .. Len(stack) : DepthAt(i) = 0 \/ DepthAt(i) <= limit - 1

DepthInv == DepthTypes /\ ChainKept /\ DepthLimited /\ StackContinues

\* Chain cuts current_actions by the difference of two depths, or not at all.
LEMMA MaxOfZero ==
  ASSUME NEW n \in Int
  PROVE  Max({0, n}) = IF n > 0 THEN n ELSE 0
<1> DEFINE m == IF n > 0 THEN n ELSE 0
<1>1. m \in {0, n} /\ \A y \in {0, n} : m >= y
  OBVIOUS
<1>2. \A x \in {0, n} : (\A y \in {0, n} : x >= y) => x = m
  OBVIOUS
<1> QED
  BY <1>1, <1>2 DEF Max

\* The first n elements of a list.
LEMMA CutOff ==
  ASSUME NEW S, NEW s \in Seq(S), NEW n \in Nat, n <= Len(s)
  PROVE  /\ SubSeq(s, 1, n) \in Seq(S) /\ Len(SubSeq(s, 1, n)) = n
         /\ \A i \in 1 .. n : SubSeq(s, 1, n)[i] = s[i]
<1>1. \A i \in 1 .. n : s[i] \in S
  OBVIOUS
<1> DEFINE c == SubSeq(s, 1, n)
<1>2. /\ c \in Seq(S)
      /\ Len(c) = IF 1 <= n THEN n - 1 + 1 ELSE 0
      /\ \A i \in 1 .. n - 1 + 1 : c[i] = s[1 + i - 1]
  BY <1>1, SubSeqProperties
<1> HIDE DEF c
<1>3. Len(c) = n
  BY <1>2
<1>4. ASSUME NEW i \in 1 .. n PROVE c[i] = s[i]
  <2>1. i \in 1 .. n - 1 + 1 /\ 1 + i - 1 = i
    OBVIOUS
  <2> QED
    BY <1>2, <2>1
<1> QED
  BY <1>2, <1>3, <1>4 DEF c

\* A list without its last element, which pop_back() takes.
LEMMA WithoutLast ==
  ASSUME NEW S, NEW s \in Seq(S), s # << >>
  PROVE  /\ Front(s) \in Seq(S) /\ Len(Front(s)) = Len(s) - 1
         /\ \A i \in 1 .. Len(s) - 1 : Front(s)[i] = s[i]
         /\ Len(s) \in Nat /\ Len(s) >= 1 /\ Last(s) = s[Len(s)] /\ Last(s) \in S
<1>1. Len(s) \in Nat /\ Len(s) >= 1 /\ Len(s) - 1 \in Nat /\ Len(s) - 1 <= Len(s)
  OBVIOUS
<1>2. /\ SubSeq(s, 1, Len(s) - 1) \in Seq(S) /\ Len(SubSeq(s, 1, Len(s) - 1)) = Len(s) - 1
      /\ \A i \in 1 .. Len(s) - 1 : SubSeq(s, 1, Len(s) - 1)[i] = s[i]
  BY <1>1, CutOff
<1> QED
  BY <1>1, <1>2 DEF Front, Last

\* The successors, pushed in any order, each once.
LEMMA ListOfSet ==
  ASSUME NEW S, IsFiniteSet(S)
  PROVE  /\ Cardinality(S) \in Nat
         /\ SetToSeq(S) \in [1 .. Cardinality(S) -> S] /\ IsInjective(SetToSeq(S))
         /\ \A x \in S : \E i \in 1 .. Cardinality(S) : SetToSeq(S)[i] = x
<1> DEFINE n == Cardinality(S)
           q == SetToSeq(S)
<1>1. Cardinality(S) \in Nat /\ ExistsBijection(1 .. Cardinality(S), S)
  BY FS_CardinalityType
<1>2. PICK f \in [1 .. Cardinality(S) -> S] : IsInjective(f)
  BY <1>1 DEF ExistsBijection, Bijection, Injection, IsInjective
<1>3. q \in [1 .. n -> S] /\ IsInjective(q)
  BY <1>2 DEF SetToSeq
<1> HIDE DEF q
<1>4. q \in Injection(1 .. n, S)
  BY <1>3 DEF Injection, IsInjective
<1>5. Cardinality(1 .. n) = n
  <2> HIDE DEF n
  <2>1. /\ Cardinality(1 .. n) = IF 1 > n THEN 0 ELSE n - 1 + 1
    BY <1>1, FS_Interval DEF n
  <2> QED
    BY <1>1, <2>1 DEF n
<1>6. Cardinality(1 .. n) = Cardinality(S) <=> q \in Surjection(1 .. n, S)
  BY <1>4, FS_Injection
<1>7. q \in Surjection(1 .. n, S)
  BY <1>5, <1>6
<1>8. \A x \in S : \E i \in 1 .. n : q[i] = x
  BY <1>7 DEF Surjection
<1> QED
  BY <1>1, <1>3, <1>8 DEF q

\* The top item.
LEMMA TopOf ==
  ASSUME DepthInv, stack # << >>
  PROVE  /\ Len(stack) \in Nat /\ Len(stack) >= 1
         /\ TopState \in States /\ TopDepth \in Nat /\ TopDepth <= Len(chain)
         /\ TopState = stack[Len(stack)][1] /\ TopDepth = DepthAt(Len(stack))
         /\ TopDepth = 0 => TopState = Start
         /\ TopDepth > 0 => chain[1] = Start /\ TopState \in next[chain[TopDepth]]
<1>1. stack \in Seq(States \X Nat) /\ chain \in Seq(States) /\ previousDepth \in Nat
  BY DEF DepthInv, DepthTypes
<1>2. /\ Len(stack) \in Nat /\ Len(stack) >= 1
      /\ Last(stack) = stack[Len(stack)] /\ Last(stack) \in States \X Nat
  BY <1>1, WithoutLast
<1>3. /\ TopState \in States /\ TopDepth \in Nat
      /\ TopState = stack[Len(stack)][1] /\ TopDepth = DepthAt(Len(stack))
  BY <1>2 DEF TopState, TopDepth, DepthAt
<1>4. Len(chain) = IF previousDepth > TopDepth THEN previousDepth ELSE TopDepth
  BY DEF DepthInv, ChainKept
<1>5. TopDepth <= Len(chain)
  BY <1>1, <1>3, <1>4
<1>6. Len(stack) \in 1 .. Len(stack)
  BY <1>2
<1>7. /\ TopDepth = 0 => TopState = Start
      /\ TopDepth # 0 => chain[1] = Start /\ TopState \in next[chain[TopDepth]]
  BY <1>3, <1>6 DEF DepthInv, StackContinues, DepthAt
<1> QED
  BY <1>2, <1>3, <1>5, <1>7

\* current_actions once it is cut and the action to the top item is added: as
\* many as the item is deep, and one.
LEMMA ChainIs ==
  ASSUME DepthInv, stack # << >>
  PROVE  /\ Chain \in Seq(States) /\ Len(Chain) = TopDepth + 1
         /\ \A i \in 1 .. TopDepth : Chain[i] = chain[i]
         /\ Chain[TopDepth + 1] = TopState /\ Chain[1] = Start
         /\ \A i \in 2 .. TopDepth + 1 : Chain[i] \in next[Chain[i - 1]]
<1>1. stack \in Seq(States \X Nat) /\ chain \in Seq(States) /\ previousDepth \in Nat
      /\ Len(chain) \in Nat
  BY DEF DepthInv, DepthTypes
<1>2. /\ TopState \in States /\ TopDepth \in Nat /\ TopDepth <= Len(chain)
      /\ TopDepth = 0 => TopState = Start
      /\ TopDepth > 0 => chain[1] = Start /\ TopState \in next[chain[TopDepth]]
  BY TopOf
<1>3. Len(chain) - Max({0, previousDepth - TopDepth}) = TopDepth
  <2>1. Len(chain) = IF previousDepth > TopDepth THEN previousDepth ELSE TopDepth
    BY DEF DepthInv, ChainKept
  <2>2. Max({0, previousDepth - TopDepth})
          = IF previousDepth - TopDepth > 0 THEN previousDepth - TopDepth ELSE 0
    BY <1>1, <1>2, MaxOfZero
  <2> QED
    BY <1>1, <1>2, <2>1, <2>2
<1> DEFINE k == TopDepth
           e == TopState
           c == SubSeq(chain, 1, k)
<1>4. Chain = Append(c, e)
  BY <1>3 DEF Chain
<1>5. c \in Seq(States) /\ Len(c) = k /\ \A i \in 1 .. k : c[i] = chain[i]
  BY <1>1, <1>2, CutOff
<1>6. k \in Nat /\ e \in States
  BY <1>2
<1> HIDE DEF c, k, e
<1>7. /\ Append(c, e) \in Seq(States) /\ Len(Append(c, e)) = Len(c) + 1
      /\ \A i \in 1 .. Len(c) : Append(c, e)[i] = c[i]
      /\ Append(c, e)[Len(c) + 1] = e
  BY <1>5, <1>6, AppendProperties
<1>8. /\ Chain \in Seq(States) /\ Len(Chain) = k + 1
      /\ \A i \in 1 .. k : Chain[i] = chain[i]
      /\ Chain[k + 1] = e
  BY <1>4, <1>5, <1>7
<1>9. Chain[1] = Start
  <2>1. CASE k = 0
    BY <1>2, <1>8, <2>1 DEF k, e
  <2>2. CASE k # 0
    <3>1. 1 \in 1 .. k
      BY <1>6, <2>2
    <3> QED
      BY <1>2, <1>6, <1>8, <2>2, <3>1 DEF k
  <2> QED
    BY <2>1, <2>2
<1>10. ASSUME NEW i \in 2 .. k + 1 PROVE Chain[i] \in next[Chain[i - 1]]
  <2>1. CASE i = k + 1
    <3>1. k > 0 /\ i - 1 = k /\ k \in 1 .. k
      BY <1>6, <2>1
    <3> QED
      BY <1>2, <1>8, <2>1, <3>1 DEF k, e
  <2>2. CASE i # k + 1
    <3>1. i \in 1 .. k /\ i - 1 \in 1 .. k /\ i \in 2 .. Len(chain)
      BY <1>1, <1>2, <1>6, <2>2 DEF k
    <3>2. chain[i] \in next[chain[i - 1]]
      BY <3>1 DEF DepthInv, StackContinues
    <3> QED
      BY <1>8, <3>1, <3>2
  <2> QED
    BY <2>1, <2>2
<1> QED
  BY <1>8, <1>9, <1>10 DEF k, e

\* The stack after a descent: the items below the top one, and the successors.
LEMMA Pushed ==
  ASSUME DepthInv, stack # << >>, Descend
  PROVE  /\ stack' \in Seq(States \X Nat) /\ Len(stack') >= Len(stack)
         /\ \A i \in 1 .. Len(stack) - 1 : stack'[i] = stack[i]
         /\ \A i \in Len(stack) .. Len(stack') :
              stack'[i][1] \in next[TopState] /\ stack'[i][2] = TopDepth + 1
         /\ \A r \in next[TopState] : \E i \in Len(stack) .. Len(stack') : stack'[i][1] = r
<1> DEFINE T == next[TopState]
           m == Cardinality(T)
           q == SetToSeq(T)
           d == TopDepth + 1
           new == [i \in 1 .. m |-> <<q[i], d>>]
           f == Front(stack)
           P == States \X Nat
<1>1. stack \in Seq(P) /\ next \in [States -> SUBSET States]
  BY DEF DepthInv, DepthTypes
<1>2. /\ TopState \in States /\ TopDepth \in Nat /\ d \in Nat
      /\ Len(stack) \in Nat /\ Len(stack) >= 1
  BY TopOf
<1>3. T \subseteq States /\ IsFiniteSet(T) /\ T # {}
  <2>1. T \subseteq States /\ T # {}
    BY <1>1, <1>2 DEF Descend, Deeper
  <2> QED
    BY <2>1, SpacesAssumption, FS_Subset DEF SpacesAssumption
<1> HIDE DEF T
<1>4. m \in Nat /\ q \in [1 .. m -> T] /\ \A r \in T : \E i \in 1 .. m : q[i] = r
  BY <1>3, ListOfSet
<1>5. m >= 1
  BY <1>3, <1>4, FS_EmptySet
<1> HIDE DEF q, m, d
<1>6. \A i \in 1 .. m : <<q[i], d>> \in P
  BY <1>2, <1>3, <1>4
<1>7. new \in Seq(P) /\ Len(new) = m /\ \A i \in 1 .. m : new[i] = <<q[i], d>>
  <2>1. new \in [1 .. m -> P]
    BY <1>6
  <2> QED
    BY <1>4, <2>1
<1>8. /\ f \in Seq(P) /\ Len(f) = Len(stack) - 1
      /\ \A i \in 1 .. Len(stack) - 1 : f[i] = stack[i]
  <2> HIDE DEF P
  <2> QED
    BY <1>1, WithoutLast
<1>9. stack' = f \o new
  BY DEF Descend, T, m, q, d
<1> HIDE DEF new, f, P
<1>10. /\ f \o new \in Seq(P) /\ Len(f \o new) = Len(f) + Len(new)
       /\ \A i \in 1 .. Len(f) + Len(new) :
            (f \o new)[i] = IF i <= Len(f) THEN f[i] ELSE new[i - Len(f)]
  BY <1>7, <1>8, ConcatProperties
<1>11. /\ stack' \in Seq(P) /\ Len(stack') = Len(stack) - 1 + m
       /\ \A i \in 1 .. Len(stack') :
            stack'[i] = IF i <= Len(stack) - 1 THEN f[i] ELSE new[i - (Len(stack) - 1)]
  BY <1>7, <1>8, <1>9, <1>10
<1>12. \A i \in 1 .. Len(stack) - 1 : stack'[i] = stack[i]
  <2>1. \A i \in 1 .. Len(stack) - 1 : i \in 1 .. Len(stack')
    BY <1>2, <1>4, <1>5, <1>11
  <2> QED
    BY <1>8, <1>11, <2>1
<1>13. ASSUME NEW i \in Len(stack) .. Len(stack')
       PROVE  stack'[i][1] \in T /\ stack'[i][2] = d
  <2> DEFINE j == i - (Len(stack) - 1)
  <2>1. i \in 1 .. Len(stack') /\ ~(i <= Len(stack) - 1) /\ j \in 1 .. m
    BY <1>2, <1>4, <1>11
  <2>2. stack'[i] = <<q[j], d>>
    BY <1>7, <1>11, <2>1
  <2> QED
    BY <1>4, <2>1, <2>2
<1>14. stack' \in Seq(States \X Nat)
  BY <1>11 DEF P
<1>15. Len(stack') >= Len(stack)
  <2>1. Len(stack') = Len(stack) - 1 + m
    BY <1>11
  <2> QED
    BY <1>2, <1>4, <1>5, <2>1
<1>16. ASSUME NEW r \in T
       PROVE  \E i \in Len(stack) .. Len(stack') : stack'[i][1] = r
  <2>1. PICK j \in 1 .. m : q[j] = r
    BY <1>4
  <2> DEFINE i == j + (Len(stack) - 1)
  <2>2. /\ i \in Len(stack) .. Len(stack') /\ i \in 1 .. Len(stack')
        /\ ~(i <= Len(stack) - 1) /\ i - (Len(stack) - 1) = j
    BY <1>2, <1>4, <1>11
  <2> HIDE DEF i
  <2>3. stack'[i] = new[j]
    BY <1>11, <2>2
  <2>4. stack'[i][1] = r
    BY <1>7, <2>1, <2>3
  <2> QED
    BY <2>2, <2>4
<1> QED
  BY <1>12, <1>13, <1>14, <1>15, <1>16 DEF T, d

\* After an inspection, every item of the stack that is not deeper than the one
\* inspected continues from the chain.
LEMMA DescendKeeps ==
  ASSUME DepthInv, stack # << >>, Descend
  PROVE  DepthInv'
<1> DEFINE k == TopDepth
           n == Len(stack)
<1>1. /\ stack \in Seq(States \X Nat) /\ next \in [States -> SUBSET States] /\ limit \in Nat
      /\ \A i, j \in 1 .. n : i <= j => DepthAt(i) <= DepthAt(j)
  BY DEF DepthInv, DepthTypes, ChainKept
<1>2. next' = next /\ limit' = limit /\ chain' = Chain /\ previousDepth' = k /\ k < limit - 1
  BY DEF Descend, Deeper, problemVars
<1>3. n \in Nat /\ n >= 1 /\ k \in Nat /\ k = DepthAt(n)
  BY TopOf
<1>4. /\ Chain \in Seq(States) /\ Len(Chain) = k + 1
      /\ \A i \in 1 .. k : Chain[i] = chain[i]
      /\ Chain[k + 1] = TopState /\ Chain[1] = Start
      /\ \A i \in 2 .. k + 1 : Chain[i] \in next[Chain[i - 1]]
  BY ChainIs
<1>5. /\ stack' \in Seq(States \X Nat) /\ Len(stack') >= n /\ Len(stack') \in Nat
      /\ \A i \in 1 .. n - 1 : stack'[i] = stack[i]
      /\ \A i \in n .. Len(stack') : stack'[i][1] \in next[TopState] /\ stack'[i][2] = k + 1
  BY Pushed
<1> DEFINE l == Len(stack')
<1>6. DepthTypes'
  BY <1>1, <1>2, <1>3, <1>4, <1>5 DEF DepthTypes
<1>7. \A i \in 1 .. n - 1 : DepthAt(i)' = DepthAt(i) /\ DepthAt(i) \in Nat /\ DepthAt(i) <= k
  <2>1. \A i \in 1 .. n - 1 : i \in 1 .. n /\ n \in 1 .. n /\ i <= n /\ stack[i] \in States \X Nat
    BY <1>1, <1>3
  <2> QED
    BY <1>1, <1>3, <1>5, <2>1 DEF DepthAt
<1>8. \A i \in n .. l : DepthAt(i)' = k + 1
  BY <1>5 DEF DepthAt
<1> HIDE DEF k, n
<1>9. ChainKept'
  <2>1. TopDepth' = k + 1
    <3>1. l \in n .. l
      BY <1>3, <1>5
    <3> QED
      BY <1>5, <3>1 DEF TopDepth, Last
  <2>2. Len(chain') = k + 1 /\ ~(previousDepth' > k + 1)
    BY <1>2, <1>3, <1>4
  <2>3. ASSUME NEW i \in 1 .. l, NEW j \in 1 .. l, i <= j
        PROVE  DepthAt(i)' <= DepthAt(j)'
    <3>1. CASE j \in n .. l
      <4>1. CASE i \in n .. l
        BY <1>3, <1>8, <3>1, <4>1
      <4>2. CASE i \in 1 .. n - 1
        BY <1>3, <1>7, <1>8, <3>1, <4>2
      <4> QED
        BY <1>3, <1>5, <4>1, <4>2
    <3>2. CASE j \in 1 .. n - 1
      <4>1. i \in 1 .. n - 1 /\ i \in 1 .. n /\ j \in 1 .. n
        BY <1>3, <2>3, <3>2
      <4>2. DepthAt(i) <= DepthAt(j)
        BY <1>1, <2>3, <4>1 DEF n
      <4> QED
        BY <1>7, <3>2, <4>1, <4>2
    <3> QED
      BY <1>3, <1>5, <3>1, <3>2
  <2> QED
    BY <2>1, <2>2, <2>3 DEF ChainKept
<1>10. ASSUME NEW i \in 1 .. l
       PROVE  DepthAt(i)' = 0 \/ DepthAt(i)' <= limit' - 1
  <2>1. CASE i \in 1 .. n - 1
    <3>1. i \in 1 .. n
      BY <1>3, <2>1
    <3> QED
      BY <1>2, <1>7, <2>1, <3>1 DEF DepthInv, DepthLimited, n
  <2>2. CASE i \in n .. l
    BY <1>1, <1>2, <1>3, <1>8, <2>2
  <2> QED
    BY <1>3, <1>5, <2>1, <2>2
<1>11. ASSUME NEW i \in 1 .. l
       PROVE  IF DepthAt(i)' = 0 THEN stack'[i][1] = Start
              ELSE /\ DepthAt(i)' <= Len(chain') /\ chain'[1] = Start
                   /\ stack'[i][1] \in next'[chain'[DepthAt(i)']]
  <2>1. CASE i \in 1 .. n - 1
    <3>1. i \in 1 .. n /\ stack'[i] = stack[i]
      BY <1>3, <1>5, <2>1
    <3>2. IF DepthAt(i) = 0 THEN stack[i][1] = Start
          ELSE stack[i][1] \in next[chain[DepthAt(i)]]
      BY <3>1 DEF DepthInv, StackContinues, n, DepthAt
    <3>3. CASE DepthAt(i) = 0
      BY <1>7, <2>1, <3>1, <3>2, <3>3
    <3>4. CASE DepthAt(i) # 0
      <4>1. DepthAt(i) \in 1 .. k /\ DepthAt(i) <= k + 1
        BY <1>3, <1>7, <2>1, <3>4
      <4> QED
        BY <1>2, <1>4, <1>7, <2>1, <3>1, <3>2, <3>4, <4>1
    <3> QED
      BY <3>3, <3>4
  <2>2. CASE i \in n .. l
    <3>1. DepthAt(i)' = k + 1 /\ k + 1 # 0 /\ stack'[i][1] \in next[TopState]
      BY <1>3, <1>5, <1>8, <2>2
    <3> QED
      BY <1>2, <1>3, <1>4, <3>1
  <2> QED
    BY <1>3, <1>5, <2>1, <2>2
<1>12. \A i \in 2 .. Len(chain') : chain'[i] \in next'[chain'[i - 1]]
  BY <1>2, <1>4
<1> QED
  BY <1>6, <1>9, <1>10, <1>11, <1>12 DEF DepthInv, DepthLimited, StackContinues, DepthAt

\* After a dead end, the search goes on with an item that is no deeper.
LEMMA DeadEndKeeps ==
  ASSUME DepthInv, stack # << >>, DeadEnd
  PROVE  DepthInv'
<1> DEFINE k == TopDepth
           n == Len(stack)
           P == States \X Nat
<1>1. /\ stack \in Seq(P) /\ next \in [States -> SUBSET States] /\ limit \in Nat
      /\ \A i, j \in 1 .. n : i <= j => DepthAt(i) <= DepthAt(j)
  BY DEF DepthInv, DepthTypes, ChainKept
<1>2. /\ next' = next /\ limit' = limit /\ chain' = Front(Chain)
      /\ previousDepth' = k /\ stack' = Front(stack)
  BY DEF DeadEnd, problemVars
<1>3. n \in Nat /\ n >= 1 /\ k \in Nat /\ k = DepthAt(n)
  BY TopOf
<1>4. /\ Chain \in Seq(States) /\ Len(Chain) = k + 1
      /\ \A i \in 1 .. k : Chain[i] = chain[i]
      /\ Chain[1] = Start
      /\ \A i \in 2 .. k + 1 : Chain[i] \in next[Chain[i - 1]]
  BY ChainIs
<1>5. /\ stack' \in Seq(P) /\ Len(stack') = n - 1
      /\ \A i \in 1 .. n - 1 : stack'[i] = stack[i]
  <2> HIDE DEF P
  <2> QED
    BY <1>1, <1>2, WithoutLast
<1>6. /\ chain' \in Seq(States) /\ Len(chain') = k
      /\ \A i \in 1 .. k : chain'[i] = Chain[i]
  <2>1. Chain # << >>
    BY <1>3, <1>4
  <2>2. /\ Front(Chain) \in Seq(States) /\ Len(Front(Chain)) = Len(Chain) - 1
        /\ \A i \in 1 .. Len(Chain) - 1 : Front(Chain)[i] = Chain[i]
    BY <1>4, <2>1, WithoutLast
  <2>3. Len(Chain) - 1 = k
    BY <1>3, <1>4
  <2> QED
    BY <1>2, <2>2, <2>3
<1>7. \A i \in 1 .. n - 1 : DepthAt(i)' = DepthAt(i) /\ DepthAt(i) \in Nat /\ DepthAt(i) <= k
  <2>1. \A i \in 1 .. n - 1 : i \in 1 .. n /\ n \in 1 .. n /\ i <= n /\ stack[i] \in P
    BY <1>1, <1>3
  <2> QED
    BY <1>1, <1>3, <1>5, <2>1 DEF DepthAt
<1>8. DepthTypes'
  BY <1>1, <1>2, <1>3, <1>5, <1>6 DEF DepthTypes
<1> HIDE DEF k, n, P
<1>9. ChainKept'
  <2>1. ASSUME stack' # << >>
        PROVE  TopDepth' \in Nat /\ TopDepth' <= k
    <3>1. Len(stack') # 0
      BY <1>5, <2>1, EmptySeq
    <3>2. n - 1 \in 1 .. n - 1
      BY <1>3, <1>5, <3>1
    <3>3. TopDepth' = stack'[n - 1][2]
      BY <1>5 DEF TopDepth, Last
    <3>4. \A i \in 1 .. n - 1 : stack'[i][2] \in Nat /\ stack'[i][2] <= k
      BY <1>7 DEF DepthAt
    <3> QED
      BY <3>2, <3>3, <3>4
  <2>2. stack' # << >> =>
          Len(chain') = IF previousDepth' > TopDepth' THEN previousDepth' ELSE TopDepth'
    BY <1>2, <1>3, <1>6, <2>1
  <2>3. ASSUME NEW i \in 1 .. Len(stack'), NEW j \in 1 .. Len(stack'), i <= j
        PROVE  DepthAt(i)' <= DepthAt(j)'
    <3>1. i \in 1 .. n - 1 /\ j \in 1 .. n - 1 /\ i \in 1 .. n /\ j \in 1 .. n
      BY <1>3, <1>5
    <3>2. DepthAt(i) <= DepthAt(j)
      BY <1>1, <2>3, <3>1 DEF n
    <3> QED
      BY <1>7, <3>1, <3>2
  <2> QED
    BY <2>2, <2>3 DEF ChainKept
<1>10. ASSUME NEW i \in 1 .. Len(stack')
       PROVE  DepthAt(i)' = 0 \/ DepthAt(i)' <= limit' - 1
  <2>1. i \in 1 .. n - 1 /\ i \in 1 .. n
    BY <1>3, <1>5
  <2> QED
    BY <1>2, <1>7, <2>1 DEF DepthInv, DepthLimited, n
<1>11. ASSUME NEW i \in 1 .. Len(stack')
       PROVE  IF DepthAt(i)' = 0 THEN stack'[i][1] = Start
              ELSE /\ DepthAt(i)' <= Len(chain') /\ chain'[1] = Start
                   /\ stack'[i][1] \in next'[chain'[DepthAt(i)']]
  <2>1. i \in 1 .. n - 1 /\ i \in 1 .. n /\ stack'[i] = stack[i]
    BY <1>3, <1>5
  <2>2. IF DepthAt(i) = 0 THEN stack[i][1] = Start
        ELSE stack[i][1] \in next[chain[DepthAt(i)]]
    BY <2>1 DEF DepthInv, StackContinues, n, DepthAt
  <2>3. CASE DepthAt(i) = 0
    BY <1>7, <2>1, <2>2, <2>3
  <2>4. CASE DepthAt(i) # 0
    <3>1. DepthAt(i) \in 1 .. k /\ 1 \in 1 .. k
      BY <1>3, <1>7, <2>1, <2>4
    <3>2. /\ \A j \in 1 .. k : chain'[j] = chain[j] /\ j <= Len(chain')
          /\ chain'[1] = Start
      BY <1>3, <1>4, <1>6, <3>1
    <3> QED
      BY <1>2, <1>7, <2>1, <2>2, <2>4, <3>1, <3>2
  <2> QED
    BY <2>3, <2>4
<1>12. ASSUME NEW i \in 2 .. Len(chain')
       PROVE  chain'[i] \in next'[chain'[i - 1]]
  <2>1. i \in 2 .. k + 1 /\ i \in 1 .. k /\ i - 1 \in 1 .. k
    BY <1>3, <1>6
  <2> QED
    BY <1>2, <1>4, <1>6, <2>1
<1> QED
  BY <1>8, <1>9, <1>10, <1>11, <1>12 DEF DepthInv, DepthLimited, StackContinues, DepthAt

\* What DepthFirst returns: a way to a final state, within the limit.
DepthSolution ==
  IsSolution(solution) /\ Len(solution) <= Max({limit, 1})

\* The actions of the chain, and the one that leads to a final state.
LEMMA FinishSolves ==
  ASSUME DepthInv, DepthFinish
  PROVE  DepthSolution'
<1> DEFINE k == TopDepth
<1>1. PICK g \in next[TopState] \cap goals : Found(Append(Tail(Chain), g))
  BY DEF DepthFinish
<1>2. stack # << >> /\ UNCHANGED <<next, goals, limit>>
  BY DEF DepthFinish, problemVars, depthVars
<1>3. /\ k \in Nat /\ TopState \in States /\ Len(stack) \in Nat /\ Len(stack) >= 1
      /\ k = DepthAt(Len(stack))
  BY <1>2, TopOf
<1>4. g \in States /\ limit \in Nat
  BY <1>3 DEF DepthInv, DepthTypes
<1>5. /\ Chain \in Seq(States) /\ Len(Chain) = k + 1
      /\ Chain[k + 1] = TopState /\ Chain[1] = Start
      /\ \A i \in 2 .. k + 1 : Chain[i] \in next[Chain[i - 1]]
  BY <1>2, ChainIs
<1> DEFINE t == Tail(Chain)
           a == Append(t, g)
           w == <<Start>> \o a
<1>6. solution' = a
  BY <1>1 DEF Found
<1> HIDE DEF k
<1>7. t \in Seq(States) /\ Len(t) = k /\ \A i \in 1 .. k : t[i] = Chain[i + 1]
  <2>1. Chain # << >>
    BY <1>3, <1>5
  <2>2. /\ Tail(Chain) \in Seq(States) /\ Len(Tail(Chain)) = Len(Chain) - 1
        /\ \A i \in 1 .. Len(Tail(Chain)) : Tail(Chain)[i] = Chain[i + 1]
    BY <1>5, <2>1, HeadTailProperties
  <2> QED
    BY <1>3, <1>5, <2>2
<1> HIDE DEF t
<1>8. /\ a \in Seq(States) /\ Len(a) = k + 1
      /\ \A i \in 1 .. k : a[i] = Chain[i + 1]
      /\ a[k + 1] = g
  <2>1. /\ Append(t, g) \in Seq(States) /\ Len(Append(t, g)) = Len(t) + 1
        /\ \A i \in 1 .. Len(t) : Append(t, g)[i] = t[i]
        /\ Append(t, g)[Len(t) + 1] = g
    BY <1>4, <1>7, AppendProperties
  <2> QED
    BY <1>7, <2>1
<1> HIDE DEF a
<1>9. /\ w \in Seq(States) /\ Len(w) = k + 2
      /\ \A i \in 1 .. k + 2 : w[i] = IF i = 1 THEN Start ELSE a[i - 1]
  <2>1. /\ <<Start>> \in Seq(States) /\ Len(<<Start>>) = 1 /\ <<Start>>[1] = Start
    BY SpacesAssumption DEF SpacesAssumption
  <2>2. /\ <<Start>> \o a \in Seq(States) /\ Len(<<Start>> \o a) = Len(<<Start>>) + Len(a)
        /\ \A i \in 1 .. Len(<<Start>>) + Len(a) :
              (<<Start>> \o a)[i] = IF i <= Len(<<Start>>) THEN <<Start>>[i]
                                   ELSE a[i - Len(<<Start>>)]
    BY <1>8, <2>1, ConcatProperties
  <2> QED
    BY <1>3, <1>8, <2>1, <2>2
<1> HIDE DEF w
<1>10. /\ \A i \in 1 .. k + 1 : w[i] = Chain[i]
       /\ w[k + 2] = g
  <2>1. ASSUME NEW i \in 1 .. k + 1 PROVE w[i] = Chain[i]
    <3>1. CASE i = 1
      BY <1>3, <1>5, <1>9, <3>1
    <3>2. CASE i # 1
      <4>1. i - 1 \in 1 .. k /\ i \in 1 .. k + 2 /\ i - 1 + 1 = i
        BY <1>3, <3>2
      <4> QED
        BY <1>8, <1>9, <3>2, <4>1
    <3> QED
      BY <3>1, <3>2
  <2> QED
    BY <1>3, <1>8, <1>9, <2>1
<1>11. ASSUME NEW i \in 1 .. k + 1 PROVE w[i + 1] \in next[w[i]]
  <2>1. CASE i = k + 1
    BY <1>1, <1>3, <1>5, <1>10, <2>1
  <2>2. CASE i # k + 1
    <3>1. i + 1 \in 2 .. k + 1 /\ i + 1 \in 1 .. k + 1 /\ i + 1 - 1 = i
      BY <1>3, <2>2
    <3> QED
      BY <1>5, <1>10, <3>1
  <2> QED
    BY <2>1, <2>2
<1>12. Last(w) \in goals
  BY <1>1, <1>3, <1>9, <1>10 DEF Last
<1>13. IsSolution(solution)'
  BY <1>2, <1>6, <1>8, <1>11, <1>12 DEF IsSolution, w
<1>14. k + 1 <= Max({limit, 1})
  <2>1. k = 0 \/ k <= limit - 1
    <3>1. Len(stack) \in 1 .. Len(stack)
      BY <1>3
    <3> QED
      BY <1>3, <3>1 DEF DepthInv, DepthLimited, k
  <2>2. Max({limit, 1}) = IF limit >= 1 THEN limit ELSE 1
    <3> DEFINE m == IF limit >= 1 THEN limit ELSE 1
    <3>1. m \in {limit, 1} /\ \A y \in {limit, 1} : m >= y
      BY <1>4
    <3>2. \A x \in {limit, 1} : (\A y \in {limit, 1} : x >= y) => x = m
      BY <1>4
    <3> QED
      BY <3>1, <3>2 DEF Max
  <2> QED
    BY <1>3, <1>4, <2>1, <2>2
<1> QED
  BY <1>2, <1>6, <1>8, <1>13, <1>14 DEF DepthSolution

-----------------------------------------------------------------------------
(* The runs of DFS. *)

DepthRunInv ==
  /\ DepthInv
  /\ solver = "DFS" /\ outcome = "found" => DepthSolution

\* The empty list of actions solves a game that is won at the start.
LEMMA StartSolves ==
  ASSUME NEW final, Start \in final, goals = final, solution = << >>, limit \in Nat
  PROVE  DepthSolution
<1>1. <<Start>> \o << >> = <<Start>>
  <2>1. <<Start>> \in Seq(States)
    BY SpacesAssumption DEF SpacesAssumption
  <2> QED
    BY <2>1, ConcatEmptySeq
<1>2. Len(<<Start>>) = 1 /\ <<Start>>[1] = Start /\ Len(<< >>) = 0
  OBVIOUS
<1>3. IsSolution(<< >>)
  BY <1>1, <1>2 DEF IsSolution, Last
<1>4. 0 <= Max({limit, 1})
  <2>1. limit = 0 => Max({limit, 1}) = 1
    BY MaxOfZero
  <2>2. limit # 0 => Max({limit, 1}) = limit
    <3>1. ASSUME limit # 0
          PROVE  limit \in {limit, 1} /\ \A y \in {limit, 1} : limit >= y
      BY <3>1
    <3>2. ASSUME limit # 0
          PROVE  \A x \in {limit, 1} : (\A y \in {limit, 1} : x >= y) => x = limit
      BY <3>2
    <3> QED
      BY <3>1, <3>2 DEF Max
  <2> QED
    BY <2>1, <2>2
<1> QED
  BY <1>2, <1>3, <1>4 DEF DepthSolution

\* With one item on the stack, or none.
LEMMA DepthStarts ==
  ASSUME next \in [States -> SUBSET States], limit \in Nat, chain = << >>, previousDepth = 0,
         stack = <<<<Start, 0>>>> \/ stack = << >>
  PROVE  DepthInv
<1>1. /\ stack \in Seq(States \X Nat) /\ Len(stack) \in {0, 1} /\ chain \in Seq(States)
      /\ Len(chain) = 0
      /\ \A i \in 1 .. Len(stack) : stack[i][1] = Start /\ stack[i][2] = 0
  <2> DEFINE e == <<Start, 0>>
             P == States \X Nat
  <2>1. e \in P /\ e[1] = Start /\ e[2] = 0
    BY SpacesAssumption DEF SpacesAssumption
  <2>2. stack = <<e>> \/ stack = << >>
    OBVIOUS
  <2> HIDE DEF e, P
  <2>3. CASE stack = << >>
    <3>1. << >> \in Seq(P) /\ << >> \in Seq(States) /\ Len(<< >>) = 0
      OBVIOUS
    <3>2. \A i \in 1 .. 0 : stack[i][1] = Start /\ stack[i][2] = 0
      OBVIOUS
    <3> QED
      BY <2>3, <3>1, <3>2 DEF P
  <2>4. CASE stack = <<e>>
    <3>1. <<e>> \in Seq(P) /\ Len(<<e>>) = 1 /\ <<e>>[1] = e
      BY <2>1
    <3>2. << >> \in Seq(States) /\ Len(<< >>) = 0
      OBVIOUS
    <3>3. \A i \in 1 .. 1 : stack[i] = e
      BY <2>4, <3>1
    <3> QED
      BY <2>1, <2>4, <3>1, <3>2, <3>3 DEF P
  <2> QED
    BY <2>2, <2>3, <2>4
<1>2. DepthTypes
  BY <1>1 DEF DepthTypes
<1>3. stack # << >> => TopDepth = 0
  BY <1>1 DEF TopDepth, Last
<1>4. ChainKept
  BY <1>1, <1>3 DEF ChainKept, DepthAt
<1> QED
  BY <1>1, <1>2, <1>4 DEF DepthInv, DepthLimited, StackContinues, DepthAt

\* What holds at the start of DFS, and while another solver runs.
LEMMA RunStarts ==
  Init => DepthRunInv
<1> SUFFICES ASSUME Init PROVE DepthRunInv
  OBVIOUS
<1>1. CASE InitSearch
  <2>1. PICK space \in Spaces, final \in GoalSets : ProblemStart(space, final)
    BY <1>1 DEF InitSearch
  <2>2. next \in [States -> SUBSET States]
    BY <2>1, SpacesAssumption DEF ProblemStart, SpacesAssumption
  <2>3. CASE solver = "DFS"
    <3>1. PICK l \in Limits : DepthStart(l)
      BY <1>1, <2>3 DEF InitSearch
    <3>2. limit \in Nat
      BY <3>1, LimitsAssumption DEF DepthStart, LimitsAssumption
    <3>3. DepthInv
      BY <2>2, <3>1, <3>2, DepthStarts DEF DepthStart
    <3>4. outcome = "found" => DepthSolution
      BY <2>1, <3>2, StartSolves DEF ProblemStart
    <3> QED
      BY <3>3, <3>4 DEF DepthRunInv
  <2>4. CASE solver # "DFS"
    <3>1. limit = 0 /\ stack = << >> /\ chain = << >> /\ previousDepth = 0
      BY <2>4 DEF Init, Idle
    <3> QED
      BY <2>2, <2>4, <3>1, DepthStarts DEF DepthRunInv
  <2> QED
    BY <2>3, <2>4
<1>2. CASE InitMis
  <2>1. solver \notin Strategies /\ solver # "DFS"
    BY <1>2 DEF InitMis, MisSolvers, Strategies
  <2>2. ProblemStart(SpaceOf({}), {Start})
    BY <2>1 DEF Init, Idle
  <2>3. next \in [States -> SUBSET States]
    BY <2>2 DEF ProblemStart, SpaceOf
  <2>4. limit = 0 /\ stack = << >> /\ chain = << >> /\ previousDepth = 0
    BY <2>1 DEF Init, Idle
  <2> QED
    BY <2>1, <2>3, <2>4, DepthStarts DEF DepthRunInv
<1> QED
  BY <1>1, <1>2 DEF Init

\* While nothing is done to the stack and the problem.
LEMMA DepthStays ==
  ASSUME DepthInv, UNCHANGED <<next, depthVars>>
  PROVE  DepthInv'
<1>1. UNCHANGED <<next, limit, stack, chain, previousDepth>>
  BY DEF depthVars
<1>2. UNCHANGED TopDepth
  BY <1>1 DEF TopDepth, Last
<1> QED
  BY <1>1, <1>2 DEF DepthInv, DepthTypes, ChainKept, DepthLimited, StackContinues, DepthAt

\* Every step keeps it.
LEMMA RunKeeps ==
  ASSUME DepthRunInv, [Next]_vars
  PROVE  DepthRunInv'
<1>1. DepthInv
  BY DEF DepthRunInv
<1>2. ASSUME UNCHANGED <<next, depthVars>>, solver' = solver,
             solver = "DFS" => outcome' # "found"
      PROVE  DepthRunInv'
  BY <1>1, <1>2, DepthStays DEF DepthRunInv
<1>3. ASSUME UNCHANGED searchVars, solver' = solver
      PROVE  DepthRunInv'
  <2>1. UNCHANGED <<next, goals, solution, outcome, limit, depthVars>>
    BY <1>3 DEF searchVars, problemVars, depthVars
  <2>2. DepthSolution => DepthSolution'
    BY <2>1 DEF DepthSolution, IsSolution
  <2> QED
    BY <1>1, <1>3, <2>1, <2>2, DepthStays DEF DepthRunInv
<1>4. CASE solver = "DFS" /\ Search
  <2>1. DepthNext /\ solver' = solver
    BY <1>4 DEF Search
  <2>2. CASE DepthFinish
    <3>1. UNCHANGED <<next, depthVars>>
      BY <2>2 DEF DepthFinish, problemVars
    <3> QED
      BY <1>1, <2>2, <3>1, FinishSolves, DepthStays DEF DepthRunInv
  <2>3. CASE Descend
    <3>1. stack # << >> /\ outcome' # "found"
      BY <2>3 DEF Descend, Inspect, Searching
    <3> QED
      BY <1>1, <2>3, <3>1, DescendKeeps DEF DepthRunInv
  <2>4. CASE DeadEnd
    <3>1. stack # << >> /\ outcome' # "found"
      BY <2>4 DEF DeadEnd, Inspect, Searching
    <3> QED
      BY <1>1, <2>4, <3>1, DeadEndKeeps DEF DepthRunInv
  <2>5. CASE DepthFails
    BY <1>2, <2>1, <2>5 DEF DepthFails, NotFound, problemVars
  <2> QED
    BY <2>1, <2>2, <2>3, <2>4, <2>5 DEF DepthNext
<1>5. CASE solver # "DFS" /\ Search
  <2>1. solver' = solver /\ UNCHANGED depthVars
    BY <1>5 DEF Search
  <2>2. next' = next
    <3>1. AStarNext => next' = next
      BY DEF AStarNext, SkipOutdated, Expand, Finish, AStarFails, problemVars
    <3>2. BreadthNext => next' = next
      BY DEF BreadthNext, BreadthFinish, Discover, BreadthFails, problemVars
    <3> QED
      BY <1>5, <3>1, <3>2 DEF Search
  <2> QED
    BY <1>2, <1>5, <2>1, <2>2
<1>6. CASE GiveUp
  BY <1>2, <1>6 DEF GiveUp, OutOfMemory, NotFound, problemVars
<1>7. CASE Solve
  BY <1>3, <1>7 DEF Solve
<1>8. CASE UNCHANGED vars
  BY <1>3, <1>8 DEF vars
<1> QED
  BY <1>4, <1>5, <1>6, <1>7, <1>8 DEF Next

\* DFS's inductive invariant: current_actions and the stack fit together whatever
\* order the successors are pushed in (DepthFirstSearch::solve()).
THEOREM SolversDepthInvariant ==
  Spec => []DepthRunInv
BY RunStarts, RunKeeps, PTL DEF Spec

\* Whenever DFS takes an item of the stack, current_actions, cut to its depth,
\* leads to it (DepthFirstSearch::solve()): no actions of a dead end are left.
THEOREM SolversStackContinues ==
  Spec => []StackContinues
<1>1. DepthRunInv => StackContinues
  BY DEF DepthRunInv, DepthInv
<1> QED
  BY <1>1, SolversDepthInvariant, PTL

\* What DFS returns solves the game, in as many actions as the limit allows, or one
\* (DepthFirstSearch::solve()).
THEOREM SolversDepthSolution ==
  Spec => [](solver = "DFS" /\ outcome = "found" => DepthSolution)
<1>1. DepthRunInv => (solver = "DFS" /\ outcome = "found" => DepthSolution)
  BY DEF DepthRunInv
<1> QED
  BY <1>1, SolversDepthInvariant, PTL

-----------------------------------------------------------------------------
(* The three search strategies: steps, distances and ways. *)

\* The states within some number of steps of s, where f gives the successors.
ReachBody(w, n, f, s) ==
  IF n = 0 THEN {s} ELSE w[n - 1] \cup UNION {f[x] : x \in w[n - 1]}

Reach(f, s) == CHOOSE w : w = [n \in Nat |-> ReachBody(w, n, f, s)]

\* The functions that give the successors.
SpaceFunctions == [States -> SUBSET States]

\* They are what the definition says.
LEMMA ReachIs ==
  ASSUME NEW f \in SpaceFunctions, NEW s \in States
  PROVE  /\ Reach(f, s) \in [Nat -> SUBSET States]
         /\ Reach(f, s)[0] = {s}
         /\ \A n \in Nat : Reach(f, s)[n + 1] =
              Reach(f, s)[n] \cup UNION {f[x] : x \in Reach(f, s)[n]}
<1> DEFINE D == Nat
           T == SUBSET States
           m == [n \in D |-> n]
           B == [p \in [D -> T] \X D |-> ReachBody(p[1], p[2], f, s)]
<1>1. m \in [D -> Nat] /\ \A n \in D : m[n] = n
  OBVIOUS
<1>2. \A w \in [D -> T], n \in D : ReachBody(w, n, f, s) \in T
  <2> SUFFICES ASSUME NEW w \in [D -> T], NEW n \in D PROVE ReachBody(w, n, f, s) \in T
    OBVIOUS
  <2>1. CASE n = 0
    BY <2>1 DEF ReachBody
  <2>2. CASE n # 0
    <3>1. w[n - 1] \in T
      BY <2>2
    <3>2. UNION {f[x] : x \in w[n - 1]} \in T
      BY <3>1 DEF SpaceFunctions
    <3> QED
      BY <2>2, <3>1, <3>2 DEF ReachBody
  <2> QED
    BY <2>1, <2>2
<1>3. ASSUME NEW w \in [D -> T], NEW v \in [D -> T], NEW n \in D,
             \A k \in D : m[k] < m[n] => w[k] = v[k]
      PROVE  ReachBody(w, n, f, s) = ReachBody(v, n, f, s)
  <2>1. n # 0 => w[n - 1] = v[n - 1]
    BY <1>1, <1>3
  <2> QED
    BY <2>1 DEF ReachBody
<1> HIDE DEF m
<1>4. /\ B \in [[D -> T] \X D -> T]
      /\ \A w \in [D -> T], n \in D : B[<<w, n>>] = ReachBody(w, n, f, s)
  <2> HIDE DEF D, T
  <2> QED
    BY <1>2
<1>5. Descending(B, D, T, m)
  <2>1. T # {}
    OBVIOUS
  <2> HIDE DEF D, T, B
  <2> QED
    BY <1>1, <1>3, <1>4, <2>1 DEF Descending
<1>6. PICK g \in Defines(B, D, T) : TRUE
  <2> HIDE DEF D, T, B
  <2> QED
    BY <1>5, Recursion
<1>7. g \in [D -> T] /\ \A n \in D : g[n] = ReachBody(g, n, f, s)
  BY <1>4, <1>6 DEF Defines
<1>8. g = [n \in Nat |-> ReachBody(g, n, f, s)]
  BY <1>7
<1> DEFINE P == Reach(f, s)
<1>9. P = [n \in Nat |-> ReachBody(P, n, f, s)]
  BY <1>8 DEF Reach
<1> HIDE DEF P
<1>10. DOMAIN P = Nat /\ \A n \in Nat : P[n] = ReachBody(P, n, f, s)
  BY <1>9
<1>11. P[0] = {s}
  BY <1>10 DEF ReachBody
<1>12. ASSUME NEW n \in Nat
       PROVE  P[n + 1] = P[n] \cup UNION {f[x] : x \in P[n]}
  <2>1. n + 1 \in Nat /\ n + 1 # 0 /\ (n + 1) - 1 = n
    OBVIOUS
  <2>2. P[n + 1] = ReachBody(P, n + 1, f, s)
    BY <1>10, <2>1
  <2> QED
    BY <2>1, <2>2 DEF ReachBody
<1>13. \A n \in Nat : P[n] \in T
  <2> DEFINE G == {n \in Nat : P[n] \in T}
  <2>1. 0 \in G
    BY <1>11
  <2>2. ASSUME NEW n \in Nat, n \in G PROVE n + 1 \in G
    <3>1. P[n] \in SUBSET States
      BY <2>2
    <3>2. UNION {f[x] : x \in P[n]} \in SUBSET States
      BY <3>1 DEF SpaceFunctions
    <3> QED
      BY <1>12, <3>1, <3>2
  <2> HIDE DEF G
  <2>3. Nat \subseteq G
    BY <2>1, <2>2, NatSetInduction
  <2> QED
    BY <2>3 DEF G
<1>14. P \in [Nat -> SUBSET States]
  <2>1. P = [n \in Nat |-> P[n]]
    BY <1>9, <1>10
  <2> QED
    BY <1>13, <2>1
<1> QED
  BY <1>11, <1>12, <1>14 DEF P

\* More steps reach more states,
LEMMA ReachGrows ==
  ASSUME NEW f \in SpaceFunctions, NEW s \in States, NEW n \in Nat, NEW k \in Nat, n <= k
  PROVE  Reach(f, s)[n] \subseteq Reach(f, s)[k]
<1> DEFINE R == Reach(f, s)
           G == {i \in Nat : R[n] \subseteq R[n + i]}
<1>1. \A i \in Nat : R[i + 1] = R[i] \cup UNION {f[x] : x \in R[i]}
  BY ReachIs
<1> HIDE DEF R
<1>2. 0 \in G
  OBVIOUS
<1>3. ASSUME NEW i \in Nat, i \in G PROVE i + 1 \in G
  <2>1. n + i \in Nat /\ n + (i + 1) = (n + i) + 1
    OBVIOUS
  <2>2. R[n + i] \subseteq R[(n + i) + 1]
    BY <1>1, <2>1
  <2> QED
    BY <1>3, <2>1, <2>2
<1> HIDE DEF G
<1>4. Nat \subseteq G
  BY <1>2, <1>3, NatSetInduction
<1>5. k - n \in Nat /\ n + (k - n) = k
  OBVIOUS
<1> QED
  BY <1>4, <1>5 DEF G, R

\* one after the other,
LEMMA ReachJoins ==
  ASSUME NEW f \in SpaceFunctions, NEW s \in States, NEW n \in Nat, NEW t \in Reach(f, s)[n],
         NEW k \in Nat
  PROVE  Reach(f, t)[k] \subseteq Reach(f, s)[n + k]
<1>1. t \in States
  BY ReachIs
<1> DEFINE R == Reach(f, s)
           Q == Reach(f, t)
           G == {i \in Nat : Q[i] \subseteq R[n + i]}
<1>2. /\ \A i \in Nat : R[i + 1] = R[i] \cup UNION {f[x] : x \in R[i]}
      /\ \A i \in Nat : Q[i + 1] = Q[i] \cup UNION {f[x] : x \in Q[i]}
      /\ Q[0] = {t} /\ t \in R[n]
  BY <1>1, ReachIs
<1> HIDE DEF R, Q
<1>3. 0 \in G
  BY <1>2
<1>4. ASSUME NEW i \in Nat, i \in G PROVE i + 1 \in G
  <2>1. n + i \in Nat /\ n + (i + 1) = (n + i) + 1
    OBVIOUS
  <2>2. Q[i] \subseteq R[n + i]
    BY <1>4
  <2>3. R[(n + i) + 1] = R[n + i] \cup UNION {f[x] : x \in R[n + i]}
    BY <1>2, <2>1
  <2>4. Q[i + 1] \subseteq R[n + (i + 1)]
    BY <1>2, <2>1, <2>2, <2>3
  <2> QED
    BY <2>4
<1> HIDE DEF G
<1>5. Nat \subseteq G
  BY <1>3, <1>4, NatSetInduction
<1> QED
  BY <1>5 DEF G, R, Q

\* the first one to a successor.
LEMMA ReachFirst ==
  ASSUME NEW f \in SpaceFunctions, NEW s \in States, NEW n \in Nat,
         NEW u \in Reach(f, s)[n + 1], u # s
  PROVE  \E r \in f[s] : u \in Reach(f, r)[n]
<1> DEFINE R == Reach(f, s)
           G == {i \in Nat : \A v \in R[i + 1] : v # s => \E r \in f[s] : v \in Reach(f, r)[i]}
<1>1. R[0] = {s} /\ \A i \in Nat : R[i + 1] = R[i] \cup UNION {f[x] : x \in R[i]}
  BY ReachIs
<1>2. \A r \in f[s] : /\ r \in States /\ Reach(f, r)[0] = {r}
                      /\ \A i \in Nat : Reach(f, r)[i + 1] =
                           Reach(f, r)[i] \cup UNION {f[x] : x \in Reach(f, r)[i]}
  <2>1. f[s] \subseteq States
    BY DEF SpaceFunctions
  <2> QED
    BY <2>1, ReachIs
<1> HIDE DEF R
<1>3. 0 \in G
  <2>1. R[0 + 1] = {s} \cup f[s]
    <3>1. R[0 + 1] = R[0] \cup UNION {f[x] : x \in R[0]}
      BY <1>1
    <3> QED
      BY <1>1, <3>1
  <2> QED
    BY <1>2, <2>1
<1>4. ASSUME NEW i \in Nat, i \in G PROVE i + 1 \in G
  <2> SUFFICES ASSUME NEW v \in R[(i + 1) + 1], v # s
               PROVE  \E r \in f[s] : v \in Reach(f, r)[i + 1]
    OBVIOUS
  <2>1. R[(i + 1) + 1] = R[i + 1] \cup UNION {f[x] : x \in R[i + 1]}
    BY <1>1
  <2>2. \A w \in R[i + 1] : w # s => \E r \in f[s] : w \in Reach(f, r)[i]
    BY <1>4
  <2>3. CASE v \in R[i + 1]
    <3>1. PICK r \in f[s] : v \in Reach(f, r)[i]
      BY <2>2, <2>3
    <3>2. r \in States /\ i <= i + 1
      BY <1>2
    <3>3. Reach(f, r)[i] \subseteq Reach(f, r)[i + 1]
      BY <3>2, ReachGrows
    <3> QED
      BY <3>1, <3>3
  <2>4. CASE \E x \in R[i + 1] : v \in f[x]
    <3>1. PICK x \in R[i + 1] : v \in f[x]
      BY <2>4
    <3>2. CASE x = s
      <4>1. v \in f[s] /\ v \in Reach(f, v)[0]
        BY <1>2, <3>1, <3>2
      <4>2. v \in States /\ 0 <= i + 1
        BY <1>2, <4>1
      <4>3. Reach(f, v)[0] \subseteq Reach(f, v)[i + 1]
        BY <4>2, ReachGrows
      <4> QED
        BY <4>1, <4>3
    <3>3. CASE x # s
      <4>1. PICK r \in f[s] : x \in Reach(f, r)[i]
        BY <2>2, <3>1, <3>3
      <4>2. Reach(f, r)[i + 1] = Reach(f, r)[i] \cup UNION {f[y] : y \in Reach(f, r)[i]}
        BY <1>2
      <4>3. v \in Reach(f, r)[i + 1]
        BY <3>1, <4>1, <4>2
      <4> QED
        BY <4>3
    <3> QED
      BY <3>2, <3>3
  <2> QED
    BY <2>1, <2>3, <2>4
<1> HIDE DEF G
<1>5. Nat \subseteq G
  BY <1>3, <1>4, NatSetInduction
<1> QED
  BY <1>5 DEF G, R

\* Once a step reaches nothing new, no further one does,
LEMMA ReachStays ==
  ASSUME NEW f \in SpaceFunctions, NEW s \in States, NEW j \in Nat,
         Reach(f, s)[j + 1] \subseteq Reach(f, s)[j], NEW n \in Nat
  PROVE  Reach(f, s)[n] \subseteq Reach(f, s)[j]
<1> DEFINE R == Reach(f, s)
           G == {i \in Nat : R[i] \subseteq R[j]}
<1>1. /\ \A i \in Nat : R[i + 1] = R[i] \cup UNION {f[x] : x \in R[i]}
      /\ R[0] = {s}
  BY ReachIs
<1>2. R[0] \subseteq R[j]
  <2>1. 0 <= j
    OBVIOUS
  <2> QED
    BY <2>1, ReachGrows
<1>3. R[j + 1] \subseteq R[j]
  OBVIOUS
<1> HIDE DEF R
<1>4. 0 \in G
  BY <1>2
<1>5. ASSUME NEW i \in Nat, i \in G PROVE i + 1 \in G
  <2>1. R[i + 1] = R[i] \cup UNION {f[x] : x \in R[i]}
    BY <1>1
  <2>2. R[j + 1] = R[j] \cup UNION {f[x] : x \in R[j]}
    BY <1>1
  <2>3. R[i] \subseteq R[j]
    BY <1>5
  <2>4. R[i + 1] \subseteq R[j + 1]
    BY <2>1, <2>2, <2>3
  <2> QED
    BY <1>3, <2>4
<1> HIDE DEF G
<1>6. Nat \subseteq G
  BY <1>4, <1>5, NatSetInduction
<1> QED
  BY <1>6 DEF G, R

\* so as many steps as there are states reach whatever can be reached.
LEMMA ReachSaturates ==
  ASSUME NEW f \in SpaceFunctions, NEW s \in States, NEW n \in Nat
  PROVE  /\ Cardinality(States) \in Nat
         /\ Reach(f, s)[n] \subseteq Reach(f, s)[Cardinality(States)]
<1> DEFINE R == Reach(f, s)
           C == Cardinality(States)
           G == {i \in Nat : \/ Cardinality(R[i]) >= i + 1
                             \/ \E j \in Nat : j <= i /\ R[j + 1] \subseteq R[j]}
<1>1. IsFiniteSet(States)
  BY SpacesAssumption DEF SpacesAssumption
<1>2. C \in Nat /\ \A T \in SUBSET States : /\ IsFiniteSet(T) /\ Cardinality(T) \in Nat
                                            /\ Cardinality(T) <= C
  BY <1>1, FS_Subset, FS_CardinalityType
<1>3. /\ R \in [Nat -> SUBSET States] /\ R[0] = {s}
      /\ \A i \in Nat : R[i] \subseteq R[i + 1]
  <2>1. \A i \in Nat : i + 1 \in Nat /\ i <= i + 1
    OBVIOUS
  <2> QED
    BY <2>1, ReachIs, ReachGrows
<1> HIDE DEF R, C
<1>4. 0 \in G
  <2>1. Cardinality({s}) = 1 /\ R[0] = {s}
    BY <1>3, FS_Singleton
  <2>2. Cardinality(R[0]) >= 0 + 1
    BY <2>1
  <2> QED
    BY <2>2
<1>5. ASSUME NEW i \in Nat, i \in G PROVE i + 1 \in G
  <2>1. CASE \E j \in Nat : j <= i /\ R[j + 1] \subseteq R[j]
    <3>1. PICK j \in Nat : j <= i /\ R[j + 1] \subseteq R[j]
      BY <2>1
    <3>2. j <= i + 1
      BY <3>1
    <3> QED
      BY <3>1, <3>2
  <2>2. CASE R[i + 1] \subseteq R[i]
    <3>1. i <= i + 1
      OBVIOUS
    <3> QED
      BY <2>2, <3>1
  <2>3. CASE Cardinality(R[i]) >= i + 1 /\ ~(R[i + 1] \subseteq R[i])
    <3>1. PICK x \in R[i + 1] : x \notin R[i]
      BY <2>3
    <3>2. R[i] \in SUBSET States /\ R[i + 1] \in SUBSET States
      BY <1>3
    <3>3. R[i] \cup {x} \subseteq R[i + 1]
      BY <1>3, <3>1
    <3>4. Cardinality(R[i] \cup {x}) = Cardinality(R[i]) + 1
      BY <1>2, <3>1, <3>2, FS_AddElement
    <3>5. Cardinality(R[i] \cup {x}) <= Cardinality(R[i + 1])
      BY <1>2, <3>2, <3>3, FS_Subset
    <3>6. Cardinality(R[i + 1]) \in Nat /\ Cardinality(R[i]) \in Nat
      BY <1>2, <3>2
    <3>7. Cardinality(R[i + 1]) >= (i + 1) + 1
      BY <2>3, <3>4, <3>5, <3>6
    <3> QED
      BY <3>7
  <2> QED
    BY <1>5, <2>1, <2>2, <2>3
<1> HIDE DEF G
<1>6. Nat \subseteq G
  BY <1>4, <1>5, NatSetInduction
<1>7. C \in G
  BY <1>2, <1>6
<1>8. Cardinality(R[C]) <= C /\ Cardinality(R[C]) \in Nat
  BY <1>2, <1>3
<1>9. PICK j \in Nat : j <= C /\ R[j + 1] \subseteq R[j]
  <2>1. ~(Cardinality(R[C]) >= C + 1)
    BY <1>2, <1>8
  <2> QED
    BY <1>7, <2>1 DEF G
<1>10. R[n] \subseteq R[j]
  BY <1>9, ReachStays DEF R
<1>11. R[j] \subseteq R[C]
  BY <1>2, <1>9, ReachGrows DEF R
<1> QED
  BY <1>2, <1>10, <1>11 DEF R, C

\* The steps that Within() takes.
WithinSteps(s, n) ==
  CHOOSE w : w = [i \in 0 .. n |-> IF i = 0 THEN {s} ELSE Step(w[i - 1])]

\* The reference reaches the same states.
LEMMA WithinIs ==
  ASSUME next \in SpaceFunctions, NEW s \in States, NEW n \in Nat
  PROVE  Within(s, n) = Reach(next, s)[n]
<1> DEFINE R == Reach(next, s)
           v == [i \in 0 .. n |-> R[i]]
           w == WithinSteps(s, n)
           G == {i \in Nat : i <= n => w[i] = R[i]}
<1>1. Within(s, n) = w[n]
  BY DEF Within, WithinSteps
<1>2. R[0] = {s} /\ \A i \in Nat : R[i + 1] = Step(R[i])
  BY ReachIs DEF Step
<1> HIDE DEF R
<1>3. v = [i \in 0 .. n |-> IF i = 0 THEN {s} ELSE Step(v[i - 1])]
  <2>1. ASSUME NEW i \in 0 .. n
        PROVE  v[i] = IF i = 0 THEN {s} ELSE Step(v[i - 1])
    <3>1. CASE i = 0
      BY <1>2, <3>1
    <3>2. CASE i # 0
      <4>1. i - 1 \in Nat /\ i - 1 \in 0 .. n /\ (i - 1) + 1 = i
        BY <3>2
      <4>2. R[(i - 1) + 1] = Step(R[i - 1])
        BY <1>2, <4>1
      <4>3. v[i] = R[i] /\ v[i - 1] = R[i - 1]
        BY <4>1
      <4> QED
        BY <3>2, <4>1, <4>2, <4>3
    <3> QED
      BY <3>1, <3>2
  <2>2. DOMAIN v = 0 .. n /\ v = [i \in 0 .. n |-> v[i]]
    OBVIOUS
  <2> HIDE DEF v
  <2> QED
    BY <2>1, <2>2
<1> HIDE DEF v
<1>4. w = [i \in 0 .. n |-> IF i = 0 THEN {s} ELSE Step(w[i - 1])]
  BY <1>3 DEF WithinSteps
<1> HIDE DEF w
<1>5. 0 \in G
  <2>1. 0 \in 0 .. n
    OBVIOUS
  <2>2. w[0] = {s}
    BY <1>4, <2>1
  <2> QED
    BY <1>2, <2>2
<1>6. ASSUME NEW i \in Nat, i \in G PROVE i + 1 \in G
  <2> SUFFICES ASSUME i + 1 <= n PROVE w[i + 1] = R[i + 1]
    OBVIOUS
  <2>1. i + 1 \in 0 .. n /\ i + 1 # 0 /\ (i + 1) - 1 = i /\ i <= n
    OBVIOUS
  <2>2. w[i + 1] = Step(w[(i + 1) - 1])
    BY <1>4, <2>1
  <2>3. w[i] = R[i]
    BY <1>6, <2>1
  <2> QED
    BY <1>2, <2>1, <2>2, <2>3
<1> HIDE DEF G
<1>7. Nat \subseteq G
  BY <1>5, <1>6, NatSetInduction
<1>8. w[n] = R[n]
  <2>1. n \in G /\ n <= n
    BY <1>7
  <2> QED
    BY <2>1 DEF G
<1> QED
  BY <1>1, <1>8 DEF R

\* In how few steps a state of T can be reached, if any can.
Nearest(f, s, T, n) ==
  /\ n \in Nat /\ Reach(f, s)[n] \cap T # {}
  /\ \A k \in Nat : Reach(f, s)[k] \cap T # {} => n <= k

\* If a state can be reached, there is a least number of steps,
LEMMA NearestIs ==
  ASSUME NEW f \in SpaceFunctions, NEW s \in States, NEW T, NEW k \in Nat,
         Reach(f, s)[k] \cap T # {}
  PROVE  \E n \in Nat : Nearest(f, s, T, n) /\ n <= k
<1> DEFINE K == {n \in Nat : Reach(f, s)[n] \cap T # {}}
<1>1. K \in SUBSET Nat /\ K # {} /\ k \in K
  OBVIOUS
<1> HIDE DEF K
<1>2. PICK n \in K : \A i \in K : n <= i
  BY <1>1, Least
<1> QED
  BY <1>1, <1>2 DEF K, Nearest

\* and it is the distance of the reference.
LEMMA ReachableIs ==
  ASSUME next \in SpaceFunctions, NEW s \in States, NEW T
  PROVE  /\ Reachable(s, T) <=> \E n \in Nat : Reach(next, s)[n] \cap T # {}
         /\ \A n : Nearest(next, s, T, n) => Reachable(s, T) /\ Distance(s, T) = n
<1> DEFINE C == Cardinality(States)
           K == {n \in 0 .. C : Within(s, n) \cap T # {}}
<1>1. C \in Nat /\ \A n \in Nat : Reach(next, s)[n] \subseteq Reach(next, s)[C]
  <2>1. 0 \in Nat
    OBVIOUS
  <2>2. \A n \in Nat : C \in Nat /\ Reach(next, s)[n] \subseteq Reach(next, s)[C]
    BY ReachSaturates
  <2> QED
    BY <2>1, <2>2
<1>2. \A n \in Nat : Within(s, n) = Reach(next, s)[n]
  BY WithinIs
<1>3. Reachable(s, T) <=> Reach(next, s)[C] \cap T # {}
  BY <1>1, <1>2 DEF Reachable
<1>4. Reachable(s, T) <=> \E n \in Nat : Reach(next, s)[n] \cap T # {}
  BY <1>1, <1>3
<1>5. ASSUME NEW n, Nearest(next, s, T, n)
      PROVE  Reachable(s, T) /\ Distance(s, T) = n
  <2>1. /\ n \in Nat /\ Reach(next, s)[n] \cap T # {}
        /\ \A k \in Nat : Reach(next, s)[k] \cap T # {} => n <= k
    BY <1>5 DEF Nearest
  <2>2. Reachable(s, T)
    BY <1>4, <2>1
  <2>3. n <= C
    BY <1>1, <1>3, <2>1, <2>2
  <2>4. n \in 0 .. C
    BY <1>1, <2>1, <2>3
  <2>5. n \in K
    BY <1>2, <2>1, <2>4
  <2>6. ASSUME NEW k \in K PROVE n <= k
    <3>1. k \in Nat /\ Within(s, k) \cap T # {}
      BY <1>1
    <3> QED
      BY <1>2, <2>1, <3>1
  <2>7. \A k \in K : k \in Nat
    BY <1>1
  <2> HIDE DEF K
  <2>8. \A x \in K : (\A y \in K : x <= y) => x = n
    <3> SUFFICES ASSUME NEW x \in K, \A y \in K : x <= y PROVE x = n
      OBVIOUS
    <3>1. x <= n /\ n <= x /\ x \in Nat
      BY <2>5, <2>6, <2>7
    <3> QED
      BY <2>1, <3>1
  <2>9. Min(K) = n
    BY <2>5, <2>6, <2>8 DEF Min
  <2> QED
    BY <2>2, <2>9 DEF Distance, K
<1> QED
  BY <1>4, <1>5

\* Ways from the start: their last state, and each of their states.
IsRoute(f, a, s) ==
  /\ a \in Seq(States)
  /\ LET route == <<Start>> \o a
     IN  /\ \A i \in 1 .. Len(a) : route[i + 1] \in f[route[i]]
         /\ Last(route) = s

\* The states on a way, one by one.
LEMMA RouteIs ==
  ASSUME NEW a \in Seq(States)
  PROVE  /\ <<Start>> \o a \in Seq(States) /\ Len(<<Start>> \o a) = Len(a) + 1
         /\ \A i \in 1 .. Len(a) + 1 : (<<Start>> \o a)[i] = IF i = 1 THEN Start ELSE a[i - 1]
         /\ Last(<<Start>> \o a) = IF Len(a) = 0 THEN Start ELSE a[Len(a)]
<1> DEFINE w == <<Start>> \o a
<1>1. Len(a) \in Nat
  OBVIOUS
<1>2. /\ <<Start>> \in Seq(States) /\ Len(<<Start>>) = 1 /\ <<Start>>[1] = Start
  BY SpacesAssumption DEF SpacesAssumption
<1>3. /\ <<Start>> \o a \in Seq(States) /\ Len(<<Start>> \o a) = Len(<<Start>>) + Len(a)
      /\ \A i \in 1 .. Len(<<Start>>) + Len(a) :
            (<<Start>> \o a)[i] = IF i <= Len(<<Start>>) THEN <<Start>>[i]
                                 ELSE a[i - Len(<<Start>>)]
  BY <1>2, ConcatProperties
<1>4. /\ w \in Seq(States) /\ Len(w) = Len(a) + 1
      /\ \A i \in 1 .. Len(a) + 1 : w[i] = IF i <= 1 THEN Start ELSE a[i - 1]
  BY <1>1, <1>2, <1>3
<1> HIDE DEF w
<1>5. \A i \in 1 .. Len(a) + 1 : w[i] = IF i = 1 THEN Start ELSE a[i - 1]
  BY <1>1, <1>4
<1>6. Last(w) = w[Len(a) + 1] /\ Len(a) + 1 \in 1 .. Len(a) + 1
  BY <1>1, <1>4 DEF Last
<1>7. Last(w) = IF Len(a) = 0 THEN Start ELSE a[Len(a)]
  BY <1>1, <1>5, <1>6
<1> QED
  BY <1>4, <1>5, <1>7 DEF w

\* The empty way leads to the start,
LEMMA RouteStarts ==
  ASSUME NEW f
  PROVE  IsRoute(f, << >>, Start) /\ Len(<< >>) = 0
<1>1. << >> \in Seq(States) /\ Len(<< >>) = 0
  OBVIOUS
<1>2. Last(<<Start>> \o << >>) = Start
  BY <1>1, RouteIs
<1> QED
  BY <1>1, <1>2 DEF IsRoute

\* and one more action to the next state.
LEMMA RouteExtends ==
  ASSUME NEW f \in SpaceFunctions, NEW s \in States, NEW a, IsRoute(f, a, s), NEW r \in f[s]
  PROVE  IsRoute(f, Append(a, r), r) /\ Len(Append(a, r)) = Len(a) + 1
<1> DEFINE n == Len(a)
           b == Append(a, r)
           v == <<Start>> \o a
           w == <<Start>> \o b
<1>1. a \in Seq(States) /\ n \in Nat /\ r \in States
  BY DEF IsRoute, SpaceFunctions
<1>2. /\ b \in Seq(States) /\ Len(b) = n + 1
      /\ \A i \in 1 .. n : b[i] = a[i]
      /\ b[n + 1] = r
  BY <1>1, AppendProperties
<1>3. \A i \in 1 .. n : v[i + 1] \in f[v[i]]
  BY DEF IsRoute
<1>4. Last(v) = s
  BY DEF IsRoute
<1> HIDE DEF b, n
<1>5. /\ \A i \in 1 .. n + 1 : v[i] = IF i = 1 THEN Start ELSE a[i - 1]
      /\ Last(v) = IF n = 0 THEN Start ELSE a[n]
  BY <1>1, RouteIs DEF n
<1>6. /\ \A i \in 1 .. n + 2 : w[i] = IF i = 1 THEN Start ELSE b[i - 1]
      /\ Last(w) = r
  <2>1. /\ \A i \in 1 .. Len(b) + 1 : w[i] = IF i = 1 THEN Start ELSE b[i - 1]
        /\ Last(w) = IF Len(b) = 0 THEN Start ELSE b[Len(b)]
    BY <1>2, RouteIs
  <2>2. Len(b) + 1 = n + 2 /\ Len(b) # 0
    BY <1>1, <1>2
  <2> QED
    BY <1>2, <2>1, <2>2
<1> HIDE DEF v, w
<1>7. ASSUME NEW i \in 1 .. n + 1 PROVE w[i] = v[i]
  <2>1. CASE i = 1
    BY <1>1, <1>5, <1>6, <2>1
  <2>2. CASE i # 1
    <3>1. i - 1 \in 1 .. n /\ i \in 1 .. n + 2
      BY <1>1, <2>2
    <3> QED
      BY <1>2, <1>5, <1>6, <2>2, <3>1
  <2> QED
    BY <2>1, <2>2
<1>8. v[n + 1] = s /\ w[n + 2] = r
  <2>1. n + 1 \in 1 .. n + 1 /\ n + 2 \in 1 .. n + 2 /\ n + 2 # 1 /\ (n + 2) - 1 = n + 1
        /\ (n + 1) - 1 = n
    BY <1>1
  <2> QED
    BY <1>1, <1>2, <1>4, <1>5, <1>6, <2>1
<1>9. ASSUME NEW i \in 1 .. n + 1 PROVE w[i + 1] \in f[w[i]]
  <2>1. CASE i = n + 1
    <3>1. i + 1 = n + 2
      BY <1>1, <2>1
    <3> QED
      BY <1>7, <1>8, <2>1, <3>1
  <2>2. CASE i # n + 1
    <3>1. i \in 1 .. n /\ i + 1 \in 1 .. n + 1
      BY <1>1, <2>2
    <3> QED
      BY <1>3, <1>7, <3>1
  <2> QED
    BY <2>1, <2>2
<1>10. IsRoute(f, b, r)
  BY <1>2, <1>6, <1>9 DEF IsRoute, w
<1> QED
  BY <1>2, <1>10 DEF b, n

\* A way leads to a state within as many steps.
LEMMA RouteReaches ==
  ASSUME NEW f \in SpaceFunctions, NEW s, NEW a, IsRoute(f, a, s)
  PROVE  Len(a) \in Nat /\ s \in Reach(f, Start)[Len(a)]
<1> DEFINE n == Len(a)
           w == <<Start>> \o a
           R == Reach(f, Start)
           G == {i \in Nat : i <= n => w[i + 1] \in R[i]}
<1>1. a \in Seq(States) /\ n \in Nat
  BY DEF IsRoute
<1>2. \A i \in 1 .. n : w[i + 1] \in f[w[i]]
  BY DEF IsRoute
<1>3. Last(w) = s
  BY DEF IsRoute
<1>4. R[0] = {Start} /\ \A i \in Nat : R[i + 1] = R[i] \cup UNION {f[x] : x \in R[i]}
  BY ReachIs, SpacesAssumption DEF SpacesAssumption
<1>5. w[1] = Start /\ Last(w) = w[n + 1]
  <2>1. /\ \A i \in 1 .. n + 1 : w[i] = IF i = 1 THEN Start ELSE a[i - 1]
        /\ Last(w) = IF n = 0 THEN Start ELSE a[n]
    BY <1>1, RouteIs
  <2> HIDE DEF w, n
  <2>2. 1 \in 1 .. n + 1 /\ n + 1 \in 1 .. n + 1 /\ (n + 1) - 1 = n
    BY <1>1
  <2>3. w[1] = Start
    BY <2>1, <2>2
  <2>4. w[n + 1] = IF n = 0 THEN Start ELSE a[n]
    <3>1. n + 1 = 1 <=> n = 0
      BY <1>1
    <3> QED
      BY <2>1, <2>2, <3>1
  <2> QED
    BY <2>1, <2>3, <2>4
<1> HIDE DEF w, R, n
<1>6. 0 \in G
  BY <1>4, <1>5
<1>7. ASSUME NEW i \in Nat, i \in G PROVE i + 1 \in G
  <2> SUFFICES ASSUME i + 1 <= n PROVE w[(i + 1) + 1] \in R[i + 1]
    OBVIOUS
  <2>1. i <= n /\ i + 1 \in 1 .. n
    BY <1>1
  <2>2. w[i + 1] \in R[i]
    BY <1>7, <2>1
  <2>3. w[(i + 1) + 1] \in f[w[i + 1]]
    BY <1>2, <2>1
  <2>4. R[i + 1] = R[i] \cup UNION {f[x] : x \in R[i]}
    BY <1>4
  <2> QED
    BY <2>2, <2>3, <2>4
<1> HIDE DEF G
<1>8. Nat \subseteq G
  BY <1>6, <1>7, NatSetInduction
<1>9. n \in G /\ n <= n
  BY <1>1, <1>8
<1>10. w[n + 1] \in R[n]
  BY <1>9 DEF G
<1> QED
  BY <1>1, <1>3, <1>5, <1>10 DEF n, R

\* A way to a final state is a solution.
LEMMA RouteSolves ==
  ASSUME NEW a, NEW s
  PROVE  /\ IsRoute(next, a, s) /\ s \in goals => IsSolution(a)
         /\ a \in Seq(States) /\ IsSolution(a) => \E t \in goals : IsRoute(next, a, t)
BY DEF IsRoute, IsSolution

-----------------------------------------------------------------------------
(* A*: costs, predecessors and the frontier. *)

\* What is kept of a state.
Infos == [predecessor : DOMAIN info, cost : Nat, frontierCost : Nat]

\* A state has a cost at which it was reached over its predecessor.
CostRight(s) ==
  /\ s \in Reach(next, Start)[info[s].cost]
  /\ s # Start =>
       /\ info[s].frontierCost = info[s].cost + estimate[s]
       /\ s \in next[info[s].predecessor]
       /\ info[info[s].predecessor].cost + 1 <= info[s].cost

\* A state is on the frontier, or all its successors are known at no more than
\* its cost and one.
Opened(s) ==
  \/ <<info[s].frontierCost, s>> \in frontier
  \/ /\ s \notin goals
     /\ \A r \in next[s] : r \in DOMAIN info /\ info[r].cost <= info[s].cost + 1

\* The heuristic never overestimates.
LowerBound ==
  \A s \in States, n \in Nat : Reach(next, s)[n] \cap goals # {} => estimate[s] <= n

\* The start has been reached at no cost.
AStarTypes ==
  /\ estimate \in [States -> Nat]
  /\ DOMAIN info \subseteq States /\ info \in [DOMAIN info -> Infos]
  /\ Start \in DOMAIN info /\ info[Start].cost = 0 /\ info[Start].frontierCost = 0

\* What A* keeps.
AStarInv ==
  /\ AStarTypes /\ LowerBound /\ Start \notin goals
  /\ \A s \in DOMAIN info : CostRight(s) /\ Opened(s)
  /\ \A e \in frontier : /\ e \in Nat \X DOMAIN info
                         /\ info[e[2]].frontierCost <= e[1]

\* The types, for the asking.
LEMMA InfoTypes ==
  ASSUME AStarInv
  PROVE  \A s \in DOMAIN info : /\ s \in States /\ info[s].cost \in Nat
                                /\ info[s].frontierCost \in Nat
                                /\ info[s].predecessor \in DOMAIN info
                                /\ estimate[s] \in Nat
BY DEF AStarInv, AStarTypes, Infos

\* A state that the frontier holds although all is well with it.
Holds(s, C) ==
  /\ s \in DOMAIN info /\ <<info[s].frontierCost, s>> \in frontier
  /\ Nearest(next, Start, {s}, info[s].cost)
  /\ info[s].cost <= C /\ Nearest(next, s, goals, C - info[s].cost)

\* A state at its cost on a way to a final state that is no longer than any.
LEMMA CostLeast ==
  ASSUME AStarInv, next \in SpaceFunctions, NEW C, Nearest(next, Start, goals, C),
         NEW s \in DOMAIN info, NEW j \in Nat, Reach(next, s)[j] \cap goals # {}
  PROVE  C <= info[s].cost + j
<1> DEFINE c == info[s].cost
<1>1. c \in Nat /\ s \in Reach(next, Start)[c] /\ Start \in States
  BY InfoTypes, SpacesAssumption DEF AStarInv, CostRight, SpacesAssumption
<1> HIDE DEF c
<1>2. Reach(next, s)[j] \subseteq Reach(next, Start)[c + j]
  BY <1>1, ReachJoins
<1>3. c + j \in Nat /\ Reach(next, Start)[c + j] \cap goals # {}
  BY <1>1, <1>2
<1> QED
  BY <1>3 DEF Nearest, c

\* As long as A* goes on, the frontier holds a state on a shortest way.
LEMMA AStarHolds ==
  ASSUME AStarInv, next \in SpaceFunctions, NEW C, Nearest(next, Start, goals, C)
  PROVE  \E s : Holds(s, C)
<1> DEFINE On(s, j) == info[s].cost + j = C /\ Reach(next, s)[j] \cap goals # {}
           J == {j \in Nat : \E s \in DOMAIN info : On(s, j)}
<1>1. C \in Nat /\ Start \in States
  BY SpacesAssumption DEF Nearest, SpacesAssumption
<1>2. C \in J
  <2>1. Start \in DOMAIN info /\ info[Start].cost = 0
    BY DEF AStarInv, AStarTypes
  <2>2. info[Start].cost + C = C /\ Reach(next, Start)[C] \cap goals # {}
    BY <1>1, <2>1 DEF Nearest
  <2> QED
    BY <1>1, <2>1, <2>2
<1>3. J \in SUBSET Nat /\ J # {}
  BY <1>2
<1> HIDE DEF J
<1>4. PICK j \in J : \A k \in J : j <= k
  BY <1>3, Least
<1>5. j \in Nat /\ \E s \in DOMAIN info : On(s, j)
  BY <1>4 DEF J
<1>6. PICK s \in DOMAIN info : On(s, j)
  BY <1>5
<1> DEFINE c == info[s].cost
<1>7. s \in States /\ c \in Nat /\ c + j = C /\ Reach(next, s)[j] \cap goals # {}
  BY <1>6, InfoTypes
<1>8. CostRight(s) /\ Opened(s)
  BY DEF AStarInv
<1>9. s \in Reach(next, Start)[c]
  BY <1>8 DEF CostRight
<1>10. Nearest(next, Start, {s}, c)
  <2>1. ASSUME NEW k \in Nat, s \in Reach(next, Start)[k] PROVE c <= k
    <3>1. Reach(next, s)[j] \subseteq Reach(next, Start)[k + j]
      BY <1>1, <1>5, <2>1, ReachJoins
    <3>2. k + j \in Nat /\ Reach(next, Start)[k + j] \cap goals # {}
      BY <1>5, <1>7, <3>1
    <3>3. C <= k + j
      BY <3>2 DEF Nearest
    <3> HIDE DEF c
    <3> QED
      BY <1>1, <1>5, <1>7, <3>3
  <2> HIDE DEF c
  <2> QED
    BY <1>7, <1>9, <2>1 DEF Nearest
<1>11. c <= C /\ C - c = j
  <2> HIDE DEF c
  <2> QED
    BY <1>1, <1>5, <1>7
<1>12. Nearest(next, s, goals, j)
  <2>1. ASSUME NEW k \in Nat, Reach(next, s)[k] \cap goals # {} PROVE j <= k
    <3>1. C <= c + k
      BY <2>1, CostLeast
    <3> HIDE DEF c
    <3> QED
      BY <1>1, <1>5, <1>7, <3>1
  <2> QED
    BY <1>5, <1>7, <2>1 DEF Nearest
<1>13. <<info[s].frontierCost, s>> \in frontier
  <2> SUFFICES ASSUME s \notin goals,
                      \A r \in next[s] : r \in DOMAIN info /\ info[r].cost <= c + 1
               PROVE  FALSE
    BY <1>8 DEF Opened
  <2>1. PICK t \in Reach(next, s)[j] : t \in goals
    BY <1>7
  <2>2. t # s
    BY <2>1
  <2>3. j # 0
    BY <1>7, <2>1, <2>2, ReachIs
  <2> DEFINE k == j - 1
  <2>4. k \in Nat /\ k + 1 = j
    BY <1>5, <2>3
  <2> HIDE DEF k
  <2>5. PICK r \in next[s] : t \in Reach(next, r)[k]
    BY <1>7, <2>1, <2>2, <2>4, ReachFirst
  <2>6. r \in DOMAIN info /\ info[r].cost <= c + 1 /\ info[r].cost \in Nat
    BY InfoTypes
  <2>7. Reach(next, r)[k] \cap goals # {}
    BY <2>1, <2>5
  <2>8. C <= info[r].cost + k
    BY <2>4, <2>6, <2>7, CostLeast
  <2>9. info[r].cost + k = C
    <3> DEFINE d == info[r].cost
    <3>1. d \in Nat /\ d <= c + 1 /\ C <= d + k
      BY <2>6, <2>8
    <3> HIDE DEF c, d
    <3>2. d + k = C
      BY <1>1, <1>5, <1>7, <2>4, <3>1
    <3> QED
      BY <3>2 DEF d
  <2>10. k \in J
    BY <2>4, <2>6, <2>7, <2>9 DEF J
  <2> QED
    BY <1>4, <1>5, <2>4, <2>10
<1>14. Holds(s, C)
  BY <1>10, <1>11, <1>12, <1>13 DEF Holds
<1> QED
  BY <1>14

\* What A* returns when it takes a final state from the top is a shortest way.
LEMMA TopCost ==
  ASSUME AStarInv, next \in SpaceFunctions, NEW entry, Finish(entry)
  PROVE  /\ entry[2] \in DOMAIN info
         /\ Nearest(next, Start, goals, info[entry[2]].cost)
<1> DEFINE s == entry[2]
           c == info[s].cost
<1>1. entry \in frontier /\ s \in goals /\ ~(info[s].frontierCost < entry[1])
  BY DEF Finish, Top, Outdated
<1>2. entry[1] \in Nat /\ s \in DOMAIN info /\ info[s].frontierCost <= entry[1]
  BY <1>1 DEF AStarInv
<1>3. /\ s \in States /\ c \in Nat /\ info[s].frontierCost \in Nat /\ estimate[s] \in Nat
      /\ CostRight(s) /\ Start \in States
  BY <1>2, InfoTypes, SpacesAssumption DEF AStarInv, SpacesAssumption
<1>4. c <= entry[1]
  <2>1. CASE s = Start
    BY <1>2, <2>1 DEF AStarInv, AStarTypes
  <2>2. CASE s # Start
    <3>1. info[s].frontierCost = c + estimate[s]
      BY <1>3, <2>2 DEF CostRight
    <3> DEFINE b == info[s].frontierCost
               a == estimate[s]
    <3>2. b = c + a /\ b <= entry[1] /\ b \in Nat /\ a \in Nat
      BY <1>2, <1>3, <3>1
    <3> HIDE DEF b, a, c
    <3> QED
      BY <1>2, <1>3, <3>2
  <2> QED
    BY <2>1, <2>2
<1>5. s \in Reach(next, Start)[c]
  BY <1>3 DEF CostRight
<1>6. Reach(next, Start)[c] \cap goals # {}
  BY <1>1, <1>5
<1>7. PICK C \in Nat : Nearest(next, Start, goals, C) /\ C <= c
  BY <1>3, <1>6, NearestIs
<1>8. PICK t : Holds(t, C)
  BY <1>7, AStarHolds
<1> DEFINE d == info[t].cost
           e == info[t].frontierCost
<1>9. /\ t \in DOMAIN info /\ <<e, t>> \in frontier /\ d <= C /\ C - d \in Nat
      /\ Reach(next, t)[C - d] \cap goals # {}
  BY <1>8 DEF Holds, Nearest
<1>10. /\ t \in States /\ d \in Nat /\ e \in Nat /\ estimate[t] \in Nat /\ CostRight(t)
  BY <1>9, InfoTypes DEF AStarInv
<1>11. estimate[t] <= C - d
  BY <1>9, <1>10 DEF AStarInv, LowerBound
<1>12. e <= d + estimate[t]
  <2>1. CASE t = Start
    <3>1. e = 0
      BY <2>1 DEF AStarInv, AStarTypes
    <3> HIDE DEF e, d
    <3> QED
      BY <1>10, <3>1
  <2>2. CASE t # Start
    <3>1. e = d + estimate[t]
      BY <1>10, <2>2 DEF CostRight
    <3> HIDE DEF e, d
    <3> QED
      BY <1>10, <3>1
  <2> QED
    BY <2>1, <2>2
<1>13. entry[1] <= e
  <2>1. entry[1] <= <<e, t>>[1]
    BY <1>9 DEF Finish, Top
  <2> HIDE DEF e
  <2> QED
    BY <2>1
<1>14. c = C
  <2> DEFINE h == estimate[t]
             g == entry[1]
  <2>1. h <= C - d /\ e <= d + h /\ g <= e /\ c <= g /\ C <= c /\ h \in Nat /\ g \in Nat
    BY <1>2, <1>4, <1>7, <1>10, <1>11, <1>12, <1>13
  <2> HIDE DEF h, g, c, d, e
  <2> QED
    BY <1>3, <1>7, <1>9, <1>10, <2>1
<1> QED
  BY <1>2, <1>7, <1>14

\* The states on the way back from s, by the predecessors.
Back(s, n) ==
  CHOOSE back : back = [i \in 0 .. n |-> IF i = 0 THEN s ELSE info[back[i - 1]].predecessor]

\* They satisfy the equation.
LEMMA BackIs ==
  ASSUME AStarInv, NEW s \in DOMAIN info, NEW n \in Nat
  PROVE  /\ Back(s, n) \in [0 .. n -> DOMAIN info] /\ Back(s, n)[0] = s
         /\ \A i \in 0 .. n : i < n => Back(s, n)[i + 1] = info[Back(s, n)[i]].predecessor
<1> DEFINE T == DOMAIN info
           p == [x \in T |-> info[x].predecessor]
           b == Back(s, n)
<1>1. p \in [T -> T] /\ \A x \in T : p[x] = info[x].predecessor
  BY InfoTypes
<1> HIDE DEF p
<1>2. PICK g \in [Nat -> T] : g[0] = s /\ \A i \in Nat : g[i + 1] = p[g[i]]
  <2>1. s \in T /\ p \in Maps(T)
    BY <1>1 DEF Maps
  <2> HIDE DEF T, b
  <2>2. PICK g \in Repeats(p, s, T) : TRUE
    BY <2>1, Iterates
  <2> QED
    BY <2>2 DEF Repeats
<1> DEFINE v == [i \in 0 .. n |-> g[i]]
<1>3. v = [i \in 0 .. n |-> IF i = 0 THEN s ELSE info[v[i - 1]].predecessor]
  <2>1. ASSUME NEW i \in 0 .. n
        PROVE  v[i] = IF i = 0 THEN s ELSE info[v[i - 1]].predecessor
    <3>1. CASE i = 0
      BY <1>2, <3>1
    <3>2. CASE i # 0
      <4>1. i - 1 \in Nat /\ i - 1 \in 0 .. n /\ (i - 1) + 1 = i
        BY <3>2
      <4>2. g[i] = p[g[i - 1]] /\ g[i - 1] \in T
        BY <1>2, <4>1
      <4>3. v[i] = g[i] /\ v[i - 1] = g[i - 1]
        BY <4>1
      <4> QED
        BY <1>1, <3>2, <4>2, <4>3
    <3> QED
      BY <3>1, <3>2
  <2>2. DOMAIN v = 0 .. n /\ v = [i \in 0 .. n |-> v[i]]
    OBVIOUS
  <2> HIDE DEF v
  <2> QED
    BY <2>1, <2>2
<1> HIDE DEF v
<1>4. b = [i \in 0 .. n |-> IF i = 0 THEN s ELSE info[b[i - 1]].predecessor]
  BY <1>3 DEF Back
<1> HIDE DEF b
<1>5. b[0] = s
  <2>1. 0 \in 0 .. n
    OBVIOUS
  <2> QED
    BY <1>4, <2>1
<1>6. ASSUME NEW i \in 0 .. n, i < n PROVE b[i + 1] = info[b[i]].predecessor
  <2>1. i + 1 \in 0 .. n /\ i + 1 # 0 /\ (i + 1) - 1 = i
    BY <1>6
  <2> QED
    BY <1>4, <2>1
<1> DEFINE G == {i \in Nat : i <= n => b[i] \in T}
<1>7. 0 \in G
  BY <1>5
<1>8. ASSUME NEW i \in Nat, i \in G PROVE i + 1 \in G
  <2> SUFFICES ASSUME i + 1 <= n PROVE b[i + 1] \in T
    OBVIOUS
  <2>1. i \in 0 .. n /\ i < n /\ i <= n
    OBVIOUS
  <2>2. b[i] \in T
    BY <1>8, <2>1
  <2> QED
    BY <1>6, <2>1, <2>2, InfoTypes
<1> HIDE DEF G
<1>9. Nat \subseteq G
  BY <1>7, <1>8, NatSetInduction
<1>10. \A i \in 0 .. n : b[i] \in T
  <2>1. \A i \in 0 .. n : i \in G /\ i <= n
    BY <1>9
  <2> QED
    BY <2>1 DEF G
<1>11. b \in [0 .. n -> T]
  <2>1. DOMAIN b = 0 .. n /\ b = [i \in 0 .. n |-> b[i]]
    BY <1>4
  <2> QED
    BY <1>10, <2>1
<1> QED
  BY <1>5, <1>6, <1>11 DEF b

\* The predecessors lead back to the start, along a shortest way.
LEMMA ActionsRoute ==
  ASSUME AStarInv, next \in SpaceFunctions, NEW s \in DOMAIN info, s \in goals,
         Nearest(next, Start, goals, info[s].cost)
  PROVE  IsRoute(next, Actions(s), s) /\ Len(Actions(s)) = info[s].cost
<1> DEFINE c == info[s].cost
           b == Back(s, c)
           a == Actions(s)
           w == <<Start>> \o a
<1>1. c \in Nat
  BY InfoTypes
<1>2. /\ b \in [0 .. c -> DOMAIN info] /\ b[0] = s
      /\ \A i \in 0 .. c : i < c => b[i + 1] = info[b[i]].predecessor
  BY <1>1, BackIs
<1>3. a = [i \in 1 .. c |-> b[c - i]]
  BY DEF Actions, Back
<1> HIDE DEF b, a
<1>4. /\ \A x \in DOMAIN info : /\ x \in States /\ info[x].cost \in Nat /\ CostRight(x)
                                /\ info[x].predecessor \in DOMAIN info
      /\ info[Start].cost = 0
      /\ \A x \in DOMAIN info, j \in Nat :
           Reach(next, x)[j] \cap goals # {} => c <= info[x].cost + j
  BY InfoTypes, CostLeast DEF AStarInv, AStarTypes
<1> HIDE DEF c
<1> DEFINE Tight(i) == /\ info[b[i]].cost + i = c /\ Reach(next, b[i])[i] \cap goals # {}
                       /\ i > 0 => b[i - 1] \in next[b[i]]
           G == {i \in Nat : i <= c => Tight(i)}
<1>5. 0 \in G
  <2>1. s \in Reach(next, s)[0]
    BY <1>4, ReachIs
  <2>2. info[s].cost + 0 = c
    BY <1>1 DEF c
  <2> QED
    BY <1>2, <2>1, <2>2
<1>6. ASSUME NEW i \in Nat, i \in G PROVE i + 1 \in G
  <2> SUFFICES ASSUME i + 1 <= c PROVE Tight(i + 1)
    OBVIOUS
  <2> DEFINE x == b[i]
             q == b[i + 1]
             d == info[x].cost
             e == info[q].cost
  <2>1. i \in 0 .. c /\ i + 1 \in 0 .. c /\ i < c /\ i <= c
    BY <1>1
  <2>2. x \in DOMAIN info /\ q \in DOMAIN info /\ q = info[x].predecessor
    BY <1>2, <2>1
  <2>3. d + i = c /\ Reach(next, x)[i] \cap goals # {}
    BY <1>6, <2>1
  <2>4. d \in Nat /\ e \in Nat /\ CostRight(x) /\ x \in States /\ q \in States
    BY <1>4, <2>2
  <2>5. x # Start
    <3>1. d # 0
      <4> HIDE DEF d
      <4> QED
        BY <1>1, <2>1, <2>3, <2>4
    <3> QED
      BY <1>4, <3>1
  <2>6. x \in next[q] /\ e + 1 <= d
    BY <2>2, <2>4, <2>5 DEF CostRight
  <2>7. Reach(next, q)[i + 1] \cap goals # {}
    <3>1. /\ Reach(next, q)[0] = {q}
          /\ Reach(next, q)[0 + 1] =
               Reach(next, q)[0] \cup UNION {next[y] : y \in Reach(next, q)[0]}
      BY <2>4, ReachIs
    <3>2. x \in Reach(next, q)[1]
      BY <2>6, <3>1
    <3>3. Reach(next, x)[i] \subseteq Reach(next, q)[1 + i]
      BY <2>4, <3>2, ReachJoins
    <3>4. 1 + i = i + 1
      OBVIOUS
    <3> QED
      BY <2>3, <3>3, <3>4
  <2>8. c <= e + (i + 1)
    <3>1. i + 1 \in Nat
      OBVIOUS
    <3> QED
      BY <1>4, <2>2, <2>7, <3>1
  <2>9. e + (i + 1) = c
    <3> HIDE DEF d, e
    <3> QED
      BY <1>1, <2>3, <2>4, <2>6, <2>8
  <2>10. (i + 1) - 1 = i
    OBVIOUS
  <2> QED
    BY <2>6, <2>7, <2>9, <2>10
<1> HIDE DEF G
<1>7. Nat \subseteq G
  BY <1>5, <1>6, NatSetInduction
<1>8. \A i \in 0 .. c : Tight(i)
  <2>1. \A i \in 0 .. c : i \in G /\ i <= c
    BY <1>7
  <2> QED
    BY <2>1 DEF G
<1>9. b[c] = Start
  <2>1. c \in 0 .. c /\ b[c] \in DOMAIN info
    BY <1>1, <1>2
  <2> DEFINE x == b[c]
             d == info[x].cost
             e == info[info[x].predecessor].cost
  <2>2. d + c = c /\ d \in Nat /\ e \in Nat
    BY <1>4, <1>8, <2>1
  <2>3. CostRight(x)
    BY <1>4, <2>1
  <2>4. x # Start => e + 1 <= d
    BY <2>3 DEF CostRight
  <2>5. ~(e + 1 <= d)
    <3> HIDE DEF d, e
    <3> QED
      BY <1>1, <2>2
  <2> QED
    BY <2>4, <2>5
<1>10. a \in Seq(States) /\ Len(a) = c /\ \A i \in 1 .. c : a[i] = b[c - i]
  <2>1. \A i \in 1 .. c : c - i \in 0 .. c /\ b[c - i] \in States
    <3>1. \A i \in 1 .. c : c - i \in 0 .. c
      BY <1>1
    <3> QED
      BY <1>2, <1>4, <3>1
  <2> QED
    BY <1>1, <1>3, <2>1
<1>11. /\ \A i \in 1 .. c + 1 : w[i] = IF i = 1 THEN Start ELSE a[i - 1]
       /\ Last(w) = IF c = 0 THEN Start ELSE a[c]
  BY <1>10, RouteIs
<1> HIDE DEF w
<1>12. ASSUME NEW i \in 1 .. c + 1 PROVE w[i] = b[c - (i - 1)]
  <2>1. CASE i = 1
    <3>1. c - (i - 1) = c
      BY <1>1, <2>1
    <3> QED
      BY <1>9, <1>11, <2>1, <3>1
  <2>2. CASE i # 1
    <3>1. i - 1 \in 1 .. c
      BY <1>1, <2>2
    <3> QED
      BY <1>10, <1>11, <2>2, <3>1
  <2> QED
    BY <2>1, <2>2
<1>13. ASSUME NEW i \in 1 .. c PROVE w[i + 1] \in next[w[i]]
  <2> DEFINE k == c - (i - 1)
  <2>1. /\ i \in 1 .. c + 1 /\ i + 1 \in 1 .. c + 1 /\ c - ((i + 1) - 1) = k - 1
        /\ k \in 0 .. c /\ k > 0
    BY <1>1
  <2>2. w[i] = b[k] /\ w[i + 1] = b[k - 1]
    <3>1. w[i + 1] = b[c - ((i + 1) - 1)]
      BY <1>12, <2>1
    <3> QED
      BY <1>12, <2>1, <3>1
  <2>3. Tight(k)
    BY <1>8, <2>1
  <2> HIDE DEF k
  <2> QED
    BY <2>1, <2>2, <2>3
<1>14. Last(w) = s
  <2>1. CASE c = 0
    BY <1>2, <1>9, <1>11, <2>1
  <2>2. CASE c # 0
    <3>1. c \in 1 .. c /\ c - c = 0
      BY <1>1, <2>2
    <3> QED
      BY <1>2, <1>10, <1>11, <2>2, <3>1
  <2> QED
    BY <2>1, <2>2
<1>15. IsRoute(next, a, s)
  BY <1>10, <1>13, <1>14 DEF IsRoute, w
<1> QED
  BY <1>10, <1>15 DEF a, c

\* One entry is not looked at any further.
LEMMA SkipKeeps ==
  ASSUME AStarInv, NEW entry, SkipOutdated(entry)
  PROVE  AStarInv'
<1>1. /\ UNCHANGED <<next, goals, estimate, info>> /\ frontier' = frontier \ {entry}
      /\ info[entry[2]].frontierCost < entry[1] /\ entry \in frontier
  BY DEF SkipOutdated, Top, Outdated, problemVars
<1>2. AStarTypes' /\ LowerBound' /\ Start \notin goals'
  <2>1. AStarTypes /\ LowerBound /\ Start \notin goals
    BY DEF AStarInv
  <2>2. AStarTypes'
    BY <1>1, <2>1 DEF AStarTypes, Infos
  <2>3. LowerBound'
    BY <1>1, <2>1 DEF LowerBound
  <2> QED
    BY <1>1, <2>1, <2>2, <2>3
<1>3. ASSUME NEW s \in DOMAIN info' PROVE CostRight(s)' /\ Opened(s)'
  <2>1. CostRight(s) /\ Opened(s) /\ info[s].frontierCost \in Nat
    BY <1>1, InfoTypes DEF AStarInv
  <2>2. CostRight(s)'
    BY <1>1, <2>1 DEF CostRight
  <2>3. <<info[s].frontierCost, s>> # entry
    <3> DEFINE f == info[s].frontierCost
    <3>1. f \in Nat
      BY <2>1
    <3>2. entry = <<f, s>> => entry[1] = f /\ entry[2] = s
      OBVIOUS
    <3>3. entry = <<f, s>> => f < f
      BY <1>1, <3>2
    <3> HIDE DEF f
    <3>4. ~(f < f)
      BY <3>1
    <3> QED
      BY <3>3, <3>4 DEF f
  <2>4. Opened(s)'
    BY <1>1, <2>1, <2>3 DEF Opened
  <2> QED
    BY <2>2, <2>4
<1>4. ASSUME NEW e \in frontier'
      PROVE  e \in Nat \X DOMAIN info' /\ info'[e[2]].frontierCost <= e[1]
  BY <1>1 DEF AStarInv
<1> QED
  BY <1>2, <1>3, <1>4 DEF AStarInv

\* What an expansion of s, reached at cost c, knows and changes.
Expanded(entry, s, c) ==
  /\ entry \in frontier /\ entry = <<info[s].frontierCost, s>>
  /\ s \in DOMAIN info /\ s \notin goals
  /\ UNCHANGED <<next, goals, estimate>>
  /\ s \notin Improved(s) /\ Start \notin Improved(s)
  /\ \A r \in Improved(s) : /\ r \in next[s] /\ r \in States
                            /\ r \in DOMAIN info => c + 1 < info[r].cost
  /\ \A r \in next[s] \ Improved(s) : r \in DOMAIN info /\ info[r].cost <= c + 1
  /\ DOMAIN info' = Improved(s) \cup DOMAIN info
  /\ \A r \in Improved(s) : info'[r] = StateInfo(s, c + 1, c + 1 + estimate[r])
  /\ \A r \in DOMAIN info \ Improved(s) : info'[r] = info[r]
  /\ info' \in [DOMAIN info' -> {info'[r] : r \in DOMAIN info'}]
  /\ frontier' = (frontier \ {entry}) \cup {<<c + 1 + estimate[r], r>> : r \in Improved(s)}

\* That is what Expand does.
LEMMA ExpandInfo ==
  ASSUME AStarInv, next \in SpaceFunctions, NEW entry, Expand(entry)
  PROVE  Expanded(entry, entry[2], info[entry[2]].cost)
<1> DEFINE s == entry[2]
           c == info[s].cost
           K == Improved(s)
<1>1. /\ entry \in frontier /\ ~(info[s].frontierCost < entry[1]) /\ s \notin goals
      /\ UNCHANGED <<next, goals, estimate>>
      /\ info' = [r \in K \cup DOMAIN info |->
                    IF r \in K THEN StateInfo(s, c + 1, c + 1 + estimate[r]) ELSE info[r]]
      /\ frontier' = (frontier \ {entry}) \cup {<<c + 1 + estimate[r], r>> : r \in K}
  BY DEF Expand, Top, Outdated, EntryCost, problemVars
<1>2. entry \in Nat \X DOMAIN info /\ info[s].frontierCost <= entry[1]
  BY <1>1 DEF AStarInv
<1>3. s \in DOMAIN info /\ s \in States /\ c \in Nat /\ info[s].frontierCost \in Nat
  BY <1>2, InfoTypes
<1>4. entry = <<info[s].frontierCost, s>>
  <2> DEFINE f == info[s].frontierCost
             g == entry[1]
  <2>1. g \in Nat /\ f \in Nat /\ f <= g /\ ~(f < g)
    BY <1>1, <1>2, <1>3
  <2>2. f = g
    <3> HIDE DEF f, g
    <3> QED
      BY <2>1
  <2>3. entry = <<g, s>>
    BY <1>2
  <2> QED
    BY <2>2, <2>3
<1>5. \A r \in DOMAIN info : info[r].cost \in Nat
  BY InfoTypes
<1>6. K = {r \in next[s] : r \in DOMAIN info => c + 1 < info[r].cost}
  BY DEF Improved
<1> HIDE DEF K
<1>7. s \notin K
  <2>1. ~(c + 1 < c)
    <3> HIDE DEF c
    <3> QED
      BY <1>3
  <2> QED
    BY <1>3, <1>6, <2>1
<1>8. Start \notin K
  <2>1. Start \in DOMAIN info /\ info[Start].cost = 0
    BY DEF AStarInv, AStarTypes
  <2>2. ~(c + 1 < 0)
    <3> HIDE DEF c
    <3> QED
      BY <1>3
  <2> QED
    BY <1>6, <2>1, <2>2
<1>9. next[s] \subseteq States
  BY <1>3 DEF SpaceFunctions
<1>10. \A r \in next[s] \ K : r \in DOMAIN info /\ info[r].cost <= c + 1
  <2> SUFFICES ASSUME NEW r \in next[s] \ K PROVE r \in DOMAIN info /\ info[r].cost <= c + 1
    OBVIOUS
  <2>1. r \in DOMAIN info /\ ~(c + 1 < info[r].cost)
    BY <1>6
  <2> DEFINE d == info[r].cost
  <2>2. d \in Nat /\ ~(c + 1 < d)
    BY <1>5, <2>1
  <2>3. d <= c + 1
    <3> HIDE DEF c, d
    <3> QED
      BY <1>3, <2>2
  <2> QED
    BY <2>1, <2>3
<1>11. /\ DOMAIN info' = K \cup DOMAIN info
       /\ \A r \in K : info'[r] = StateInfo(s, c + 1, c + 1 + estimate[r])
       /\ \A r \in DOMAIN info \ K : info'[r] = info[r]
  <2> HIDE DEF c, s
  <2> QED
    BY <1>1
<1>12. info' \in [DOMAIN info' -> {info'[r] : r \in DOMAIN info'}]
  <2>1. info' = [r \in DOMAIN info' |-> info'[r]]
    <3> HIDE DEF c, s
    <3> QED
      BY <1>1
  <2> QED
    BY <2>1
<1> HIDE DEF s, c
<1>13. \A r \in K : /\ r \in next[s] /\ r \in States
                    /\ r \in DOMAIN info => c + 1 < info[r].cost
  BY <1>6, <1>9
<1>14. Expanded(entry, s, c)
  BY <1>1, <1>3, <1>4, <1>7, <1>8, <1>10, <1>11, <1>12, <1>13 DEF K, Expanded
<1> QED
  BY <1>14 DEF s, c

\* Opening a state keeps all of it.
LEMMA ExpandKeeps ==
  ASSUME AStarInv, next \in SpaceFunctions, NEW entry, Expand(entry)
  PROVE  AStarInv'
<1> DEFINE s == entry[2]
           c == info[s].cost
           K == Improved(s)
           new == {<<c + 1 + estimate[r], r>> : r \in K}
<1>0. Expanded(entry, s, c)
  BY ExpandInfo
<1> HIDE DEF s, c
<1>1. /\ entry \in frontier /\ entry = <<info[s].frontierCost, s>>
      /\ s \in DOMAIN info /\ s \notin goals
      /\ UNCHANGED <<next, goals, estimate>>
      /\ s \notin K /\ Start \notin K
      /\ \A r \in K : /\ r \in next[s] /\ r \in States
                      /\ r \in DOMAIN info => c + 1 < info[r].cost
      /\ \A r \in next[s] \ K : r \in DOMAIN info /\ info[r].cost <= c + 1
      /\ DOMAIN info' = K \cup DOMAIN info
      /\ \A r \in K : info'[r] = StateInfo(s, c + 1, c + 1 + estimate[r])
      /\ \A r \in DOMAIN info \ K : info'[r] = info[r]
      /\ info' \in [DOMAIN info' -> {info'[r] : r \in DOMAIN info'}]
      /\ frontier' = (frontier \ {entry}) \cup new
  BY <1>0 DEF Expanded
<1> USE DEF s, c
<1>2. /\ \A r \in DOMAIN info : /\ r \in States /\ info[r].cost \in Nat
                                /\ info[r].frontierCost \in Nat
                                /\ info[r].predecessor \in DOMAIN info
                                /\ info[r] \in Infos
                                /\ CostRight(r) /\ Opened(r)
      /\ estimate \in [States -> Nat]
      /\ Start \in DOMAIN info /\ info[Start].cost = 0 /\ info[Start].frontierCost = 0
  BY InfoTypes DEF AStarInv, AStarTypes
<1> HIDE DEF K
<1>3. c \in Nat /\ s \in States /\ \A r \in K : estimate[r] \in Nat
  BY <1>1, <1>2
<1>4. /\ \A r \in K : /\ info'[r].predecessor = s /\ info'[r].cost = c + 1
                      /\ info'[r].frontierCost = c + 1 + estimate[r]
      /\ s \in DOMAIN info' /\ info'[s] = info[s]
      /\ Start \in DOMAIN info' /\ info'[Start] = info[Start]
  <2>1. \A r \in K : info'[r] = [predecessor |-> s, cost |-> c + 1,
                                 frontierCost |-> c + 1 + estimate[r]]
    BY <1>1 DEF StateInfo
  <2> HIDE DEF s, c
  <2> QED
    BY <1>1, <1>2, <2>1
\* Costs only fall.
<1>5. \A r \in DOMAIN info : /\ info'[r].cost \in Nat /\ info'[r].cost <= info[r].cost
                             /\ r \in DOMAIN info'
  <2> SUFFICES ASSUME NEW r \in DOMAIN info
               PROVE  info'[r].cost \in Nat /\ info'[r].cost <= info[r].cost
    BY <1>1
  <2>1. CASE r \in K
    <3> DEFINE d == info[r].cost
    <3>1. c + 1 < d /\ d \in Nat /\ info'[r].cost = c + 1
      BY <1>1, <1>2, <1>4, <2>1
    <3> HIDE DEF c, d
    <3>2. c + 1 \in Nat /\ c + 1 <= d
      BY <1>3, <3>1
    <3> QED
      BY <3>1, <3>2 DEF d
  <2>2. CASE r \notin K
    <3>1. info'[r] = info[r] /\ info[r].cost \in Nat
      BY <1>1, <1>2, <2>2
    <3> DEFINE d == info[r].cost
    <3>2. d \in Nat => d <= d
      <4> HIDE DEF d
      <4> QED
        OBVIOUS
    <3> QED
      BY <3>1, <3>2
  <2> QED
    BY <2>1, <2>2
<1>6. AStarTypes'
  <2>1. ASSUME NEW r \in DOMAIN info' PROVE info'[r] \in Infos' /\ r \in States
    <3>1. CASE r \in K
      <4>1. info'[r] = [predecessor |-> s, cost |-> c + 1,
                        frontierCost |-> c + 1 + estimate[r]]
        BY <1>1, <3>1 DEF StateInfo
      <4> DEFINE h == estimate[r]
      <4>2. c + 1 \in Nat /\ c + 1 + h \in Nat
        <5>1. h \in Nat
          BY <1>3, <3>1
        <5> HIDE DEF h, c
        <5> QED
          BY <1>3, <5>1
      <4> QED
        BY <1>1, <1>4, <3>1, <4>1, <4>2 DEF Infos
    <3>2. CASE r \notin K
      <4>1. r \in DOMAIN info /\ info'[r] = info[r]
        BY <1>1, <3>2
      <4>2. info[r] \in Infos /\ DOMAIN info \subseteq DOMAIN info'
        BY <1>1, <1>2, <4>1
      <4> QED
        BY <1>2, <4>1, <4>2 DEF Infos
    <3> QED
      BY <3>1, <3>2
  <2>2. info' \in [DOMAIN info' -> Infos']
    <3>1. {info'[r] : r \in DOMAIN info'} \subseteq Infos'
      BY <2>1
    <3> QED
      BY <1>1, <3>1
  <2> QED
    BY <1>1, <1>2, <1>4, <2>1, <2>2 DEF AStarTypes
<1>7. LowerBound' /\ Start \notin goals'
  BY <1>1 DEF AStarInv, LowerBound
<1>8. ASSUME NEW r \in DOMAIN info' PROVE CostRight(r)'
  <2>1. CASE r \in K
    <3>1. s \in Reach(next, Start)[c]
      BY <1>1, <1>2 DEF CostRight
    <3>2. r \in Reach(next, Start)[c + 1]
      <4>1. Reach(next, Start)[c + 1] =
              Reach(next, Start)[c] \cup UNION {next[x] : x \in Reach(next, Start)[c]}
        <5>1. Start \in States
          BY SpacesAssumption DEF SpacesAssumption
        <5> HIDE DEF c
        <5> QED
          BY <1>3, <5>1, ReachIs
      <4> QED
        BY <1>1, <2>1, <3>1, <4>1
    <3>3. /\ info'[r].cost = c + 1 /\ info'[r].frontierCost = c + 1 + estimate[r]
          /\ info'[r].predecessor = s /\ info'[s].cost = c
      BY <1>4, <2>1
    <3>4. info'[r].frontierCost = info'[r].cost + estimate'[r]
      BY <1>1, <3>3
    <3>5. c + 1 <= c + 1
      <4> HIDE DEF c
      <4> QED
        BY <1>3
    <3>6. info'[info'[r].predecessor].cost + 1 <= info'[r].cost
      BY <3>3, <3>5
    <3>7. r \in next'[info'[r].predecessor] /\ r \in Reach(next', Start)[info'[r].cost]
      BY <1>1, <2>1, <3>2, <3>3
    <3> QED
      BY <3>4, <3>6, <3>7 DEF CostRight
  <2>2. CASE r \notin K
    <3>1. r \in DOMAIN info /\ info'[r] = info[r]
      BY <1>1, <2>2
    <3> DEFINE q == info[r].predecessor
               d == info[r].cost
               e == info[q].cost
               g == info'[q].cost
    <3>2. q \in DOMAIN info /\ CostRight(r) /\ d \in Nat
      BY <1>2, <3>1
    <3>3. g \in Nat /\ g <= e /\ e \in Nat
      BY <1>2, <1>5, <3>2
    <3>4. r # Start => e + 1 <= d
      BY <3>2 DEF CostRight
    <3>5. r # Start => g + 1 <= d
      <4> HIDE DEF q, d, e, g
      <4> QED
        BY <3>2, <3>3, <3>4
    <3> QED
      BY <1>1, <3>1, <3>2, <3>5 DEF CostRight
  <2> QED
    BY <2>1, <2>2
<1>9. ASSUME NEW r \in DOMAIN info' PROVE Opened(r)'
  <2>1. CASE r \in K
    <3>1. <<c + 1 + estimate[r], r>> \in frontier'
      BY <1>1, <2>1
    <3>2. info'[r].frontierCost = c + 1 + estimate[r]
      BY <1>4, <2>1
    <3> QED
      BY <3>1, <3>2 DEF Opened
  <2>2. CASE r = s
    <3>1. ASSUME NEW q \in next[s] PROVE q \in DOMAIN info' /\ info'[q].cost <= c + 1
      <4>1. CASE q \in K
        <5>1. info'[q].cost = c + 1 /\ q \in DOMAIN info'
          BY <1>1, <1>4, <4>1
        <5>2. c + 1 <= c + 1
          <6> HIDE DEF c
          <6> QED
            BY <1>3
        <5> QED
          BY <5>1, <5>2
      <4>2. CASE q \notin K
        <5>1. q \in DOMAIN info /\ info[q].cost <= c + 1 /\ info'[q] = info[q]
          BY <1>1, <4>2
        <5> QED
          BY <1>1, <5>1
      <4> QED
        BY <4>1, <4>2
    <3>2. info'[s].cost = c
      BY <1>4
    <3> QED
      BY <1>1, <2>2, <3>1, <3>2 DEF Opened
  <2>3. CASE r \notin K /\ r # s
    <3>1. r \in DOMAIN info /\ info'[r] = info[r]
      BY <1>1, <2>3
    <3>2. Opened(r)
      BY <1>2, <3>1
    <3>3. CASE <<info[r].frontierCost, r>> \in frontier
      <4>1. <<info[r].frontierCost, r>> # entry
        BY <1>1, <2>3
      <4> QED
        BY <1>1, <3>1, <3>3, <4>1 DEF Opened
    <3>4. CASE /\ r \notin goals
               /\ \A q \in next[r] : q \in DOMAIN info /\ info[q].cost <= info[r].cost + 1
      <4> DEFINE d == info[r].cost
      <4>1. ASSUME NEW q \in next[r] PROVE q \in DOMAIN info' /\ info'[q].cost <= d + 1
        <5> DEFINE e == info[q].cost
                   g == info'[q].cost
        <5>1. /\ q \in DOMAIN info' /\ e \in Nat /\ g \in Nat /\ d \in Nat
              /\ e <= d + 1 /\ g <= e
          BY <1>2, <1>5, <3>1, <3>4
        <5>2. g <= d + 1
          <6> HIDE DEF d, e, g
          <6> QED
            BY <5>1
        <5> QED
          BY <5>1, <5>2
      <4> QED
        BY <1>1, <3>1, <3>4, <4>1 DEF Opened
    <3> QED
      BY <3>2, <3>3, <3>4 DEF Opened
  <2> QED
    BY <2>1, <2>2, <2>3
<1>10. ASSUME NEW e \in frontier'
       PROVE  e \in Nat \X DOMAIN info' /\ info'[e[2]].frontierCost <= e[1]
  <2>1. CASE e \in new
    <3>1. PICK r \in K : e = <<c + 1 + estimate[r], r>>
      BY <2>1
    <3> DEFINE f == c + 1 + estimate[r]
    <3>2. f \in Nat /\ f <= f
      <4> DEFINE h == estimate[r]
      <4>1. h \in Nat
        BY <1>3
      <4>2. c + 1 + h \in Nat /\ c + 1 + h <= c + 1 + h
        <5> HIDE DEF c, h
        <5> QED
          BY <1>3, <4>1
      <4> QED
        BY <4>2
    <3>3. info'[r].frontierCost = f /\ e = <<f, r>> /\ r \in DOMAIN info'
      BY <1>1, <1>4, <3>1
    <3> HIDE DEF f
    <3> QED
      BY <3>2, <3>3
  <2>2. CASE e \in frontier
    <3>1. e \in Nat \X DOMAIN info /\ info[e[2]].frontierCost <= e[1]
      BY <2>2 DEF AStarInv
    <3> DEFINE r == e[2]
    <3>2. r \in DOMAIN info /\ DOMAIN info \subseteq DOMAIN info' /\ e[1] \in Nat
      BY <1>1, <3>1
    <3>3. info'[r].frontierCost <= e[1]
      <4>1. CASE r \notin K
        <5>1. info'[r] = info[r]
          BY <1>1, <3>2, <4>1
        <5> QED
          BY <3>1, <5>1
      <4>2. CASE r \in K
        <5> DEFINE h == estimate[r]
                   d == info[r].cost
                   f == info[r].frontierCost
        <5>1. r # Start /\ CostRight(r) /\ c + 1 < d
          BY <1>1, <1>2, <3>2, <4>2
        <5>2. f = d + h
          BY <5>1 DEF CostRight
        <5>3. h \in Nat /\ d \in Nat /\ f <= e[1]
          BY <1>2, <1>3, <3>1, <3>2, <4>2
        <5>4. c + 1 + h <= e[1]
          <6> DEFINE g == e[1]
          <6>1. f <= g /\ g \in Nat
            BY <3>2, <5>3
          <6>2. c + 1 + h <= g
            <7> HIDE DEF c, d, f, g, h
            <7> QED
              BY <1>3, <5>1, <5>2, <5>3, <6>1
          <6> QED
            BY <6>2
        <5> QED
          BY <1>4, <4>2, <5>4
      <4> QED
        BY <4>1, <4>2
    <3> QED
      BY <3>1, <3>2, <3>3
  <2> QED
    BY <1>1, <2>1, <2>2
<1> QED
  BY <1>6, <1>7, <1>8, <1>9, <1>10 DEF AStarInv

-----------------------------------------------------------------------------
(* DFS: what it has not looked at yet. *)

\* How many actions a solution may have that DFS finds.
Deepest == Max({limit, 1})

\* A limit of 0 acts as 1.
LEMMA DeepestIs ==
  ASSUME limit \in Nat
  PROVE  Deepest \in Nat /\ Deepest = IF limit >= 1 THEN limit ELSE 1
<1> DEFINE m == IF limit >= 1 THEN limit ELSE 1
<1>1. m \in {limit, 1} /\ \A y \in {limit, 1} : m >= y
  OBVIOUS
<1>2. \A x \in {limit, 1} : (\A y \in {limit, 1} : x >= y) => x = m
  OBVIOUS
<1> QED
  BY <1>1, <1>2 DEF Max, Deepest

\* A final state can be reached from the i-th item without going too deep.
Promising(i) ==
  /\ i \in 1 .. Len(stack) /\ DepthAt(i) <= Deepest
  /\ Reach(next, stack[i][1])[Deepest - DepthAt(i)] \cap goals # {}

\* Something promising is left, as long as there was something to find.
DepthOpen ==
  /\ \A i \in 1 .. Len(stack) : stack[i][1] \notin goals
  /\ Reach(next, Start)[Deepest] \cap goals # {} => \E i \in 1 .. Len(stack) : Promising(i)

\* If the top item is the promising one, so is one of its successors.
LEMMA TopPromises ==
  ASSUME DepthInv, DepthOpen, stack # << >>, Promising(Len(stack)),
         next[TopState] \cap goals = {}
  PROVE  /\ Deeper /\ TopDepth + 1 <= Deepest
         /\ \E r \in next[TopState] : Reach(next, r)[Deepest - (TopDepth + 1)] \cap goals # {}
<1> DEFINE s == TopState
           d == TopDepth
           n == Len(stack)
           m == Deepest
           j == m - d
<1>1. /\ n \in Nat /\ n >= 1 /\ s \in States /\ d \in Nat
      /\ s = stack[n][1] /\ d = DepthAt(n)
  BY TopOf
<1>2. next \in SpaceFunctions /\ limit \in Nat
  BY DEF DepthInv, DepthTypes, SpaceFunctions
<1>3. m \in Nat /\ m = IF limit >= 1 THEN limit ELSE 1
  BY <1>2, DeepestIs
<1>4. d = 0 \/ d <= limit - 1
  <2>1. n \in 1 .. n
    BY <1>1
  <2> QED
    BY <1>1, <2>1 DEF DepthInv, DepthLimited
<1>5. d <= m /\ Reach(next, s)[m - d] \cap goals # {}
  BY <1>1 DEF Promising
<1>6. s \notin goals
  <2>1. n \in 1 .. n
    BY <1>1
  <2> QED
    BY <1>1, <2>1 DEF DepthOpen
<1>7. Deeper <=> next[s] # {} /\ d < limit - 1
  BY DEF Deeper
<1> HIDE DEF s, d, m, n
<1>8. j \in Nat
  BY <1>1, <1>3, <1>5
<1>9. PICK t \in Reach(next, s)[j] : t \in goals
  BY <1>5
<1>10. t # s
  BY <1>6, <1>9
<1>11. Reach(next, s)[0] = {s}
  BY <1>1, <1>2, ReachIs
<1>12. j # 0
  BY <1>9, <1>10, <1>11
<1> DEFINE k == j - 1
<1>13. k \in Nat /\ k + 1 = j /\ k = m - (d + 1) /\ d + 1 <= m
  BY <1>1, <1>3, <1>8, <1>12
<1> HIDE DEF j, k
<1>14. PICK r \in next[s] : t \in Reach(next, r)[k]
  <2>1. t \in Reach(next, s)[k + 1]
    BY <1>9, <1>13
  <2> QED
    BY <1>1, <1>2, <1>10, <1>13, <2>1, ReachFirst
<1>15. k # 0
  <2> SUFFICES ASSUME k = 0 PROVE FALSE
    OBVIOUS
  <2>1. r \in States
    BY <1>1, <1>2 DEF SpaceFunctions
  <2>2. Reach(next, r)[0] = {r}
    BY <1>2, <2>1, ReachIs
  <2>3. t = r
    BY <1>14, <2>2
  <2> QED
    BY <1>9, <1>14, <2>3 DEF s
<1>16. d < limit - 1
  BY <1>1, <1>2, <1>3, <1>4, <1>13, <1>15
<1>17. Reach(next, r)[m - (d + 1)] \cap goals # {}
  BY <1>9, <1>13, <1>14
<1> QED
  BY <1>7, <1>13, <1>14, <1>16, <1>17 DEF s, d, m

\* Another item stays as promising as it was.
LEMMA StillPromising ==
  ASSUME DepthInv, stack # << >>, UNCHANGED <<next, goals, limit>>,
         NEW i, Promising(i), i # Len(stack),
         Len(stack') >= Len(stack) - 1, Len(stack') \in Nat,
         \A k \in 1 .. Len(stack) - 1 : stack'[k] = stack[k]
  PROVE  Promising(i)'
<1>1. Len(stack) \in Nat
  BY TopOf
<1>2. i \in 1 .. Len(stack)
  BY DEF Promising
<1>3. i \in 1 .. Len(stack) - 1 /\ i \in 1 .. Len(stack')
  BY <1>1, <1>2
<1>4. stack'[i] = stack[i] /\ Deepest' = Deepest
  BY <1>3 DEF Deepest
<1> QED
  BY <1>3, <1>4 DEF Promising, DepthAt

\* Pushing the successors keeps it,
LEMMA DescendOpen ==
  ASSUME DepthInv, DepthOpen, Descend
  PROVE  DepthOpen'
<1> DEFINE n == Len(stack)
           l == Len(stack')
<1>1. /\ stack # << >> /\ next[TopState] \cap goals = {} /\ UNCHANGED <<next, goals, limit>>
  BY DEF Descend, Inspect, problemVars
<1>2. n \in Nat /\ n >= 1 /\ TopState \in States /\ TopDepth \in Nat
  BY <1>1, TopOf
<1>3. /\ stack' \in Seq(States \X Nat) /\ l >= n
      /\ \A i \in 1 .. n - 1 : stack'[i] = stack[i]
      /\ \A i \in n .. l : stack'[i][1] \in next[TopState] /\ stack'[i][2] = TopDepth + 1
      /\ \A r \in next[TopState] : \E i \in n .. l : stack'[i][1] = r
  BY <1>1, Pushed
<1>4. l \in Nat /\ l >= n - 1
  <2>1. l \in Nat
    BY <1>3
  <2> HIDE DEF l, n
  <2> QED
    BY <1>2, <1>3, <2>1
<1>5. Deepest' = Deepest
  BY <1>1 DEF Deepest
<1>6. ASSUME NEW i \in 1 .. l PROVE stack'[i][1] \notin goals'
  <2>1. i \in 1 .. n - 1 \/ i \in n .. l
    BY <1>2, <1>4
  <2>2. CASE i \in 1 .. n - 1
    <3>1. i \in 1 .. n
      BY <1>2, <2>2
    <3> QED
      BY <1>1, <1>3, <2>2, <3>1 DEF DepthOpen
  <2>3. CASE i \in n .. l
    BY <1>1, <1>3, <2>3
  <2> QED
    BY <2>1, <2>2, <2>3
<1>7. ASSUME Reach(next', Start)[Deepest'] \cap goals' # {}
      PROVE  \E i \in 1 .. l : Promising(i)'
  <2>1. PICK i \in 1 .. n : Promising(i)
    BY <1>1, <1>5, <1>7 DEF DepthOpen
  <2>2. CASE i = n
    <3>1. TopDepth + 1 <= Deepest
          /\ \E r \in next[TopState] : Reach(next, r)[Deepest - (TopDepth + 1)] \cap goals # {}
      BY <1>1, <2>1, <2>2, TopPromises
    <3>2. PICK r \in next[TopState] : Reach(next, r)[Deepest - (TopDepth + 1)] \cap goals # {}
      BY <3>1
    <3>3. PICK k \in n .. l : stack'[k][1] = r
      BY <1>3
    <3>4. k \in 1 .. l /\ stack'[k][2] = TopDepth + 1
      BY <1>2, <1>3, <1>4
    <3>5. Promising(k)'
      BY <1>1, <1>5, <3>1, <3>2, <3>3, <3>4 DEF Promising, DepthAt
    <3> QED
      BY <3>4, <3>5
  <2>3. CASE i # n
    <3>1. Promising(i)'
      BY <1>1, <1>3, <1>4, <2>1, <2>3, StillPromising
    <3>2. i \in 1 .. l
      BY <1>2, <1>3, <1>4, <2>3
    <3> QED
      BY <3>1, <3>2
  <2> QED
    BY <2>2, <2>3
<1> QED
  BY <1>6, <1>7 DEF DepthOpen

\* and so does giving up on an item.
LEMMA DeadEndOpen ==
  ASSUME DepthInv, DepthOpen, DeadEnd
  PROVE  DepthOpen'
<1> DEFINE n == Len(stack)
           l == Len(stack')
<1>1. /\ stack # << >> /\ next[TopState] \cap goals = {} /\ UNCHANGED <<next, goals, limit>>
      /\ ~Deeper /\ stack' = Front(stack)
  BY DEF DeadEnd, Inspect, problemVars
<1>2. stack \in Seq(States \X Nat)
  BY DEF DepthInv, DepthTypes
<1>3. n \in Nat /\ n >= 1 /\ l = n - 1 /\ \A i \in 1 .. n - 1 : stack'[i] = stack[i]
  BY <1>1, <1>2, WithoutLast
<1>4. l \in Nat /\ l >= n - 1
  <2> HIDE DEF l, n
  <2> QED
    BY <1>3
<1>5. Deepest' = Deepest
  BY <1>1 DEF Deepest
<1>6. ASSUME NEW i \in 1 .. l PROVE stack'[i][1] \notin goals'
  <2>1. i \in 1 .. n - 1 /\ i \in 1 .. n
    <3> HIDE DEF l, n
    <3> QED
      BY <1>3
  <2> QED
    BY <1>1, <1>3, <2>1 DEF DepthOpen
<1>7. ASSUME Reach(next', Start)[Deepest'] \cap goals' # {}
      PROVE  \E i \in 1 .. l : Promising(i)'
  <2>1. PICK i \in 1 .. n : Promising(i)
    BY <1>1, <1>5, <1>7 DEF DepthOpen
  <2>2. i # n
    BY <1>1, <2>1, TopPromises
  <2>3. Promising(i)'
    BY <1>1, <1>3, <1>4, <2>1, <2>2, StillPromising
  <2>4. i \in 1 .. l
    <3> HIDE DEF l, n
    <3> QED
      BY <1>3, <2>2
  <2> QED
    BY <2>3, <2>4
<1> QED
  BY <1>6, <1>7 DEF DepthOpen

\* DFS fails on an empty stack only: nothing promising is left.
LEMMA FailsRightly ==
  ASSUME DepthOpen, DepthFails
  PROVE  Reach(next, Start)[Deepest] \cap goals = {}
<1>1. Len(stack) = 0
  BY DEF DepthFails
<1> QED
  BY <1>1 DEF DepthOpen

\* The actions DFS returns are states.
LEMMA DepthFound ==
  ASSUME DepthInv, DepthFinish
  PROVE  solution' \in Seq(States)
<1>1. PICK g \in next[TopState] \cap goals : Found(Append(Tail(Chain), g))
  BY DEF DepthFinish
<1>2. stack # << >>
  BY DEF DepthFinish
<1>3. TopState \in States /\ TopDepth \in Nat
  BY <1>2, TopOf
<1>4. g \in States
  BY <1>3 DEF DepthInv, DepthTypes
<1>5. Chain \in Seq(States) /\ Len(Chain) = TopDepth + 1
  BY <1>2, ChainIs
<1>6. Tail(Chain) \in Seq(States)
  <2>1. Chain # << >>
    BY <1>3, <1>5
  <2> QED
    BY <1>5, <2>1, HeadTailProperties
<1>7. Append(Tail(Chain), g) \in Seq(States)
  BY <1>4, <1>6, AppendProperties
<1> QED
  BY <1>1, <1>7 DEF Found

-----------------------------------------------------------------------------
(* BFS: the queue and the tree of predecessors. *)

\* s is n steps from the start.
Level(f, s, n) == Nearest(f, Start, {s}, n)

\* A state is on one level, the first that reaches it.
LEMMA LevelIs ==
  ASSUME NEW f \in SpaceFunctions, NEW s, NEW n \in Nat
  PROVE  /\ Level(f, s, n + 1) <=>
              s \in Reach(f, Start)[n + 1] /\ s \notin Reach(f, Start)[n]
         /\ Level(f, s, n) => s \in Reach(f, Start)[n]
         /\ Level(f, s, 0) <=> s = Start
         /\ \A k \in Nat : Level(f, s, n) /\ Level(f, s, k) => n = k
<1> DEFINE R == Reach(f, Start)
<1>0. Start \in States
  BY SpacesAssumption DEF SpacesAssumption
<1>1. /\ R[0] = {Start}
      /\ \A i, k \in Nat : i <= k => R[i] \subseteq R[k]
  BY <1>0, ReachIs, ReachGrows
<1>2. \A k : Level(f, s, k) <=> /\ k \in Nat /\ s \in R[k]
                                /\ \A i \in Nat : s \in R[i] => k <= i
  BY DEF Level, Nearest
<1> HIDE DEF R
<1>3. Level(f, s, n + 1) <=> s \in R[n + 1] /\ s \notin R[n]
  <2>1. ASSUME Level(f, s, n + 1) PROVE s \in R[n + 1] /\ s \notin R[n]
    <3>1. s \in R[n + 1] /\ \A i \in Nat : s \in R[i] => n + 1 <= i
      BY <1>2, <2>1
    <3>2. ~(n + 1 <= n)
      OBVIOUS
    <3> QED
      BY <3>1, <3>2
  <2>2. ASSUME s \in R[n + 1], s \notin R[n] PROVE Level(f, s, n + 1)
    <3>1. ASSUME NEW i \in Nat, s \in R[i] PROVE n + 1 <= i
      <4>1. ~(i <= n)
        BY <1>1, <2>2, <3>1
      <4> QED
        BY <4>1
    <3>2. n + 1 \in Nat
      OBVIOUS
    <3> QED
      BY <1>2, <2>2, <3>1, <3>2
  <2> QED
    BY <2>1, <2>2
<1>4. Level(f, s, 0) <=> s = Start
  <2>1. \A i \in Nat : 0 <= i
    OBVIOUS
  <2> QED
    BY <1>1, <1>2, <2>1
<1>5. ASSUME NEW k \in Nat, Level(f, s, n), Level(f, s, k) PROVE n = k
  <2>1. n <= k /\ k <= n
    BY <1>2, <1>5
  <2> QED
    BY <2>1
<1> QED
  BY <1>2, <1>3, <1>4, <1>5 DEF R

\* Every discovered state was discovered from a state one step nearer.
Tree ==
  /\ DOMAIN closed \subseteq States /\ Start \in DOMAIN closed /\ closed[Start] = Nowhere
  /\ \A s \in DOMAIN closed \ {Start} :
       /\ closed[s] \in DOMAIN closed /\ s \in next[closed[s]]
       /\ \E m \in Nat : Level(next, closed[s], m) /\ Level(next, s, m + 1)

\* The queue: k states that are n steps from the start, and those discovered
\* states that are a step further.
Wave(n, k) ==
  LET R == Reach(next, Start)
  IN  /\ n \in Nat /\ k \in 0 .. Len(open)
      /\ R[n] \subseteq DOMAIN closed /\ DOMAIN closed \subseteq R[n + 1]
      /\ R[n] \cap goals = {}
      /\ \A i \in 1 .. k : Level(next, open[i], n)
      /\ \A i \in k + 1 .. Len(open) : open[i] \in DOMAIN closed \ R[n]
      /\ \A s \in DOMAIN closed \ R[n] : \E i \in k + 1 .. Len(open) : open[i] = s
      /\ \A s \in R[n] : \/ \E i \in 1 .. k : open[i] = s
                         \/ next[s] \subseteq DOMAIN closed /\ next[s] \cap goals = {}

\* What BFS keeps.
BreadthInv ==
  /\ open \in Seq(States) /\ Tree
  /\ \E n, k : Wave(n, k)

\* The ways to all discovered states.
WayTo(c) ==
  CHOOSE way : way = [r \in DOMAIN c |->
                       IF c[r] = Nowhere THEN << >> ELSE Append(way[c[r]], r)]

\* The way to a discovered state has as many actions as the state is steps away.
LEMMA WayIs ==
  ASSUME Tree, next \in SpaceFunctions, NEW s \in DOMAIN closed
  PROVE  \E n \in Nat : Level(next, s, n) /\ IsRoute(next, Way(s), s) /\ Len(Way(s)) = n
<1> DEFINE D == DOMAIN closed
           T == Seq(States)
           m == [r \in D |-> CHOOSE n : n \in Nat /\ Level(next, r, n)]
           B == [p \in [D -> T] \X D |->
                   IF closed[p[2]] = Nowhere THEN << >> ELSE Append(p[1][closed[p[2]]], p[2])]
           w == WayTo(closed)
<1>1. /\ D \subseteq States /\ Start \in D /\ closed[Start] = Nowhere /\ Nowhere \notin States
      /\ \A r \in D \ {Start} :
           /\ closed[r] \in D /\ r \in next[closed[r]]
           /\ \E n \in Nat : Level(next, closed[r], n) /\ Level(next, r, n + 1)
  BY NowhereAssumption DEF Tree, NowhereAssumption
<1>2. \A r \in D : closed[r] = Nowhere <=> r = Start
  BY <1>1
<1>3. \A r \in D : \E n \in Nat : Level(next, r, n)
  <2> SUFFICES ASSUME NEW r \in D PROVE \E n \in Nat : Level(next, r, n)
    OBVIOUS
  <2>1. CASE r = Start
    <3>1. 0 \in Nat /\ (Level(next, r, 0) <=> r = Start)
      BY LevelIs
    <3> QED
      BY <2>1, <3>1
  <2>2. CASE r # Start
    <3>1. PICK n \in Nat : Level(next, r, n + 1)
      BY <1>1, <2>2
    <3>2. n + 1 \in Nat
      OBVIOUS
    <3> QED
      BY <3>1, <3>2
  <2> QED
    BY <2>1, <2>2
<1>4. \A r \in D : m[r] \in Nat /\ Level(next, r, m[r])
  BY <1>3
<1>5. m \in [D -> Nat]
  BY <1>4
<1> HIDE DEF m
<1>6. \A r \in D \ {Start} : m[closed[r]] + 1 = m[r] /\ m[closed[r]] < m[r]
  <2> SUFFICES ASSUME NEW r \in D \ {Start}
               PROVE  m[closed[r]] + 1 = m[r] /\ m[closed[r]] < m[r]
    OBVIOUS
  <2>1. PICK n \in Nat : Level(next, closed[r], n) /\ Level(next, r, n + 1)
    BY <1>1
  <2>2. /\ Level(next, closed[r], m[closed[r]]) /\ m[closed[r]] \in Nat
        /\ Level(next, r, m[r]) /\ m[r] \in Nat
    BY <1>1, <1>4
  <2>3. n + 1 \in Nat
    OBVIOUS
  <2>4. m[closed[r]] = n /\ m[r] = n + 1
    BY <2>1, <2>2, <2>3, LevelIs
  <2> QED
    BY <2>4
<1>7. m[Start] = 0
  <2>1. Level(next, Start, 0)
    <3>1. 0 \in Nat
      OBVIOUS
    <3> QED
      BY <3>1, LevelIs
  <2>2. Level(next, Start, m[Start]) /\ m[Start] \in Nat /\ 0 \in Nat
    BY <1>1, <1>4
  <2> QED
    BY <2>1, <2>2, LevelIs
<1> HIDE DEF D
<1>8. Descending(B, D, T, m)
  <2>1. T # {}
    <3>1. << >> \in T
      OBVIOUS
    <3> QED
      BY <3>1
  <2>2. ASSUME NEW f \in [D -> T], NEW r \in D
        PROVE  (IF closed[r] = Nowhere THEN << >> ELSE Append(f[closed[r]], r)) \in T
    <3>1. CASE r = Start
      BY <1>1, <3>1
    <3>2. CASE r # Start
      <4>1. f[closed[r]] \in Seq(States) /\ r \in States
        BY <1>1, <3>2
      <4>2. Append(f[closed[r]], r) \in Seq(States)
        BY <4>1, AppendProperties
      <4> QED
        BY <1>2, <3>2, <4>2
    <3> QED
      BY <3>1, <3>2
  <2> HIDE DEF T
  <2>3. B \in [[D -> T] \X D -> T]
    BY <2>2
  <2>4. ASSUME NEW f \in [D -> T], NEW g \in [D -> T], NEW r \in D,
               \A q \in D : m[q] < m[r] => f[q] = g[q]
        PROVE  B[<<f, r>>] = B[<<g, r>>]
    <3>1. r # Start => f[closed[r]] = g[closed[r]]
      BY <1>1, <1>6, <2>4
    <3>2. /\ B[<<f, r>>] = IF closed[r] = Nowhere THEN << >> ELSE Append(f[closed[r]], r)
          /\ B[<<g, r>>] = IF closed[r] = Nowhere THEN << >> ELSE Append(g[closed[r]], r)
      OBVIOUS
    <3> QED
      BY <1>2, <3>1, <3>2
  <2> HIDE DEF B
  <2> QED
    BY <1>5, <2>1, <2>3, <2>4 DEF Descending
<1>9. PICK g \in Defines(B, D, T) : TRUE
  <2> HIDE DEF B, T
  <2> QED
    BY <1>8, Recursion
<1>10. g = [r \in D |-> IF closed[r] = Nowhere THEN << >> ELSE Append(g[closed[r]], r)]
  <2> HIDE DEF T
  <2>1. g \in [D -> T] /\ \A r \in D : g[r] = B[<<g, r>>]
    BY <1>9 DEF Defines
  <2>2. \A r \in D : B[<<g, r>>] =
                       IF closed[r] = Nowhere THEN << >> ELSE Append(g[closed[r]], r)
    BY <2>1
  <2> HIDE DEF B
  <2> QED
    BY <2>1, <2>2
<1>11. w = [r \in D |-> IF closed[r] = Nowhere THEN << >> ELSE Append(w[closed[r]], r)]
  BY <1>10 DEF WayTo, D
<1>12. Way(s) = w[s]
  BY DEF Way, WayTo
<1> HIDE DEF w
<1> DEFINE G == {r \in D : IsRoute(next, w[r], r) /\ Len(w[r]) = m[r]}
<1>13. ASSUME NEW r \in D, \A q \in D : m[q] < m[r] => q \in G PROVE r \in G
  <2>1. CASE r = Start
    <3>1. w[r] = << >>
      BY <1>2, <1>11, <2>1
    <3> QED
      BY <1>7, <2>1, <3>1, RouteStarts
  <2>2. CASE r # Start
    <3>1. closed[r] \in G /\ closed[r] \in States /\ r \in next[closed[r]]
      BY <1>1, <1>6, <1>13, <2>2
    <3>2. w[r] = Append(w[closed[r]], r)
      BY <1>2, <1>11, <2>2
    <3>3. IsRoute(next, Append(w[closed[r]], r), r)
          /\ Len(Append(w[closed[r]], r)) = Len(w[closed[r]]) + 1
      BY <3>1, RouteExtends
    <3>4. Len(w[closed[r]]) + 1 = m[r]
      BY <1>6, <2>2, <3>1
    <3> QED
      BY <3>2, <3>3, <3>4
  <2> QED
    BY <2>1, <2>2
<1> HIDE DEF G
<1>14. D \subseteq G
  BY <1>5, <1>13, MeasureInduction
<1>15. s \in G /\ s \in D
  BY <1>14 DEF D
<1>16. IsRoute(next, Way(s), s) /\ Len(Way(s)) = m[s] /\ m[s] \in Nat /\ Level(next, s, m[s])
  BY <1>4, <1>12, <1>15 DEF G
<1> QED
  BY <1>16

\* When the first k states are expanded, the others are the next k.
LEMMA WaveNext ==
  ASSUME next \in SpaceFunctions, open \in Seq(States), NEW n, Wave(n, 0)
  PROVE  Wave(n + 1, Len(open))
<1> DEFINE R == Reach(next, Start)
           D == DOMAIN closed
           l == Len(open)
<1>1. Start \in States /\ l \in Nat
  BY SpacesAssumption DEF SpacesAssumption
<1>2. /\ n \in Nat /\ 0 \in 0 .. l
      /\ R[n] \subseteq D /\ D \subseteq R[n + 1]
      /\ R[n] \cap goals = {}
      /\ \A i \in 0 + 1 .. l : open[i] \in D \ R[n]
      /\ \A s \in D \ R[n] : \E i \in 0 + 1 .. l : open[i] = s
      /\ \A s \in R[n] : \/ \E i \in 1 .. 0 : open[i] = s
                         \/ next[s] \subseteq D /\ next[s] \cap goals = {}
  BY DEF Wave
<1>3. \A i \in Nat : R[i + 1] = R[i] \cup UNION {next[x] : x \in R[i]}
  BY <1>1, ReachIs
<1>4. \A s \in R[n] : next[s] \subseteq D /\ next[s] \cap goals = {}
  BY <1>2
<1>5. R[n + 1] = R[n] \cup UNION {next[x] : x \in R[n]}
  BY <1>2, <1>3
<1>6. R[n + 1] \subseteq D /\ R[n + 1] \cap goals = {}
  BY <1>2, <1>4, <1>5
<1>7. n + 1 \in Nat /\ D \subseteq R[(n + 1) + 1] /\ l \in 0 .. l
  <2>1. n + 1 \in Nat /\ l \in 0 .. l
    BY <1>1, <1>2
  <2>2. R[(n + 1) + 1] = R[n + 1] \cup UNION {next[x] : x \in R[n + 1]}
    BY <1>3, <2>1
  <2> QED
    BY <1>2, <2>1, <2>2
<1> HIDE DEF R, l
<1>8. \A i \in 1 .. l : Level(next, open[i], n + 1)
  <2> SUFFICES ASSUME NEW i \in 1 .. l PROVE Level(next, open[i], n + 1)
    OBVIOUS
  <2>1. i \in 0 + 1 .. l
    OBVIOUS
  <2>2. open[i] \in R[n + 1] /\ open[i] \notin R[n]
    BY <1>2, <2>1
  <2> QED
    BY <1>2, <2>2, LevelIs DEF R
<1>9. \A i \in l + 1 .. l : open[i] \in D \ R[n + 1]
  BY <1>1
<1>10. \A s \in D \ R[n + 1] : \E i \in l + 1 .. l : open[i] = s
  BY <1>2
<1>11. \A s \in R[n + 1] : \/ \E i \in 1 .. l : open[i] = s
                           \/ next[s] \subseteq D /\ next[s] \cap goals = {}
  <2> SUFFICES ASSUME NEW s \in R[n + 1], s \notin R[n]
               PROVE  \E i \in 1 .. l : open[i] = s
    BY <1>4
  <2>1. PICK i \in 0 + 1 .. l : open[i] = s
    BY <1>2, <1>6
  <2>2. i \in 1 .. l
    OBVIOUS
  <2> QED
    BY <2>1, <2>2
<1> QED
  BY <1>6, <1>7, <1>8, <1>9, <1>10, <1>11 DEF Wave, R, l

\* The first state of the queue is one of the nearer ones.
LEMMA WaveHead ==
  ASSUME BreadthInv, next \in SpaceFunctions, open # << >>
  PROVE  \E n, k : Wave(n, k) /\ k # 0
<1>1. PICK n, k : Wave(n, k)
  BY DEF BreadthInv
<1>2. open \in Seq(States) /\ Len(open) # 0
  BY DEF BreadthInv
<1>3. CASE k = 0
  <2>1. Wave(n + 1, Len(open))
    BY <1>1, <1>2, <1>3, WaveNext
  <2> QED
    BY <1>2, <2>1
<1> QED
  BY <1>1, <1>3

\* The head of the queue.
LEMMA HeadIs ==
  ASSUME open \in Seq(States), NEW n, NEW k, Wave(n, k), k # 0
  PROVE  /\ Head(open) = open[1] /\ Head(open) \in States /\ Head(open) \in DOMAIN closed
         /\ n \in Nat /\ k \in Nat /\ 1 \in 1 .. k /\ k <= Len(open) /\ Len(open) \in Nat
         /\ open # << >>
         /\ Level(next, Head(open), n) /\ Head(open) \in Reach(next, Start)[n]
<1>1. /\ n \in Nat /\ k \in 0 .. Len(open) /\ Reach(next, Start)[n] \subseteq DOMAIN closed
      /\ \A i \in 1 .. k : Level(next, open[i], n)
  BY DEF Wave
<1>2. Len(open) \in Nat /\ k \in Nat /\ 1 \in 1 .. k /\ k <= Len(open) /\ open # << >>
  BY <1>1
<1>3. Head(open) = open[1] /\ Head(open) \in States
  BY <1>2
<1>4. Level(next, Head(open), n)
  BY <1>1, <1>2, <1>3
<1>5. Head(open) \in Reach(next, Start)[n]
  BY <1>4 DEF Level, Nearest
<1> QED
  BY <1>1, <1>2, <1>3, <1>4, <1>5

\* What BFS returns is a shortest way.
LEMMA BreadthSolves ==
  ASSUME BreadthInv, next \in SpaceFunctions, BreadthFinish
  PROVE  \E g \in goals : /\ IsRoute(next, solution', g)
                          /\ Nearest(next, Start, goals, Len(solution'))
<1> DEFINE h == Head(open)
           R == Reach(next, Start)
<1>1. open # << >> /\ open \in Seq(States) /\ Tree
  BY DEF BreadthFinish, BreadthInv
<1>2. PICK g \in next[h] \cap goals : Found(Append(Way(h), g))
  BY DEF BreadthFinish
<1>3. PICK n, k : Wave(n, k) /\ k # 0
  BY <1>1, WaveHead
<1>4. /\ h \in States /\ h \in DOMAIN closed /\ n \in Nat /\ Level(next, h, n) /\ h \in R[n]
      /\ R[n] \cap goals = {}
  BY <1>1, <1>3, HeadIs DEF Wave
<1> HIDE DEF h
<1>5. PICK m \in Nat : Level(next, h, m) /\ IsRoute(next, Way(h), h) /\ Len(Way(h)) = m
  BY <1>1, <1>4, WayIs
<1>6. m = n
  BY <1>4, <1>5, LevelIs
<1>7. IsRoute(next, Append(Way(h), g), g) /\ Len(Append(Way(h), g)) = n + 1
  BY <1>2, <1>4, <1>5, <1>6, RouteExtends
<1>8. solution' = Append(Way(h), g)
  BY <1>2 DEF Found
<1>9. Start \in States
  BY SpacesAssumption DEF SpacesAssumption
<1>10. R[n + 1] = R[n] \cup UNION {next[x] : x \in R[n]}
  BY <1>4, <1>9, ReachIs, ZenonT(30)
<1>11. g \in R[n + 1]
  BY <1>2, <1>4, <1>10
<1>12. ASSUME NEW i \in Nat, R[i] \cap goals # {} PROVE n + 1 <= i
  <2>1. ~(i <= n)
    <3> SUFFICES ASSUME i <= n PROVE FALSE
      OBVIOUS
    <3>1. R[i] \subseteq R[n]
      BY <1>4, <1>9, ReachGrows
    <3> QED
      BY <1>4, <1>12, <3>1
  <2> QED
    BY <1>4, <2>1
<1>13. Nearest(next, Start, goals, n + 1)
  <2>1. n + 1 \in Nat
    BY <1>4
  <2> QED
    BY <1>2, <1>11, <1>12, <2>1 DEF Nearest
<1> QED
  BY <1>2, <1>7, <1>8, <1>13

\* With an empty queue, everything has been looked at.
LEMMA BreadthFailsRightly ==
  ASSUME BreadthInv, next \in SpaceFunctions, open = << >>, NEW j \in Nat
  PROVE  Reach(next, Start)[j] \cap goals = {}
<1> DEFINE R == Reach(next, Start)
<1>1. PICK n, k : Wave(n, k)
  BY DEF BreadthInv
<1>2. Len(open) = 0
  OBVIOUS
<1>3. /\ n \in Nat /\ k = 0 /\ R[n] \cap goals = {}
      /\ \A s \in DOMAIN closed \ R[n] : \E i \in k + 1 .. Len(open) : open[i] = s
      /\ \A s \in R[n] : \/ \E i \in 1 .. k : open[i] = s
                         \/ next[s] \subseteq DOMAIN closed /\ next[s] \cap goals = {}
  BY <1>1, <1>2 DEF Wave
<1>4. DOMAIN closed \subseteq R[n]
  BY <1>2, <1>3
<1>5. \A s \in R[n] : next[s] \subseteq R[n]
  BY <1>3, <1>4
<1>6. Start \in States
  BY SpacesAssumption DEF SpacesAssumption
<1>7. R[n + 1] = R[n] \cup UNION {next[x] : x \in R[n]}
  BY <1>3, <1>6, ReachIs
<1>8. R[n + 1] \subseteq R[n]
  BY <1>5, <1>7
<1>9. R[j] \subseteq R[n]
  BY <1>3, <1>6, <1>8, ReachStays
<1> QED
  BY <1>3, <1>9

\* The queue after an expansion.
LEMMA DiscoverIs ==
  ASSUME BreadthInv, next \in SpaceFunctions, Discover
  PROVE  LET h == Head(open)
             new == next[h] \ DOMAIN closed
             l == Len(open)
         IN  /\ open # << >> /\ h \in States
             /\ next[h] \cap goals = {} /\ UNCHANGED <<next, goals>>
             /\ DOMAIN closed' = new \cup DOMAIN closed
             /\ \A s \in new : closed'[s] = h
             /\ \A s \in DOMAIN closed : closed'[s] = closed[s]
             /\ open' \in Seq(States) /\ Len(open') \in Nat /\ Len(open') >= l - 1
             /\ \A i \in 1 .. l - 1 : open'[i] = open[i + 1]
             /\ \A i \in l .. Len(open') : open'[i] \in new
             /\ \A s \in new : \E i \in l .. Len(open') : open'[i] = s
<1> DEFINE h == Head(open)
           D == DOMAIN closed
           new == next[h] \ D
           l == Len(open)
           m == Cardinality(new)
           q == SetToSeq(new)
           t == Tail(open)
<1>1. /\ open # << >> /\ next[h] \cap goals = {} /\ UNCHANGED <<next, goals>>
      /\ open' = t \o q
      /\ closed' = [s \in new \cup D |-> IF s \in new THEN h ELSE closed[s]]
      /\ open \in Seq(States)
  BY DEF Discover, BreadthInv, problemVars, Queued
<1>2. /\ h \in States /\ t \in Seq(States) /\ Len(t) = l - 1 /\ l \in Nat /\ l >= 1
      /\ \A i \in 1 .. Len(t) : t[i] = open[i + 1]
  BY <1>1, HeadTailProperties
<1>3. new \subseteq States /\ IsFiniteSet(new)
  <2>1. new \subseteq States
    BY <1>2 DEF SpaceFunctions
  <2> QED
    BY <2>1, SpacesAssumption, FS_Subset DEF SpacesAssumption
<1>4. /\ DOMAIN closed' = new \cup D
      /\ \A s \in new : closed'[s] = h
      /\ \A s \in D : closed'[s] = closed[s]
  <2>1. \A s \in D : s \notin new
    OBVIOUS
  <2> HIDE DEF new, h
  <2> QED
    BY <1>1, <2>1
<1> HIDE DEF new, h, t, D
<1>5. m \in Nat /\ q \in [1 .. m -> new] /\ \A s \in new : \E i \in 1 .. m : q[i] = s
  BY <1>3, ListOfSet
<1> HIDE DEF m, q
<1>6. q \in Seq(States) /\ Len(q) = m
  BY <1>3, <1>5
<1>7. /\ t \o q \in Seq(States) /\ Len(t \o q) = Len(t) + Len(q)
      /\ \A i \in 1 .. Len(t) + Len(q) :
           (t \o q)[i] = IF i <= Len(t) THEN t[i] ELSE q[i - Len(t)]
  BY <1>2, <1>6, ConcatProperties
<1>8. /\ open' \in Seq(States) /\ Len(open') = l - 1 + m
      /\ \A i \in 1 .. l - 1 + m :
           open'[i] = IF i <= l - 1 THEN t[i] ELSE q[i - (l - 1)]
  BY <1>1, <1>2, <1>6, <1>7
<1> HIDE DEF l
<1>9. Len(open') \in Nat /\ Len(open') >= l - 1
  BY <1>2, <1>5, <1>8
<1>10. ASSUME NEW i \in 1 .. l - 1 PROVE open'[i] = open[i + 1]
  <2>1. i \in 1 .. l - 1 + m /\ i <= l - 1
    BY <1>2, <1>5
  <2> QED
    BY <1>2, <1>8, <2>1
<1>11. ASSUME NEW i \in l .. Len(open') PROVE open'[i] \in new
  <2>1. i \in 1 .. l - 1 + m /\ ~(i <= l - 1) /\ i - (l - 1) \in 1 .. m
    BY <1>2, <1>5, <1>8
  <2> QED
    BY <1>5, <1>8, <2>1
<1>12. ASSUME NEW s \in new PROVE \E i \in l .. Len(open') : open'[i] = s
  <2>1. PICK j \in 1 .. m : q[j] = s
    BY <1>5
  <2> DEFINE i == j + (l - 1)
  <2>2. i \in l .. Len(open') /\ i \in 1 .. l - 1 + m /\ ~(i <= l - 1) /\ i - (l - 1) = j
    BY <1>2, <1>5, <1>8
  <2> HIDE DEF i
  <2>3. open'[i] = s
    BY <1>8, <2>1, <2>2
  <2> QED
    BY <2>2, <2>3
<1> QED
  BY <1>1, <1>2, <1>4, <1>8, <1>9, <1>10, <1>11, <1>12 DEF h, new, l, D

\* Expanding the head keeps it.
LEMMA DiscoverKeeps ==
  ASSUME BreadthInv, next \in SpaceFunctions, Discover
  PROVE  BreadthInv'
<1> DEFINE h == Head(open)
           D == DOMAIN closed
           E == DOMAIN closed'
           new == next[h] \ D
           l == Len(open)
           r == Len(open')
           R == Reach(next, Start)
<1>1. /\ open # << >> /\ h \in States
      /\ next[h] \cap goals = {} /\ UNCHANGED <<next, goals>>
      /\ E = new \cup D
      /\ \A s \in new : closed'[s] = h
      /\ \A s \in D : closed'[s] = closed[s]
      /\ open' \in Seq(States) /\ r \in Nat /\ r >= l - 1
      /\ \A i \in 1 .. l - 1 : open'[i] = open[i + 1]
      /\ \A i \in l .. r : open'[i] \in new
      /\ \A s \in new : \E i \in l .. r : open'[i] = s
  BY DiscoverIs
<1>2. open \in Seq(States) /\ Tree
  BY DEF BreadthInv
<1>3. PICK n, k : Wave(n, k) /\ k # 0
  BY <1>1, WaveHead
<1>4. /\ h = open[1] /\ h \in D /\ n \in Nat /\ k \in Nat /\ 1 \in 1 .. k /\ k <= l /\ l \in Nat
      /\ Level(next, h, n) /\ h \in R[n]
  BY <1>2, <1>3, HeadIs
<1>5. /\ R[n] \subseteq D /\ D \subseteq R[n + 1] /\ R[n] \cap goals = {}
      /\ \A i \in 1 .. k : Level(next, open[i], n)
      /\ \A i \in k + 1 .. l : open[i] \in D \ R[n]
      /\ \A s \in D \ R[n] : \E i \in k + 1 .. l : open[i] = s
      /\ \A s \in R[n] : \/ \E i \in 1 .. k : open[i] = s
                         \/ next[s] \subseteq D /\ next[s] \cap goals = {}
  BY <1>3 DEF Wave
<1>6. Start \in States
  BY SpacesAssumption DEF SpacesAssumption
<1>7. R[n + 1] = R[n] \cup UNION {next[x] : x \in R[n]}
  BY <1>4, <1>6, ReachIs
<1>8. new \subseteq R[n + 1] /\ new \subseteq States /\ new \subseteq next[h]
  <2>1. next[h] \subseteq States
    BY <1>1 DEF SpaceFunctions
  <2> QED
    BY <1>4, <1>7, <2>1
<1>9. /\ \A s \in new : s \notin D
      /\ next[h] \subseteq E
  BY <1>1
<1> HIDE DEF h, D, E, new, l, r, R
<1>10. \A s \in new : Level(next, s, n + 1)
  <2> SUFFICES ASSUME NEW s \in new PROVE Level(next, s, n + 1)
    OBVIOUS
  <2>1. s \in R[n + 1] /\ s \notin R[n]
    BY <1>5, <1>8, <1>9
  <2> QED
    BY <1>4, <2>1, LevelIs DEF R
<1>11. Tree'
  <2>1. /\ D \subseteq States /\ Start \in D /\ closed[Start] = Nowhere
        /\ \A s \in D \ {Start} :
             /\ closed[s] \in D /\ s \in next[closed[s]]
             /\ \E m \in Nat : Level(next, closed[s], m) /\ Level(next, s, m + 1)
    BY <1>2 DEF Tree, D
  <2>2. E \subseteq States /\ Start \in E /\ closed'[Start] = Nowhere
    BY <1>1, <1>8, <2>1
  <2>3. ASSUME NEW s \in E \ {Start}
        PROVE  /\ closed'[s] \in E /\ s \in next[closed'[s]]
               /\ \E m \in Nat : Level(next, closed'[s], m) /\ Level(next, s, m + 1)
    <3>1. CASE s \in new
      BY <1>1, <1>4, <1>8, <1>10, <3>1
    <3>2. CASE s \notin new
      <4>1. s \in D \ {Start} /\ closed'[s] = closed[s]
        BY <1>1, <3>2
      <4> QED
        BY <1>1, <2>1, <4>1
    <3> QED
      BY <3>1, <3>2
  <2> QED
    BY <1>1, <2>2, <2>3 DEF Tree, E
<1> DEFINE j == k - 1
<1>12. n \in Nat /\ j \in 0 .. r
  BY <1>1, <1>4
<1>13. R[n] \subseteq E /\ E \subseteq R[n + 1]
  BY <1>1, <1>5, <1>8
<1>14. ASSUME NEW i \in 1 .. j PROVE Level(next, open'[i], n)
  <2>1. i \in 1 .. l - 1 /\ i + 1 \in 1 .. k
    BY <1>4
  <2> QED
    BY <1>1, <1>5, <2>1
<1>15. ASSUME NEW i \in j + 1 .. r PROVE open'[i] \in E \ R[n]
  <2>1. CASE i \in 1 .. l - 1
    <3>1. i + 1 \in k + 1 .. l
      BY <1>4, <2>1
    <3>2. open'[i] \in D \ R[n]
      BY <1>1, <1>5, <2>1, <3>1
    <3> QED
      BY <1>1, <3>2
  <2>2. CASE i \in l .. r
    <3>1. open'[i] \in new
      BY <1>1, <2>2
    <3> QED
      BY <1>1, <1>5, <1>9, <3>1
  <2>3. i \in 1 .. l - 1 \/ i \in l .. r
    BY <1>1, <1>4
  <2> QED
    BY <2>1, <2>2, <2>3
<1>16. ASSUME NEW s \in E \ R[n] PROVE \E i \in j + 1 .. r : open'[i] = s
  <2>1. CASE s \in new
    <3>1. PICK i \in l .. r : open'[i] = s
      BY <1>1, <2>1
    <3>2. i \in j + 1 .. r
      BY <1>4
    <3> QED
      BY <3>1, <3>2
  <2>2. CASE s \notin new
    <3>1. s \in D \ R[n]
      BY <1>1, <2>2
    <3>2. PICK i \in k + 1 .. l : open[i] = s
      BY <1>5, <3>1
    <3> DEFINE u == i - 1
    <3>3. u \in 1 .. l - 1 /\ u + 1 = i /\ u \in j + 1 .. r
      BY <1>1, <1>4
    <3> HIDE DEF u
    <3>4. open'[u] = s
      BY <1>1, <3>2, <3>3
    <3> QED
      BY <3>3, <3>4
  <2> QED
    BY <2>1, <2>2
<1>17. ASSUME NEW s \in R[n]
       PROVE  \/ \E i \in 1 .. j : open'[i] = s
              \/ next[s] \subseteq E /\ next[s] \cap goals = {}
  <2>1. CASE s = h
    BY <1>1, <1>9, <2>1
  <2>2. CASE s # h /\ \E i \in 1 .. k : open[i] = s
    <3>1. PICK i \in 1 .. k : open[i] = s
      BY <2>2
    <3>2. i # 1
      BY <1>4, <2>2, <3>1
    <3> DEFINE u == i - 1
    <3>3. u \in 1 .. l - 1 /\ u + 1 = i /\ u \in 1 .. j
      BY <1>4, <3>2
    <3> HIDE DEF u
    <3>4. open'[u] = s
      BY <1>1, <3>1, <3>3
    <3> QED
      BY <3>3, <3>4
  <2>3. CASE next[s] \subseteq D /\ next[s] \cap goals = {}
    BY <1>1, <2>3
  <2> QED
    BY <1>5, <2>1, <2>2, <2>3
<1>18. Wave(n, j)'
  <2>1. UNCHANGED <<next, goals>>
    BY <1>1
  <2> HIDE DEF j
  <2> QED
    BY <1>5, <1>12, <1>13, <1>14, <1>15, <1>16, <1>17, <2>1 DEF Wave, E, r, R
<1>19. open' \in Seq(States)
  BY <1>1
<1>20. \E v, w : Wave(v, w)'
  BY <1>18
<1> QED
  BY <1>11, <1>19, <1>20 DEF BreadthInv

-----------------------------------------------------------------------------
(* The runs of the three strategies. *)

\* What holds once a strategy has returned.
FoundRight ==
  IF solver = "DFS" THEN IsSolution(solution) /\ Len(solution) <= Deepest
  ELSE IsSolution(solution) /\ Nearest(next, Start, goals, Len(solution))

\* What holds once it has given up.
FailedRight ==
  IF solver = "DFS" THEN Reach(next, Start)[Deepest] \cap goals = {}
  ELSE \A n \in Nat : Reach(next, Start)[n] \cap goals = {}

\* What holds before, in between and after.
SearchInv ==
  /\ next \in SpaceFunctions /\ DepthRunInv /\ solution \in Seq(States)
  /\ outcome = "searching" =>
       /\ solver \in Strategies
       /\ solver = "A*" => AStarInv
       /\ solver = "DFS" => DepthOpen
       /\ solver = "BFS" => BreadthInv
  /\ outcome = "found" => FoundRight
  /\ outcome = "failed" => FailedRight

\* A game that is won at the start.
LEMMA WonAtStart ==
  ASSUME next \in SpaceFunctions, Start \in goals, solution = << >>, limit \in Nat
  PROVE  FoundRight /\ solution \in Seq(States)
<1>1. IsRoute(next, << >>, Start) /\ Len(<< >>) = 0 /\ << >> \in Seq(States)
  BY RouteStarts
<1>2. IsSolution(<< >>)
  BY <1>1, RouteSolves
<1>3. 0 <= Deepest
  BY DeepestIs
<1>4. Nearest(next, Start, goals, 0)
  <2>1. Reach(next, Start)[0] = {Start}
    BY ReachIs, SpacesAssumption DEF SpacesAssumption
  <2>2. \A k \in Nat : 0 <= k
    OBVIOUS
  <2> QED
    BY <2>1, <2>2 DEF Nearest
<1> QED
  BY <1>1, <1>2, <1>3, <1>4 DEF FoundRight

\* A* starts with an admissible heuristic.
LEMMA AStarStarts ==
  ASSUME next \in SpaceFunctions, Start \notin goals, NEW h \in [States -> Nat], Admissible(h),
         AStarStart(h)
  PROVE  AStarInv
<1>1. /\ estimate = h /\ frontier = {<<0, Start>>}
      /\ info = [s \in {Start} |-> [predecessor |-> Start, cost |-> 0, frontierCost |-> 0]]
  BY DEF AStarStart, StateInfo
<1>2. Start \in States
  BY SpacesAssumption DEF SpacesAssumption
<1>3. /\ DOMAIN info = {Start} /\ info[Start].predecessor = Start /\ info[Start].cost = 0
      /\ info[Start].frontierCost = 0
      /\ info[Start] = [predecessor |-> Start, cost |-> 0, frontierCost |-> 0]
      /\ info \in [DOMAIN info -> {info[Start]}]
  BY <1>1
<1>4. info[Start] \in Infos
  BY <1>3 DEF Infos
<1>5. AStarTypes
  BY <1>1, <1>2, <1>3, <1>4 DEF AStarTypes
<1>6. LowerBound
  <2> SUFFICES ASSUME NEW s \in States, NEW n \in Nat, Reach(next, s)[n] \cap goals # {}
               PROVE  h[s] <= n
    BY <1>1 DEF LowerBound
  <2>1. PICK d \in Nat : Nearest(next, s, goals, d) /\ d <= n
    BY NearestIs
  <2>2. Reachable(s, goals) /\ Distance(s, goals) = d
    BY <2>1, ReachableIs
  <2>3. h[s] <= d
    BY <2>2 DEF Admissible
  <2>4. h[s] \in Nat
    OBVIOUS
  <2> QED
    BY <2>1, <2>3, <2>4
<1>7. CostRight(Start) /\ Opened(Start)
  <2>1. Start \in Reach(next, Start)[0]
    BY <1>2, ReachIs
  <2> QED
    BY <1>1, <1>3, <2>1 DEF CostRight, Opened
<1>8. \A e \in frontier : e \in Nat \X DOMAIN info /\ info[e[2]].frontierCost <= e[1]
  BY <1>1, <1>3
<1> QED
  BY <1>3, <1>5, <1>6, <1>7, <1>8 DEF AStarInv

\* DFS starts with the start on its stack,
LEMMA DepthOpens ==
  ASSUME next \in SpaceFunctions, Start \notin goals, limit \in Nat, stack = <<<<Start, 0>>>>
  PROVE  DepthOpen
<1> DEFINE e == <<Start, 0>>
<1>1. Len(stack) = 1 /\ stack[1] = e
  OBVIOUS
<1>2. stack[1][1] = Start /\ stack[1][2] = 0
  BY <1>1
<1>3. Deepest \in Nat /\ Deepest - 0 = Deepest /\ 0 <= Deepest
  BY DeepestIs
<1>4. Reach(next, Start)[Deepest] \cap goals # {} => Promising(1)
  BY <1>1, <1>2, <1>3 DEF Promising, DepthAt
<1>5. \A i \in 1 .. Len(stack) : i = 1
  BY <1>1
<1> QED
  BY <1>1, <1>2, <1>4, <1>5 DEF DepthOpen

\* and BFS in its queue.
LEMMA BreadthStarts ==
  ASSUME next \in SpaceFunctions, Start \notin goals, BreadthStart
  PROVE  BreadthInv
<1>1. open = <<Start>> /\ closed = [s \in {Start} |-> Nowhere]
  BY DEF BreadthStart
<1>2. Start \in States
  BY SpacesAssumption DEF SpacesAssumption
<1>3. open \in Seq(States) /\ Len(open) = 1 /\ open[1] = Start
      /\ DOMAIN closed = {Start} /\ closed[Start] = Nowhere
  BY <1>1, <1>2
<1>4. Tree
  BY <1>2, <1>3 DEF Tree
<1> DEFINE R == Reach(next, Start)
<1>5. R[0] = {Start} /\ R[0] \subseteq R[0 + 1]
  <2>1. R[0] \subseteq R[1]
    BY <1>2, ReachGrows
  <2> QED
    BY <1>2, <2>1, ReachIs
<1>6. Level(next, Start, 0)
  <2>1. 0 \in Nat
    OBVIOUS
  <2> QED
    BY <2>1, LevelIs
<1> HIDE DEF R
<1>7. /\ 0 \in Nat /\ 1 \in 0 .. Len(open)
      /\ R[0] \subseteq DOMAIN closed /\ DOMAIN closed \subseteq R[0 + 1]
      /\ R[0] \cap goals = {}
      /\ \A s \in R[0] : \E i \in 1 .. 1 : open[i] = s
  BY <1>3, <1>5
<1>8. \A i \in 1 .. 1 : Level(next, open[i], 0)
  BY <1>3, <1>6
<1>9. /\ \A i \in 1 + 1 .. Len(open) : open[i] \in DOMAIN closed \ R[0]
      /\ \A s \in DOMAIN closed \ R[0] : \E i \in 1 + 1 .. Len(open) : open[i] = s
  BY <1>3, <1>5
<1>10. Wave(0, 1)
  BY <1>7, <1>8, <1>9 DEF Wave, R
<1> QED
  BY <1>3, <1>4, <1>10 DEF BreadthInv

\* What holds at the start.
LEMMA SearchStarts ==
  Init => SearchInv
<1> SUFFICES ASSUME Init PROVE SearchInv
  OBVIOUS
<1>1. DepthRunInv
  BY RunStarts
<1>2. limit \in Nat /\ next \in SpaceFunctions
  BY <1>1 DEF DepthRunInv, DepthInv, DepthTypes, SpaceFunctions
<1>3. CASE InitSearch
  <2>1. PICK space \in Spaces, final \in GoalSets : ProblemStart(space, final)
    BY <1>3 DEF InitSearch
  <2>2. /\ goals = final /\ solution = << >> /\ solver \in Strategies
        /\ outcome = IF Start \in final THEN "found" ELSE "searching"
    BY <1>3, <2>1 DEF ProblemStart, InitSearch
  <2>3. CASE Start \in final
    <3>1. outcome = "found" /\ FoundRight /\ solution \in Seq(States)
      BY <1>2, <2>2, <2>3, WonAtStart
    <3> QED
      BY <1>1, <1>2, <3>1 DEF SearchInv
  <2>4. CASE Start \notin final
    <3>1. outcome = "searching" /\ Start \notin goals /\ solution \in Seq(States)
      BY <2>2, <2>4
    <3>2. solver = "A*" => AStarInv
      <4> SUFFICES ASSUME solver = "A*" PROVE AStarInv
        OBVIOUS
      <4>1. PICK h \in Estimates : Admissible(h) /\ AStarStart(h)
        BY <1>3 DEF InitSearch
      <4>2. h \in [States -> Nat]
        BY EstimatesAssumption DEF EstimatesAssumption
      <4> QED
        BY <1>2, <3>1, <4>1, <4>2, AStarStarts
    <3>3. solver = "DFS" => DepthOpen
      <4> SUFFICES ASSUME solver = "DFS" PROVE DepthOpen
        OBVIOUS
      <4>1. PICK l \in Limits : DepthStart(l)
        BY <1>3 DEF InitSearch
      <4>2. stack = <<<<Start, 0>>>>
        BY <4>1 DEF DepthStart
      <4> QED
        BY <1>2, <3>1, <4>2, DepthOpens
    <3>4. solver = "BFS" => BreadthInv
      <4> SUFFICES ASSUME solver = "BFS" PROVE BreadthInv
        OBVIOUS
      <4>1. BreadthStart
        BY <1>3 DEF InitSearch
      <4> QED
        BY <1>2, <3>1, <4>1, BreadthStarts
    <3> QED
      BY <1>1, <1>2, <2>2, <3>1, <3>2, <3>3, <3>4 DEF SearchInv
  <2> QED
    BY <2>3, <2>4
<1>4. CASE InitMis
  <2>1. solver \notin Strategies
    BY <1>4 DEF InitMis, MisSolvers, Strategies
  <2>2. ProblemStart(SpaceOf({}), {Start})
    BY <2>1 DEF Init, Idle
  <2>3. goals = {Start} /\ solution = << >> /\ outcome = "found"
    BY <2>2 DEF ProblemStart
  <2>4. FoundRight /\ solution \in Seq(States)
    BY <1>2, <2>3, WonAtStart
  <2> QED
    BY <1>1, <1>2, <2>3, <2>4 DEF SearchInv
<1> QED
  BY <1>3, <1>4 DEF Init

\* A strategy that has found a way says so rightly.
LEMMA FoundRoute ==
  ASSUME next \in SpaceFunctions, UNCHANGED <<next, goals, solver>>, solver # "DFS",
         NEW g \in goals, IsRoute(next, solution', g),
         Nearest(next, Start, goals, Len(solution'))
  PROVE  FoundRight' /\ solution' \in Seq(States)
<1> DEFINE a == solution'
<1>1. IsRoute(next, a, g) /\ Nearest(next, Start, goals, Len(a))
  OBVIOUS
<1> HIDE DEF a
<1>2. IsSolution(a) /\ a \in Seq(States)
  BY <1>1, RouteSolves DEF IsRoute
<1>3. IsSolution(solution)'
  BY <1>2 DEF IsSolution, a
<1> QED
  BY <1>1, <1>2, <1>3 DEF FoundRight, a

\* A step of A*.
LEMMA AStarStep ==
  ASSUME SearchInv, solver = "A*", AStarNext, UNCHANGED solver
  PROVE  /\ outcome' = "searching" => AStarInv'
         /\ outcome' = "found" => FoundRight'
         /\ outcome' = "failed" => FailedRight'
         /\ solution' \in Seq(States) /\ UNCHANGED next
<1>1. outcome = "searching" /\ AStarInv /\ next \in SpaceFunctions /\ solution \in Seq(States)
  <2>1. Searching
    BY DEF AStarNext, SkipOutdated, Expand, Finish, AStarFails, Top
  <2> QED
    BY <2>1 DEF SearchInv, Searching
<1>2. ASSUME NEW entry \in frontier, SkipOutdated(entry)
      PROVE  AStarInv' /\ outcome' = "searching" /\ UNCHANGED <<solution, next>>
  <2>1. UNCHANGED <<outcome, solution, next>>
    BY <1>2 DEF SkipOutdated, problemVars
  <2> QED
    BY <1>1, <1>2, <2>1, SkipKeeps
<1>3. ASSUME NEW entry \in frontier, Expand(entry)
      PROVE  AStarInv' /\ outcome' = "searching" /\ UNCHANGED <<solution, next>>
  <2>1. UNCHANGED <<outcome, solution, next>>
    BY <1>3 DEF Expand, problemVars
  <2> QED
    BY <1>1, <1>3, <2>1, ExpandKeeps
<1>4. ASSUME NEW entry \in frontier, Finish(entry)
      PROVE  /\ outcome' = "found" /\ FoundRight' /\ solution' \in Seq(States)
             /\ UNCHANGED next
  <2> DEFINE s == entry[2]
  <2>1. /\ UNCHANGED <<next, goals>> /\ s \in goals
        /\ outcome' = "found" /\ solution' = Actions(s)
    BY <1>4 DEF Finish, Found, problemVars
  <2>2. s \in DOMAIN info /\ Nearest(next, Start, goals, info[s].cost)
    BY <1>1, <1>4, TopCost
  <2>3. IsRoute(next, Actions(s), s) /\ Len(Actions(s)) = info[s].cost
    BY <1>1, <2>1, <2>2, ActionsRoute
  <2>4. IsRoute(next, solution', s) /\ Nearest(next, Start, goals, Len(solution'))
    BY <2>1, <2>2, <2>3
  <2>5. FoundRight' /\ solution' \in Seq(States)
    <3> HIDE DEF s
    <3> QED
      BY <1>1, <2>1, <2>4, FoundRoute
  <2> QED
    BY <2>1, <2>5
<1>5. CASE AStarFails
  <2>1. frontier = {} /\ UNCHANGED <<next, goals, solution>> /\ outcome' = "failed"
    BY <1>5 DEF AStarFails, NotFound, problemVars
  <2>2. ASSUME NEW n \in Nat, Reach(next, Start)[n] \cap goals # {} PROVE FALSE
    <3>1. Start \in States
      BY SpacesAssumption DEF SpacesAssumption
    <3>2. PICK C \in Nat : Nearest(next, Start, goals, C)
      BY <1>1, <2>2, <3>1, NearestIs
    <3>3. \E s : Holds(s, C)
      BY <1>1, <3>2, AStarHolds
    <3> QED
      BY <2>1, <3>3 DEF Holds
  <2>3. FailedRight'
    BY <2>1, <2>2 DEF FailedRight
  <2> QED
    BY <1>1, <2>1, <2>3
<1> QED
  BY <1>1, <1>2, <1>3, <1>4, <1>5 DEF AStarNext

\* A step of BFS.
LEMMA BreadthStep ==
  ASSUME SearchInv, solver = "BFS", BreadthNext, UNCHANGED solver
  PROVE  /\ outcome' = "searching" => BreadthInv'
         /\ outcome' = "found" => FoundRight'
         /\ outcome' = "failed" => FailedRight'
         /\ solution' \in Seq(States) /\ UNCHANGED next
<1>1. /\ outcome = "searching" /\ BreadthInv /\ next \in SpaceFunctions
      /\ solution \in Seq(States)
  <2>1. Searching
    BY DEF BreadthNext, BreadthFinish, Discover, BreadthFails
  <2> QED
    BY <2>1 DEF SearchInv, Searching
<1>2. CASE BreadthFinish
  <2>1. UNCHANGED <<next, goals>> /\ outcome' = "found"
    BY <1>2 DEF BreadthFinish, Found, problemVars
  <2>2. PICK g \in goals : /\ IsRoute(next, solution', g)
                           /\ Nearest(next, Start, goals, Len(solution'))
    BY <1>1, <1>2, BreadthSolves
  <2>3. FoundRight' /\ solution' \in Seq(States)
    BY <1>1, <2>1, <2>2, FoundRoute
  <2> QED
    BY <2>1, <2>3
<1>3. CASE Discover
  <2>1. UNCHANGED <<outcome, solution, next>>
    BY <1>3 DEF Discover, problemVars
  <2> QED
    BY <1>1, <1>3, <2>1, DiscoverKeeps
<1>4. CASE BreadthFails
  <2>1. open = << >> /\ UNCHANGED <<next, goals, solution>> /\ outcome' = "failed"
    BY <1>4 DEF BreadthFails, NotFound, problemVars
  <2>2. \A n \in Nat : Reach(next, Start)[n] \cap goals = {}
    BY <1>1, <2>1, BreadthFailsRightly
  <2>3. FailedRight'
    BY <2>1, <2>2 DEF FailedRight
  <2> QED
    BY <1>1, <2>1, <2>3
<1> QED
  BY <1>2, <1>3, <1>4 DEF BreadthNext

\* A step of DFS.
LEMMA DepthStep ==
  ASSUME SearchInv, solver = "DFS", DepthNext, UNCHANGED solver
  PROVE  /\ outcome' = "searching" => DepthOpen'
         /\ outcome' = "found" => FoundRight'
         /\ outcome' = "failed" => FailedRight'
         /\ solution' \in Seq(States) /\ UNCHANGED next
<1>1. /\ outcome = "searching" /\ DepthOpen /\ DepthInv /\ solution \in Seq(States)
  <2>1. Searching
    BY DEF DepthNext, DepthFinish, Descend, DeadEnd, DepthFails, Inspect
  <2> QED
    BY <2>1 DEF SearchInv, Searching, DepthRunInv
<1>2. CASE DepthFinish
  <2>1. UNCHANGED next /\ outcome' = "found"
    BY <1>2 DEF DepthFinish, Found, problemVars
  <2>2. DepthSolution' /\ solution' \in Seq(States)
    BY <1>1, <1>2, FinishSolves, DepthFound
  <2>3. FoundRight'
    BY <2>2 DEF FoundRight, DepthSolution, Deepest
  <2> QED
    BY <2>1, <2>2, <2>3
<1>3. CASE Descend
  <2>1. UNCHANGED <<outcome, solution, next>>
    BY <1>3 DEF Descend, problemVars
  <2> QED
    BY <1>1, <1>3, <2>1, DescendOpen
<1>4. CASE DeadEnd
  <2>1. UNCHANGED <<outcome, solution, next>>
    BY <1>4 DEF DeadEnd, problemVars
  <2> QED
    BY <1>1, <1>4, <2>1, DeadEndOpen
<1>5. CASE DepthFails
  <2>1. UNCHANGED <<next, goals, solution, limit>> /\ outcome' = "failed"
    BY <1>5 DEF DepthFails, NotFound, problemVars, depthVars
  <2>2. Reach(next, Start)[Deepest] \cap goals = {}
    BY <1>1, <1>5, FailsRightly
  <2>3. FailedRight'
    BY <2>1, <2>2 DEF FailedRight, Deepest
  <2> QED
    BY <1>1, <2>1, <2>3
<1> QED
  BY <1>2, <1>3, <1>4, <1>5 DEF DepthNext

\* When nothing of the search changes.
LEMMA SearchStays ==
  ASSUME SearchInv, UNCHANGED <<solver, searchVars>>, DepthRunInv'
  PROVE  SearchInv'
<1>1. UNCHANGED <<solver, next, goals, outcome, solution, estimate, frontier, info, limit, stack,
                  chain, previousDepth, open, closed>>
  BY DEF searchVars, problemVars, aStarVars, depthVars, breadthVars
<1>2. AStarInv => AStarInv'
  <2> SUFFICES ASSUME AStarInv PROVE AStarInv'
    OBVIOUS
  <2>1. AStarTypes'
    BY <1>1 DEF AStarInv, AStarTypes, Infos
  <2>2. LowerBound' /\ Start \notin goals'
    BY <1>1 DEF AStarInv, LowerBound
  <2>3. \A s \in DOMAIN info' : CostRight(s)' /\ Opened(s)'
    BY <1>1 DEF AStarInv, CostRight, Opened
  <2>4. \A e \in frontier' : e \in Nat \X DOMAIN info' /\ info'[e[2]].frontierCost <= e[1]
    BY <1>1 DEF AStarInv
  <2> QED
    BY <2>1, <2>2, <2>3, <2>4 DEF AStarInv
<1>3. DepthOpen => DepthOpen'
  BY <1>1 DEF DepthOpen, Promising, DepthAt, Deepest
<1>4. BreadthInv => BreadthInv'
  <2>1. Tree => Tree'
    BY <1>1 DEF Tree
  <2>2. ASSUME NEW n, NEW k, Wave(n, k) PROVE Wave(n, k)'
    BY <1>1, <2>2 DEF Wave
  <2> QED
    BY <1>1, <2>1, <2>2 DEF BreadthInv
<1>5. FoundRight => FoundRight'
  BY <1>1 DEF FoundRight, IsSolution, Deepest
<1>6. FailedRight => FailedRight'
  BY <1>1 DEF FailedRight, Deepest
<1> QED
  BY <1>1, <1>2, <1>3, <1>4, <1>5, <1>6 DEF SearchInv

\* Every step keeps it.
LEMMA SearchKeeps ==
  ASSUME SearchInv, [Next]_vars
  PROVE  SearchInv'
<1>1. DepthRunInv' /\ next \in SpaceFunctions
  BY RunKeeps DEF SearchInv
<1>2. CASE Search
  <2>1. UNCHANGED solver
    BY <1>2 DEF Search
  <2>2. CASE solver = "A*" /\ AStarNext
    BY <1>1, <2>1, <2>2, AStarStep DEF SearchInv, Strategies
  <2>3. CASE solver = "DFS" /\ DepthNext
    BY <1>1, <2>1, <2>3, DepthStep DEF SearchInv, Strategies
  <2>4. CASE solver = "BFS" /\ BreadthNext
    BY <1>1, <2>1, <2>4, BreadthStep DEF SearchInv, Strategies
  <2> QED
    BY <1>2, <2>2, <2>3, <2>4 DEF Search
<1>3. CASE GiveUp
  <2>1. outcome' = "memory" /\ UNCHANGED <<solution, next>>
    BY <1>3 DEF GiveUp, OutOfMemory, NotFound, problemVars
  <2> QED
    BY <1>1, <2>1 DEF SearchInv
<1>4. CASE Solve
  BY <1>1, <1>4, SearchStays DEF Solve
<1>5. CASE UNCHANGED vars
  BY <1>1, <1>5, SearchStays DEF vars
<1> QED
  BY <1>2, <1>3, <1>4, <1>5 DEF Next

\* The inductive invariant of the three strategies: A*'s costs, predecessors and
\* frontier, DFS's stack and BFS's queue never lose a way to a final state that the
\* strategy would have to find (AStarSearch, DepthFirstSearch and BreadthFirstSearch,
\* solve()).
THEOREM SolversSearchInvariant ==
  Spec => []SearchInv
BY SearchStarts, SearchKeeps, PTL DEF Spec

\* As long as A* goes on, its frontier holds a valid entry of a state on a shortest way
\* to a final state, with the least cost of that state, whatever the space and the
\* admissible heuristic (AStarSearch::solve(): outdated entries, and states that are
\* opened again).
THEOREM SolversShortestWayOpen ==
  Spec => []ShortestWayOpen
<1>1. SearchInv => ShortestWayOpen
  <2> SUFFICES ASSUME SearchInv, solver = "A*", Searching, Reachable(Start, goals)
               PROVE  HoldsShortestWay
    BY DEF ShortestWayOpen
  <2>1. AStarInv /\ next \in SpaceFunctions /\ Start \in States
    BY SpacesAssumption DEF SearchInv, Searching, SpacesAssumption
  <2>2. PICK n \in Nat : Reach(next, Start)[n] \cap goals # {}
    BY <2>1, ReachableIs
  <2>3. PICK C \in Nat : Nearest(next, Start, goals, C)
    BY <2>1, <2>2, NearestIs
  <2>4. PICK s : Holds(s, C)
    BY <2>1, <2>3, AStarHolds
  <2> DEFINE c == info[s].cost
             e == <<info[s].frontierCost, s>>
  <2>5. /\ s \in DOMAIN info /\ e \in frontier /\ c <= C
        /\ Nearest(next, Start, {s}, c) /\ Nearest(next, s, goals, C - c)
    BY <2>4 DEF Holds
  <2>6. s \in States /\ c \in Nat /\ info[s].frontierCost \in Nat
    BY <2>1, <2>5, InfoTypes
  <2>7. Reachable(Start, {s}) /\ Distance(Start, {s}) = c
    BY <2>1, <2>5, ReachableIs
  <2>8. Reachable(s, goals) /\ Distance(s, goals) = C - c
    BY <2>1, <2>5, <2>6, ReachableIs
  <2>9. Distance(Start, goals) = C
    BY <2>1, <2>3, ReachableIs
  <2>10. c + (C - c) = C
    <3> HIDE DEF c
    <3> QED
      BY <2>6
  <2>11. OnShortestWay(s)
    BY <2>7, <2>8, <2>9, <2>10 DEF OnShortestWay
  <2>12. e[2] = s /\ ~Outdated(e)
    <3> DEFINE f == info[s].frontierCost
    <3>1. ~(f < f)
      <4>1. f \in Nat
        BY <2>6
      <4> HIDE DEF f
      <4> QED
        BY <4>1
    <3>2. e[1] = f /\ e[2] = s
      OBVIOUS
    <3> QED
      BY <3>1, <3>2 DEF Outdated
  <2> QED
    BY <2>5, <2>7, <2>11, <2>12 DEF HoldsShortestWay
<1> QED
  BY <1>1, SolversSearchInvariant, PTL

\* Unless memory runs out, a strategy finds a solution exactly if there is one (within
\* its depth limit), and what it returns solves the game, and is as short as promised,
\* whatever the space, the limit and the admissible heuristic (solve() of AStarSearch,
\* BreadthFirstSearch and DepthFirstSearch).
THEOREM SolversSearchResult ==
  Spec => []SearchResult
<1>1. SearchInv => SearchResult
  <2> SUFFICES ASSUME SearchInv PROVE SearchResult
    OBVIOUS
  <2>1. /\ next \in SpaceFunctions /\ Start \in States /\ solution \in Seq(States)
        /\ limit \in Nat
    BY SpacesAssumption DEF SearchInv, SpacesAssumption, DepthRunInv, DepthInv, DepthTypes
  <2>2. Deepest \in Nat /\ Deepest = Max({limit, 1})
    BY <2>1, DeepestIs DEF Deepest
  <2>3. Affordable <=> /\ \E n \in Nat : Reach(next, Start)[n] \cap goals # {}
                       /\ solver = "DFS" => Distance(Start, goals) <= Deepest
    BY <2>1, <2>2, ReachableIs DEF Affordable
  <2>4. solver = "DFS" => (Affordable <=> Reach(next, Start)[Deepest] \cap goals # {})
    <3> SUFFICES ASSUME solver = "DFS"
                 PROVE  Affordable <=> Reach(next, Start)[Deepest] \cap goals # {}
      OBVIOUS
    <3>1. ASSUME Affordable PROVE Reach(next, Start)[Deepest] \cap goals # {}
      <4>1. PICK n \in Nat : Reach(next, Start)[n] \cap goals # {}
        BY <2>3, <3>1
      <4>2. PICK C \in Nat : Nearest(next, Start, goals, C)
        BY <2>1, <4>1, NearestIs
      <4>3. C <= Deepest /\ Reach(next, Start)[C] \cap goals # {}
        BY <2>1, <2>3, <3>1, <4>2, ReachableIs DEF Nearest
      <4>4. Reach(next, Start)[C] \subseteq Reach(next, Start)[Deepest]
        BY <2>1, <2>2, <4>3, ReachGrows
      <4> QED
        BY <4>3, <4>4
    <3>2. ASSUME Reach(next, Start)[Deepest] \cap goals # {} PROVE Affordable
      <4>1. PICK C \in Nat : Nearest(next, Start, goals, C) /\ C <= Deepest
        BY <2>1, <2>2, <3>2, NearestIs
      <4>2. Distance(Start, goals) = C
        BY <2>1, <4>1, ReachableIs
      <4> QED
        BY <2>2, <2>3, <3>2, <4>1, <4>2
    <3> QED
      BY <3>1, <3>2
  <2>5. ASSUME outcome = "found"
        PROVE  /\ Affordable
               /\ IsSolution(solution)
               /\ IF solver = "DFS" THEN Len(solution) <= Max({limit, 1})
                  ELSE Len(solution) = Distance(Start, goals)
    <3>1. FoundRight
      BY <2>5 DEF SearchInv
    <3>2. CASE solver = "DFS"
      <4>1. IsSolution(solution) /\ Len(solution) <= Deepest
        BY <3>1, <3>2 DEF FoundRight
      <4>2. PICK t \in goals : IsRoute(next, solution, t)
        BY <2>1, <4>1, RouteSolves
      <4>3. Len(solution) \in Nat /\ t \in Reach(next, Start)[Len(solution)]
        BY <2>1, <4>2, RouteReaches
      <4>4. Reach(next, Start)[Len(solution)] \subseteq Reach(next, Start)[Deepest]
        BY <2>1, <2>2, <4>1, <4>3, ReachGrows
      <4>5. Reach(next, Start)[Deepest] \cap goals # {}
        BY <4>3, <4>4
      <4> QED
        BY <2>2, <2>4, <3>2, <4>1, <4>5
    <3>3. CASE solver # "DFS"
      <4>1. IsSolution(solution) /\ Nearest(next, Start, goals, Len(solution))
        BY <3>1, <3>3 DEF FoundRight
      <4>2. Distance(Start, goals) = Len(solution)
        BY <2>1, <4>1, ReachableIs
      <4>3. Affordable
        BY <2>3, <3>3, <4>1 DEF Nearest
      <4> QED
        BY <3>3, <4>1, <4>2, <4>3
    <3> QED
      BY <3>2, <3>3
  <2>6. ASSUME outcome = "failed" PROVE ~Affordable
    BY <2>3, <2>4, <2>6 DEF SearchInv, FailedRight
  <2> QED
    BY <2>5, <2>6 DEF SearchResult
<1> QED
  BY <1>1, SolversSearchInvariant, PTL

-----------------------------------------------------------------------------
(* GreedySolver, Greedy2Solver and RandomSolver. *)

\* What is left of the working set and what has been taken: no taken node has a
\* neighbour in either, and whatever was erased is taken or has one.
Taking(set, taken) ==
  /\ set \subseteq Nodes /\ taken \subseteq Nodes
  /\ \A u \in taken : Neighbours(u) \cap set = {}
  /\ IsIndependent(taken)
  /\ \A v \in Nodes \ set : v \in taken \/ Neighbours(v) \cap taken # {}

\* Edges have two ends.
LEMMA EndsMeet ==
  \A u, v \in Nodes : u \in Ends(v) <=> v \in Ends(u)
BY DEF Ends

\* A node of the queue is processed.
LEMMA ProcessTakes ==
  ASSUME NEW s, Taking(s.working, s.output), NEW v \in Nodes
  PROVE  /\ Taking(Process(v, s).working, Process(v, s).output)
         /\ Process(v, s).working \subseteq s.working /\ s.output \subseteq Process(v, s).output
         /\ v \in Process(v, s).output \/ v \notin Process(v, s).working
         /\ v \in s.working => Process(v, s).output # {}
<1>1. CASE v \notin s.working
  BY <1>1 DEF Process
<1>2. CASE v \in s.working
  <2> DEFINE w == s.working \ Erased(v)
             o == s.output \cup {v}
  <2>1. Process(v, s).working = w /\ Process(v, s).output = o
    BY <1>2 DEF Process
  <2>2. /\ s.working \subseteq Nodes /\ s.output \subseteq Nodes
        /\ \A u \in s.output : Neighbours(u) \cap s.working = {}
        /\ IsIndependent(s.output)
        /\ \A x \in Nodes \ s.working : x \in s.output \/ Neighbours(x) \cap s.output # {}
    BY DEF Taking
  <2>3. Neighbours(v) \cap w = {}
    BY DEF Neighbours, Erased
  <2>4. \A u \in o : Neighbours(u) \cap w = {}
    BY <2>2, <2>3
  <2>5. IsIndependent(o)
    <3>1. ASSUME NEW u \in s.output, u # v
          PROVE  <<u, v>> \notin edges /\ <<v, u>> \notin edges
      <4>1. v \notin Neighbours(u) /\ u \in Nodes
        BY <1>2, <2>2
      <4> QED
        BY <3>1, <4>1 DEF Neighbours, Ends
    <3> QED
      BY <2>2, <3>1 DEF IsIndependent
  <2>6. ASSUME NEW x \in Nodes \ w
        PROVE  x \in o \/ Neighbours(x) \cap o # {}
    <3>1. CASE x \notin s.working
      BY <2>2, <3>1
    <3>2. CASE x \in Erased(v)
      <4>1. x = v \/ (x # v /\ x \in Ends(v))
        BY <3>2 DEF Erased
      <4>2. x # v /\ x \in Ends(v) => v \in Neighbours(x)
        BY EndsMeet DEF Neighbours
      <4> QED
        BY <4>1, <4>2
    <3> QED
      BY <3>1, <3>2
  <2>7. w \subseteq Nodes /\ o \subseteq Nodes
    BY <2>2
  <2>8. Taking(w, o)
    BY <2>4, <2>5, <2>6, <2>7 DEF Taking
  <2> QED
    BY <2>1, <2>8
<1> QED
  BY <1>1, <1>2

Entries == IF solver = "greedy2" THEN IndependentPairs ELSE Singles

AreIn(v, p) == v = p[1] \/ v = p[2]

\* The nodes of an entry that has gone are taken or erased.
Processed ==
  /\ queue \subseteq Entries
  /\ \A p \in Entries \ queue : \A v \in working \ output : ~AreIn(v, p)
  /\ output = {} => queue = Entries /\ working = Nodes

\* What GreedySolver and its like return.
GoodResult(set) ==
  /\ IsIndependent(set)
  /\ solver = "greedy2" /\ ~IsComplete => IsMaximal(set)
  /\ solver # "greedy2" => IsMaximal(set)

GreedyKind == {"random", "greedy", "greedy2"}

GreedyInv ==
  solver \in GreedyKind =>
    /\ Taking(working, output) /\ Processed
    /\ result \subseteq Nodes
    /\ solver = "random" => result = {} \/ GoodResult(result)
    /\ ~solving => GoodResult(returned)

\* The entries of the queue are pairs of nodes; every node is in one, unless only
\* independent pairs are.
LEMMA EntriesArePairs ==
  /\ Entries \subseteq Nodes \X Nodes /\ \A p \in Entries : p[1] \in Nodes /\ p[2] \in Nodes
  /\ solver # "greedy2" => Entries # {} /\ \A v \in Nodes : \E p \in Entries : AreIn(v, p)
<1>1. CASE solver = "greedy2"
  BY <1>1 DEF Entries, IndependentPairs
<1>2. CASE solver # "greedy2"
  <2>1. Entries = {<<v, v>> : v \in Nodes}
    BY <1>2 DEF Entries, Singles
  <2>2. \A v \in Nodes : <<v, v>> \in Entries /\ AreIn(v, <<v, v>>)
    BY <2>1 DEF AreIn
  <2>3. ASSUME NEW p \in Entries
        PROVE  p \in Nodes \X Nodes /\ p[1] \in Nodes /\ p[2] \in Nodes
    <3>1. PICK v \in Nodes : p = <<v, v>>
      BY <2>1
    <3> QED
      BY <3>1
  <2>4. PICK v \in Nodes : TRUE
    BY NodesAssumption DEF NodesAssumption
  <2>5. Entries # {}
    BY <2>2, <2>4
  <2>6. \A x \in Nodes : \E p \in Entries : AreIn(x, p)
    BY <2>2
  <2> HIDE DEF Entries
  <2> QED
    BY <2>3, <2>5, <2>6
<1> QED
  BY <1>1, <1>2

\* The entry p is taken from the queue.
LEMMA EntryTaken ==
  ASSUME Taking(working, output), Processed, NEW p \in queue, TakeEntry(p), solver' = solver
  PROVE  Taking(working, output)' /\ Processed'
<1> DEFINE s == [working |-> working, output |-> output]
           t == Process(p[1], s)
           u == Process(p[2], t)
<1>1. /\ edges' = edges /\ queue' = queue \ {p} /\ working' = u.working /\ output' = u.output
  BY DEF TakeEntry, graphVars
<1>2. p[1] \in Nodes /\ p[2] \in Nodes /\ p \in Entries
  BY EntriesArePairs DEF Processed
<1>3. s.working = working /\ s.output = output
  OBVIOUS
<1> HIDE DEF s
<1>4. /\ Taking(t.working, t.output)
      /\ t.working \subseteq working /\ output \subseteq t.output
      /\ p[1] \in t.output \/ p[1] \notin t.working
      /\ p[1] \in working => t.output # {}
  <2>1. Taking(s.working, s.output)
    BY <1>3
  <2> QED
    BY <1>2, <1>3, <2>1, ProcessTakes
<1> HIDE DEF t
<1>5. /\ Taking(u.working, u.output)
      /\ u.working \subseteq t.working /\ t.output \subseteq u.output
      /\ p[2] \in u.output \/ p[2] \notin u.working
  BY <1>2, <1>4, ProcessTakes
<1> HIDE DEF u
<1>6. Taking(working, output)'
  BY <1>1, <1>5 DEF Taking, Neighbours, Ends, IsIndependent
<1>7. Entries' = Entries
  BY <1>1 DEF Entries, IndependentPairs, Singles, Ends
<1>8. ASSUME NEW q \in Entries \ queue', NEW v \in working' \ output'
      PROVE  ~AreIn(v, q)
  <2>1. v \in working \ output
    BY <1>1, <1>4, <1>5
  <2>2. CASE q = p
    BY <1>1, <1>4, <1>5, <2>2 DEF AreIn
  <2>3. CASE q # p
    BY <1>1, <2>1, <2>3 DEF Processed
  <2> QED
    BY <2>2, <2>3
<1>9. output' # {}
  <2>1. CASE output = {}
    BY <1>1, <1>2, <1>4, <1>5, <2>1 DEF Processed
  <2>2. CASE output # {}
    BY <1>1, <1>4, <1>5, <2>2
  <2> QED
    BY <2>1, <2>2
<1> QED
  BY <1>1, <1>6, <1>7, <1>8, <1>9 DEF Processed

\* When the queue is empty, the output cannot be extended.
LEMMA QueueDone ==
  ASSUME Taking(working, output), Processed, queue = {}
  PROVE  GoodResult(output) /\ (solver # "greedy2" => output # {})
<1>1. IsIndependent(output) /\ output \subseteq Nodes
  BY DEF Taking
<1>2. \A v \in Nodes \ working : v \in output \/ Neighbours(v) \cap output # {}
  BY DEF Taking
<1>3. \A p \in Entries : \A v \in working \ output : ~AreIn(v, p)
  BY DEF Processed
<1>4. Entries # {} => output # {}
  BY DEF Processed
<1>5. ASSUME solver # "greedy2" PROVE IsMaximal(output) /\ output # {}
  <2>1. \A v \in Nodes : \E p \in Entries : AreIn(v, p)
    BY <1>5, EntriesArePairs
  <2>2. ASSUME NEW v \in Nodes \ output PROVE Neighbours(v) \cap output # {}
    BY <1>2, <1>3, <2>1
  <2> QED
    BY <1>4, <1>5, <2>2, EntriesArePairs DEF IsMaximal
<1>6. ASSUME solver = "greedy2", ~IsComplete PROVE IsMaximal(output)
  <2>1. ASSUME NEW u \in Nodes, NEW v \in Nodes, u # v, u \notin Ends(v)
        PROVE  \E p \in Entries : AreIn(u, p) /\ AreIn(v, p)
    <3>1. u \in Nat /\ v \in Nat /\ v \notin Ends(u)
      BY <2>1, NodesAssumption, EndsMeet DEF NodesAssumption
    <3>2. CASE u < v
      <4>1. <<u, v>> \in Entries
        BY <1>6, <2>1, <3>2 DEF Entries, IndependentPairs
      <4> QED
        BY <4>1 DEF AreIn
    <3>3. CASE v < u
      <4>1. <<v, u>> \in Entries
        BY <1>6, <3>1, <3>3 DEF Entries, IndependentPairs
      <4> QED
        BY <4>1 DEF AreIn
    <3> QED
      BY <2>1, <3>1, <3>2, <3>3
  <2>2. PICK x \in output : TRUE
    <3>1. PICK u \in Nodes, v \in Nodes : u # v /\ v \notin Neighbours(u)
      BY <1>6 DEF IsComplete, IsClique
    <3>2. v \notin Ends(u)
      BY <3>1 DEF Neighbours
    <3> QED
      BY <1>4, <2>1, <3>1, <3>2
  <2>3. ASSUME NEW v \in Nodes \ output, v \in working PROVE Neighbours(v) \cap output # {}
    <3>1. x \in Nodes /\ x # v
      BY <1>1
    <3>2. x \in Ends(v)
      BY <1>3, <2>1, <2>3, <3>1
    <3> QED
      BY <3>1, <3>2 DEF Neighbours
  <2> QED
    BY <1>2, <2>3 DEF IsMaximal
<1> QED
  BY <1>1, <1>5, <1>6 DEF GoodResult

\* The larger of two results is not the empty one.
LEMMA LargerGood ==
  ASSUME Taking(working, output), Processed, queue = {}, solver = "random",
         result = {} \/ GoodResult(result), result \subseteq Nodes
  PROVE  GoodResult(Larger) /\ Larger \subseteq Nodes
<1>1. GoodResult(output) /\ output # {} /\ output \subseteq Nodes
  BY QueueDone DEF Taking
<1>2. CASE result = {}
  <2>1. IsFiniteSet(output)
    BY <1>1, NodesAssumption, FS_Subset DEF NodesAssumption
  <2>2. Cardinality(output) \in Nat /\ Cardinality(output) # 0 /\ Cardinality({}) = 0
    BY <1>1, <2>1, FS_CardinalityType, FS_EmptySet
  <2> QED
    BY <1>1, <1>2, <2>2 DEF Larger
<1>3. CASE GoodResult(result)
  BY <1>1, <1>3 DEF Larger
<1> QED
  BY <1>2, <1>3

\* The sets of the greedy solvers at the start.
LEMMA GreedyStarts ==
  Init => GreedyInv
<1> SUFFICES ASSUME Init, solver \in GreedyKind PROVE GreedyInv
  BY DEF GreedyInv
<1>1. solver \in MisSolvers /\ solving /\ GreedyStart(Entries)
  <2>1. solver \notin Strategies
    BY DEF GreedyKind, Strategies
  <2>2. InitMis
    BY <2>1 DEF Init, InitSearch
  <2> QED
    BY <2>2 DEF InitMis, SolveStart, Init, Entries
<1>2. /\ queue = Entries /\ working = Nodes /\ output = {} /\ result = {}
  BY <1>1 DEF GreedyStart
<1>3. Taking(working, output) /\ Processed
  BY <1>2 DEF Taking, IsIndependent, Processed
<1> QED
  BY <1>1, <1>2, <1>3 DEF GreedyInv

\* While nothing is done to the sets.
LEMMA GreedyStays ==
  ASSUME GreedyInv, UNCHANGED <<solver, edges, returned, solving, greedyVars>>
  PROVE  GreedyInv'
<1>1. UNCHANGED <<solver, edges, returned, solving, queue, working, output, result>>
  BY DEF greedyVars
<1>2. UNCHANGED Entries
  BY <1>1 DEF Entries, IndependentPairs, Singles, Ends
<1>3. Taking(working, output) => Taking(working, output)'
  BY <1>1 DEF Taking, Neighbours, Ends, IsIndependent
<1>4. Processed => Processed'
  BY <1>1, <1>2 DEF Processed
<1>5. /\ GoodResult(result) => GoodResult(result)'
      /\ GoodResult(returned) => GoodResult(returned)'
  BY <1>1 DEF GoodResult, IsComplete, IsClique, IsMaximal, IsIndependent, Neighbours, Ends
<1> QED
  BY <1>1, <1>3, <1>4, <1>5 DEF GreedyInv

\* A step of a greedy solver.
LEMMA GreedyKeeps ==
  ASSUME GreedyInv, Solve, solver \in GreedyKind
  PROVE  GreedyInv'
<1>1. solver' = solver /\ edges' = edges
  <2>1. GreedyNext => edges' = edges
    BY DEF GreedyNext, GreedyReturns, TakeSmallest, TakeEntry, graphVars
  <2>2. RandomNext => edges' = edges
    BY DEF RandomNext, RandomReturns, NextShuffle, TakeEntry, graphVars
  <2> QED
    BY <2>1, <2>2 DEF Solve, GreedyKind
<1>2. /\ Taking(working, output) /\ Processed /\ result \subseteq Nodes
      /\ solver = "random" => result = {} \/ GoodResult(result)
  BY DEF GreedyInv
<1>3. ASSUME NEW set, GoodResult(set) PROVE GoodResult(set)'
  <2>1. \A v : Neighbours(v)' = Neighbours(v)
    BY <1>1 DEF Neighbours, Ends
  <2> QED
    BY <1>1, <1>3, <2>1 DEF GoodResult, IsComplete, IsClique, IsMaximal, IsIndependent
<1>4. ASSUME NEW p \in queue, TakeEntry(p) PROVE GreedyInv'
  <2>1. Taking(working, output)' /\ Processed'
    BY <1>1, <1>2, <1>4, EntryTaken
  <2>2. UNCHANGED <<result, solving, returned>> /\ solving
    BY <1>4 DEF TakeEntry
  <2>3. solver = "random" => result' = {} \/ GoodResult(result)'
    BY <1>2, <1>3, <2>2
  <2> QED
    BY <1>1, <1>2, <2>1, <2>2, <2>3 DEF GreedyInv
<1>5. ASSUME UNCHANGED greedyVars, ~solving', returned' = output \/ returned' = Larger,
             GoodResult(returned')
      PROVE  GreedyInv'
  <2>1. UNCHANGED <<queue, working, output, result>>
    BY <1>5 DEF greedyVars
  <2>2. UNCHANGED Entries
    BY <1>1 DEF Entries, IndependentPairs, Singles, Ends
  <2>3. Taking(working, output)' /\ Processed'
    BY <1>1, <1>2, <2>1, <2>2 DEF Taking, Processed, Neighbours, Ends, IsIndependent
  <2>4. GoodResult(returned)'
    BY <1>3, <1>5
  <2>5. solver = "random" => result' = {} \/ GoodResult(result)'
    BY <1>2, <1>3, <2>1
  <2> QED
    BY <1>1, <1>2, <2>1, <2>3, <2>4, <2>5 DEF GreedyInv
<1>6. CASE GreedyNext /\ solver \in {"greedy", "greedy2"}
  <2>1. CASE GreedyReturns
    BY <1>2, <1>5, <2>1, QueueDone DEF GreedyReturns, Return
  <2>2. CASE \E p \in queue : TakeSmallest(p)
    BY <1>4, <2>2 DEF TakeSmallest
  <2> QED
    BY <1>6, <2>1, <2>2 DEF GreedyNext
<1>7. CASE RandomNext /\ solver = "random"
  <2>1. CASE RandomReturns
    BY <1>2, <1>5, <1>7, <2>1, LargerGood DEF RandomReturns, Return
  <2>2. CASE NextShuffle
    <3>1. /\ queue = {} /\ solving /\ solving' = solving /\ result' = Larger
          /\ queue' = Singles' /\ working' = Nodes /\ output' = {}
      BY <2>2 DEF NextShuffle, Singles
    <3>2. GoodResult(Larger) /\ Larger \subseteq Nodes
      BY <1>2, <1>7, <3>1, LargerGood
    <3>3. GoodResult(result)'
      BY <1>3, <3>1, <3>2
    <3>4. Taking(working, output)' /\ Processed'
      BY <1>1, <1>7, <3>1 DEF Taking, IsIndependent, Processed, Entries
    <3> QED
      BY <3>1, <3>2, <3>3, <3>4 DEF GreedyInv
  <2>3. CASE \E p \in queue : TakeEntry(p)
    BY <1>4, <2>3
  <2> QED
    BY <1>7, <2>1, <2>2, <2>3 DEF RandomNext
<1> QED
  BY <1>6, <1>7 DEF Solve, GreedyKind

\* Every step keeps the greedy solvers' invariant.
LEMMA GreedyStep ==
  ASSUME GreedyInv, [Next]_vars
  PROVE  GreedyInv'
<1>1. ASSUME UNCHANGED <<solver, misVars>> PROVE GreedyInv'
  BY <1>1, GreedyStays DEF misVars, graphVars
<1>2. CASE Search \/ GiveUp \/ UNCHANGED vars
  BY <1>1, <1>2 DEF Search, GiveUp, vars
<1>3. CASE Solve /\ solver \in GreedyKind
  BY <1>3, GreedyKeeps
<1>4. CASE Solve /\ solver \notin GreedyKind
  BY <1>4 DEF Solve, GreedyInv
<1> QED
  BY <1>2, <1>3, <1>4 DEF Next

\* The inductive invariant of the greedy solvers: what is taken is independent and
\* what is erased is taken or next to it; what has left the queue is either.
THEOREM SolversGreedyInvariant ==
  Spec => []GreedyInv
<1>1. Init => GreedyInv
  BY GreedyStarts
<1>2. GreedyInv /\ [Next]_vars => GreedyInv'
  BY GreedyStep
<1> QED
  BY <1>1, <1>2, PTL DEF Spec

\* What GreedySolver, Greedy2Solver and RandomSolver return is independent, and
\* maximal where MisResult says so, whatever the order of ties and the shuffles.
THEOREM SolversGreedyResult ==
  Spec => [](solver \in GreedyKind => MisResult)
<1>1. GreedyInv => (solver \in GreedyKind => MisResult)
  BY DEF GreedyInv, MisResult, GoodResult, GreedyKind
<1> QED
  BY <1>1, SolversGreedyInvariant, PTL

-----------------------------------------------------------------------------
(* The recursion of the Ramsey solvers. *)

\* Finite sets of nodes have a size, proper subsets a smaller one.
Size == [nodes \in SUBSET Nodes |-> Cardinality(nodes)]

\* Every set of nodes has a size.
LEMMA Sizes ==
  /\ Size \in [SUBSET Nodes -> Nat]
  /\ \A nodes \in SUBSET Nodes :
       IsFiniteSet(nodes) /\ Size[nodes] = Cardinality(nodes) /\ Cardinality(nodes) \in Nat
<1>1. ASSUME NEW nodes \in SUBSET Nodes PROVE IsFiniteSet(nodes) /\ Cardinality(nodes) \in Nat
  BY NodesAssumption, FS_Subset, FS_CardinalityType DEF NodesAssumption
<1> QED
  BY <1>1 DEF Size

\* The recursion of the Ramsey solvers goes to smaller sets of nodes.
LEMMA SmallerParts ==
  ASSUME NEW nodes \in SUBSET Nodes, NEW v \in nodes
  PROVE  /\ Near(nodes, v) \in SUBSET Nodes /\ Far(nodes, v) \in SUBSET Nodes
         /\ Near(nodes, v) \subseteq nodes /\ Far(nodes, v) \subseteq nodes
         /\ v \notin Near(nodes, v) /\ v \notin Far(nodes, v)
         /\ Size[Near(nodes, v)] < Size[nodes] /\ Size[Far(nodes, v)] < Size[nodes]
<1>1. /\ Near(nodes, v) \in SUBSET nodes /\ Far(nodes, v) \in SUBSET nodes
      /\ v \notin Near(nodes, v) /\ v \notin Far(nodes, v)
  BY DEF Near, Far, Neighbours
<1>2. ASSUME NEW part \in SUBSET nodes, v \notin part
      PROVE  part \in SUBSET Nodes /\ Size[part] < Size[nodes]
  <2>1. part \in SUBSET Nodes /\ part # nodes
    BY <1>2
  <2>2. IsFiniteSet(nodes) /\ Size[nodes] = Cardinality(nodes) /\ Cardinality(nodes) \in Nat
    BY Sizes
  <2>3. Size[part] = Cardinality(part) /\ Cardinality(part) \in Nat
    BY <2>1, Sizes
  <2>4. Cardinality(part) <= Cardinality(nodes) /\ Cardinality(part) # Cardinality(nodes)
    BY <2>1, <2>2, FS_Subset
  <2> QED
    BY <2>1, <2>2, <2>3, <2>4
<1> QED
  BY <1>1, <1>2

\* wheel_free_ramsey() terminates: what it returns for a set of nodes follows
\* from what it returns for smaller ones.
WheelFreeOf(results, nodes, v) ==
  {Bigger(near, far \cup {v}) : near \in results[Near(nodes, v)], far \in results[Far(nodes, v)]}

WheelFreeBody(results, nodes) ==
  IF ColourClasses(nodes) # {}
    THEN {Bigger(class, nodes \ class) : class \in ColourClasses(nodes)}
    ELSE UNION {WheelFreeOf(results, nodes, v) : v \in nodes}

\* Where a result comes from.
LEMMA WheelFreeFrom ==
  ASSUME NEW results, NEW nodes, NEW set \in WheelFreeBody(results, nodes)
  PROVE  \/ \E class \in ColourClasses(nodes) : set = Bigger(class, nodes \ class)
         \/ \E v \in nodes : \E near \in results[Near(nodes, v)], far \in results[Far(nodes, v)] :
              set = Bigger(near, far \cup {v})
<1>1. CASE ColourClasses(nodes) # {}
  BY <1>1 DEF WheelFreeBody
<1>2. CASE ColourClasses(nodes) = {}
  <2>1. set \in UNION {WheelFreeOf(results, nodes, v) : v \in nodes}
    BY <1>2 DEF WheelFreeBody
  <2>2. PICK v \in nodes : set \in WheelFreeOf(results, nodes, v)
    BY <2>1
  <2>3. PICK near \in results[Near(nodes, v)], far \in results[Far(nodes, v)] :
          set = Bigger(near, far \cup {v})
    BY <2>2, SMTT(30) DEF WheelFreeOf
  <2> QED
    BY <2>3
<1> QED
  BY <1>1, <1>2

\* The recursion of wheelFreeRamsey() is well-founded: the function that models it
\* satisfies its equation.
LEMMA WheelFreeIs ==
  \A nodes \in SUBSET Nodes : WheelFree[nodes] = WheelFreeBody(WheelFree, nodes)
<1> DEFINE D == SUBSET Nodes
           T == SUBSET (SUBSET Nodes)
           B == [p \in [D -> T] \X D |-> WheelFreeBody(p[1], p[2])]
<1>1. ASSUME NEW f \in [D -> T], NEW x \in D PROVE WheelFreeBody(f, x) \in T
  <2>1. ASSUME NEW set \in WheelFreeBody(f, x) PROVE set \in SUBSET Nodes
    <3>1. CASE \E class \in ColourClasses(x) : set = Bigger(class, x \ class)
      BY <3>1 DEF ColourClasses, Bigger
    <3>2. ASSUME NEW v \in x, NEW near \in f[Near(x, v)], NEW far \in f[Far(x, v)],
                 set = Bigger(near, far \cup {v})
          PROVE  set \in SUBSET Nodes
      <4>1. Near(x, v) \in D /\ Far(x, v) \in D
        BY SmallerParts
      <4>2. near \in SUBSET Nodes /\ far \in SUBSET Nodes
        BY <4>1
      <4> QED
        BY <3>2, <4>2 DEF Bigger
    <3>3. CASE \E v \in x : \E near \in f[Near(x, v)], far \in f[Far(x, v)] :
                 set = Bigger(near, far \cup {v})
      <4>1. PICK v \in x : \E near \in f[Near(x, v)], far \in f[Far(x, v)] :
              set = Bigger(near, far \cup {v})
        BY <3>3
      <4>2. PICK near \in f[Near(x, v)], far \in f[Far(x, v)] : set = Bigger(near, far \cup {v})
        BY <4>1
      <4> QED
        BY <3>2, <4>2
    <3> HIDE DEF D, T, B
    <3> QED
      BY <3>1, <3>3, WheelFreeFrom
  <2> QED
    BY <2>1
<1>2. \A f \in [D -> T], x \in D : B[<<f, x>>] = WheelFreeBody(f, x)
  <2>1. ASSUME NEW f \in [D -> T], NEW x \in D PROVE B[<<f, x>>] = WheelFreeBody(f, x)
    <3> HIDE DEF D, T
    <3> QED
      OBVIOUS
  <2> QED
    BY <2>1
<1>3. B \in [[D -> T] \X D -> T]
  <2>1. ASSUME NEW p \in [D -> T] \X D PROVE WheelFreeBody(p[1], p[2]) \in T
    <3>1. p[1] \in [D -> T] /\ p[2] \in D
      OBVIOUS
    <3> HIDE DEF D, T
    <3> QED
      BY <1>1, <3>1
  <2> HIDE DEF D, T
  <2> QED
    BY <2>1
<1> HIDE DEF B
<1>4. \A f, g \in [D -> T], x \in D :
        (\A y \in D : Size[y] < Size[x] => f[y] = g[y]) => B[<<f, x>>] = B[<<g, x>>]
  <2>1. SUFFICES ASSUME NEW f \in [D -> T], NEW g \in [D -> T], NEW x \in D,
                        \A y \in D : Size[y] < Size[x] => f[y] = g[y]
                 PROVE  B[<<f, x>>] = B[<<g, x>>]
    OBVIOUS
  <2>2. ASSUME NEW v \in x PROVE WheelFreeOf(f, x, v) = WheelFreeOf(g, x, v)
    <3>1. f[Near(x, v)] = g[Near(x, v)] /\ f[Far(x, v)] = g[Far(x, v)]
      BY <2>1, SmallerParts
    <3> QED
      BY <3>1 DEF WheelFreeOf
  <2>3. {WheelFreeOf(f, x, v) : v \in x} = {WheelFreeOf(g, x, v) : v \in x}
    BY <2>2
  <2>4. WheelFreeBody(f, x) = WheelFreeBody(g, x)
    BY <2>3 DEF WheelFreeBody
  <2> QED
    BY <1>2, <2>4
<1>5. {} \in T /\ Size \in [D -> Nat]
  BY Sizes
<1> HIDE DEF D, T
<1>6. PICK f \in [D -> T] : \A x \in D : f[x] = B[<<f, x>>]
  <2>1. Descending(B, D, T, Size)
    BY <1>3, <1>4, <1>5 DEF Descending
  <2> QED
    BY <2>1, Recursion DEF Defines
<1>7. f = [nodes \in SUBSET Nodes |-> WheelFreeBody(f, nodes)]
  BY <1>2, <1>6 DEF D
<1>8. WheelFree
        = CHOOSE results : results = [nodes \in SUBSET Nodes |-> WheelFreeBody(results, nodes)]
  BY DEF WheelFree, WheelFreeBody, WheelFreeOf
<1>9. WheelFree = [nodes \in SUBSET Nodes |-> WheelFreeBody(WheelFree, nodes)]
  BY <1>7, <1>8
<1> QED
  BY <1>9

\* What it returns is independent, whichever nodes it picks.
LEMMA WheelFreeIndependent ==
  \A nodes \in SUBSET Nodes : \A set \in WheelFree[nodes] :
    set \subseteq nodes /\ IsIndependent(set)
<1> DEFINE G == {nodes \in SUBSET Nodes :
                   \A set \in WheelFree[nodes] : set \subseteq nodes /\ IsIndependent(set)}
<1>1. ASSUME NEW nodes \in SUBSET Nodes,
             \A part \in SUBSET Nodes : Size[part] < Size[nodes] => part \in G
      PROVE  nodes \in G
  <2>1. ASSUME NEW class \in ColourClasses(nodes)
        PROVE  Bigger(class, nodes \ class) \subseteq nodes
               /\ IsIndependent(Bigger(class, nodes \ class))
    BY DEF ColourClasses, Bigger
  <2>2. ASSUME NEW v \in nodes, NEW near \in WheelFree[Near(nodes, v)],
               NEW far \in WheelFree[Far(nodes, v)]
        PROVE  /\ Bigger(near, far \cup {v}) \subseteq nodes
               /\ IsIndependent(Bigger(near, far \cup {v}))
    <3>1. Near(nodes, v) \in G /\ Far(nodes, v) \in G
      BY <1>1, SmallerParts
    <3>2. near \subseteq Near(nodes, v) /\ IsIndependent(near)
      BY <3>1
    <3>3. far \subseteq Far(nodes, v) /\ IsIndependent(far)
      BY <3>1
    <3>4. \A w \in far : w \notin Ends(v)
      BY <3>3 DEF Far, Neighbours
    <3>5. IsIndependent(far \cup {v})
      <4>1. \A w \in far : <<v, w>> \notin edges /\ <<w, v>> \notin edges
        BY <3>3, <3>4 DEF Ends, Far
      <4> QED
        BY <3>3, <4>1 DEF IsIndependent
    <3> QED
      BY <3>2, <3>3, <3>5, SmallerParts DEF Bigger
  <2>3. ASSUME NEW set \in WheelFreeBody(WheelFree, nodes)
        PROVE  set \subseteq nodes /\ IsIndependent(set)
    <3>1. CASE \E class \in ColourClasses(nodes) : set = Bigger(class, nodes \ class)
      BY <2>1, <3>1
    <3>2. CASE \E v \in nodes : \E near \in WheelFree[Near(nodes, v)],
                                  far \in WheelFree[Far(nodes, v)] :
                 set = Bigger(near, far \cup {v})
      BY <2>2, <3>2
    <3> QED
      BY <3>1, <3>2, WheelFreeFrom
  <2>4. WheelFree[nodes] = WheelFreeBody(WheelFree, nodes)
    BY WheelFreeIs
  <2> QED
    BY <2>3, <2>4
<1> HIDE DEF G
<1>2. SUBSET Nodes \subseteq G
  BY <1>1, Sizes, MeasureInduction
<1> QED
  BY <1>2 DEF G

Pairs == [clique : SUBSET Nodes, set : SUBSET Nodes]

\* The same of ramsey().
RamseyOf(results, nodes, v) ==
  {RamseyPair(v, near, far) : near \in results[Near(nodes, v)], far \in results[Far(nodes, v)]}

RamseyBody(results, nodes) ==
  IF nodes = {} THEN {[clique |-> {}, set |-> {}]}
  ELSE UNION {RamseyOf(results, nodes, v) : v \in nodes}

\* Where a result comes from.
LEMMA RamseyFrom ==
  ASSUME NEW results, NEW nodes, NEW r \in RamseyBody(results, nodes)
  PROVE  \/ nodes = {} /\ r = [clique |-> {}, set |-> {}]
         \/ \E v \in nodes : \E near \in results[Near(nodes, v)], far \in results[Far(nodes, v)] :
              r = RamseyPair(v, near, far)
<1>1. CASE nodes = {}
  BY <1>1 DEF RamseyBody
<1>2. CASE nodes # {}
  <2>1. r \in UNION {RamseyOf(results, nodes, v) : v \in nodes}
    BY <1>2 DEF RamseyBody
  <2>2. PICK v \in nodes : r \in RamseyOf(results, nodes, v)
    BY <2>1
  <2>3. PICK near \in results[Near(nodes, v)], far \in results[Far(nodes, v)] :
          r = RamseyPair(v, near, far)
    BY <2>2 DEF RamseyOf
  <2> QED
    BY <2>3
<1> QED
  BY <1>1, <1>2

\* What ramsey() puts together for a node is a pair of sets.
LEMMA RamseyPairType ==
  ASSUME NEW v \in Nodes, NEW near \in Pairs, NEW far \in Pairs
  PROVE  RamseyPair(v, near, far) \in Pairs
<1>1. /\ near.clique \in SUBSET Nodes /\ near.set \in SUBSET Nodes
      /\ far.clique \in SUBSET Nodes /\ far.set \in SUBSET Nodes
  BY DEF Pairs
<1>2. /\ Bigger(near.clique \cup {v}, far.clique) \in SUBSET Nodes
      /\ Bigger(near.set, far.set \cup {v}) \in SUBSET Nodes
  BY <1>1 DEF Bigger
<1> QED
  BY <1>2 DEF RamseyPair, Pairs

\* The recursion of ramsey() is well-founded.
LEMMA RamseyIs ==
  /\ Ramsey \in [SUBSET Nodes -> SUBSET Pairs]
  /\ \A nodes \in SUBSET Nodes : Ramsey[nodes] = RamseyBody(Ramsey, nodes)
<1> DEFINE D == SUBSET Nodes
           T == SUBSET Pairs
           B == [p \in [D -> T] \X D |-> RamseyBody(p[1], p[2])]
<1>1. ASSUME NEW f \in [D -> T], NEW x \in D PROVE RamseyBody(f, x) \in T
  <2>1. ASSUME NEW r \in RamseyBody(f, x) PROVE r \in Pairs
    <3>1. CASE x = {} /\ r = [clique |-> {}, set |-> {}]
      BY <3>1 DEF Pairs
    <3>2. CASE \E v \in x : \E near \in f[Near(x, v)], far \in f[Far(x, v)] :
                 r = RamseyPair(v, near, far)
      <4>1. PICK v \in x : \E near \in f[Near(x, v)], far \in f[Far(x, v)] :
              r = RamseyPair(v, near, far)
        BY <3>2
      <4>2. PICK near \in f[Near(x, v)], far \in f[Far(x, v)] : r = RamseyPair(v, near, far)
        BY <4>1
      <4>3. Near(x, v) \in D /\ Far(x, v) \in D
        BY SmallerParts
      <4>4. near \in Pairs /\ far \in Pairs /\ v \in Nodes
        BY <4>3
      <4> QED
        BY <4>2, <4>4, RamseyPairType
    <3> HIDE DEF D, T, B
    <3> QED
      BY <3>1, <3>2, RamseyFrom
  <2> QED
    BY <2>1
<1>2. \A f \in [D -> T], x \in D : B[<<f, x>>] = RamseyBody(f, x)
  <2>1. ASSUME NEW f \in [D -> T], NEW x \in D PROVE B[<<f, x>>] = RamseyBody(f, x)
    <3> HIDE DEF D, T
    <3> QED
      OBVIOUS
  <2> QED
    BY <2>1
<1>3. B \in [[D -> T] \X D -> T]
  <2>1. ASSUME NEW p \in [D -> T] \X D PROVE RamseyBody(p[1], p[2]) \in T
    <3>1. p[1] \in [D -> T] /\ p[2] \in D
      OBVIOUS
    <3> HIDE DEF D, T
    <3> QED
      BY <1>1, <3>1
  <2> HIDE DEF D, T
  <2> QED
    BY <2>1
<1> HIDE DEF B
<1>4. \A f, g \in [D -> T], x \in D :
        (\A y \in D : Size[y] < Size[x] => f[y] = g[y]) => B[<<f, x>>] = B[<<g, x>>]
  <2>1. SUFFICES ASSUME NEW f \in [D -> T], NEW g \in [D -> T], NEW x \in D,
                        \A y \in D : Size[y] < Size[x] => f[y] = g[y]
                 PROVE  B[<<f, x>>] = B[<<g, x>>]
    OBVIOUS
  <2>2. ASSUME NEW v \in x PROVE RamseyOf(f, x, v) = RamseyOf(g, x, v)
    <3>1. f[Near(x, v)] = g[Near(x, v)] /\ f[Far(x, v)] = g[Far(x, v)]
      BY <2>1, SmallerParts
    <3> QED
      BY <3>1 DEF RamseyOf
  <2>3. {RamseyOf(f, x, v) : v \in x} = {RamseyOf(g, x, v) : v \in x}
    BY <2>2
  <2>4. RamseyBody(f, x) = RamseyBody(g, x)
    BY <2>3 DEF RamseyBody
  <2> QED
    BY <1>2, <2>4
<1>5. {} \in T /\ Size \in [D -> Nat]
  BY Sizes
<1> HIDE DEF D, T
<1>6. PICK f \in [D -> T] : \A x \in D : f[x] = B[<<f, x>>]
  <2>1. Descending(B, D, T, Size)
    BY <1>3, <1>4, <1>5 DEF Descending
  <2> QED
    BY <2>1, Recursion DEF Defines
<1>7. f = [nodes \in SUBSET Nodes |-> RamseyBody(f, nodes)]
  BY <1>2, <1>6 DEF D
<1>8. Ramsey = CHOOSE results : results = [nodes \in SUBSET Nodes |-> RamseyBody(results, nodes)]
  BY DEF Ramsey, RamseyBody, RamseyOf
<1>9. Ramsey = [nodes \in SUBSET Nodes |-> RamseyBody(Ramsey, nodes)]
  BY <1>7, <1>8
<1>10. \A nodes \in SUBSET Nodes : Ramsey[nodes] = RamseyBody(Ramsey, nodes)
  BY <1>9
<1>11. Ramsey \in [D -> T]
  <2> DEFINE G == {x \in D : Ramsey[x] \in T}
  <2>1. ASSUME NEW x \in D, \A y \in D : Size[y] < Size[x] => y \in G
        PROVE  x \in G
    <3> DEFINE g == [y \in D |-> IF Ramsey[y] \in T THEN Ramsey[y] ELSE {}]
    <3>1. g \in [D -> T] /\ \A y \in D : y \in G => g[y] = Ramsey[y]
      BY <1>5
    <3> HIDE DEF g, G
    <3>2. ASSUME NEW v \in x PROVE RamseyOf(g, x, v) = RamseyOf(Ramsey, x, v)
      <4>1. /\ Near(x, v) \in D /\ Size[Near(x, v)] < Size[x]
            /\ Far(x, v) \in D /\ Size[Far(x, v)] < Size[x]
        BY SmallerParts DEF D
      <4>2. Near(x, v) \in G /\ Far(x, v) \in G
        BY <2>1, <4>1
      <4>3. g[Near(x, v)] = Ramsey[Near(x, v)] /\ g[Far(x, v)] = Ramsey[Far(x, v)]
        BY <3>1, <4>1, <4>2
      <4> QED
        BY <4>3 DEF RamseyOf
    <3>3. {RamseyOf(g, x, v) : v \in x} = {RamseyOf(Ramsey, x, v) : v \in x}
      BY <3>2
    <3>4. RamseyBody(g, x) = RamseyBody(Ramsey, x)
      BY <3>3 DEF RamseyBody
    <3>5. RamseyBody(g, x) \in T
      BY <1>1, <3>1
    <3> QED
      BY <1>10, <3>4, <3>5 DEF D, G
  <2> HIDE DEF G
  <2>2. D \subseteq G
    BY <1>5, <2>1, MeasureInduction
  <2> QED
    BY <1>9, <2>2 DEF G, D
<1> QED
  BY <1>10, <1>11 DEF D, T

\* The two sets that it returns.
GoodPair(nodes, r) ==
  /\ r.clique \subseteq nodes /\ IsClique(r.clique)
  /\ r.set \subseteq nodes /\ IsIndependent(r.set)

\* Whichever nodes ramsey() picks, it returns a clique and an independent set.
LEMMA RamseyGood ==
  \A nodes \in SUBSET Nodes : \A r \in Ramsey[nodes] : r \in Pairs /\ GoodPair(nodes, r)
<1> DEFINE G == {nodes \in SUBSET Nodes : \A r \in Ramsey[nodes] : GoodPair(nodes, r)}
<1>1. ASSUME NEW nodes \in SUBSET Nodes,
             \A part \in SUBSET Nodes : Size[part] < Size[nodes] => part \in G
      PROVE  nodes \in G
  <2>1. ASSUME NEW v \in nodes, NEW near \in Ramsey[Near(nodes, v)],
               NEW far \in Ramsey[Far(nodes, v)]
        PROVE  GoodPair(nodes, RamseyPair(v, near, far))
    <3>1. Near(nodes, v) \in G /\ Far(nodes, v) \in G
      BY <1>1, SmallerParts
    <3>2. GoodPair(Near(nodes, v), near) /\ GoodPair(Far(nodes, v), far)
      BY <3>1
    <3>3. \A w \in near.clique : w \in Neighbours(v) /\ v \in Neighbours(w)
      <4>1. \A w \in near.clique : w \in Neighbours(v) /\ w \in Nodes
        BY <3>2 DEF GoodPair, Near
      <4> QED
        BY <4>1, EndsMeet DEF Neighbours
    <3>4. IsClique(near.clique \cup {v})
      BY <3>2, <3>3 DEF GoodPair, IsClique
    <3>5. \A w \in far.set : <<v, w>> \notin edges /\ <<w, v>> \notin edges
      <4>1. \A w \in far.set : w \in Nodes /\ w \notin Neighbours(v) /\ w # v
        BY <3>2 DEF GoodPair, Far
      <4> QED
        BY <4>1 DEF Neighbours, Ends
    <3>6. IsIndependent(far.set \cup {v})
      BY <3>2, <3>5 DEF GoodPair, IsIndependent
    <3>7. /\ near.clique \cup {v} \subseteq nodes /\ far.clique \subseteq nodes
          /\ near.set \subseteq nodes /\ far.set \cup {v} \subseteq nodes
      BY <3>2, SmallerParts DEF GoodPair
    <3>8. IsClique(far.clique) /\ IsIndependent(near.set)
      BY <3>2 DEF GoodPair
    <3>9. /\ RamseyPair(v, near, far).clique \in {near.clique \cup {v}, far.clique}
          /\ RamseyPair(v, near, far).set \in {near.set, far.set \cup {v}}
      BY DEF RamseyPair, Bigger
    <3> QED
      BY <3>4, <3>6, <3>7, <3>8, <3>9 DEF GoodPair
  <2>2. ASSUME NEW r \in RamseyBody(Ramsey, nodes)
        PROVE  GoodPair(nodes, r)
    <3>1. CASE nodes = {} /\ r = [clique |-> {}, set |-> {}]
      BY <3>1 DEF GoodPair, IsClique, IsIndependent
    <3>2. CASE \E v \in nodes : \E near \in Ramsey[Near(nodes, v)], far \in Ramsey[Far(nodes, v)] :
                 r = RamseyPair(v, near, far)
      BY <2>1, <3>2
    <3> QED
      BY <3>1, <3>2, RamseyFrom
  <2>3. Ramsey[nodes] = RamseyBody(Ramsey, nodes)
    BY RamseyIs
  <2> QED
    BY <2>2, <2>3
<1> HIDE DEF G
<1>2. SUBSET Nodes \subseteq G
  BY <1>1, Sizes, MeasureInduction
<1>3. \A nodes \in SUBSET Nodes : \A r \in Ramsey[nodes] : r \in Pairs
  BY RamseyIs
<1> QED
  BY <1>2, <1>3 DEF G

-----------------------------------------------------------------------------
(* clique_removal(). *)

Increasing(s, nodes) ==
  /\ s \in [1 .. Cardinality(nodes) -> nodes]
  /\ \A i, j \in DOMAIN s : i < j => s[i] < s[j]

\* Nodes are numbers, so they can be put in order.
LEMMA InOrderIs ==
  \A nodes \in SUBSET Nodes : Increasing(InOrder(nodes), nodes) /\ InOrder(nodes) \in Seq(nodes)
<1> DEFINE G == {nodes \in SUBSET Nodes : \E s : Increasing(s, nodes)}
<1>1. ASSUME NEW nodes \in SUBSET Nodes,
             \A part \in SUBSET Nodes : Size[part] < Size[nodes] => part \in G
      PROVE  \E s : Increasing(s, nodes)
  <2>1. /\ IsFiniteSet(nodes) /\ Size[nodes] = Cardinality(nodes) /\ Cardinality(nodes) \in Nat
        /\ nodes \subseteq Nat
    BY Sizes, NodesAssumption DEF NodesAssumption
  <2>2. CASE nodes = {}
    <3>1. Cardinality(nodes) = 0
      BY <2>2, FS_EmptySet
    <3> DEFINE s == [i \in 1 .. 0 |-> 0]
    <3>2. s \in [1 .. 0 -> nodes] /\ \A i, j \in DOMAIN s : i < j => s[i] < s[j]
      OBVIOUS
    <3> QED
      BY <3>1, <3>2 DEF Increasing
  <2>3. CASE nodes # {}
    <3>1. PICK x \in nodes : \A y \in nodes : x <= y
      BY <2>1, <2>3, Least
    <3> DEFINE part == nodes \ {x}
               n == Cardinality(nodes)
    <3>2. Cardinality(part) = n - 1 /\ n \in Nat /\ n - 1 \in Nat
      <4>1. IsFiniteSet(part) /\ Cardinality(part) = n - 1
        BY <2>1, FS_RemoveElement
      <4>2. Cardinality(part) \in Nat
        BY <4>1, FS_CardinalityType
      <4> QED
        BY <2>1, <4>1, <4>2
    <3>3. part \in SUBSET Nodes /\ Size[part] < Size[nodes]
      <4>1. part \in SUBSET Nodes
        OBVIOUS
      <4>2. Size[part] = n - 1
        BY <3>2, <4>1, Sizes
      <4> QED
        BY <2>1, <3>2, <4>1, <4>2
    <3>4. PICK r : Increasing(r, part)
      BY <1>1, <3>3
    <3>5. /\ r \in [1 .. n - 1 -> part]
          /\ \A i, j \in 1 .. n - 1 : i < j => r[i] < r[j]
      BY <3>2, <3>4 DEF Increasing
    <3> DEFINE s == [i \in 1 .. n |-> IF i = 1 THEN x ELSE r[i - 1]]
    <3> HIDE DEF n
    <3>6. \A i \in 1 .. n : i # 1 => i - 1 \in 1 .. n - 1 /\ r[i - 1] \in part
      BY <3>2, <3>5
    <3>7. s \in [1 .. n -> nodes]
      BY <3>6
    <3>8. ASSUME NEW i \in 1 .. n, NEW j \in 1 .. n, i < j PROVE s[i] < s[j]
      <4>1. j # 1 /\ s[j] = r[j - 1] /\ r[j - 1] \in nodes /\ r[j - 1] # x
        BY <3>2, <3>6, <3>8
      <4>2. CASE i = 1
        <5>1. s[i] = x /\ x <= r[j - 1] /\ x \in Nat /\ r[j - 1] \in Nat
          BY <2>1, <3>1, <4>1, <4>2
        <5> QED
          BY <4>1, <5>1
      <4>3. CASE i # 1
        <5>1. s[i] = r[i - 1] /\ i - 1 \in 1 .. n - 1 /\ j - 1 \in 1 .. n - 1
          BY <3>6, <4>1, <4>3
        <5>2. i - 1 < j - 1
          BY <3>2, <3>8
        <5> QED
          BY <3>5, <4>1, <5>1, <5>2
      <4> QED
        BY <4>2, <4>3
    <3> HIDE DEF s
    <3>9. DOMAIN s = 1 .. n
      BY DEF s
    <3> QED
      BY <3>7, <3>8, <3>9 DEF Increasing, n
  <2> QED
    BY <2>2, <2>3
<1> HIDE DEF G
<1>2. SUBSET Nodes \subseteq G
  <2>1. \A nodes \in SUBSET Nodes :
          (\A part \in SUBSET Nodes : Size[part] < Size[nodes] => part \in G) => nodes \in G
    BY <1>1 DEF G
  <2> QED
    BY <2>1, Sizes, MeasureInduction
<1>3. ASSUME NEW nodes \in SUBSET Nodes
      PROVE  Increasing(InOrder(nodes), nodes) /\ InOrder(nodes) \in Seq(nodes)
  <2>1. \E s : Increasing(s, nodes)
    BY <1>2 DEF G
  <2>2. Increasing(InOrder(nodes), nodes)
    BY <2>1 DEF InOrder, Increasing
  <2>3. Cardinality(nodes) \in Nat
    BY Sizes
  <2> QED
    BY <2>2, <2>3 DEF Increasing
<1> QED
  BY <1>3

\* What set_difference() writes comes from the first of the two ranges.
DifferenceBody(a, b, merge, at) ==
  LET i == at[1]
      j == at[2]
  IN  IF i > Len(a) THEN {}
      ELSE IF j > Len(b) THEN {a[k] : k \in i .. Len(a)}
      ELSE IF address[a[i]] < address[b[j]] THEN {a[i]} \cup merge[<<i + 1, j>>]
      ELSE IF address[b[j]] < address[a[i]] THEN merge[<<i, j + 1>>]
      ELSE merge[<<i + 1, j + 1>>]

\* The difference holds nothing else, even of sequences in another order.
LEMMA DifferenceLeft ==
  ASSUME NEW S, NEW a \in Seq(S), NEW R, NEW b \in Seq(R)
  PROVE  Difference(a, b) \subseteq S
<1> DEFINE D == (1 .. Len(a) + 1) \X (1 .. Len(b) + 1)
           T == SUBSET S
           B == [p \in [D -> T] \X D |-> DifferenceBody(a, b, p[1], p[2])]
           m == [at \in D |-> (Len(a) + 1 - at[1]) + (Len(b) + 1 - at[2])]
<1>1. Len(a) \in Nat /\ Len(b) \in Nat /\ \A i \in 1 .. Len(a) : a[i] \in S
  OBVIOUS
<1>2. \A at \in D : /\ at[1] \in 1 .. Len(a) + 1 /\ at[2] \in 1 .. Len(b) + 1
                    /\ at[1] \in Nat /\ at[2] \in Nat
  BY <1>1
<1>3. m \in [D -> Nat]
  BY <1>1, <1>2
<1>4. ASSUME NEW at \in D, ~(at[1] > Len(a)), ~(at[2] > Len(b)),
             NEW to \in {<<at[1] + 1, at[2]>>, <<at[1], at[2] + 1>>, <<at[1] + 1, at[2] + 1>>}
      PROVE  to \in D /\ m[to] < m[at]
  <2>1. /\ at[1] \in 1 .. Len(a) + 1 /\ at[2] \in 1 .. Len(b) + 1
        /\ at[1] \in Nat /\ at[2] \in Nat
    BY <1>2
  <2>2. /\ at[1] + 1 \in 1 .. Len(a) + 1 /\ at[2] + 1 \in 1 .. Len(b) + 1
    BY <1>1, <1>4, <2>1
  <2>3. to \in D
    BY <2>1, <2>2
  <2>4. /\ m[to] = (Len(a) + 1 - to[1]) + (Len(b) + 1 - to[2])
        /\ m[at] = (Len(a) + 1 - at[1]) + (Len(b) + 1 - at[2])
    BY <2>3
  <2>5. \/ to[1] = at[1] + 1 /\ to[2] = at[2]
        \/ to[1] = at[1] /\ to[2] = at[2] + 1
        \/ to[1] = at[1] + 1 /\ to[2] = at[2] + 1
    OBVIOUS
  <2> HIDE DEF m, D
  <2>6. m[to] < m[at]
    <3>1. \A la, lb, i, j \in Nat :
            /\ (la + 1 - (i + 1)) + (lb + 1 - j) < (la + 1 - i) + (lb + 1 - j)
            /\ (la + 1 - i) + (lb + 1 - (j + 1)) < (la + 1 - i) + (lb + 1 - j)
            /\ (la + 1 - (i + 1)) + (lb + 1 - (j + 1)) < (la + 1 - i) + (lb + 1 - j)
      OBVIOUS
    <3>2. CASE to[1] = at[1] + 1 /\ to[2] = at[2]
      BY <1>1, <2>1, <2>4, <3>1, <3>2
    <3>3. CASE to[1] = at[1] /\ to[2] = at[2] + 1
      BY <1>1, <2>1, <2>4, <3>1, <3>3
    <3>4. CASE to[1] = at[1] + 1 /\ to[2] = at[2] + 1
      BY <1>1, <2>1, <2>4, <3>1, <3>4
    <3> QED
      BY <2>5, <3>2, <3>3, <3>4
  <2> QED
    BY <2>3, <2>6
<1> HIDE DEF m
<1>5. ASSUME NEW f, NEW at \in D, \A to \in D : m[to] < m[at] => f[to] \in T
      PROVE  DifferenceBody(a, b, f, at) \in T
  <2>1. /\ at[1] \in 1 .. Len(a) + 1 /\ at[2] \in 1 .. Len(b) + 1
        /\ at[1] \in Nat /\ at[2] \in Nat
    BY <1>2
  <2>2. CASE at[1] > Len(a)
    BY <2>2 DEF DifferenceBody
  <2>3. CASE ~(at[1] > Len(a)) /\ at[2] > Len(b)
    <3>1. DifferenceBody(a, b, f, at) = {a[k] : k \in at[1] .. Len(a)}
      BY <2>3 DEF DifferenceBody
    <3>2. \A k \in at[1] .. Len(a) : a[k] \in S
      BY <1>1, <2>1
    <3> QED
      BY <3>1, <3>2
  <2>4. CASE ~(at[1] > Len(a)) /\ ~(at[2] > Len(b))
    <3>2. /\ f[<<at[1] + 1, at[2]>>] \in T /\ f[<<at[1], at[2] + 1>>] \in T
          /\ f[<<at[1] + 1, at[2] + 1>>] \in T
      BY <1>4, <1>5, <2>4
    <3>3. a[at[1]] \in S
      BY <1>1, <2>1, <2>4
    <3>4. DifferenceBody(a, b, f, at) \in
            {{a[at[1]]} \cup f[<<at[1] + 1, at[2]>>], f[<<at[1], at[2] + 1>>],
             f[<<at[1] + 1, at[2] + 1>>]}
      BY <2>4 DEF DifferenceBody
    <3> QED
      BY <3>2, <3>3, <3>4
  <2> QED
    BY <2>2, <2>3, <2>4
<1>6. \A f \in [D -> T], at \in D : B[<<f, at>>] = DifferenceBody(a, b, f, at)
  <2>1. ASSUME NEW f \in [D -> T], NEW at \in D PROVE B[<<f, at>>] = DifferenceBody(a, b, f, at)
    <3> HIDE DEF D, T
    <3> QED
      OBVIOUS
  <2> QED
    BY <2>1
<1>7. B \in [[D -> T] \X D -> T]
  <2>1. ASSUME NEW p \in [D -> T] \X D PROVE DifferenceBody(a, b, p[1], p[2]) \in T
    <3> HIDE DEF D, T
    <3>1. p[1] \in [D -> T] /\ p[2] \in D
      OBVIOUS
    <3> QED
      BY <1>5, <3>1
  <2> HIDE DEF D, T
  <2> QED
    BY <2>1
<1> HIDE DEF B
<1>8. \A f, g \in [D -> T], x \in D :
        (\A y \in D : m[y] < m[x] => f[y] = g[y]) => B[<<f, x>>] = B[<<g, x>>]
  <2>1. SUFFICES ASSUME NEW f \in [D -> T], NEW g \in [D -> T], NEW x \in D,
                        \A y \in D : m[y] < m[x] => f[y] = g[y]
                 PROVE  DifferenceBody(a, b, f, x) = DifferenceBody(a, b, g, x)
    <3> HIDE DEF D, T, m
    <3> QED
      BY <1>6
  <2>2. CASE x[1] > Len(a) \/ x[2] > Len(b)
    BY <2>2 DEF DifferenceBody
  <2>3. CASE ~(x[1] > Len(a)) /\ ~(x[2] > Len(b))
    <3>1. /\ f[<<x[1] + 1, x[2]>>] = g[<<x[1] + 1, x[2]>>]
          /\ f[<<x[1], x[2] + 1>>] = g[<<x[1], x[2] + 1>>]
          /\ f[<<x[1] + 1, x[2] + 1>>] = g[<<x[1] + 1, x[2] + 1>>]
      BY <1>4, <2>1, <2>3
    <3> QED
      BY <2>3, <3>1 DEF DifferenceBody
  <2> QED
    BY <2>2, <2>3
<1>9. <<1, 1>> \in D
  BY <1>1
<1>10. Difference(a, b) = (CHOOSE f : f = [at \in D |-> DifferenceBody(a, b, f, at)])[<<1, 1>>]
  BY DEF Difference, DifferenceBody
<1>11. T # {}
  OBVIOUS
<1> HIDE DEF D
<1>12. PICK f \in [D -> T] : \A x \in D : f[x] = B[<<f, x>>]
  <2>1. Descending(B, D, T, m)
    <3> HIDE DEF T
    <3> QED
      BY <1>3, <1>7, <1>8, <1>11 DEF Descending
  <2> HIDE DEF T
  <2> QED
    BY <2>1, Recursion DEF Defines
<1>13. f = [at \in D |-> DifferenceBody(a, b, f, at)]
  BY <1>6, <1>12
<1> DEFINE g == CHOOSE h : h = [at \in D |-> DifferenceBody(a, b, h, at)]
<1>14. g = [at \in D |-> DifferenceBody(a, b, g, at)]
  BY <1>13
<1> HIDE DEF g
<1>15. D \subseteq {at \in D : g[at] \in T}
  <2> DEFINE G == {at \in D : g[at] \in T}
  <2>1. ASSUME NEW at \in D, \A to \in D : m[to] < m[at] => to \in G PROVE at \in G
    <3>1. DifferenceBody(a, b, g, at) \in T
      <4> HIDE DEF T
      <4> QED
        BY <1>5, <2>1
    <3> QED
      BY <1>14, <3>1
  <2> HIDE DEF G
  <2>2. D \subseteq G
    BY <1>3, <2>1, MeasureInduction
  <2> QED
    BY <2>2 DEF G
<1> QED
  BY <1>9, <1>10, <1>15 DEF g

\* What clique_removal() and wheel_free_ramsey() keep independent.
RamseyInv ==
  /\ solver = "ramsey" =>
       /\ left \in SUBSET Nodes /\ clique \in SUBSET Nodes
       /\ IsIndependent(best)
       /\ ~solving => IsIndependent(returned)
  /\ solver = "wheel-free" /\ ~solving => IsIndependent(returned)

\* Before the first guess of clique_removal() there is no result.
LEMMA RamseyStarts ==
  Init => RamseyInv
<1> SUFFICES ASSUME Init PROVE RamseyInv
  OBVIOUS
<1>1. CASE solver = "ramsey"
  <2>1. InitMis
    BY <1>1 DEF Init, InitSearch, Strategies
  <2>2. \E layout \in Layouts : RamseyStart(layout)
    BY <1>1, <2>1 DEF InitMis
  <2>3. solving
    BY <2>1 DEF InitMis, SolveStart
  <2> QED
    BY <1>1, <2>2, <2>3 DEF RamseyInv, RamseyStart, IsIndependent
<1>2. CASE solver = "wheel-free"
  <2>1. InitMis
    BY <1>2 DEF Init, InitSearch, Strategies
  <2>2. solving
    BY <2>1 DEF InitMis, SolveStart
  <2> QED
    BY <1>2, <2>2 DEF RamseyInv
<1> QED
  BY <1>1, <1>2 DEF RamseyInv

\* A step of clique_removal().
LEMMA RamseyKeeps ==
  ASSUME RamseyInv, Solve, solver = "ramsey"
  PROVE  RamseyInv'
<1>1. /\ left \in SUBSET Nodes /\ clique \in SUBSET Nodes
      /\ IsIndependent(best)
      /\ ~solving => IsIndependent(returned)
  BY DEF RamseyInv
<1>2. RamseyNext /\ solver' = solver
  BY DEF Solve
<1>3. edges' = edges
  BY <1>2 DEF RamseyNext, FirstGuess, RemoveClique, RamseyReturns, graphVars
<1>4. ASSUME NEW set PROVE IsIndependent(set) <=> \A u, v \in set :
                                u # v => <<u, v>> \notin edges' /\ <<v, u>> \notin edges'
  BY <1>3 DEF IsIndependent
<1>5. CASE FirstGuess
  <2>1. PICK r \in Ramsey[Nodes] : clique' = r.clique /\ best' = r.set
    BY <1>5 DEF FirstGuess
  <2>2. GoodPair(Nodes, r)
    BY <2>1, RamseyGood
  <2>3. clique' \in SUBSET Nodes /\ left' = left /\ solving
    BY <1>5, <2>1, <2>2 DEF FirstGuess, GoodPair
  <2>4. IsIndependent(best)'
    BY <1>4, <2>1, <2>2 DEF GoodPair, IsIndependent
  <2>5. solving' = solving
    BY <1>5 DEF FirstGuess
  <2> QED
    BY <1>1, <1>2, <2>3, <2>4, <2>5 DEF RamseyInv
<1>6. CASE RemoveClique
  <2>1. InOrder(left) \in Seq(left) /\ InOrder(clique) \in Seq(clique)
    BY <1>1, InOrderIs
  <2>2. left' \in SUBSET Nodes
    BY <1>1, <1>6, <2>1, DifferenceLeft DEF RemoveClique
  <2>3. PICK r \in Ramsey[left'] : clique' = r.clique /\ best' = Better(r.set)
    BY <1>6 DEF RemoveClique
  <2>4. GoodPair(left', r)
    BY <2>2, <2>3, RamseyGood
  <2>5. clique' \in SUBSET Nodes
    BY <2>2, <2>3, <2>4 DEF GoodPair
  <2>6. IsIndependent(Better(r.set))
    BY <1>1, <2>4 DEF GoodPair, Better
  <2>7. IsIndependent(best)'
    BY <1>3, <2>3, <2>6 DEF IsIndependent
  <2>8. solving /\ solving' = solving
    BY <1>6 DEF RemoveClique
  <2> QED
    BY <1>2, <2>2, <2>5, <2>7, <2>8 DEF RamseyInv
<1>7. CASE RamseyReturns
  <2>1. returned' = best /\ best' = best /\ left' = left /\ clique' = clique
    BY <1>7 DEF RamseyReturns, Return, ramseyVars
  <2>2. IsIndependent(best)' /\ IsIndependent(returned)'
    BY <1>1, <1>3, <2>1 DEF IsIndependent
  <2> QED
    BY <1>1, <1>2, <2>1, <2>2 DEF RamseyInv
<1> QED
  BY <1>2, <1>5, <1>6, <1>7 DEF RamseyNext

\* The step of the wheel-free solver.
LEMMA WheelFreeKeeps ==
  ASSUME RamseyInv, Solve, solver = "wheel-free"
  PROVE  RamseyInv'
<1>1. WheelFreeReturns /\ solver' = solver
  BY DEF Solve
<1>2. PICK set \in WheelFree[Nodes] : returned' = set /\ edges' = edges
  BY <1>1 DEF WheelFreeReturns, Return, graphVars
<1>3. IsIndependent(set)
  BY <1>2, WheelFreeIndependent
<1>4. IsIndependent(returned)'
  BY <1>2, <1>3 DEF IsIndependent
<1> QED
  BY <1>1, <1>4 DEF RamseyInv

\* Every step keeps the Ramsey solvers' invariant.
LEMMA RamseyStep ==
  ASSUME RamseyInv, [Next]_vars
  PROVE  RamseyInv'
<1>1. ASSUME UNCHANGED <<solver, misVars>> PROVE RamseyInv'
  BY <1>1 DEF RamseyInv, IsIndependent, misVars, graphVars, ramseyVars
<1>2. CASE Search \/ GiveUp \/ UNCHANGED vars
  BY <1>1, <1>2 DEF Search, GiveUp, vars
<1>3. CASE Solve /\ solver \in {"ramsey", "wheel-free"}
  BY <1>3, RamseyKeeps, WheelFreeKeeps
<1>4. CASE Solve /\ solver \notin {"ramsey", "wheel-free"}
  BY <1>4 DEF Solve, RamseyInv
<1> QED
  BY <1>2, <1>3, <1>4 DEF Next

\* The inductive invariant of the Ramsey solvers (RamseySolver.cpp): the best set is
\* independent, the clique is one of the nodes that are left.
THEOREM SolversRamseyInvariant ==
  Spec => []RamseyInv
<1>1. Init => RamseyInv
  BY RamseyStarts
<1>2. RamseyInv /\ [Next]_vars => RamseyInv'
  BY RamseyStep
<1> QED
  BY <1>1, <1>2, PTL DEF Spec

-----------------------------------------------------------------------------
(* Ramsey's theorem. *)

\* The factorial, by its recursion.
LEMMA FactorialIs ==
  /\ factorial \in [Nat -> Nat] /\ factorial[0] = 1
  /\ \A n \in Nat : factorial[n] > 0 /\ factorial[n + 1] = (n + 1) * factorial[n]
<1> DEFINE Body(f, n) == IF n = 0 THEN 1 ELSE n * f[n - 1]
           B == [p \in [Nat -> Nat] \X Nat |-> Body(p[1], p[2])]
           m == [n \in Nat |-> n]
<1>1. ASSUME NEW f \in [Nat -> Nat], NEW n \in Nat PROVE Body(f, n) \in Nat
  <2>1. CASE n = 0
    BY <2>1
  <2>2. CASE n # 0
    <3>1. n - 1 \in Nat
      BY <2>2
    <3>2. f[n - 1] \in Nat
      BY <3>1
    <3> QED
      BY <2>2, <3>2
  <2> QED
    BY <2>1, <2>2
<1>2. \A f \in [Nat -> Nat], n \in Nat : B[<<f, n>>] = Body(f, n)
  OBVIOUS
<1>3. B \in [[Nat -> Nat] \X Nat -> Nat]
  <2>1. ASSUME NEW p \in [Nat -> Nat] \X Nat PROVE Body(p[1], p[2]) \in Nat
    <3>1. p[1] \in [Nat -> Nat] /\ p[2] \in Nat
      OBVIOUS
    <3> QED
      BY <1>1, <3>1
  <2> HIDE DEF Body
  <2> QED
    BY <2>1
<1>4. \A f, g \in [Nat -> Nat], x \in Nat :
        (\A y \in Nat : m[y] < m[x] => f[y] = g[y]) => B[<<f, x>>] = B[<<g, x>>]
  <2>1. SUFFICES ASSUME NEW f \in [Nat -> Nat], NEW g \in [Nat -> Nat], NEW x \in Nat,
                        \A y \in Nat : m[y] < m[x] => f[y] = g[y]
                 PROVE  Body(f, x) = Body(g, x)
    <3> HIDE DEF B, Body, m
    <3> QED
      BY <1>2, SMTT(30)
  <2>2. CASE x = 0
    BY <2>2
  <2>3. CASE x # 0
    <3>1. x - 1 \in Nat /\ m[x - 1] < m[x]
      BY <2>3
    <3> QED
      BY <2>1, <3>1
  <2> QED
    BY <2>2, <2>3
<1>5. m \in [Nat -> Nat] /\ Nat # {}
  OBVIOUS
<1> HIDE DEF B, m
<1>6. PICK f \in [Nat -> Nat] : \A x \in Nat : f[x] = B[<<f, x>>]
  <2>1. Descending(B, Nat, Nat, m)
    BY <1>3, <1>4, <1>5 DEF Descending
  <2> QED
    BY <2>1, Recursion DEF Defines
<1>7. f = [n \in Nat |-> Body(f, n)]
  <2> HIDE DEF Body
  <2> QED
    BY <1>2, <1>6
<1>8. factorial = CHOOSE g : g = [n \in Nat |-> Body(g, n)]
  BY DEF factorial
<1>9. factorial = [n \in Nat |-> Body(factorial, n)]
  <2> HIDE DEF Body
  <2> QED
    BY <1>7, <1>8
<1>10. \A n \in Nat : factorial[n] = IF n = 0 THEN 1 ELSE n * factorial[n - 1]
  BY <1>9
<1>11. \A n \in Nat : n + 1 \in Nat /\ n + 1 # 0 /\ (n + 1) - 1 = n
  OBVIOUS
<1>12. factorial[0] = 1 /\ \A n \in Nat : factorial[n + 1] = (n + 1) * factorial[n]
  BY <1>10, <1>11
<1>13. Nat \subseteq {n \in Nat : factorial[n] \in Nat /\ factorial[n] > 0}
  <2> DEFINE G == {n \in Nat : factorial[n] \in Nat /\ factorial[n] > 0}
  <2>1. 0 \in G
    BY <1>12
  <2>2. ASSUME NEW n \in Nat, n \in G PROVE n + 1 \in G
    <3>1. factorial[n] \in Nat /\ factorial[n] > 0 /\ factorial[n + 1] = (n + 1) * factorial[n]
      BY <1>12, <2>2
    <3>2. \A a, b \in Nat : a > 0 /\ b > 0 => a * b \in Nat /\ a * b > 0
      OBVIOUS
    <3>3. n + 1 \in Nat /\ n + 1 > 0
      OBVIOUS
    <3> QED
      BY <3>1, <3>2, <3>3
  <2> HIDE DEF G
  <2>3. Nat \subseteq G
    BY <2>1, <2>2, NatSetInduction
  <2> QED
    BY <2>3 DEF G
<1> QED
  BY <1>9, <1>12, <1>13

\* q is n over k.
Splits(n, k, q) == q \in Nat /\ factorial[n] = q * (factorial[k] * factorial[n - k])

\* The identity behind Pascal's triangle.
LEMMA Ring ==
  ASSUME NEW p \in Nat, NEW q \in Nat, NEW k \in Nat, NEW e \in Nat, NEW a \in Nat, NEW b \in Nat,
         NEW N \in Nat, N = p * ((k * a) * b), N = q * (a * (e * b))
  PROVE  (k + e) * N = (p + q) * ((k * a) * (e * b))
<1>1. e * N = e * (p * ((k * a) * b)) /\ k * N = k * (q * (a * (e * b)))
  OBVIOUS
<1>2. e * (p * ((k * a) * b)) = p * ((k * a) * (e * b))
  OBVIOUS
<1>3. k * (q * (a * (e * b))) = q * ((k * a) * (e * b))
  OBVIOUS
<1>4. (k + e) * N = e * N + k * N
  OBVIOUS
<1>5. ASSUME NEW r \in Nat PROVE p * r + q * r = (p + q) * r
  OBVIOUS
<1>6. (k * a) * (e * b) \in Nat
  OBVIOUS
<1> DEFINE r == (k * a) * (e * b)
           l == (k + e) * N
<1>7. l = p * r + q * r
  BY <1>1, <1>2, <1>3, <1>4
<1>8. p * r + q * r = (p + q) * r
  BY <1>5, <1>6
<1> HIDE DEF r, l
<1>9. l = (p + q) * r
  BY <1>7, <1>8
<1> QED
  BY <1>9 DEF l, r

\* Pascal's triangle.
LEMMA SplitsPascal ==
  ASSUME NEW n \in Nat, NEW k \in 1 .. n, NEW p, NEW q, Splits(n, k, p), Splits(n, k - 1, q)
  PROVE  Splits(n + 1, k, p + q)
<1> DEFINE a == factorial[k - 1]
           b == factorial[n - k]
           e == n + 1 - k
           N == factorial[n]
<1>1. k \in Nat /\ k - 1 \in Nat /\ n - k \in Nat /\ e \in Nat
  OBVIOUS
<1>2. /\ (k - 1) + 1 = k /\ n - (k - 1) = (n - k) + 1 /\ (n - k) + 1 = e /\ (n + 1) - k = e
      /\ k + e = n + 1
  OBVIOUS
<1>3. a \in Nat /\ b \in Nat /\ N \in Nat
  BY <1>1, FactorialIs
<1>4. factorial[k] = k * a
  BY <1>1, <1>2, FactorialIs
<1>5. factorial[e] = e * b
  BY <1>1, <1>2, FactorialIs
<1>6. factorial[n + 1] = (n + 1) * N
  BY FactorialIs
<1>7. N = p * ((k * a) * b) /\ p \in Nat
  BY <1>4 DEF Splits
<1>8. N = q * (a * (e * b)) /\ q \in Nat
  BY <1>2, <1>5 DEF Splits
<1> HIDE DEF a, b, e, N
<1>9. (k + e) * N = (p + q) * ((k * a) * (e * b))
  BY <1>1, <1>3, <1>7, <1>8, Ring
<1>10. factorial[n + 1] = (p + q) * (factorial[k] * factorial[(n + 1) - k])
  BY <1>2, <1>4, <1>5, <1>6, <1>9
<1> QED
  BY <1>7, <1>8, <1>10 DEF Splits

\* Its sides.
LEMMA SplitsEnds ==
  ASSUME NEW n \in Nat
  PROVE  Splits(n, 0, 1) /\ Splits(n, n, 1)
<1>1. n - 0 = n /\ n - n = 0
  OBVIOUS
<1>2. factorial[n] \in Nat /\ factorial[0] = 1
  BY FactorialIs
<1> QED
  BY <1>1, <1>2 DEF Splits

\* Binomial coefficients are whole numbers.
LEMMA SplitsExist ==
  \A n \in Nat : \A k \in 0 .. n : \E q : Splits(n, k, q)
<1> DEFINE G == {n \in Nat : \A k \in 0 .. n : \E q : Splits(n, k, q)}
<1>1. 0 \in G
  <2>1. \A k \in 0 .. 0 : k = 0
    OBVIOUS
  <2> QED
    BY <2>1, SplitsEnds
<1>2. ASSUME NEW n \in Nat, n \in G PROVE n + 1 \in G
  <2>1. ASSUME NEW k \in 0 .. n + 1 PROVE \E q : Splits(n + 1, k, q)
    <3>1. CASE k = 0 \/ k = n + 1
      BY <3>1, SplitsEnds
    <3>2. CASE k \in 1 .. n
      <4>1. k \in 0 .. n /\ k - 1 \in 0 .. n
        BY <3>2
      <4>2. PICK p : Splits(n, k, p)
        BY <1>2, <4>1
      <4>3. PICK q : Splits(n, k - 1, q)
        BY <1>2, <4>1
      <4> QED
        BY <3>2, <4>2, <4>3, SplitsPascal
    <3>3. k = 0 \/ k = n + 1 \/ k \in 1 .. n
      OBVIOUS
    <3> QED
      BY <3>1, <3>2, <3>3
  <2> QED
    BY <2>1
<1> HIDE DEF G
<1>3. Nat \subseteq G
  BY <1>1, <1>2, NatSetInduction
<1> QED
  BY <1>3 DEF G

\* choose() is the one number that splits the factorial.
LEMMA ChooseIs ==
  ASSUME NEW n \in Nat, NEW k \in 0 .. n, NEW q, Splits(n, k, q)
  PROVE  choose(n, k) = q
<1> DEFINE d == factorial[k] * factorial[n - k]
           N == factorial[n]
<1>1. k \in Nat /\ n - k \in Nat
  OBVIOUS
<1>2. /\ factorial[k] \in Nat /\ factorial[n - k] \in Nat /\ N \in Nat
      /\ factorial[k] > 0 /\ factorial[n - k] > 0
  BY <1>1, FactorialIs
<1>3. \A x, y \in Nat : x > 0 /\ y > 0 => x * y \in Nat /\ x * y > 0
  OBVIOUS
<1>4. d \in Nat /\ d > 0
  BY <1>2, <1>3
<1>5. N = q * d /\ q \in Nat
  BY DEF Splits
<1>6. choose(n, k) = N \div d
  BY DEF choose
<1> HIDE DEF d, N
<1>7. N \div d = q
  BY <1>2, <1>4, <1>5, SMTT(30)
<1> QED
  BY <1>6, <1>7

\* One more than the nodes that have no clique of c + 1 nodes and no
\* independent set of s + 1 nodes can be.
RamseyNumber(c, s) == choose(c + s, s)

\* The bounds of Ramsey's theorem add up like the calls of ramsey().
LEMMA RamseyNumbers ==
  /\ \A c, s \in Nat : RamseyNumber(c, s) \in Nat
  /\ \A c \in Nat : RamseyNumber(c, 0) = 1 /\ RamseyNumber(0, c) = 1
  /\ \A c, s \in Nat : RamseyNumber(c + 1, s + 1) = RamseyNumber(c, s + 1) + RamseyNumber(c + 1, s)
<1>1. ASSUME NEW c \in Nat, NEW s \in Nat PROVE RamseyNumber(c, s) \in Nat
  <2>1. c + s \in Nat /\ s \in 0 .. c + s
    OBVIOUS
  <2>2. PICK q : Splits(c + s, s, q)
    BY <2>1, SplitsExist
  <2> QED
    BY <2>1, <2>2, ChooseIs DEF RamseyNumber, Splits
<1>2. ASSUME NEW c \in Nat PROVE RamseyNumber(c, 0) = 1 /\ RamseyNumber(0, c) = 1
  <2>1. c + 0 = c /\ 0 + c = c /\ 0 \in 0 .. c /\ c \in 0 .. c
    OBVIOUS
  <2> QED
    BY <2>1, SplitsEnds, ChooseIs DEF RamseyNumber
<1>3. ASSUME NEW c \in Nat, NEW s \in Nat
      PROVE  RamseyNumber(c + 1, s + 1) = RamseyNumber(c, s + 1) + RamseyNumber(c + 1, s)
  <2> DEFINE n == c + s + 1
             k == s + 1
  <2>1. /\ n \in Nat /\ n + 1 \in Nat /\ k \in 1 .. n /\ k \in 0 .. n /\ k - 1 \in 0 .. n
        /\ k \in 0 .. n + 1
        /\ (c + 1) + (s + 1) = n + 1 /\ c + (s + 1) = n /\ (c + 1) + s = n /\ k - 1 = s
    OBVIOUS
  <2>2. /\ RamseyNumber(c + 1, s + 1) = choose(n + 1, k)
        /\ RamseyNumber(c, s + 1) = choose(n, k)
        /\ RamseyNumber(c + 1, s) = choose(n, k - 1)
    BY <2>1 DEF RamseyNumber
  <2> HIDE DEF n, k
  <2>3. PICK p : Splits(n, k, p)
    BY <2>1, SplitsExist
  <2>4. PICK q : Splits(n, k - 1, q)
    BY <2>1, SplitsExist
  <2>5. Splits(n + 1, k, p + q)
    BY <2>1, <2>3, <2>4, SplitsPascal
  <2>6. choose(n, k) = p
    BY <2>1, <2>3, ChooseIs
  <2>7. choose(n, k - 1) = q
    BY <2>1, <2>4, ChooseIs
  <2>8. choose(n + 1, k) = p + q
    BY <2>1, <2>5, ChooseIs
  <2> QED
    BY <2>2, <2>6, <2>7, <2>8
<1> QED
  BY <1>1, <1>2, <1>3

\* They grow in either argument, by one step
LEMMA RamseyNumberGrows ==
  /\ \A c, s \in Nat : RamseyNumber(c, s) <= RamseyNumber(c + 1, s)
  /\ \A c, s \in Nat : RamseyNumber(c, s) <= RamseyNumber(c, s + 1)
<1>1. ASSUME NEW c \in Nat, NEW s \in Nat PROVE RamseyNumber(c, s) <= RamseyNumber(c + 1, s)
  <2>1. CASE s = 0
    BY <2>1, RamseyNumbers
  <2>2. CASE s # 0
    <3>1. s - 1 \in Nat /\ (s - 1) + 1 = s /\ c + 1 \in Nat
      BY <2>2
    <3>2. RamseyNumber(c + 1, s) = RamseyNumber(c, s) + RamseyNumber(c + 1, s - 1)
      BY <3>1, RamseyNumbers
    <3>3. RamseyNumber(c, s) \in Nat /\ RamseyNumber(c + 1, s - 1) \in Nat
      BY <3>1, RamseyNumbers
    <3> QED
      BY <3>2, <3>3
  <2> QED
    BY <2>1, <2>2
<1>2. ASSUME NEW c \in Nat, NEW s \in Nat PROVE RamseyNumber(c, s) <= RamseyNumber(c, s + 1)
  <2>1. CASE c = 0
    <3>1. s + 1 \in Nat
      OBVIOUS
    <3>2. RamseyNumber(0, s) = 1 /\ RamseyNumber(0, s + 1) = 1
      BY <3>1, RamseyNumbers
    <3> QED
      BY <2>1, <3>2
  <2>2. CASE c # 0
    <3>1. c - 1 \in Nat /\ (c - 1) + 1 = c /\ s + 1 \in Nat
      BY <2>2
    <3>2. RamseyNumber(c, s + 1) = RamseyNumber(c - 1, s + 1) + RamseyNumber(c, s)
      BY <3>1, RamseyNumbers
    <3>3. RamseyNumber(c, s) \in Nat /\ RamseyNumber(c - 1, s + 1) \in Nat
      BY <3>1, RamseyNumbers
    <3> QED
      BY <3>2, <3>3
  <2> QED
    BY <2>1, <2>2
<1> QED
  BY <1>1, <1>2

\* and by any number of steps.
LEMMA RamseyNumberLarger ==
  ASSUME NEW c \in Nat, NEW s \in Nat
  PROVE  /\ \A d \in Nat : d >= c => RamseyNumber(c, s) <= RamseyNumber(d, s)
         /\ \A d \in Nat : d >= s => RamseyNumber(c, s) <= RamseyNumber(c, d)
<1> DEFINE G == {i \in Nat : RamseyNumber(c, s) <= RamseyNumber(c + i, s)}
           H == {i \in Nat : RamseyNumber(c, s) <= RamseyNumber(c, s + i)}
<1>1. 0 \in G /\ 0 \in H
  <2>1. c + 0 = c /\ s + 0 = s /\ RamseyNumber(c, s) \in Nat
    BY RamseyNumbers
  <2> QED
    BY <2>1
<1>2. ASSUME NEW i \in Nat, i \in G PROVE i + 1 \in G
  <2>1. c + i \in Nat /\ c + (i + 1) = (c + i) + 1 /\ (c + i) + 1 \in Nat
    OBVIOUS
  <2>2. /\ RamseyNumber(c, s) \in Nat /\ RamseyNumber(c + i, s) \in Nat
        /\ RamseyNumber(c + (i + 1), s) \in Nat
    BY <2>1, RamseyNumbers
  <2>3. RamseyNumber(c + i, s) <= RamseyNumber(c + (i + 1), s)
    BY <2>1, RamseyNumberGrows
  <2> QED
    BY <1>2, <2>2, <2>3
<1>3. ASSUME NEW i \in Nat, i \in H PROVE i + 1 \in H
  <2>1. s + i \in Nat /\ s + (i + 1) = (s + i) + 1 /\ (s + i) + 1 \in Nat
    OBVIOUS
  <2>2. /\ RamseyNumber(c, s) \in Nat /\ RamseyNumber(c, s + i) \in Nat
        /\ RamseyNumber(c, s + (i + 1)) \in Nat
    BY <2>1, RamseyNumbers
  <2>3. RamseyNumber(c, s + i) <= RamseyNumber(c, s + (i + 1))
    BY <2>1, RamseyNumberGrows
  <2> QED
    BY <1>3, <2>2, <2>3
<1> HIDE DEF G, H
<1>4. Nat \subseteq G /\ Nat \subseteq H
  BY <1>1, <1>2, <1>3, NatSetInduction
<1>5. ASSUME NEW d \in Nat, d >= c PROVE RamseyNumber(c, s) <= RamseyNumber(d, s)
  <2>1. d - c \in Nat /\ c + (d - c) = d
    BY <1>5
  <2>2. d - c \in G
    BY <1>4, <2>1
  <2> QED
    BY <2>1, <2>2 DEF G
<1>6. ASSUME NEW d \in Nat, d >= s PROVE RamseyNumber(c, s) <= RamseyNumber(c, d)
  <2>1. d - s \in Nat /\ s + (d - s) = d
    BY <1>6
  <2>2. d - s \in H
    BY <1>4, <2>1
  <2> QED
    BY <2>1, <2>2 DEF H
<1> QED
  BY <1>5, <1>6

\* A node, its neighbours, and the others.
LEMMA PartsCount ==
  ASSUME NEW nodes \in SUBSET Nodes, NEW v \in nodes
  PROVE  Cardinality(nodes) = Cardinality(Near(nodes, v)) + Cardinality(Far(nodes, v)) + 1
<1>1. /\ Near(nodes, v) \in SUBSET Nodes /\ Far(nodes, v) \in SUBSET Nodes
      /\ v \notin Near(nodes, v) /\ v \notin Far(nodes, v)
  BY SmallerParts
<1> DEFINE near == Near(nodes, v)
           far == Far(nodes, v)
<1>2. near \cap far = {} /\ nodes \ {v} = near \cup far
  BY DEF Near, Far, Neighbours
<1> HIDE DEF near, far
<1>3. /\ IsFiniteSet(near) /\ IsFiniteSet(far) /\ IsFiniteSet(nodes)
      /\ Cardinality(near) \in Nat /\ Cardinality(far) \in Nat /\ Cardinality(nodes) \in Nat
  BY <1>1, Sizes DEF near, far
<1>4. Cardinality(near \cup far) = Cardinality(near) + Cardinality(far) - Cardinality({})
  BY <1>2, <1>3, FS_Union
<1>5. Cardinality({}) = 0
  BY FS_EmptySet
<1>6. Cardinality(near \cup far) = Cardinality(nodes) - 1
  <2>1. Cardinality(nodes \ {v}) = Cardinality(nodes) - 1
    BY <1>3, FS_RemoveElement
  <2>2. nodes \ {v} = near \cup far
    BY <1>2
  <2>3. Cardinality(nodes \ {v}) = Cardinality(near \cup far)
    BY <2>2, Zenon
  <2> QED
    BY <2>1, <2>3
<1>7. Cardinality(nodes) - 1 = Cardinality(near) + Cardinality(far)
  BY <1>4, <1>5, <1>6, <1>3
<1>8. Cardinality(nodes) = Cardinality(near) + Cardinality(far) + 1
  BY <1>3, <1>7
<1> QED
  BY <1>8 DEF near, far

\* The two sets are as large together as Ramsey's theorem promises.
LargePair(nodes, r) ==
  Cardinality(nodes) < RamseyNumber(Cardinality(r.clique), Cardinality(r.set))

\* The bigger of two sets.
LEMMA BiggerSize ==
  ASSUME NEW a \in SUBSET Nodes, NEW b \in SUBSET Nodes
  PROVE  /\ Cardinality(Bigger(a, b)) \in Nat
         /\ Cardinality(Bigger(a, b)) >= Cardinality(a)
         /\ Cardinality(Bigger(a, b)) >= Cardinality(b)
<1>1. Cardinality(a) \in Nat /\ Cardinality(b) \in Nat
  BY Sizes
<1> QED
  BY <1>1 DEF Bigger

\* A set of one node more.
LEMMA OneMore ==
  ASSUME NEW a \in SUBSET Nodes, NEW v \in Nodes, v \notin a
  PROVE  Cardinality(a \cup {v}) = Cardinality(a) + 1
BY Sizes, FS_AddElement

\* What a node's parts promise, the node with them promises.
LEMMA PairLarge ==
  ASSUME NEW nodes \in SUBSET Nodes, NEW v \in nodes, NEW near \in Pairs, NEW far \in Pairs,
         GoodPair(Near(nodes, v), near), GoodPair(Far(nodes, v), far),
         LargePair(Near(nodes, v), near), LargePair(Far(nodes, v), far)
  PROVE  LargePair(nodes, RamseyPair(v, near, far))
<1> DEFINE c1 == Cardinality(near.clique)
           s1 == Cardinality(near.set)
           c2 == Cardinality(far.clique)
           s2 == Cardinality(far.set)
           c == Cardinality(Bigger(near.clique \cup {v}, far.clique))
           s == Cardinality(Bigger(near.set, far.set \cup {v}))
<1>1. /\ near.clique \in SUBSET Nodes /\ near.set \in SUBSET Nodes
      /\ far.clique \in SUBSET Nodes /\ far.set \in SUBSET Nodes /\ v \in Nodes
      /\ near.clique \cup {v} \in SUBSET Nodes /\ far.set \cup {v} \in SUBSET Nodes
  BY DEF Pairs
<1>2. v \notin near.clique /\ v \notin far.set
  BY SmallerParts DEF GoodPair
<1>3. c1 \in Nat /\ s1 \in Nat /\ c2 \in Nat /\ s2 \in Nat
  BY <1>1, Sizes
<1>4. Cardinality(near.clique \cup {v}) = c1 + 1 /\ Cardinality(far.set \cup {v}) = s2 + 1
  BY <1>1, <1>2, OneMore
<1>5. c \in Nat /\ s \in Nat /\ c >= c1 + 1 /\ c >= c2 /\ s >= s1 /\ s >= s2 + 1
  BY <1>1, <1>4, BiggerSize
<1>6. /\ Cardinality(Near(nodes, v)) < RamseyNumber(c1, s1)
      /\ Cardinality(Far(nodes, v)) < RamseyNumber(c2, s2)
  BY DEF LargePair
<1>7. /\ Cardinality(nodes) = Cardinality(Near(nodes, v)) + Cardinality(Far(nodes, v)) + 1
      /\ Cardinality(nodes) \in Nat /\ Cardinality(Near(nodes, v)) \in Nat
      /\ Cardinality(Far(nodes, v)) \in Nat
  BY PartsCount, SmallerParts, Sizes
<1>8. RamseyPair(v, near, far).clique = Bigger(near.clique \cup {v}, far.clique)
      /\ RamseyPair(v, near, far).set = Bigger(near.set, far.set \cup {v})
  BY DEF RamseyPair
<1>9. LargePair(nodes, RamseyPair(v, near, far)) <=> Cardinality(nodes) < RamseyNumber(c, s)
  BY <1>8 DEF LargePair
<1> HIDE DEF c1, s1, c2, s2, c, s
<1>10. /\ c - 1 \in Nat /\ s - 1 \in Nat /\ c - 1 >= c1 /\ s - 1 >= s2
       /\ (c - 1) + 1 = c /\ (s - 1) + 1 = s
  BY <1>3, <1>5
<1>11. RamseyNumber(c, s) = RamseyNumber(c - 1, s) + RamseyNumber(c, s - 1)
  BY <1>10, RamseyNumbers
<1>12. /\ RamseyNumber(c1, s1) <= RamseyNumber(c - 1, s1)
       /\ RamseyNumber(c - 1, s1) <= RamseyNumber(c - 1, s)
  BY <1>3, <1>5, <1>10, RamseyNumberLarger
<1>13. RamseyNumber(c2, s2) <= RamseyNumber(c, s2) /\ RamseyNumber(c, s2) <= RamseyNumber(c, s - 1)
  BY <1>3, <1>5, <1>10, RamseyNumberLarger
<1>14. /\ RamseyNumber(c1, s1) \in Nat /\ RamseyNumber(c - 1, s1) \in Nat
       /\ RamseyNumber(c - 1, s) \in Nat /\ RamseyNumber(c2, s2) \in Nat
       /\ RamseyNumber(c, s2) \in Nat /\ RamseyNumber(c, s - 1) \in Nat
       /\ RamseyNumber(c, s) \in Nat
  BY <1>3, <1>5, <1>10, RamseyNumbers
<1>15. Cardinality(nodes) < RamseyNumber(c, s)
  BY <1>6, <1>7, <1>11, <1>12, <1>13, <1>14
<1> QED
  BY <1>9, <1>15

\* Ramsey's theorem, for what ramsey() returns, whichever nodes it picks.
LEMMA RamseyLargePairs ==
  \A nodes \in SUBSET Nodes : \A r \in Ramsey[nodes] : LargePair(nodes, r)
<1> DEFINE G == {nodes \in SUBSET Nodes : \A r \in Ramsey[nodes] : LargePair(nodes, r)}
<1>1. ASSUME NEW nodes \in SUBSET Nodes,
             \A part \in SUBSET Nodes : Size[part] < Size[nodes] => part \in G
      PROVE  nodes \in G
  <2>1. ASSUME NEW v \in nodes, NEW near \in Ramsey[Near(nodes, v)],
               NEW far \in Ramsey[Far(nodes, v)]
        PROVE  LargePair(nodes, RamseyPair(v, near, far))
    <3>1. Near(nodes, v) \in G /\ Far(nodes, v) \in G
      BY <1>1, SmallerParts
    <3>2. LargePair(Near(nodes, v), near) /\ LargePair(Far(nodes, v), far)
      BY <3>1
    <3>3. /\ near \in Pairs /\ GoodPair(Near(nodes, v), near)
          /\ far \in Pairs /\ GoodPair(Far(nodes, v), far)
      BY RamseyGood, SmallerParts
    <3> QED
      BY <3>2, <3>3, PairLarge
  <2>2. ASSUME NEW r \in RamseyBody(Ramsey, nodes)
        PROVE  LargePair(nodes, r)
    <3>1. CASE nodes = {} /\ r = [clique |-> {}, set |-> {}]
      <4>1. Cardinality(nodes) = 0 /\ Cardinality(r.clique) = 0 /\ Cardinality(r.set) = 0
        BY <3>1, FS_EmptySet
      <4>2. RamseyNumber(0, 0) = 1
        BY RamseyNumbers
      <4> QED
        BY <4>1, <4>2 DEF LargePair
    <3>2. CASE \E v \in nodes : \E near \in Ramsey[Near(nodes, v)], far \in Ramsey[Far(nodes, v)] :
                 r = RamseyPair(v, near, far)
      BY <2>1, <3>2
    <3> QED
      BY <3>1, <3>2, RamseyFrom
  <2>3. Ramsey[nodes] = RamseyBody(Ramsey, nodes)
    BY RamseyIs
  <2> QED
    BY <2>2, <2>3
<1> HIDE DEF G
<1>2. SUBSET Nodes \subseteq G
  BY <1>1, Sizes, MeasureInduction
<1> QED
  BY <1>2 DEF G

\* In every round of clique_removal(), the clique and the independent set of
\* ramsey() are together as large as Ramsey's theorem promises (RamseySolver.cpp).
THEOREM SolversRamseyLarge ==
  Spec => []RamseyLarge
<1>1. RamseyInv => RamseyLarge
  <2> SUFFICES ASSUME RamseyInv, solver = "ramsey" PROVE RamseyBound
    BY DEF RamseyLarge
  <2>1. left \in SUBSET Nodes
    BY DEF RamseyInv
  <2>2. ASSUME NEW r \in Ramsey[left]
        PROVE  /\ IsClique(r.clique) /\ IsIndependent(r.set)
               /\ Cardinality(left) <
                    choose(Cardinality(r.clique) + Cardinality(r.set), Cardinality(r.set))
    BY <2>1, RamseyGood, RamseyLargePairs DEF GoodPair, LargePair, RamseyNumber
  <2> QED
    BY <2>2 DEF RamseyBound
<1> QED
  BY <1>1, SolversRamseyInvariant, PTL

-----------------------------------------------------------------------------
(* BMASolver: paths. *)

\* The nodes on a path, by the predecessors p.
IsPath(p, r, v, f) ==
  /\ f \in [0 .. r -> Nodes] /\ f[r] = v
  /\ \A i \in 0 .. r : i < r => f[i] = p[i + 1][f[i + 1]]

PathOf(p, v, r) ==
  LET back[i \in 0 .. r] == IF i = r THEN v ELSE p[i + 1][back[i + 1]]
  IN  {back[i] : i \in 0 .. r}

Image(f, r) == {f[i] : i \in 0 .. r}

\* A path is determined by its end.
LEMMA PathOfIs ==
  ASSUME NEW p, NEW r \in Nat, NEW v \in Nodes, NEW f, IsPath(p, r, v, f)
  PROVE  PathOf(p, v, r) = Image(f, r)
<1> DEFINE back == CHOOSE g : g = [i \in 0 .. r |-> IF i = r THEN v ELSE p[i + 1][g[i + 1]]]
           G == {i \in 0 .. r : back[i] = f[i]}
           m == [i \in 0 .. r |-> r - i]
<1>1. /\ f \in [0 .. r -> Nodes] /\ f[r] = v
      /\ \A i \in 0 .. r : i < r => f[i] = p[i + 1][f[i + 1]]
  BY DEF IsPath
<1>2. f = [i \in 0 .. r |-> IF i = r THEN v ELSE p[i + 1][f[i + 1]]]
  <2>1. \A i \in 0 .. r : f[i] = IF i = r THEN v ELSE p[i + 1][f[i + 1]]
    BY <1>1
  <2> QED
    BY <1>1, <2>1
<1>3. back = [i \in 0 .. r |-> IF i = r THEN v ELSE p[i + 1][back[i + 1]]]
  BY <1>2
<1>4. PathOf(p, v, r) = {back[i] : i \in 0 .. r}
  BY DEF PathOf
<1> HIDE DEF back
<1>5. m \in [0 .. r -> Nat]
  OBVIOUS
<1>6. ASSUME NEW i \in 0 .. r, \A j \in 0 .. r : m[j] < m[i] => j \in G
      PROVE  i \in G
  <2>1. CASE i = r
    BY <1>1, <1>3, <2>1
  <2>2. CASE i # r
    <3>1. i + 1 \in 0 .. r /\ m[i + 1] < m[i] /\ i < r
      BY <2>2
    <3>2. back[i + 1] = f[i + 1]
      BY <1>6, <3>1
    <3>3. back[i] = p[i + 1][back[i + 1]]
      BY <1>3, <2>2
    <3> QED
      BY <1>1, <3>1, <3>2, <3>3
  <2> QED
    BY <2>1, <2>2
<1> HIDE DEF G, m
<1>7. 0 .. r \subseteq G
  <2> DEFINE D == 0 .. r
  <2>1. m \in [D -> Nat] /\ \A i \in D : (\A j \in D : m[j] < m[i] => j \in G) => i \in G
    BY <1>5, <1>6
  <2> HIDE DEF D
  <2>2. D \subseteq G
    BY <2>1, MeasureInduction
  <2> QED
    BY <2>2 DEF D
<1>8. \A i \in 0 .. r : back[i] = f[i]
  BY <1>7 DEF G
<1> QED
  BY <1>4, <1>8 DEF Image

\* A path with one more node.
LEMMA PathExtends ==
  ASSUME NEW p, NEW r \in Nat, NEW u \in Nodes, NEW v \in Nodes, NEW f, IsPath(p, r, u, f),
         NEW q, \A i \in 1 .. r : q[i] = p[i], q[r + 1][v] = u
  PROVE  \E g : IsPath(q, r + 1, v, g) /\ Image(g, r + 1) = Image(f, r) \cup {v}
<1> DEFINE g == [i \in 0 .. r + 1 |-> IF i = r + 1 THEN v ELSE f[i]]
<1>1. /\ f \in [0 .. r -> Nodes] /\ f[r] = u
      /\ \A i \in 0 .. r : i < r => f[i] = p[i + 1][f[i + 1]]
  BY DEF IsPath
<1>2. \A i \in 0 .. r + 1 : i = r + 1 \/ i \in 0 .. r
  OBVIOUS
<1>3. g \in [0 .. r + 1 -> Nodes] /\ g[r + 1] = v /\ \A i \in 0 .. r : g[i] = f[i] /\ i # r + 1
  BY <1>1, <1>2
<1>4. ASSUME NEW i \in 0 .. r + 1, i < r + 1 PROVE g[i] = q[i + 1][g[i + 1]]
  <2>1. i \in 0 .. r /\ g[i] = f[i]
    BY <1>3, <1>4
  <2>2. CASE i = r
    BY <1>1, <1>3, <2>1, <2>2
  <2>3. CASE i # r
    <3>1. i < r /\ i + 1 \in 0 .. r /\ i + 1 \in 1 .. r
      BY <2>1, <2>3
    <3> HIDE DEF g
    <3> QED
      BY <1>1, <1>3, <2>1, <3>1
  <2> QED
    BY <2>2, <2>3
<1>5. /\ \A i \in 0 .. r + 1 : g[i] \in Image(f, r) \cup {v}
      /\ v \in Image(g, r + 1) /\ \A i \in 0 .. r : f[i] \in Image(g, r + 1)
  <2>1. \A i \in 0 .. r : i \in 0 .. r + 1 /\ r + 1 \in 0 .. r + 1
    OBVIOUS
  <2>2. r + 1 \in 0 .. r + 1
    OBVIOUS
  <2> HIDE DEF g
  <2> QED
    BY <1>2, <1>3, <2>1, <2>2 DEF Image
<1> HIDE DEF g
<1>6. Image(g, r + 1) = Image(f, r) \cup {v}
  BY <1>5 DEF Image
<1> QED
  BY <1>3, <1>4, <1>6 DEF IsPath

\* What a path excludes.
Covers(set) == UNION {{w} \cup Ends(w) : w \in set}

\* The path that ends in node v in round r, by the predecessors p, is an
\* independent set of r + 1 nodes, and x is what it excludes.
GoodPath(p, r, v, x) ==
  /\ \E f : IsPath(p, r, v, f)
  /\ PathOf(p, v, r) \subseteq Nodes
  /\ Cardinality(PathOf(p, v, r)) = r + 1
  /\ IsIndependent(PathOf(p, v, r))
  /\ x = Covers(PathOf(p, v, r))

\* The path of a single node.
LEMMA GoodPathOne ==
  ASSUME NEW p, NEW v \in Nodes
  PROVE  GoodPath(p, 0, v, {v} \cup Ends(v))
<1> DEFINE f == [i \in 0 .. 0 |-> v]
<1>1. IsPath(p, 0, v, f)
  <2>1. f \in [0 .. 0 -> Nodes] /\ f[0] = v
    OBVIOUS
  <2>2. \A i \in 0 .. 0 : ~(i < 0)
    OBVIOUS
  <2> HIDE DEF f
  <2> QED
    BY <2>1, <2>2 DEF IsPath
<1>2. Image(f, 0) = {v}
  BY DEF Image
<1>3. PathOf(p, v, 0) = {v}
  BY <1>1, <1>2, PathOfIs
<1>4. Cardinality({v}) = 1
  BY FS_Singleton
<1>5. Covers({v}) = {v} \cup Ends(v)
  BY DEF Covers
<1> QED
  BY <1>1, <1>3, <1>4, <1>5 DEF GoodPath, IsIndependent

\* An independent path with a node that it does not exclude.
LEMMA GoodPathExtends ==
  ASSUME NEW p, NEW r \in Nat, NEW u \in Nodes, NEW x, GoodPath(p, r, u, x),
         NEW v \in Nodes \ x, NEW q, \A i \in 1 .. r : q[i] = p[i], q[r + 1][v] = u
  PROVE  GoodPath(q, r + 1, v, x \cup {v} \cup Ends(v))
<1>1. PICK f : IsPath(p, r, u, f)
  BY DEF GoodPath
<1>2. PICK g : IsPath(q, r + 1, v, g) /\ Image(g, r + 1) = Image(f, r) \cup {v}
  BY <1>1, PathExtends
<1> DEFINE P == PathOf(p, u, r)
           Q == PathOf(q, v, r + 1)
<1>3. Q = P \cup {v}
  <2>1. P = Image(f, r)
    BY <1>1, PathOfIs
  <2>2. r + 1 \in Nat
    OBVIOUS
  <2>3. Q = Image(g, r + 1)
    BY <1>2, <2>2, PathOfIs
  <2> QED
    BY <1>2, <2>1, <2>3
<1>4. /\ P \subseteq Nodes /\ Cardinality(P) = r + 1 /\ IsIndependent(P) /\ x = Covers(P)
  BY DEF GoodPath
<1> HIDE DEF P
<1>5. v \notin P /\ \A w \in P : v \notin Ends(w)
  BY <1>4 DEF Covers
<1>6. Cardinality(P \cup {v}) = (r + 1) + 1
  BY <1>4, <1>5, OneMore
<1>7. IsIndependent(P \cup {v})
  <2>1. \A w \in P : <<v, w>> \notin edges /\ <<w, v>> \notin edges
    BY <1>5 DEF Ends
  <2> QED
    BY <1>4, <2>1 DEF IsIndependent
<1>8. Covers(P \cup {v}) = x \cup {v} \cup Ends(v)
  <2>1. Covers(P \cup {v}) = Covers(P) \cup ({v} \cup Ends(v))
    BY DEF Covers
  <2> QED
    BY <1>4, <2>1
<1> HIDE DEF Q
<1>9. /\ Q \subseteq Nodes /\ Cardinality(Q) = (r + 1) + 1 /\ IsIndependent(Q)
      /\ x \cup {v} \cup Ends(v) = Covers(Q)
  BY <1>3, <1>4, <1>6, <1>7, <1>8
<1> QED
  BY <1>2, <1>9 DEF GoodPath, Q

\* Only the predecessors on it matter.
LEMMA GoodPathStays ==
  ASSUME NEW p, NEW r \in Nat, NEW v \in Nodes, NEW x, GoodPath(p, r, v, x),
         NEW q, \A i \in 1 .. r : i # r => q[i] = p[i], r # 0 => q[r][v] = p[r][v]
  PROVE  GoodPath(q, r, v, x)
<1>1. PICK f : IsPath(p, r, v, f)
  BY DEF GoodPath
<1>2. IsPath(q, r, v, f)
  <2>1. ASSUME NEW i \in 0 .. r, i < r PROVE f[i] = q[i + 1][f[i + 1]]
    <3>1. f[i] = p[i + 1][f[i + 1]] /\ i + 1 \in 1 .. r /\ r # 0
      BY <1>1, <2>1 DEF IsPath
    <3>2. CASE i + 1 = r
      BY <1>1, <3>1, <3>2 DEF IsPath
    <3>3. CASE i + 1 # r
      BY <3>1, <3>3
    <3> QED
      BY <3>2, <3>3
  <2> QED
    BY <1>1, <2>1 DEF IsPath
<1>3. PathOf(p, v, r) = PathOf(q, v, r)
  BY <1>1, <1>2, PathOfIs
<1> QED
  BY <1>2, <1>3 DEF GoodPath

-----------------------------------------------------------------------------
(* BMASolver: the tables. *)

CostBound(r) == (r + 1) * (2 * Cardinality(Nodes) + 1)

Undirected == \A u, v \in Nodes : <<u, v>> \in edges => <<v, u>> \in edges

BmaTypes ==
  /\ round \in Nat /\ round < Cardinality(Nodes)
  /\ rest \subseteq Nodes
  /\ previous \in [Rounds -> [Nodes -> Nodes]]
  /\ exclude \in [Rounds -> [Nodes -> SUBSET Nodes]]
  /\ cost \in [Rounds -> [Nodes -> Nat \cup {Infinity}]]

\* What an entry of finite cost says.
GoodEntry(r, v) ==
  cost[r][v] # Infinity =>
    cost[r][v] \in 0 .. CostBound(r) /\ GoodPath(previous, r, v, exclude[r][v])

\* The nodes that the round has gone through have extended their paths.
Relaxed ==
  \A u \in Nodes \ rest : cost[round][u] # Infinity =>
    \A v \in Nodes \ exclude[round][u] : cost[round + 1][v] # Infinity

BmaRows ==
  /\ \A r \in 0 .. round + 1 : \A v \in Nodes : GoodEntry(r, v)
  /\ \A r \in Rounds : r > round + 1 => \A v \in Nodes : cost[r][v] = Infinity

BmaInv ==
  solver = "bma" =>
    /\ Undirected /\ BmaTypes /\ BmaRows /\ Relaxed
    /\ round = 0 \/ \E v \in Nodes : cost[round][v] # Infinity
    /\ ~solving => IsIndependent(returned) /\ IsMaximal(returned)

\* The graph is finite.
LEMMA NodesCount ==
  /\ IsFiniteSet(Nodes) /\ Cardinality(Nodes) \in Nat /\ Cardinality(Nodes) > 0
  /\ \A set \in SUBSET Nodes : Cardinality(set) \in 0 .. Cardinality(Nodes)
<1>1. IsFiniteSet(Nodes) /\ Cardinality(Nodes) \in Nat /\ Nodes # {}
  BY Sizes, NodesAssumption DEF NodesAssumption
<1>2. ASSUME NEW set \in SUBSET Nodes PROVE Cardinality(set) \in 0 .. Cardinality(Nodes)
  <2>1. Cardinality(set) <= Cardinality(Nodes) /\ Cardinality(set) \in Nat
    BY <1>1, FS_Subset, Sizes
  <2> QED
    BY <1>1, <2>1
<1>3. Cardinality(Nodes) # 0
  BY <1>1, FS_EmptySet
<1> QED
  BY <1>1, <1>2, <1>3

\* The costs stay below infinity: they grow by so much at most in a round.
LEMMA CostBounds ==
  /\ \A r \in Nat : /\ CostBound(r) \in Nat
                    /\ CostBound(r + 1) = CostBound(r) + 1 + 2 * Cardinality(Nodes)
  /\ \A r \in Rounds : Infinity \notin 0 .. CostBound(r)
  /\ Cardinality(Nodes) <= CostBound(0)
<1> DEFINE n == Cardinality(Nodes)
<1>1. n \in Nat
  BY NodesCount
<1>2. HighestCost = (n + 1) * (2 * n + 1) /\ \A r : CostBound(r) = (r + 1) * (2 * n + 1)
  BY DEF HighestCost, CostBound
<1>3. Rounds = 0 .. n
  BY DEF Rounds
<1> HIDE DEF n
<1>4. ASSUME NEW r \in Nat
      PROVE  (r + 1) * (2 * n + 1) \in Nat
             /\ ((r + 1) + 1) * (2 * n + 1) = (r + 1) * (2 * n + 1) + 1 + 2 * n
  BY <1>1
<1>5. ASSUME NEW r \in 0 .. n
      PROVE  Infinity \notin 0 .. CostBound(r)
  <2>1. r \in Nat /\ n - r \in Nat /\ 2 * n + 1 \in Nat
    BY <1>1
  <2>2. \A a, b \in Nat : a * b \in Nat
    OBVIOUS
  <2>3. (n + 1) * (2 * n + 1) = (r + 1) * (2 * n + 1) + (n - r) * (2 * n + 1)
    BY <1>1, <2>1
  <2>4. (r + 1) * (2 * n + 1) \in Nat /\ (n - r) * (2 * n + 1) \in Nat
    BY <2>1, <2>2
  <2>5. CostBound(r) \in Nat /\ HighestCost \in Nat /\ CostBound(r) <= HighestCost
    BY <1>2, <2>3, <2>4
  <2> QED
    BY <2>5, InfinityAssumption DEF InfinityAssumption
<1>6. n <= CostBound(0)
  BY <1>1, <1>2
<1> QED
  BY <1>2, <1>3, <1>4, <1>5, <1>6 DEF n

\* The tables before the first round.
LEMMA BmaStarts ==
  Init => BmaInv
<1> SUFFICES ASSUME Init, solver = "bma" PROVE BmaInv
  BY DEF BmaInv
<1>1. InitMis /\ BmaStart
  BY DEF Init, InitSearch, Strategies
<1>2. PICK simple \in SimpleGraphs : edges = Complement(simple) /\ solving
  BY <1>1 DEF InitMis, SolveStart
<1>3. Undirected
  BY <1>2 DEF Undirected, Complement
<1>4. \A u \in Nodes : Ends(u) = Targets(u)
  BY <1>3 DEF Undirected, Ends, Targets
<1>5. /\ round = 0 /\ rest = Nodes
      /\ exclude = [r \in Rounds |-> [u \in Nodes |->
                      IF r = 0 THEN {u} \cup Targets(u) ELSE {}]]
      /\ cost = [r \in Rounds |-> [u \in Nodes |->
                   IF r = 0 THEN Cardinality({u} \cup Targets(u)) ELSE Infinity]]
      /\ previous = [r \in Rounds |-> [u \in Nodes |-> u]]
  BY <1>1 DEF BmaStart
<1>6. 0 \in Rounds /\ 1 \in Rounds /\ \A r \in 0 .. 1 : r = 0 \/ r = 1
  BY NodesCount DEF Rounds
<1>7. \A u \in Nodes : {u} \cup Targets(u) \in SUBSET Nodes
  BY DEF Targets
<1>8. \A u \in Nodes : Cardinality({u} \cup Targets(u)) \in Nat
                       /\ Cardinality({u} \cup Targets(u)) \in 0 .. CostBound(0)
  <2>1. \A u \in Nodes : Cardinality({u} \cup Targets(u)) \in 0 .. Cardinality(Nodes)
    BY <1>7, NodesCount
  <2>2. Cardinality(Nodes) \in Nat /\ CostBound(0) \in Nat /\ Cardinality(Nodes) <= CostBound(0)
    BY NodesCount, CostBounds
  <2> QED
    BY <2>1, <2>2
<1>9. BmaTypes
  <2>1. round \in Nat /\ round < Cardinality(Nodes) /\ rest \subseteq Nodes
    BY <1>5, NodesCount
  <2>2. previous \in [Rounds -> [Nodes -> Nodes]]
    BY <1>5
  <2>3. exclude \in [Rounds -> [Nodes -> SUBSET Nodes]]
    BY <1>5, <1>7
  <2>4. cost \in [Rounds -> [Nodes -> Nat \cup {Infinity}]]
    BY <1>5, <1>8
  <2> QED
    BY <2>1, <2>2, <2>3, <2>4 DEF BmaTypes
<1>10. ASSUME NEW r \in 0 .. 1, NEW v \in Nodes PROVE GoodEntry(r, v)
  <2>1. CASE r = 0
    <3>1. cost[0][v] \in 0 .. CostBound(0) /\ exclude[0][v] = {v} \cup Ends(v)
      BY <1>4, <1>5, <1>6, <1>8
    <3>2. GoodPath(previous, 0, v, exclude[0][v])
      BY <3>1, GoodPathOne
    <3> QED
      BY <2>1, <3>1, <3>2 DEF GoodEntry
  <2>2. CASE r = 1
    BY <1>5, <1>6, <2>2 DEF GoodEntry
  <2> QED
    BY <1>6, <2>1, <2>2
<1>11. BmaRows
  <2>1. \A r \in Rounds : r > round + 1 => \A v \in Nodes : cost[r][v] = Infinity
    BY <1>5
  <2>2. \A r \in 0 .. round + 1 : \A v \in Nodes : GoodEntry(r, v)
    BY <1>5, <1>10
  <2> QED
    BY <2>1, <2>2 DEF BmaRows
<1>12. Relaxed
  BY <1>5 DEF Relaxed
<1> QED
  BY <1>2, <1>3, <1>5, <1>9, <1>11, <1>12 DEF BmaInv

\* A node adds that much to the cost of a path.
LEMMA NewEntriesFew ==
  \A v, set : NewEntries(v, set) \in 0 .. 2 * Cardinality(Nodes)
<1> SUFFICES ASSUME NEW v, NEW set PROVE NewEntries(v, set) \in 0 .. 2 * Cardinality(Nodes)
  OBVIOUS
<1> DEFINE a == {w \in Nodes \ set : <<v, w>> \in edges}
           b == {w \in Nodes \ set : <<w, v>> \in edges}
<1>1. a \in SUBSET Nodes /\ b \in SUBSET Nodes
  OBVIOUS
<1>2. NewEntries(v, set) = Cardinality(a) + Cardinality(b)
  BY DEF NewEntries
<1> HIDE DEF a, b
<1>3. /\ Cardinality(a) \in 0 .. Cardinality(Nodes) /\ Cardinality(b) \in 0 .. Cardinality(Nodes)
      /\ Cardinality(Nodes) \in Nat
  BY <1>1, NodesCount
<1> QED
  BY <1>2, <1>3

\* The tables after a node of finite cost has been relaxed.
LEMMA TablesUpdated ==
  ASSUME BmaTypes, NEW u \in Nodes, Relax(u)
  PROVE  /\ \A r \in Rounds : r # round + 1 =>
              /\ previous'[r] = previous[r] /\ exclude'[r] = exclude[r] /\ cost'[r] = cost[r]
         /\ \A v \in Cheaper(u) : /\ previous'[round + 1][v] = u
                                  /\ exclude'[round + 1][v] = Extended(u, v)
                                  /\ cost'[round + 1][v] = PathCost(u, v)
         /\ \A v \in Nodes \ Cheaper(u) : /\ previous'[round + 1][v] = previous[round + 1][v]
                                          /\ exclude'[round + 1][v] = exclude[round + 1][v]
                                          /\ cost'[round + 1][v] = cost[round + 1][v]
         /\ BmaTypes'
<1> DEFINE C == Cheaper(u)
           n == round + 1
<1>1. /\ round \in Nat /\ round < Cardinality(Nodes) /\ rest \subseteq Nodes
      /\ previous \in [Rounds -> [Nodes -> Nodes]]
      /\ exclude \in [Rounds -> [Nodes -> SUBSET Nodes]]
      /\ cost \in [Rounds -> [Nodes -> Nat \cup {Infinity}]]
  BY DEF BmaTypes
<1>2. n \in Rounds /\ round \in Rounds
  BY <1>1, NodesCount DEF Rounds
<1>3. /\ previous' = [previous EXCEPT ![n] =
                        [v \in Nodes |-> IF v \in C THEN u ELSE previous[n][v]]]
      /\ exclude' = [exclude EXCEPT ![n] =
                       [v \in Nodes |-> IF v \in C THEN Extended(u, v) ELSE exclude[n][v]]]
      /\ cost' = [cost EXCEPT ![n] =
                    [v \in Nodes |-> IF v \in C THEN PathCost(u, v) ELSE cost[n][v]]]
      /\ round' = round /\ rest' \subseteq Nodes
  BY <1>1 DEF Relax, Updated
<1>4. C \subseteq Nodes
  BY DEF Cheaper
<1>5. ASSUME NEW v \in C
      PROVE  Extended(u, v) \in SUBSET Nodes /\ PathCost(u, v) \in Nat
  <2>1. v \in Nodes /\ exclude[round][u] \in SUBSET Nodes
    BY <1>1, <1>2, <1>4
  <2>2. Extended(u, v) \in SUBSET Nodes
    BY <2>1 DEF Extended, Ends
  <2>3. cost[round][u] # Infinity /\ cost[round][u] \in Nat \cup {Infinity}
    BY <1>1, <1>2, <1>5 DEF Cheaper
  <2>4. PathCost(u, v) = cost[round][u] + 1 + NewEntries(v, exclude[round][u])
    BY DEF PathCost
  <2>5. NewEntries(v, exclude[round][u]) \in 0 .. 2 * Cardinality(Nodes)
    BY NewEntriesFew
  <2>6. cost[round][u] \in Nat /\ NewEntries(v, exclude[round][u]) \in Nat
    BY <2>3, <2>5, NodesCount
  <2> QED
    BY <2>2, <2>4, <2>6
<1> HIDE DEF C, n
<1>6. \A r \in Rounds : r # n =>
        /\ previous'[r] = previous[r] /\ exclude'[r] = exclude[r] /\ cost'[r] = cost[r]
  BY <1>1, <1>2, <1>3
<1>7. \A v \in Nodes : /\ previous'[n][v] = IF v \in C THEN u ELSE previous[n][v]
                       /\ exclude'[n][v] = IF v \in C THEN Extended(u, v) ELSE exclude[n][v]
                       /\ cost'[n][v] = IF v \in C THEN PathCost(u, v) ELSE cost[n][v]
  BY <1>1, <1>2, <1>3
<1>8. previous' \in [Rounds -> [Nodes -> Nodes]]
  <2>1. [v \in Nodes |-> IF v \in C THEN u ELSE previous[n][v]] \in [Nodes -> Nodes]
    BY <1>1, <1>2
  <2> QED
    BY <1>1, <1>2, <1>3, <2>1
<1>9. exclude' \in [Rounds -> [Nodes -> SUBSET Nodes]]
  <2>1. [v \in Nodes |-> IF v \in C THEN Extended(u, v) ELSE exclude[n][v]]
          \in [Nodes -> SUBSET Nodes]
    BY <1>1, <1>2, <1>5
  <2> QED
    BY <1>1, <1>2, <1>3, <2>1
<1>10. cost' \in [Rounds -> [Nodes -> Nat \cup {Infinity}]]
  <2>1. [v \in Nodes |-> IF v \in C THEN PathCost(u, v) ELSE cost[n][v]]
          \in [Nodes -> Nat \cup {Infinity}]
    BY <1>1, <1>2, <1>5
  <2> QED
    BY <1>1, <1>2, <1>3, <2>1
<1>11. BmaTypes'
  <2>1. Rounds' = Rounds
    BY DEF Rounds
  <2> QED
    BY <1>1, <1>3, <1>8, <1>9, <1>10, <2>1 DEF BmaTypes
<1> QED
  BY <1>4, <1>6, <1>7, <1>11 DEF C, n

\* Whether a path is good depends on the graph only.
LEMMA GoodPathPrimed ==
  ASSUME edges' = edges, NEW r, NEW v,
         GoodPath(previous', r, v, exclude'[r][v])
  PROVE  GoodPath(previous, r, v, exclude[r][v])'
BY DEF GoodPath, IsIndependent, Covers, Ends

\* Relaxing a node: the rows of earlier rounds stay, those it improves are its own
\* path extended.
LEMMA RelaxKeeps ==
  ASSUME BmaInv, solver = "bma", solver' = solver, NEW u \in Nodes, Relax(u)
  PROVE  BmaInv'
<1> DEFINE C == Cheaper(u)
           n == round + 1
<1>1. /\ Undirected /\ BmaTypes /\ BmaRows /\ Relaxed
      /\ round = 0 \/ \E v \in Nodes : cost[round][v] # Infinity
  BY DEF BmaInv
<1>2. /\ edges' = edges /\ round' = round /\ rest' = rest \ {u} /\ solving' = solving /\ solving
  BY DEF Relax, graphVars
<1>3. /\ \A r \in Rounds : r # n =>
           previous'[r] = previous[r] /\ exclude'[r] = exclude[r] /\ cost'[r] = cost[r]
      /\ \A v \in C : /\ previous'[n][v] = u /\ exclude'[n][v] = Extended(u, v)
                      /\ cost'[n][v] = PathCost(u, v)
      /\ \A v \in Nodes \ C : /\ previous'[n][v] = previous[n][v]
                              /\ exclude'[n][v] = exclude[n][v]
                              /\ cost'[n][v] = cost[n][v]
      /\ BmaTypes'
  BY <1>1, TablesUpdated
<1>4. /\ round \in Nat /\ n \in Nat /\ round \in Rounds /\ n \in Rounds
      /\ round # n /\ n' = n /\ n # 0 /\ \A r \in 0 .. n : r \in Rounds /\ r \in Nat
      /\ \A r \in 0 .. n : r # n => \A i \in 1 .. r : i \in Rounds /\ i # n
      /\ \A i \in 1 .. n : i # n => i \in Rounds
      /\ \A i \in 1 .. round : i # n /\ i \in Rounds
  BY <1>1, <1>2, NodesCount DEF BmaTypes, Rounds
<1>5. \A v \in C : /\ v \in Nodes \ exclude[round][u] /\ cost[round][u] # Infinity
  BY DEF Cheaper
<1>6. \A r \in 0 .. n : \A v \in Nodes : GoodEntry(r, v)
  BY <1>1 DEF BmaRows
<1> HIDE DEF C
<1>7. ASSUME NEW v \in C PROVE PathCost(u, v) \in 0 .. CostBound(n) /\ PathCost(u, v) # Infinity
  <2>1. cost[round][u] \in 0 .. CostBound(round)
    BY <1>4, <1>5, <1>6, <1>7 DEF GoodEntry
  <2>2. PathCost(u, v) = cost[round][u] + 1 + NewEntries(v, exclude[round][u])
    BY DEF PathCost
  <2>3. NewEntries(v, exclude[round][u]) \in 0 .. 2 * Cardinality(Nodes)
    BY NewEntriesFew
  <2>4. CostBound(n) = CostBound(round) + 1 + 2 * Cardinality(Nodes) /\ CostBound(round) \in Nat
    BY <1>4, CostBounds
  <2>5. PathCost(u, v) \in 0 .. CostBound(n)
    BY <2>1, <2>2, <2>3, <2>4, NodesCount
  <2> QED
    BY <1>4, <2>5, CostBounds
<1>8. ASSUME NEW r \in 0 .. n, NEW v \in Nodes, cost'[r][v] # Infinity
      PROVE  cost'[r][v] \in 0 .. CostBound(r) /\ GoodPath(previous', r, v, exclude'[r][v])
  <2>1. CASE r # n
    <3>1. cost'[r] = cost[r] /\ exclude'[r] = exclude[r]
      BY <1>3, <1>4, <2>1
    <3>2. cost[r][v] \in 0 .. CostBound(r) /\ GoodPath(previous, r, v, exclude[r][v])
      BY <1>6, <1>8, <3>1 DEF GoodEntry
    <3>3. r \in Nat /\ (\A i \in 1 .. r : i # r => previous'[i] = previous[i])
          /\ previous'[r] = previous[r]
      BY <1>3, <1>4, <2>1
    <3> QED
      BY <3>1, <3>2, <3>3, GoodPathStays
  <2>2. CASE r = n /\ v \in C
    <3>1. GoodPath(previous, round, u, exclude[round][u])
      BY <1>4, <1>5, <1>6, <2>2 DEF GoodEntry
    <3>2. GoodPath(previous', round + 1, v, exclude[round][u] \cup {v} \cup Ends(v))
      <4>1. \A i \in 1 .. round : previous'[i] = previous[i]
        BY <1>3, <1>4
      <4>2. previous'[round + 1][v] = u /\ v \in Nodes \ exclude[round][u]
        BY <1>3, <1>5, <2>2
      <4> QED
        BY <1>4, <3>1, <4>1, <4>2, GoodPathExtends
    <3>3. exclude'[n][v] = exclude[round][u] \cup {v} \cup Ends(v)
      BY <1>3, <2>2 DEF Extended
    <3>4. cost'[n][v] \in 0 .. CostBound(n)
      BY <1>3, <1>7, <2>2
    <3> QED
      BY <2>2, <3>2, <3>3, <3>4
  <2>3. CASE r = n /\ v \notin C
    <3>1. /\ cost'[n][v] = cost[n][v] /\ exclude'[n][v] = exclude[n][v]
          /\ previous'[n][v] = previous[n][v]
      BY <1>3, <2>3
    <3>2. cost[n][v] \in 0 .. CostBound(n) /\ GoodPath(previous, n, v, exclude[n][v])
      BY <1>4, <1>6, <1>8, <2>3, <3>1 DEF GoodEntry
    <3>3. \A i \in 1 .. n : i # n => previous'[i] = previous[i]
      BY <1>3, <1>4
    <3>4. GoodPath(previous', n, v, exclude[n][v])
      BY <1>4, <3>1, <3>2, <3>3, GoodPathStays
    <3> QED
      BY <2>3, <3>1, <3>2, <3>4
  <2> QED
    BY <2>1, <2>2, <2>3
<1>9. BmaRows'
  <2>1. ASSUME NEW r \in 0 .. n, NEW v \in Nodes PROVE GoodEntry(r, v)'
    <3>1. cost'[r][v] # Infinity => GoodPath(previous, r, v, exclude[r][v])'
      BY <1>2, <1>8, GoodPathPrimed
    <3> QED
      BY <1>8, <3>1 DEF GoodEntry, CostBound
  <2>2. ASSUME NEW r \in Rounds, r > n, NEW v \in Nodes PROVE cost'[r][v] = Infinity
    <3>1. r # n
      BY <1>4, <2>2 DEF Rounds
    <3> QED
      BY <1>1, <1>3, <2>2, <3>1 DEF BmaRows
  <2> QED
    BY <1>2, <2>1, <2>2 DEF BmaRows, Rounds
<1>10. Relaxed'
  <2>1. ASSUME NEW w \in Nodes \ rest', cost'[round][w] # Infinity,
               NEW v \in Nodes \ exclude'[round][w]
        PROVE  cost'[n][v] # Infinity
    <3>1. cost[round][w] # Infinity /\ v \in Nodes \ exclude[round][w]
      BY <1>3, <1>4, <2>1
    <3>2. CASE v \in C
      BY <1>3, <1>7, <3>2
    <3>3. CASE v \notin C /\ w # u
      BY <1>1, <1>2, <1>3, <3>1, <3>3 DEF Relaxed
    <3>4. CASE v \notin C /\ w = u
      BY <1>3, <3>1, <3>4 DEF C, Cheaper
    <3> QED
      BY <3>2, <3>3, <3>4
  <2> QED
    BY <1>2, <2>1 DEF Relaxed
<1>11. round' = 0 \/ \E v \in Nodes : cost'[round'][v] # Infinity
  BY <1>1, <1>2, <1>3, <1>4
<1>12. Undirected'
  BY <1>1, <1>2 DEF Undirected
<1> QED
  BY <1>2, <1>3, <1>9, <1>10, <1>11, <1>12 DEF BmaInv

-----------------------------------------------------------------------------
(* The runs of BMASolver, and all solvers. *)

\* Another round: there is a path of one more node, so there is a row for it.
LEMMA NextRoundKeeps ==
  ASSUME BmaInv, solver = "bma", solver' = solver, NextRound
  PROVE  BmaInv'
<1> DEFINE n == round + 1
<1>1. Undirected /\ BmaTypes /\ BmaRows /\ Relaxed
  BY DEF BmaInv
<1>2. /\ round' = n /\ rest' = Nodes /\ edges' = edges /\ solving' = solving /\ solving
      /\ exclude' = exclude /\ cost' = cost /\ previous' = previous
  BY DEF NextRound, graphVars
<1>3. PICK v \in Nodes : cost[n][v] # Infinity
  BY DEF NextRound, CostChange
<1>4. round \in Nat /\ n \in Nat /\ n \in 0 .. n
  BY <1>1 DEF BmaTypes
<1>5. GoodPath(previous, n, v, exclude[n][v])
  BY <1>1, <1>3, <1>4 DEF BmaRows, GoodEntry
<1>6. n < Cardinality(Nodes)
  <2>1. Cardinality(PathOf(previous, v, n)) = n + 1 /\ PathOf(previous, v, n) \in SUBSET Nodes
    BY <1>5 DEF GoodPath
  <2>2. Cardinality(PathOf(previous, v, n)) \in 0 .. Cardinality(Nodes)
    BY <2>1, NodesCount
  <2> QED
    BY <1>4, <2>1, <2>2, NodesCount
<1>7. n + 1 \in Rounds /\ \A r \in 0 .. n + 1 : r \in 0 .. n \/ r = n + 1
  BY <1>4, <1>6, NodesCount DEF Rounds
<1>8. BmaTypes'
  <2>1. Rounds' = Rounds
    BY DEF Rounds
  <2> QED
    BY <1>1, <1>2, <1>4, <1>6, <2>1 DEF BmaTypes
<1>9. BmaRows'
  <2>1. ASSUME NEW r \in 0 .. n + 1, NEW w \in Nodes PROVE GoodEntry(r, w)'
    <3>1. CASE r \in 0 .. n
      <4>1. cost[r][w] # Infinity =>
              cost[r][w] \in 0 .. CostBound(r) /\ GoodPath(previous, r, w, exclude[r][w])
        BY <1>1, <3>1 DEF BmaRows, GoodEntry
      <4>2. cost[r][w] # Infinity => GoodPath(previous, r, w, exclude[r][w])'
        BY <1>2, <4>1, GoodPathPrimed
      <4> QED
        BY <1>2, <4>1, <4>2 DEF GoodEntry, CostBound
    <3>2. CASE r = n + 1
      <4>1. r > n
        BY <1>4, <3>2
      <4>2. cost[r][w] = Infinity
        BY <1>1, <1>7, <3>2, <4>1 DEF BmaRows
      <4> QED
        BY <1>2, <4>2 DEF GoodEntry
    <3> QED
      BY <1>7, <3>1, <3>2
  <2>2. ASSUME NEW r \in Rounds, r > n + 1, NEW w \in Nodes PROVE cost'[r][w] = Infinity
    <3>1. r > n
      BY <1>4, <2>2 DEF Rounds
    <3> QED
      BY <1>1, <1>2, <2>2, <3>1 DEF BmaRows
  <2> QED
    BY <1>2, <2>1, <2>2 DEF BmaRows, Rounds
<1>10. Relaxed'
  BY <1>2 DEF Relaxed
<1>11. Undirected'
  BY <1>1, <1>2 DEF Undirected
<1>12. \E w \in Nodes : cost'[round'][w] # Infinity
  BY <1>2, <1>3
<1> QED
  BY <1>2, <1>8, <1>9, <1>10, <1>11, <1>12 DEF BmaInv

\* The result: nothing was left that its path does not exclude.
LEMMA BmaReturnsKeeps ==
  ASSUME BmaInv, solver = "bma", solver' = solver, BmaReturns
  PROVE  BmaInv'
<1>1. /\ Undirected /\ BmaTypes /\ BmaRows /\ Relaxed
      /\ round = 0 \/ \E v \in Nodes : cost[round][v] # Infinity
  BY DEF BmaInv
<1>2. /\ UNCHANGED <<edges, round, rest, exclude, cost, previous>> /\ rest = {}
      /\ \A v \in Nodes : cost[round + 1][v] = Infinity
  BY DEF BmaReturns, graphVars, bmaVars, CostChange
<1>3. PICK v \in Nodes : cost[round][v] # Infinity /\ returned' = Path(v, round)
  BY DEF BmaReturns, Return
<1> DEFINE P == PathOf(previous, v, round)
<1>4. Path(v, round) = P
  BY DEF Path, PathOf
<1>5. GoodPath(previous, round, v, exclude[round][v])
  <2>1. round \in 0 .. round + 1
    BY <1>1 DEF BmaTypes
  <2> QED
    BY <1>1, <1>3, <2>1 DEF BmaRows, GoodEntry
<1>6. P \subseteq Nodes /\ IsIndependent(P) /\ exclude[round][v] = Covers(P)
  BY <1>5 DEF GoodPath
<1> HIDE DEF P
<1>7. ASSUME NEW w \in Nodes \ P PROVE Neighbours(w) \cap P # {}
  <2>1. w \in Covers(P)
    BY <1>1, <1>2, <1>3, <1>6 DEF Relaxed
  <2>2. PICK x \in P : w \in {x} \cup Ends(x)
    BY <2>1 DEF Covers
  <2>3. x # w /\ w \in Ends(x) /\ x \in Nodes
    BY <1>6, <2>2
  <2> QED
    BY <2>2, <2>3, EndsMeet DEF Neighbours
<1>8. IsIndependent(P) /\ IsMaximal(P)
  BY <1>6, <1>7 DEF IsMaximal
<1>9. IsIndependent(returned)' /\ IsMaximal(returned)'
  BY <1>2, <1>3, <1>4, <1>8 DEF IsIndependent, IsMaximal, Neighbours, Ends
<1>10. Undirected' /\ BmaTypes' /\ Relaxed'
  BY <1>1, <1>2 DEF Undirected, BmaTypes, Relaxed, Rounds
<1>11. BmaRows'
  <2>1. ASSUME NEW r \in 0 .. round + 1, NEW w \in Nodes PROVE GoodEntry(r, w)'
    <3>1. cost[r][w] # Infinity =>
            cost[r][w] \in 0 .. CostBound(r) /\ GoodPath(previous, r, w, exclude[r][w])
      BY <1>1, <2>1 DEF BmaRows, GoodEntry
    <3>2. cost[r][w] # Infinity => GoodPath(previous, r, w, exclude[r][w])'
      BY <1>2, <3>1, GoodPathPrimed
    <3> QED
      BY <1>2, <3>1, <3>2 DEF GoodEntry, CostBound
  <2> QED
    BY <1>1, <1>2, <2>1 DEF BmaRows, Rounds
<1> QED
  BY <1>1, <1>2, <1>9, <1>10, <1>11 DEF BmaInv

\* While nothing is done to the tables.
LEMMA BmaStays ==
  ASSUME BmaInv, UNCHANGED <<solver, edges, returned, solving, bmaVars>>
  PROVE  BmaInv'
<1> SUFFICES ASSUME solver = "bma" PROVE BmaInv'
  BY DEF BmaInv
<1>1. UNCHANGED <<solver, edges, returned, solving, round, rest, exclude, cost, previous>>
  BY DEF bmaVars
<1>2. /\ Undirected /\ BmaTypes /\ BmaRows /\ Relaxed
      /\ round = 0 \/ \E v \in Nodes : cost[round][v] # Infinity
      /\ ~solving => IsIndependent(returned) /\ IsMaximal(returned)
  BY DEF BmaInv
<1>3. Undirected' /\ BmaTypes' /\ Relaxed'
  BY <1>1, <1>2 DEF Undirected, BmaTypes, Relaxed, Rounds
<1>4. BmaRows'
  <2>1. ASSUME NEW r \in 0 .. round + 1, NEW w \in Nodes PROVE GoodEntry(r, w)'
    <3>1. cost[r][w] # Infinity =>
            cost[r][w] \in 0 .. CostBound(r) /\ GoodPath(previous, r, w, exclude[r][w])
      BY <1>2, <2>1 DEF BmaRows, GoodEntry
    <3>2. cost[r][w] # Infinity => GoodPath(previous, r, w, exclude[r][w])'
      BY <1>1, <3>1, GoodPathPrimed
    <3> QED
      BY <1>1, <3>1, <3>2 DEF GoodEntry, CostBound
  <2> QED
    BY <1>1, <1>2, <2>1 DEF BmaRows, Rounds
<1>5. ~solving' => IsIndependent(returned)' /\ IsMaximal(returned)'
  BY <1>1, <1>2 DEF IsIndependent, IsMaximal, Neighbours, Ends
<1> QED
  BY <1>1, <1>2, <1>3, <1>4, <1>5 DEF BmaInv

\* Every step keeps BMASolver's invariant.
LEMMA BmaStep ==
  ASSUME BmaInv, [Next]_vars
  PROVE  BmaInv'
<1>1. CASE Search \/ GiveUp \/ UNCHANGED vars
  BY <1>1, BmaStays DEF Search, GiveUp, vars, misVars, graphVars
<1>2. CASE Solve /\ solver = "bma"
  <2>1. BmaNext /\ solver' = solver
    BY <1>2 DEF Solve
  <2>2. CASE \E u \in Nodes : Relax(u)
    BY <1>2, <2>1, <2>2, RelaxKeeps
  <2>3. CASE NextRound
    BY <1>2, <2>1, <2>3, NextRoundKeeps
  <2>4. CASE BmaReturns
    BY <1>2, <2>1, <2>4, BmaReturnsKeeps
  <2> QED
    BY <2>1, <2>2, <2>3, <2>4 DEF BmaNext
<1>3. CASE Solve /\ solver # "bma"
  BY <1>3 DEF Solve, BmaInv
<1> QED
  BY <1>1, <1>2, <1>3 DEF Next

\* The inductive invariant of BMASolver: an entry of finite cost is the end of an
\* independent path whose exclusions are exactly its nodes and their neighbours.
THEOREM SolversBmaInvariant ==
  Spec => []BmaInv
<1>1. Init => BmaInv
  BY BmaStarts
<1>2. BmaInv /\ [Next]_vars => BmaInv'
  BY BmaStep
<1> QED
  BY <1>1, <1>2, PTL DEF Spec

\* Whichever node of finite cost getResult() takes, its path has one node more than
\* rounds have passed, and nothing the path does not exclude was lost (BMASolver.cpp).
THEOREM SolversBmaPaths ==
  Spec => []BmaPaths
<1>1. BmaInv => BmaPaths
  <2> SUFFICES ASSUME BmaInv, solver = "bma" PROVE PathsRight
    BY DEF BmaPaths
  <2>1. ASSUME NEW r \in 0 .. round, NEW v \in Nodes, cost[r][v] # Infinity
        PROVE  /\ Cardinality(Path(v, r)) = r + 1
               /\ exclude[r][v] = UNION {{w} \cup Ends(w) : w \in Path(v, r)}
    <3>1. r \in 0 .. round + 1 /\ BmaRows
      BY DEF BmaInv, BmaTypes
    <3>2. GoodPath(previous, r, v, exclude[r][v])
      BY <2>1, <3>1 DEF BmaRows, GoodEntry
    <3>3. Path(v, r) = PathOf(previous, v, r)
      BY DEF Path, PathOf
    <3> QED
      BY <3>2, <3>3 DEF GoodPath, Covers
  <2> QED
    BY <2>1 DEF PathsRight
<1> QED
  BY <1>1, SolversBmaInvariant, PTL

\* What any of the six solvers returns is independent, and cannot be extended where
\* the solver extends as long as it can: for every graph, every order of ties and of
\* the nodes in memory, and all random choices (main.cpp tests the former only).
THEOREM SolversMisResult ==
  Spec => []MisResult
<1>1. GreedyInv /\ RamseyInv /\ BmaInv => MisResult
  BY DEF GreedyInv, RamseyInv, BmaInv, MisResult, GoodResult, GreedyKind, MisSolvers
<1> QED
  BY <1>1, SolversGreedyInvariant, SolversRamseyInvariant, SolversBmaInvariant, PTL
=============================================================================
