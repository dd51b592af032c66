-------------------------- MODULE MCParallelProofs --------------------------
(***************************************************************************)
(* The parallel programs, for every number of ranks and threads, every     *)
(* input, grid and field, and every pace.  The MPI programs: no collective *)
(* takes the data of another; the numbers that are summed up were put into *)
(* clusters by the same means, and the means that parkmeans ends with are  *)
(* those of its clusters; parsplit's lists are those of a single process.  *)
(* The mesh builders: tasks never outlive the call that created them,      *)
(* every triangle emitted is accounted for once, and the array that is     *)
(* returned holds those of every cube, each once.                          *)
(***************************************************************************)
EXTENDS MCParallel, SequenceTheorems, SetInduction

-----------------------------------------------------------------------------
(* The tree builder's tasks. *)

Pointer == {"queued", "live"}

OnStack(t) == 1 .. Len(stack[t])

\* What a thread has begun and not finished is live, and on one stack, once.
TaskByOneThread ==
  /\ \A t \in Threads : \A i \in OnStack(t) : state[stack[t][i]] = "live"
  /\ \A t, u \in Threads : \A i \in OnStack(t), j \in OnStack(u) :
       stack[t][i] = stack[u][j] => t = u /\ i = j

\* The tasks of a block are created in order; none of a block left out.
CreatedInOrder ==
  /\ \A b \in Tasks, o \in Octants :
       Append(b, o) \in Tasks /\ o \geq made[b] => state[Append(b, o)] = "absent"
  /\ \A b \in empty : made[b] = 0

TInv ==
  /\ empty \subseteq Tasks
  /\ state \in [Tasks -> States]
  /\ made \in [Tasks -> 0 .. 2 ^ Dims]
  /\ stack \in [Threads -> Seq(Tasks)]
  /\ TaskByOneThread
  /\ CreatedInOrder
  /\ CreatorAlive
-----------------------------------------------------------------------------
(* The tree of tasks. *)

\* Powers are natural numbers, and positive.
LEMMA PowersPositive ==
  ASSUME NEW b \in Nat \ {0}, NEW n \in Nat, PowerLaw(b, n)
  PROVE  \A k \in 0 .. n : b ^ k \in Nat \ {0}
<1> DEFINE G == {k \in Nat : k <= n => b ^ k \in Nat \ {0}}
<1>1. 0 \in G
  BY DEF PowerLaw
<1>2. ASSUME NEW k \in Nat, k \in G PROVE k + 1 \in G
  <2> SUFFICES ASSUME k + 1 <= n PROVE b ^ (k + 1) \in Nat \ {0}
    OBVIOUS
  <2>1. k \in 0 .. n - 1 /\ b ^ k \in Nat \ {0}
    BY <1>2
  <2>2. b ^ (k + 1) = b * b ^ k
    BY <2>1 DEF PowerLaw
  <2> DEFINE p == b ^ k
  <2>3. p \in Nat \ {0}
    BY <2>1
  <2> HIDE DEF p
  <2>4. b * p \in Nat \ {0}
    BY <2>3
  <2> QED
    BY <2>2, <2>4 DEF p
<1> HIDE DEF G
<1>3. Nat \subseteq G
  BY <1>1, <1>2, NatSetInduction
<1> QED
  BY <1>3 DEF G

\* A block has finitely many octants.
LEMMA OctantsAre ==
  2 ^ Dims \in Nat
<1>1. \A k \in 0 .. Dims : 2 ^ k \in Nat \ {0}
  BY TwoPowers, GridAssumption, PowersPositive
<1> QED
  BY <1>1, GridAssumption

\* A task is a sequence of octants, as long as its level,
LEMMA TaskIsSeq ==
  ASSUME NEW b \in Tasks
  PROVE  b \in Seq(Octants) /\ Len(b) \in 0 .. Depth
<1>1. PICK k \in 0 .. Depth : b \in [1 .. k -> Octants]
  BY DEF Tasks
<1>2. k \in Nat /\ Depth \in Nat
  BY <1>1, DepthAssumption
<1> QED
  BY <1>1, <1>2

\* and each such sequence a task.
LEMMA SeqIsTask ==
  ASSUME NEW b \in Seq(Octants), Len(b) \leq Depth
  PROVE  b \in Tasks
<1>1. Len(b) \in 0 .. Depth /\ b \in [1 .. Len(b) -> Octants]
  BY DepthAssumption
<1> QED
  BY <1>1 DEF Tasks

\* The root among them.
LEMMA RootIsTask ==
  Root \in Tasks
<1>1. Root \in Seq(Octants) /\ Len(Root) = 0 /\ 0 \leq Depth
  BY DepthAssumption DEF Root
<1> QED
  BY <1>1, SeqIsTask

\* A block of a division has one octant more than the block that is divided.
LEMMA ChildIsTask ==
  ASSUME NEW b \in Tasks, NEW o \in Octants
  PROVE  /\ Append(b, o) \in Seq(Octants)
         /\ Append(b, o) # Root
         /\ Front(Append(b, o)) = b
         /\ Append(b, o) \in Tasks <=> ~Leaf(b)
<1>1. b \in Seq(Octants) /\ Len(b) \in 0 .. Depth /\ Depth \in Nat
  BY TaskIsSeq, DepthAssumption
<1>2. /\ Append(b, o) \in Seq(Octants)
      /\ Len(Append(b, o)) = Len(b) + 1
      /\ \A i \in 1 .. Len(b) : Append(b, o)[i] = b[i]
  BY <1>1
<1>3. Append(b, o) # Root
  BY <1>1, <1>2, SMTT(30) DEF Root
<1>4. Front(Append(b, o)) = b
  BY <1>1, <1>2 DEF Front
<1>5. ASSUME Append(b, o) \in Tasks PROVE ~Leaf(b)
  <2>1. ASSUME NEW d \in Tasks PROVE Len(d) \leq Depth
    BY <1>1, <2>1, TaskIsSeq
  <2>2. Len(Append(b, o)) \leq Depth
    BY <1>5, <2>1
  <2> QED
    BY <1>1, <1>2, <2>2 DEF Leaf
<1>6. ASSUME ~Leaf(b) PROVE Append(b, o) \in Tasks
  <2>1. Len(Append(b, o)) \leq Depth
    BY <1>1, <1>2, <1>6 DEF Leaf
  <2> QED
    BY <1>2, <2>1, SeqIsTask
<1> QED
  BY <1>2, <1>3, <1>4, <1>5, <1>6

\* A sequence without its last element.
LEMMA FrontAndLast ==
  ASSUME NEW S, NEW s \in Seq(S), s # << >>
  PROVE  /\ Len(s) \in Nat \ {0}
         /\ Front(s) \in Seq(S)
         /\ Len(Front(s)) = Len(s) - 1
         /\ \A i \in 1 .. Len(s) - 1 : Front(s)[i] = s[i]
         /\ Last(s) = s[Len(s)]
<1>1. Len(s) \in Nat \ {0}
  OBVIOUS
<1> DEFINE n == Len(s) - 1
           c == SubSeq(s, 1, n)
<1>2. n \in Nat /\ \A i \in 1 .. n : s[i] \in S
  BY <1>1
<1> HIDE DEF n
<1>3. /\ c \in Seq(S)
      /\ Len(c) = IF 1 \leq n THEN n - 1 + 1 ELSE 0
      /\ \A i \in 1 .. n - 1 + 1 : c[i] = s[1 + i - 1]
  BY <1>2, SubSeqProperties
<1> HIDE DEF c
<1>4. Len(c) = n
  BY <1>2, <1>3
<1>5. ASSUME NEW i \in 1 .. n PROVE c[i] = s[i]
  <2>1. i \in 1 .. n - 1 + 1 /\ 1 + i - 1 = i
    BY <1>2
  <2> QED
    BY <1>3, <2>1
<1> QED
  BY <1>1, <1>3, <1>4, <1>5 DEF c, n, Front, Last

\* Every block but the root is one of the division of another.
LEMMA TaskIsChild ==
  ASSUME NEW b \in Tasks \ {Root}
  PROVE  /\ Front(b) \in Tasks
         /\ \E o \in Octants : b = Append(Front(b), o)
<1>1. b \in Seq(Octants) /\ Len(b) \in 1 .. Depth /\ Depth \in Nat /\ b # << >>
  BY TaskIsSeq, DepthAssumption DEF Root
<1> DEFINE c == Front(b)
           a == Append(c, b[Len(b)])
<1>2. c \in Seq(Octants) /\ Len(c) = Len(b) - 1 /\ \A i \in 1 .. Len(b) - 1 : c[i] = b[i]
  BY <1>1, FrontAndLast
<1> HIDE DEF c
<1>3. c \in Tasks
  BY <1>1, <1>2, SeqIsTask
<1>4. b[Len(b)] \in Octants
  BY <1>1
<1>5. a \in Seq(Octants) /\ Len(a) = Len(b)
  BY <1>1, <1>2, <1>4
<1>6. \A i \in 1 .. Len(b) : b[i] = a[i]
  BY <1>1, <1>2, <1>4
<1> HIDE DEF a
<1>7. b = a
  BY <1>1, <1>5, <1>6, SeqEqual
<1> QED
  BY <1>3, <1>4, <1>7 DEF c, a
-----------------------------------------------------------------------------
(* The steps. *)

\* What a thread runs is live.
LEMMA RunsLive ==
  ASSUME TInv, NEW t \in Threads, NEW b \in Tasks, Runs(t, b)
  PROVE  state[b] = "live"
<1>1. stack[t] \in Seq(Tasks) /\ stack[t] # << >> /\ b = Last(stack[t])
  BY DEF Runs, TInv
<1>2. Len(stack[t]) \in Nat \ {0} /\ Last(stack[t]) = stack[t][Len(stack[t])]
  BY <1>1, FrontAndLast
<1>3. Len(stack[t]) \in OnStack(t)
  BY <1>2 DEF OnStack
<1> QED
  BY <1>1, <1>2, <1>3 DEF TInv, TaskByOneThread

\* Before the traversal.
LEMMA InitInv ==
  TreeInit => TInv
<1> SUFFICES ASSUME TreeInit PROVE TInv
  OBVIOUS
<1> USE DEF TreeInit, TreeStart
<1>1. empty \subseteq Tasks
  BY DEF EmptyBlocks
<1>2. state \in [Tasks -> States] /\ \A b \in Tasks : state[b] = "absent"
  BY DEF States
<1>3. made \in [Tasks -> 0 .. 2 ^ Dims] /\ \A b \in Tasks : made[b] = 0
  BY OctantsAre
<1>4. stack \in [Threads -> Seq(Tasks)] /\ \A t \in Threads : Len(stack[t]) = 0
  OBVIOUS
<1>5. TaskByOneThread
  BY <1>4 DEF TaskByOneThread, OnStack
<1>6. CreatedInOrder
  BY <1>1, <1>2, <1>3 DEF CreatedInOrder
<1>7. CreatorAlive
  BY <1>2 DEF CreatorAlive
<1> QED
  BY <1>1, <1>2, <1>3, <1>4, <1>5, <1>6, <1>7 DEF TInv

\* A task is created: the next octant of a block that is divided.
LEMMA SpawnKeeps ==
  ASSUME TInv, NEW t \in Threads, NEW b \in Tasks, Spawn(t, b)
  PROVE  TInv'
<1> DEFINE c == Append(b, made[b])
<1>1. /\ made[b] \in Octants /\ made[b] \in Int /\ b \notin empty
      /\ state' = [state EXCEPT ![c] = "queued"]
      /\ made' = [made EXCEPT ![b] = made[b] + 1]
      /\ empty' = empty /\ stack' = stack
  BY DEF Spawn, TInv, Octants
<1>2. c \in Tasks /\ c # Root /\ Front(c) = b
  BY <1>1, ChildIsTask DEF Spawn
<1>3. state[b] = "live"
  BY RunsLive DEF Spawn
<1>4. state[c] = "absent"
  BY <1>1, <1>2 DEF TInv, CreatedInOrder
<1>5. c # b
  BY <1>3, <1>4
<1> HIDE DEF c
<1>6. /\ state' \in [Tasks -> States]
      /\ \A d \in Tasks : state'[d] = IF d = c THEN "queued" ELSE state[d]
  BY <1>1, <1>2 DEF TInv, States
<1>7. made' \in [Tasks -> 0 .. 2 ^ Dims]
  <2>1. made[b] + 1 \in 0 .. 2 ^ Dims
    BY <1>1, OctantsAre DEF Octants
  <2> QED
    BY <1>1, <2>1 DEF TInv
<1>8. TaskByOneThread'
  <2>1. \A u \in Threads : \A i \in OnStack(u) : stack[u][i] \in Tasks /\ stack[u][i] # c
    BY <1>4 DEF TInv, TaskByOneThread, OnStack
  <2>2. \A u \in Threads : \A i \in OnStack(u) : state'[stack[u][i]] = "live"
    BY <1>6, <2>1 DEF TInv, TaskByOneThread
  <2> QED
    BY <1>1, <2>2 DEF TInv, TaskByOneThread, OnStack
<1>9. CreatedInOrder'
  <2>1. ASSUME NEW d \in Tasks, NEW o \in Octants,
               Append(d, o) \in Tasks, o \geq made'[d]
        PROVE  state'[Append(d, o)] = "absent"
    <3>1. made[d] \in Int /\ o \in Int
      BY OctantsAre DEF TInv, Octants
    <3>2. CASE d = b
      <4>1. o \geq made[b] + 1 /\ o \geq made[b] /\ o # made[b]
        BY <1>1, <2>1, <3>1, <3>2 DEF TInv
      <4>2. Append(b, o) # c
        <5>1. b \in Seq(Octants)
          BY TaskIsSeq
        <5> QED
          BY <1>1, <4>1, <5>1, AppendInjective DEF c
      <4> QED
        BY <1>6, <2>1, <3>2, <4>1, <4>2 DEF TInv, CreatedInOrder
    <3>3. CASE d # b
      <4>1. made'[d] = made[d]
        BY <1>1, <3>3 DEF TInv
      <4>2. Append(d, o) # c
        BY <1>2, <3>3, ChildIsTask
      <4> QED
        BY <1>6, <2>1, <4>1, <4>2 DEF TInv, CreatedInOrder
    <3> QED
      BY <3>2, <3>3
  <2>2. \A d \in empty' : made'[d] = 0
    BY <1>1 DEF TInv, CreatedInOrder
  <2> QED
    BY <2>1, <2>2 DEF CreatedInOrder
<1>10. CreatorAlive'
  <2> SUFFICES ASSUME NEW d \in Tasks \ {Root}, state'[d] \in Pointer
               PROVE  state'[Front(d)] = "live"
    BY DEF CreatorAlive, Pointer
  <2>1. Front(d) \in Tasks
    BY TaskIsChild
  <2>2. CASE d = c
    BY <1>2, <1>3, <1>5, <1>6, <2>2
  <2>3. CASE d # c
    <3>1. state[Front(d)] = "live"
      BY <1>6, <2>3 DEF TInv, CreatorAlive, Pointer
    <3> QED
      BY <1>4, <1>6, <2>1, <3>1
  <2> QED
    BY <2>2, <2>3
<1> QED
  BY <1>1, <1>6, <1>7, <1>8, <1>9, <1>10 DEF TInv

\* BeginSingle and BeginTask.
LEMMA BeginKeeps ==
  ASSUME TInv, NEW t \in Threads, NEW b \in Tasks, NEW s \in Seq(Tasks),
         state[b] \in {"absent", "queued"}, b = Root \/ state[b] = "queued",
         s = <<b>> \/ s = Append(stack[t], b),
         state' = [state EXCEPT ![b] = "live"], stack' = [stack EXCEPT ![t] = s],
         empty' = empty, made' = made
  PROVE  TInv'
<1>1. /\ state' \in [Tasks -> States]
      /\ \A d \in Tasks : state'[d] = IF d = b THEN "live" ELSE state[d]
  BY DEF TInv, States
<1>2. /\ stack' \in [Threads -> Seq(Tasks)]
      /\ \A u \in Threads : stack'[u] = IF u = t THEN s ELSE stack[u]
  BY DEF TInv
<1>3. \A u \in Threads : \A i \in OnStack(u) :
        stack[u][i] \in Tasks /\ stack[u][i] # b /\ state[stack[u][i]] = "live"
  BY DEF TInv, TaskByOneThread, OnStack
\* The new stack: b on top of what was there, or alone.
<1>4. /\ Len(s) \in Nat \ {0} /\ s[Len(s)] = b
      /\ \A i \in 1 .. Len(s) - 1 : i \in OnStack(t) /\ s[i] = stack[t][i]
  <2>1. stack[t] \in Seq(Tasks) /\ Len(stack[t]) \in Nat
    BY DEF TInv
  <2>2. CASE s = <<b>>
    BY <2>2 DEF OnStack
  <2>3. CASE s = Append(stack[t], b)
    <3>1. /\ Len(s) = Len(stack[t]) + 1 /\ s[Len(stack[t]) + 1] = b
          /\ \A i \in 1 .. Len(stack[t]) : s[i] = stack[t][i]
      BY <2>1, <2>3, AppendProperties
    <3>2. Len(s) - 1 = Len(stack[t]) /\ Len(s) \in Nat \ {0} /\ s[Len(s)] = b
      BY <2>1, <3>1
    <3> QED
      BY <3>1, <3>2 DEF OnStack
  <2> QED
    BY <2>2, <2>3
<1>5. \A i \in 1 .. Len(s) : i = Len(s) \/ i \in 1 .. Len(s) - 1
  BY <1>4
<1>6. TaskByOneThread'
  <2>1. ASSUME NEW u \in Threads, NEW i \in 1 .. Len(stack'[u]) PROVE state'[stack'[u][i]] = "live"
    <3>1. CASE u = t
      <4>1. CASE i = Len(s)
        BY <1>1, <1>2, <1>4, <3>1, <4>1
      <4>2. CASE i \in 1 .. Len(s) - 1
        BY <1>1, <1>2, <1>3, <1>4, <3>1, <4>2
      <4> QED
        BY <1>2, <1>5, <2>1, <3>1, <4>1, <4>2
    <3>2. CASE u # t
      <4>1. stack'[u] = stack[u] /\ i \in OnStack(u)
        BY <1>2, <2>1, <3>2 DEF OnStack
      <4> QED
        BY <1>1, <1>3, <4>1
    <3> QED
      BY <3>1, <3>2
  <2>2. ASSUME NEW u \in Threads, NEW v \in Threads,
               NEW i \in 1 .. Len(stack'[u]), NEW j \in 1 .. Len(stack'[v]),
               stack'[u][i] = stack'[v][j]
        PROVE  u = v /\ i = j
    <3>1. (u = t /\ i = Len(s)) <=> stack'[u][i] = b
      BY <1>2, <1>3, <1>4, <1>5 DEF OnStack
    <3>2. (v = t /\ j = Len(s)) <=> stack'[v][j] = b
      BY <1>2, <1>3, <1>4, <1>5 DEF OnStack
    <3>3. CASE stack'[u][i] = b
      BY <2>2, <3>1, <3>2, <3>3
    <3>4. CASE stack'[u][i] # b
      <4>1. i \in OnStack(u) /\ stack'[u][i] = stack[u][i]
        BY <1>2, <1>4, <1>5, <3>1, <3>4 DEF OnStack
      <4>2. j \in OnStack(v) /\ stack'[v][j] = stack[v][j]
        BY <1>2, <1>4, <1>5, <2>2, <3>2, <3>4 DEF OnStack
      <4> QED
        BY <2>2, <4>1, <4>2, SMTT(30) DEF TInv, TaskByOneThread
    <3> QED
      BY <3>3, <3>4
  <2> QED
    BY <2>1, <2>2 DEF TaskByOneThread, OnStack
<1>7. CreatedInOrder'
  <2>1. ASSUME NEW d \in Tasks, NEW o \in Octants, Append(d, o) \in Tasks, o \geq made[d]
        PROVE  state'[Append(d, o)] = "absent"
    <3>1. state[Append(d, o)] = "absent" /\ Append(d, o) # Root
      BY <2>1, ChildIsTask DEF TInv, CreatedInOrder
    <3> QED
      BY <1>1, <2>1, <3>1
  <2> QED
    BY <2>1 DEF TInv, CreatedInOrder
<1>8. CreatorAlive'
  <2> SUFFICES ASSUME NEW d \in Tasks \ {Root}, state'[d] \in Pointer
               PROVE  state'[Front(d)] = "live"
    BY DEF CreatorAlive, Pointer
  <2>1. Front(d) \in Tasks
    BY TaskIsChild
  <2>2. state[d] \in Pointer
    BY <1>1 DEF Pointer
  <2>3. state[Front(d)] = "live"
    BY <2>2 DEF TInv, CreatorAlive, Pointer
  <2> QED
    BY <1>1, <2>1, <2>3
<1> QED
  BY <1>1, <1>2, <1>6, <1>7, <1>8 DEF TInv

\* The blocks of a division that still point to it when its call returns.
Childless(b) ==
  \A o \in Octants : Append(b, o) \in Tasks => state[Append(b, o)] \notin Pointer

\* A call returns, when none of its tasks points to it any more.
LEMMA ReturnKeeps ==
  ASSUME TInv, NEW t \in Threads, NEW b \in Tasks, NEW n,
         Runs(t, b), Childless(b), Return(t, b, n), empty' = empty, made' = made
  PROVE  TInv'
<1>1. /\ state' \in [Tasks -> States]
      /\ \A d \in Tasks : state'[d] = IF d = b THEN "done" ELSE state[d]
  BY DEF TInv, Return, States
<1> DEFINE s == stack[t]
           f == Front(s)
<1>2. s \in Seq(Tasks) /\ s # << >> /\ b = Last(s)
  BY DEF Runs, TInv
<1>3. /\ Len(s) \in Nat \ {0} /\ b = s[Len(s)]
      /\ f \in Seq(Tasks) /\ Len(f) = Len(s) - 1
      /\ \A i \in 1 .. Len(s) - 1 : f[i] = s[i]
  BY <1>2, FrontAndLast
<1>4. /\ stack' \in [Threads -> Seq(Tasks)]
      /\ \A u \in Threads : stack'[u] = IF u = t THEN f ELSE stack[u]
  BY <1>3 DEF TInv, Return
<1> HIDE DEF f
\* Every stack keeps what it held except for b, and b was nowhere else.
<1>5. \A u \in Threads : \A i \in 1 .. Len(stack'[u]) :
        i \in OnStack(u) /\ stack'[u][i] = stack[u][i] /\ stack[u][i] # b
  <2> SUFFICES ASSUME NEW u \in Threads, NEW i \in 1 .. Len(stack'[u])
               PROVE  i \in OnStack(u) /\ stack'[u][i] = stack[u][i] /\ stack[u][i] # b
    OBVIOUS
  <2>0. Len(s) \in OnStack(t)
    BY <1>3 DEF OnStack
  <2>1. CASE u = t
    <3>1. i \in 1 .. Len(s) - 1 /\ i \in OnStack(t) /\ i # Len(s) /\ stack'[u][i] = s[i]
      BY <1>3, <1>4, <2>1 DEF OnStack
    <3>2. s[i] # s[Len(s)]
      BY <2>0, <3>1 DEF TInv, TaskByOneThread
    <3> QED
      BY <1>3, <2>1, <3>1, <3>2
  <2>2. CASE u # t
    <3>1. i \in OnStack(u) /\ stack'[u] = stack[u]
      BY <1>4, <2>2 DEF OnStack
    <3>2. stack[u][i] # s[Len(s)]
      BY <2>0, <2>2, <3>1 DEF TInv, TaskByOneThread
    <3> QED
      BY <1>3, <3>1, <3>2
  <2> QED
    BY <2>1, <2>2
<1>6. TaskByOneThread'
  <2>1. ASSUME NEW u \in Threads, NEW i \in 1 .. Len(stack'[u]) PROVE state'[stack'[u][i]] = "live"
    <3>1. i \in OnStack(u) /\ stack'[u][i] = stack[u][i] /\ stack[u][i] # b
      BY <1>5, <2>1
    <3>2. stack[u][i] \in Tasks /\ state[stack[u][i]] = "live"
      BY <3>1 DEF TInv, TaskByOneThread, OnStack
    <3> QED
      BY <1>1, <3>1, <3>2
  <2>2. ASSUME NEW u \in Threads, NEW v \in Threads,
               NEW i \in 1 .. Len(stack'[u]), NEW j \in 1 .. Len(stack'[v]),
               stack'[u][i] = stack'[v][j]
        PROVE  u = v /\ i = j
    BY <1>5, <2>2 DEF TInv, TaskByOneThread
  <2> QED
    BY <2>1, <2>2 DEF TaskByOneThread, OnStack
<1>7. CreatedInOrder'
  <2>1. ASSUME NEW d \in Tasks, NEW o \in Octants, Append(d, o) \in Tasks, o \geq made[d]
        PROVE  state'[Append(d, o)] = "absent"
    <3>1. state[Append(d, o)] = "absent"
      BY <2>1 DEF TInv, CreatedInOrder
    <3>2. state[b] = "live"
      BY RunsLive
    <3> QED
      BY <1>1, <2>1, <3>1, <3>2
  <2> QED
    BY <2>1 DEF TInv, CreatedInOrder
<1>8. CreatorAlive'
  <2> SUFFICES ASSUME NEW d \in Tasks \ {Root}, state'[d] \in Pointer
               PROVE  state'[Front(d)] = "live"
    BY DEF CreatorAlive, Pointer
  <2>1. Front(d) \in Tasks /\ \E o \in Octants : d = Append(Front(d), o)
    BY TaskIsChild
  <2>2. state[d] \in Pointer
    BY <1>1 DEF Pointer
  <2>3. state[Front(d)] = "live"
    BY <2>2 DEF TInv, CreatorAlive, Pointer
  <2>4. Front(d) # b
    BY <2>1, <2>2 DEF Childless
  <2> QED
    BY <1>1, <2>1, <2>3, <2>4
<1> QED
  BY <1>1, <1>4, <1>6, <1>7, <1>8 DEF TInv

\* A step of something else.
LEMMA StutterKeeps ==
  ASSUME TInv, UNCHANGED treeVars
  PROVE  TInv'
<1>1. empty' = empty /\ state' = state /\ made' = made /\ stack' = stack
  BY DEF treeVars
<1>2. TaskByOneThread'
  BY <1>1 DEF TInv, TaskByOneThread, OnStack
<1>3. CreatedInOrder'
  BY <1>1 DEF TInv, CreatedInOrder
<1>4. CreatorAlive'
  BY <1>1 DEF TInv, CreatorAlive
<1> QED
  BY <1>1, <1>2, <1>3, <1>4 DEF TInv

\* Every step of a thread.
LEMMA ThreadKeeps ==
  ASSUME TInv, NEW t \in Threads, TreeThread(t)
  PROVE  TInv'
<1>1. ASSUME UNCHANGED treeVars PROVE TInv'
  BY <1>1, StutterKeeps
<1>2. CASE BeginSingle(t)
  <2>1. Root \in Tasks /\ <<Root>> \in Seq(Tasks)
    BY RootIsTask
  <2> QED
    BY <1>2, <2>1, BeginKeeps DEF BeginSingle
<1>3. ASSUME NEW b \in Tasks, Spawn(t, b) PROVE TInv'
  BY <1>3, SpawnKeeps
<1>4. ASSUME NEW b \in Tasks, BeginTask(t, b) PROVE TInv'
  <2>1. stack[t] \in Seq(Tasks) /\ Append(stack[t], b) \in Seq(Tasks)
    BY DEF TInv
  <2>2. stack' = [stack EXCEPT ![t] = Append(stack[t], b)]
    BY <1>4 DEF BeginTask
  <2> QED
    BY <1>4, <2>1, <2>2, BeginKeeps DEF BeginTask
<1>5. ASSUME NEW b \in Tasks, BuildCube(t, b) PROVE TInv'
  <2>1. Childless(b)
    BY <1>5, ChildIsTask DEF BuildCube, Childless
  <2> QED
    BY <1>5, <2>1, ReturnKeeps DEF BuildCube, Return
<1>6. ASSUME NEW b \in Tasks, LeaveOut(t, b) PROVE TInv'
  <2>1. Childless(b)
    <3>1. made[b] = 0 /\ \A o \in Octants : o \geq made[b]
      BY <1>6, OctantsAre DEF LeaveOut, TInv, CreatedInOrder, Octants
    <3> QED
      BY <3>1 DEF TInv, CreatedInOrder, Childless, Pointer
  <2> QED
    BY <1>6, <2>1, ReturnKeeps DEF LeaveOut, Return
<1>7. ASSUME NEW b \in Tasks, Join(t, b) PROVE TInv'
  <2>1. Childless(b)
    BY <1>7 DEF Join, Children, Childless, Pointer
  <2> QED
    BY <1>7, <2>1, ReturnKeeps DEF Join, Return
<1> QED
  BY <1>1, <1>2, <1>3, <1>4, <1>5, <1>6, <1>7 DEF TreeThread, SkipSingle, TreeLeave
-----------------------------------------------------------------------------
\* For every team of threads, every grid and every field, and however OpenMP
\* schedules the tasks, the invariant of the octree holds (octreeTraverse(),
\* doBlock()).
THEOREM TreeInvariant ==
  TreeSpec => []TInv
<1>1. TreeInit => TInv
  BY InitInv
<1>2. TInv /\ [TreeNext]_<<meshVars, treeVars>> => TInv'
  BY ThreadKeeps, StutterKeeps DEF TreeNext
<1> QED
  BY <1>1, <1>2, PTL DEF TreeSpec

\* The pointer and the block that doBlock() hands its task belong to a call
\* that has not returned.
THEOREM TreeCreatorAlive ==
  TreeSpec => []CreatorAlive
<1>1. TInv => CreatorAlive
  BY DEF TInv
<1> QED
  BY <1>1, TreeInvariant, PTL

\* No task of doBlock() is run by two threads, or twice by one.
THEOREM TreeTaskByOneThread ==
  TreeSpec => []TaskByOneThread
<1>1. TInv => TaskByOneThread
  BY DEF TInv
<1> QED
  BY <1>1, TreeInvariant, PTL

-----------------------------------------------------------------------------
(* The tables of the MPI programs. *)

\* The entries of q are those of the collectives ops, one after the other.
IsQueue(q, ops) ==
  Len(q) = Len(ops) /\ q = [i \in 1 .. Len(ops) |-> Entry(ops[i], q[i].value)]

\* Where parsplit's root can be and another of its ranks: the calls a and b that
\* they enter next, the data d that the rank can take, and u, what it has
\* contributed.
SplitInStep(a, b, d, u) ==
  LET Are(x, y, taken, given) == a = x /\ b = y /\ IsQueue(d, taken) /\ IsQueue(u, given)
  IN  \/ Are("metadata", "metadata", << >>, << >>)
      \/ Are("scatter", "metadata", <<"metadata">>, << >>)
      \/ Are("scatter", "scatter", << >>, << >>)
      \/ Are("lengths", "metadata", <<"metadata", "scatter">>, << >>)
      \/ Are("lengths", "scatter", <<"scatter">>, << >>)
      \/ Are("lengths", "lengths", << >>, << >>)
      \/ Are("lengths", "less", << >>, <<"lengths">>)
      \/ Are("lengths", "greater", << >>, <<"lengths", "less">>)
      \/ Are("lengths", "finalized", << >>, <<"lengths", "less", "greater">>)
      \/ Are("less", "less", << >>, << >>)
      \/ Are("less", "greater", << >>, <<"less">>)
      \/ Are("less", "finalized", << >>, <<"less", "greater">>)
      \/ Are("greater", "greater", << >>, << >>)
      \/ Are("greater", "finalized", << >>, <<"greater">>)
      \/ Are("finalized", "finalized", << >>, << >>)

\* The same of parkmeans, round by round.
KMeansInStep(a, b, d, u) ==
  LET Are(x, y, taken, given) == a = x /\ b = y /\ IsQueue(d, taken) /\ IsQueue(u, given)
  IN  \/ Are("data", "data", << >>, << >>)
      \/ Are("sums", "data", <<"data">>, << >>)
      \/ Are("sums", "converged", <<"converged", "means">>, << >>)
      \/ Are("sums", "means", <<"means">>, << >>)
      \/ Are("sums", "sums", << >>, << >>)
      \/ Are("sums", "counts", << >>, <<"sums">>)
      \/ Are("sums", "converged", << >>, <<"sums", "counts">>)
      \/ Are("counts", "counts", << >>, << >>)
      \/ Are("counts", "converged", << >>, <<"counts">>)
      \/ Are("converged", "converged", << >>, << >>)
      \/ Are("means", "converged", <<"converged">>, << >>)
      \/ Are("means", "means", << >>, << >>)
      \/ Are("indices", "converged", <<"converged">>, << >>)
      \/ Are("indices", "indices", << >>, << >>)
      \/ Are("indices", "finalized", << >>, <<"indices">>)
      \/ Are("finalized", "finalized", << >>, << >>)

MpiShape == DOMAIN up = Others /\ DOMAIN down = Others

SplitInv ==
  /\ MpiShape /\ DOMAIN call = Ranks
  /\ \A r \in Others : SplitInStep(call[RootRank], call[r], down[r], up[r])

\* The rank is told to stop as the root does.
ToldToStop(a, b, d) ==
  b = "converged" /\ d # << >> => Head(d).value = (a = "indices")

\* When the root sums up, the rank's own means are the root's, or these are on
\* the way to it.
MeansUnderWay(a, b, d, own, roots) ==
  /\ a = "sums" =>
       CASE b = "data" -> roots = [c \in ClusterIds |-> Scale * Head(d).value[c]]
         [] b = "converged" /\ d # << >> -> Head(Tail(d)).value = roots
         [] b = "means" -> Head(d).value = roots
         [] OTHER -> own = roots
  /\ a = "counts" => own = roots

Follows(a, b, d, u, own, roots) ==
  KMeansInStep(a, b, d, u) /\ ToldToStop(a, b, d) /\ MeansUnderWay(a, b, d, own, roots)

KMeansInv ==
  /\ MpiShape /\ DOMAIN pc = Ranks /\ DOMAIN means = Ranks
  /\ converged \in [Ranks -> BOOLEAN]
  /\ \A r \in Others :
       Follows(pc[RootRank], pc[r], down[r], up[r], means[r], means[RootRank])

JobInv ==
  /\ program = "parsplit" => SplitInv
  /\ IF program = "parkmeans" THEN KMeansInv ELSE pc[RootRank] = "data"

\* And the tree of tasks is sound, whichever program runs.
PInv == JobInv /\ TInv
-----------------------------------------------------------------------------
(* Queues. *)

\* What a queue is, call by call.
LEMMA QueueIs ==
  ASSUME NEW O, NEW ops \in Seq(O), NEW q, IsQueue(q, ops)
  PROVE  /\ q \in Seq({q[i] : i \in 1 .. Len(ops)}) /\ Len(q) = Len(ops)
         /\ \A i \in 1 .. Len(ops) : q[i] = Entry(ops[i], q[i].value)
<1>1. Len(ops) \in Nat
  OBVIOUS
<1> DEFINE n == Len(ops)
           S == {q[i] : i \in 1 .. n}
<1>2. q = [i \in 1 .. n |-> Entry(ops[i], q[i].value)]
  BY DEF IsQueue
<1>3. \A i \in 1 .. n : q[i] = Entry(ops[i], q[i].value) /\ q[i] \in S
  BY <1>2
<1>4. DOMAIN q = 1 .. n /\ q = [i \in 1 .. n |-> q[i]]
  BY <1>2, <1>3
<1>5. q \in [1 .. n -> S]
  BY <1>3, <1>4
<1> HIDE DEF S, n
<1>6. q \in Seq(S)
  BY <1>1, <1>5, SeqDef DEF n
<1>7. Len(q) = n
  BY <1>1, <1>4, <1>6, LenProperties DEF n
<1> QED
  BY <1>3, <1>6, <1>7 DEF S, n

\* Nothing is queued.
LEMMA QueueNone ==
  /\ IsQueue(<< >>, << >>)
  /\ \A q : IsQueue(q, << >>) => q = << >>
BY DEF IsQueue

\* A collective is added at the end.
LEMMA QueuePut ==
  ASSUME NEW O, NEW ops \in Seq(O), NEW q, IsQueue(q, ops), NEW op \in O, NEW value
  PROVE  IsQueue(Append(q, Entry(op, value)), Append(ops, op))
<1> DEFINE e == Entry(op, value)
           n == Len(ops)
           S == {q[i] : i \in 1 .. n} \cup {e}
           z == Append(q, e)
           w == Append(ops, op)
<1>1. q \in Seq(S) /\ e \in S /\ Len(q) = n /\ n \in Nat
  <2> DEFINE T == {q[i] : i \in 1 .. n}
  <2>1. q \in Seq(T) /\ Len(q) = n
    BY QueueIs
  <2> HIDE DEF e
  <2>2. T \subseteq S /\ e \in S /\ n \in Nat
    OBVIOUS
  <2> HIDE DEF T, S
  <2>3. Seq(T) \subseteq Seq(S)
    BY <2>2, SeqMonotonic
  <2> QED
    BY <2>1, <2>2, <2>3
<1> HIDE DEF S
<1>2. /\ z \in Seq(S) /\ Len(z) = n + 1
      /\ \A i \in 1 .. n : z[i] = q[i]
      /\ z[n + 1] = e
  <2> HIDE DEF e
  <2>1. /\ Append(q, e) \in Seq(S) /\ Len(Append(q, e)) = Len(q) + 1
        /\ \A i \in 1 .. Len(q) : Append(q, e)[i] = q[i]
        /\ Append(q, e)[Len(q) + 1] = e
    BY <1>1, AppendProperties
  <2> QED
    BY <1>1, <2>1
<1>3. /\ w \in Seq(O) /\ Len(w) = n + 1
      /\ \A i \in 1 .. n : w[i] = ops[i]
      /\ w[n + 1] = op
  <2>1. /\ Append(ops, op) \in Seq(O) /\ Len(Append(ops, op)) = Len(ops) + 1
        /\ \A i \in 1 .. Len(ops) : Append(ops, op)[i] = ops[i]
        /\ Append(ops, op)[Len(ops) + 1] = op
    BY AppendProperties
  <2> QED
    BY <2>1
<1>4. e = Entry(op, e.value)
  BY DEF Entry
<1>5. \A i \in 1 .. n : q[i] = Entry(ops[i], q[i].value)
  BY QueueIs
<1> HIDE DEF e, z, w
<1>6. DOMAIN z = 1 .. n + 1 /\ z = [i \in 1 .. n + 1 |-> z[i]]
  BY <1>2
<1>7. \A i \in 1 .. n + 1 : z[i] = Entry(w[i], z[i].value)
  <2>1. \A i \in 1 .. n + 1 : i \in 1 .. n \/ i = n + 1
    BY <1>1
  <2> QED
    BY <1>2, <1>3, <1>4, <1>5, <2>1
<1>8. IsQueue(z, w)
  BY <1>3, <1>6, <1>7 DEF IsQueue
<1> QED
  BY <1>8 DEF e, z, w

\* The first one is taken.
LEMMA QueueTake ==
  ASSUME NEW O, NEW ops \in Seq(O), NEW q, IsQueue(q, ops), ops # << >>
  PROVE  q # << >> /\ Head(q).op = Head(ops) /\ IsQueue(Tail(q), Tail(ops))
<1> DEFINE n == Len(ops)
           S == {q[i] : i \in 1 .. n}
           z == Tail(q)
           w == Tail(ops)
<1>1. q \in Seq(S) /\ Len(q) = n /\ n \in Nat /\ n # 0
  BY QueueIs, EmptySeq
<1>2. q # << >>
  BY <1>1, EmptySeq
<1>3. \A i \in 1 .. n : q[i] = Entry(ops[i], q[i].value)
  BY QueueIs
<1> HIDE DEF S
<1>4. Head(q) = q[1] /\ Head(ops) = ops[1] /\ 1 \in 1 .. n
  BY <1>1, <1>2, HeadTailProperties
<1>5. Head(q).op = Head(ops)
  <2>1. q[1] = Entry(ops[1], q[1].value)
    BY <1>3, <1>4
  <2> QED
    BY <1>4, <2>1 DEF Entry
<1>6. z \in Seq(S) /\ Len(z) = n - 1 /\ \A i \in 1 .. n - 1 : z[i] = q[i + 1]
  BY <1>1, <1>2, HeadTailProperties
<1>7. w \in Seq(O) /\ Len(w) = n - 1 /\ \A i \in 1 .. n - 1 : w[i] = ops[i + 1]
  BY <1>1, HeadTailProperties
<1> HIDE DEF z, w
<1>8. \A i \in 1 .. n - 1 : z[i] = Entry(w[i], z[i].value)
  <2>1. \A i \in 1 .. n - 1 : i + 1 \in 1 .. n
    BY <1>1
  <2> QED
    BY <1>3, <1>6, <1>7, <2>1
<1>9. z = [i \in 1 .. n - 1 |-> z[i]]
  BY <1>1, <1>6
<1>10. IsQueue(z, w)
  BY <1>7, <1>8, <1>9 DEF IsQueue
<1> QED
  BY <1>2, <1>5, <1>10 DEF z, w

\* A sequence of a few elements that gets one more.
LEMMA AppendPair ==
  ASSUME NEW a, NEW b, NEW c
  PROVE  /\ Append(<< >>, a) = <<a>>
         /\ Append(<<a>>, b) = <<a, b>>
         /\ Append(<<a, b>>, c) = <<a, b, c>>
<1> DEFINE O == {a, b, c}
<1>1. a \in O /\ b \in O /\ c \in O
  OBVIOUS
<1> HIDE DEF O
<1>2. Append(<< >>, a) = <<a>>
  OBVIOUS
<1>3. ASSUME NEW s \in Seq(O), NEW x \in O, NEW z \in Seq(O), Len(z) = Len(s) + 1,
             z[Len(s) + 1] = x, \A i \in 1 .. Len(s) : z[i] = s[i]
      PROVE  Append(s, x) = z
  <2>1. /\ Append(s, x) \in Seq(O) /\ Len(Append(s, x)) = Len(s) + 1
        /\ \A i \in 1 .. Len(s) : Append(s, x)[i] = s[i]
        /\ Append(s, x)[Len(s) + 1] = x
    BY <1>3, AppendProperties
  <2> DEFINE w == Append(s, x)
  <2> HIDE DEF w
  <2>2. w \in Seq(O) /\ Len(w) = Len(z) /\ \A i \in 1 .. Len(w) : w[i] = z[i]
    BY <1>3, <2>1 DEF w
  <2>3. w = z
    BY <2>2, SeqEqual
  <2> QED
    BY <2>3 DEF w
<1>4. Append(<<a>>, b) = <<a, b>>
  <2>1. /\ <<a>> \in Seq(O) /\ <<a, b>> \in Seq(O) /\ Len(<<a, b>>) = Len(<<a>>) + 1
        /\ <<a, b>>[Len(<<a>>) + 1] = b /\ \A i \in 1 .. Len(<<a>>) : <<a, b>>[i] = <<a>>[i]
    BY <1>1
  <2> QED
    BY <1>1, <1>3, <2>1
<1>5. Append(<<a, b>>, c) = <<a, b, c>>
  <2>1. /\ <<a, b>> \in Seq(O) /\ <<a, b, c>> \in Seq(O)
        /\ Len(<<a, b, c>>) = Len(<<a, b>>) + 1 /\ <<a, b, c>>[Len(<<a, b>>) + 1] = c
        /\ \A i \in 1 .. Len(<<a, b>>) : <<a, b, c>>[i] = <<a, b>>[i]
    BY <1>1
  <2> QED
    BY <1>1, <1>3, <2>1
<1> QED
  BY <1>2, <1>4, <1>5

\* The same, for the queues that occur.
LEMMA PutOne ==
  ASSUME NEW q, NEW op, NEW value
  PROVE  /\ IsQueue(q, << >>) => IsQueue(Append(q, Entry(op, value)), <<op>>)
         /\ \A a : IsQueue(q, <<a>>) => IsQueue(Append(q, Entry(op, value)), <<a, op>>)
         /\ \A a, b : IsQueue(q, <<a, b>>) => IsQueue(Append(q, Entry(op, value)), <<a, b, op>>)
<1>1. ASSUME NEW O, op \in O, NEW ops \in Seq(O), IsQueue(q, ops)
      PROVE  IsQueue(Append(q, Entry(op, value)), Append(ops, op))
  BY <1>1, QueuePut
<1>2. ASSUME IsQueue(q, << >>)
      PROVE  IsQueue(Append(q, Entry(op, value)), <<op>>)
  <2>1. << >> \in Seq({op}) /\ op \in {op} /\ Append(<< >>, op) = <<op>>
    BY AppendPair
  <2>2. IsQueue(Append(q, Entry(op, value)), Append(<< >>, op))
    BY <1>1, <1>2, <2>1
  <2> QED
    BY <2>1, <2>2
<1>3. ASSUME NEW a, IsQueue(q, <<a>>)
      PROVE  IsQueue(Append(q, Entry(op, value)), <<a, op>>)
  <2>1. <<a>> \in Seq({a, op}) /\ op \in {a, op}
    OBVIOUS
  <2>2. IsQueue(Append(q, Entry(op, value)), Append(<<a>>, op))
    BY <1>1, <1>3, <2>1
  <2> QED
    BY <2>2, AppendPair
<1>4. ASSUME NEW a, NEW b, IsQueue(q, <<a, b>>)
      PROVE  IsQueue(Append(q, Entry(op, value)), <<a, b, op>>)
  <2>1. <<a, b>> \in Seq({a, b, op}) /\ op \in {a, b, op}
    OBVIOUS
  <2>2. IsQueue(Append(q, Entry(op, value)), Append(<<a, b>>, op))
    BY <1>1, <1>4, <2>1
  <2> QED
    BY <2>2, AppendPair
<1> QED
  BY <1>2, <1>3, <1>4

\* What is taken from the queues that occur.
LEMMA TakeOne ==
  ASSUME NEW q, NEW a
  PROVE  /\ IsQueue(q, <<a>>) => q # << >> /\ Head(q).op = a /\ IsQueue(Tail(q), << >>)
         /\ \A b : IsQueue(q, <<a, b>>) => q # << >> /\ Head(q).op = a /\ IsQueue(Tail(q), <<b>>)
         /\ \A b, c : IsQueue(q, <<a, b, c>>) =>
              q # << >> /\ Head(q).op = a /\ IsQueue(Tail(q), <<b, c>>)
<1>1. ASSUME NEW O, NEW ops \in Seq(O), IsQueue(q, ops), ops # << >>
      PROVE  q # << >> /\ Head(q).op = Head(ops) /\ IsQueue(Tail(q), Tail(ops))
  BY <1>1, QueueTake
<1>2. ASSUME IsQueue(q, <<a>>)
      PROVE  q # << >> /\ Head(q).op = a /\ IsQueue(Tail(q), << >>)
  <2>1. <<a>> \in Seq({a}) /\ <<a>> # << >> /\ Head(<<a>>) = a /\ Tail(<<a>>) = << >>
    OBVIOUS
  <2>2. q # << >> /\ Head(q).op = Head(<<a>>) /\ IsQueue(Tail(q), Tail(<<a>>))
    BY <1>1, <1>2, <2>1
  <2> QED
    BY <2>1, <2>2
<1>3. ASSUME NEW b, IsQueue(q, <<a, b>>)
      PROVE  q # << >> /\ Head(q).op = a /\ IsQueue(Tail(q), <<b>>)
  <2>1. /\ <<a, b>> \in Seq({a, b}) /\ <<a, b>> # << >>
        /\ Head(<<a, b>>) = a /\ Tail(<<a, b>>) = <<b>>
    OBVIOUS
  <2>2. q # << >> /\ Head(q).op = Head(<<a, b>>) /\ IsQueue(Tail(q), Tail(<<a, b>>))
    BY <1>1, <1>3, <2>1
  <2> QED
    BY <2>1, <2>2
<1>4. ASSUME NEW b, NEW c, IsQueue(q, <<a, b, c>>)
      PROVE  q # << >> /\ Head(q).op = a /\ IsQueue(Tail(q), <<b, c>>)
  <2>1. /\ <<a, b, c>> \in Seq({a, b, c}) /\ <<a, b, c>> # << >>
        /\ Head(<<a, b, c>>) = a /\ Tail(<<a, b, c>>) = <<b, c>>
    OBVIOUS
  <2>2. q # << >> /\ Head(q).op = Head(<<a, b, c>>) /\ IsQueue(Tail(q), Tail(<<a, b, c>>))
    BY <1>1, <1>4, <2>1
  <2> QED
    BY <2>1, <2>2
<1> QED
  BY <1>2, <1>3, <1>4
-----------------------------------------------------------------------------
(* parsplit. *)

\* What the table says of the data at the head of a queue.
LEMMA SplitHeads ==
  ASSUME NEW a, NEW b, NEW d, NEW u, SplitInStep(a, b, d, u)
  PROVE  (d # << >> => Head(d).op = b) /\ (u # << >> => Head(u).op = a)
BY QueueNone, TakeOne DEF SplitInStep

\* The root goes on to its next collective.
LEMMA SplitRootMoves ==
  ASSUME NEW b, NEW d, NEW u, NEW value
  PROVE  /\ SplitInStep("metadata", b, d, u)
              => SplitInStep("scatter", b, Append(d, Entry("metadata", value)), u)
         /\ SplitInStep("scatter", b, d, u)
              => SplitInStep("lengths", b, Append(d, Entry("scatter", value)), u)
         /\ SplitInStep("lengths", b, d, u) /\ u # << >> => SplitInStep("less", b, d, Tail(u))
         /\ SplitInStep("less", b, d, u) /\ u # << >> => SplitInStep("greater", b, d, Tail(u))
         /\ SplitInStep("greater", b, d, u) /\ u # << >>
              => SplitInStep("finalized", b, d, Tail(u))
<1>1. SplitInStep("metadata", b, d, u)
        => SplitInStep("scatter", b, Append(d, Entry("metadata", value)), u)
  BY PutOne DEF SplitInStep
<1>2. SplitInStep("scatter", b, d, u)
        => SplitInStep("lengths", b, Append(d, Entry("scatter", value)), u)
  BY PutOne DEF SplitInStep
<1>3. SplitInStep("lengths", b, d, u) /\ u # << >> => SplitInStep("less", b, d, Tail(u))
  BY QueueNone, TakeOne DEF SplitInStep
<1>4. SplitInStep("less", b, d, u) /\ u # << >> => SplitInStep("greater", b, d, Tail(u))
  BY QueueNone, TakeOne DEF SplitInStep
<1>5. SplitInStep("greater", b, d, u) /\ u # << >> => SplitInStep("finalized", b, d, Tail(u))
  BY QueueNone, TakeOne DEF SplitInStep
<1> QED
  BY <1>1, <1>2, <1>3, <1>4, <1>5

\* Another rank goes on to its next collective.
LEMMA SplitNodeMoves ==
  ASSUME NEW a, NEW d, NEW u, NEW value
  PROVE  /\ SplitInStep(a, "metadata", d, u) /\ d # << >> => SplitInStep(a, "scatter", Tail(d), u)
         /\ SplitInStep(a, "scatter", d, u) /\ d # << >> => SplitInStep(a, "lengths", Tail(d), u)
         /\ SplitInStep(a, "lengths", d, u)
              => SplitInStep(a, "less", d, Append(u, Entry("lengths", value)))
         /\ SplitInStep(a, "less", d, u)
              => SplitInStep(a, "greater", d, Append(u, Entry("less", value)))
         /\ SplitInStep(a, "greater", d, u)
              => SplitInStep(a, "finalized", d, Append(u, Entry("greater", value)))
<1>1. SplitInStep(a, "metadata", d, u) /\ d # << >> => SplitInStep(a, "scatter", Tail(d), u)
  BY QueueNone, TakeOne DEF SplitInStep
<1>2. SplitInStep(a, "scatter", d, u) /\ d # << >> => SplitInStep(a, "lengths", Tail(d), u)
  BY QueueNone, TakeOne DEF SplitInStep
<1>3. SplitInStep(a, "lengths", d, u)
        => SplitInStep(a, "less", d, Append(u, Entry("lengths", value)))
  BY PutOne DEF SplitInStep
<1>4. SplitInStep(a, "less", d, u)
        => SplitInStep(a, "greater", d, Append(u, Entry("less", value)))
  BY PutOne DEF SplitInStep
<1>5. SplitInStep(a, "greater", d, u)
        => SplitInStep(a, "finalized", d, Append(u, Entry("greater", value)))
  BY PutOne DEF SplitInStep
<1> QED
  BY <1>1, <1>2, <1>3, <1>4, <1>5

\* What the calls do to the queues of each rank.
LEMMA Distributed ==
  ASSUME MpiShape, NEW op, NEW value, Distribute(op, value)
  PROVE  /\ MpiShape' /\ up' = up
         /\ \A r \in Others : down'[r] = Append(down[r], Entry(op, value[r]))
BY DEF MpiShape, Distribute

\* A rank takes what the root has sent it.
LEMMA TakenBy ==
  ASSUME MpiShape, NEW r \in Others, Take(r)
  PROVE  /\ MpiShape' /\ up' = up /\ down'[r] = Tail(down[r])
         /\ \A s \in Others : s # r => down'[s] = down[s]
BY DEF MpiShape, Take

\* A rank contributes.
LEMMA ContributedBy ==
  ASSUME MpiShape, NEW r \in Others, NEW op, NEW value, Contribute(r, op, value)
  PROVE  /\ MpiShape' /\ down' = down /\ up'[r] = Append(up[r], Entry(op, value))
         /\ \A s \in Others : s # r => up'[s] = up[s]
BY DEF MpiShape, Contribute

\* The root takes a contribution of every rank.
LEMMA CollectedFrom ==
  ASSUME MpiShape, Collect
  PROVE  MpiShape' /\ down' = down /\ \A r \in Others : up'[r] = Tail(up[r])
BY DEF MpiShape, Collect

\* The root is a rank, and none of the others.
LEMMA RanksAre ==
  RootRank \in Ranks /\ \A r \in Others : r \in Ranks /\ r # RootRank
BY SizeAssumption DEF Ranks, RootRank, Others

\* A step of the root and one of another rank, as the invariant sees them.
LEMMA SplitRootStep ==
  ASSUME SplitInv, NEW point, Advance(RootRank, point), MpiShape',
         \A r \in Others : SplitInStep(point, call[r], down'[r], up'[r])
  PROVE  SplitInv'
<1>1. call' = [call EXCEPT ![RootRank] = point] /\ DOMAIN call = Ranks
  BY DEF Advance, SplitInv
<1>2. DOMAIN call' = Ranks /\ call'[RootRank] = point /\ \A r \in Others : call'[r] = call[r]
  BY <1>1, RanksAre
<1> QED
  BY <1>2 DEF SplitInv

\* A step of another rank, as the invariant sees it.
LEMMA SplitNodeStep ==
  ASSUME SplitInv, NEW r \in Others, NEW point, Advance(r, point), MpiShape',
         SplitInStep(call[RootRank], point, down'[r], up'[r]),
         \A s \in Others : s # r => down'[s] = down[s] /\ up'[s] = up[s]
  PROVE  SplitInv'
<1>1. call' = [call EXCEPT ![r] = point] /\ DOMAIN call = Ranks
  BY DEF Advance, SplitInv
<1>2. /\ DOMAIN call' = Ranks /\ call'[r] = point /\ call'[RootRank] = call[RootRank]
      /\ \A s \in Others : s # r => call'[s] = call[s]
  BY <1>1, RanksAre
<1>3. ASSUME NEW s \in Others
      PROVE  SplitInStep(call'[RootRank], call'[s], down'[s], up'[s])
  <2>1. CASE s = r
    BY <1>2, <2>1
  <2>2. CASE s # r
    BY <1>2, <2>2 DEF SplitInv
  <2> QED
    BY <2>1, <2>2
<1> QED
  BY <1>2, <1>3 DEF SplitInv

\* The steps of parsplit.
LEMMA SplitKeeps ==
  ASSUME SplitInv, SplitNext
  PROVE  SplitInv'
<1>1. MpiShape /\ \A r \in Others : SplitInStep(call[RootRank], call[r], down[r], up[r])
  BY DEF SplitInv
<1>2. CASE RootAborts
  BY <1>2 DEF RootAborts, Abort, splitVars, SplitInv, MpiShape
<1>3. CASE RootBcast
  <2>1. /\ call[RootRank] = "metadata" /\ Advance(RootRank, "scatter")
        /\ \E value : Distribute("metadata", value)
    BY <1>3 DEF RootBcast, At
  <2>2. PICK value : Distribute("metadata", value)
    BY <2>1
  <2>3. /\ MpiShape' /\ up' = up
        /\ \A r \in Others : down'[r] = Append(down[r], Entry("metadata", value[r]))
    BY <1>1, <2>2, Distributed
  <2>4. \A r \in Others : SplitInStep("scatter", call[r], down'[r], up'[r])
    BY <1>1, <2>1, <2>3, SplitRootMoves
  <2> QED
    BY <2>1, <2>3, <2>4, SplitRootStep
<1>4. CASE RootScatter
  <2>1. /\ call[RootRank] = "scatter" /\ Advance(RootRank, "lengths")
        /\ \E value : Distribute("scatter", value)
    BY <1>4 DEF RootScatter, At
  <2>2. PICK value : Distribute("scatter", value)
    BY <2>1
  <2>3. /\ MpiShape' /\ up' = up
        /\ \A r \in Others : down'[r] = Append(down[r], Entry("scatter", value[r]))
    BY <1>1, <2>2, Distributed
  <2>4. \A r \in Others : SplitInStep("lengths", call[r], down'[r], up'[r])
    BY <1>1, <2>1, <2>3, SplitRootMoves
  <2> QED
    BY <2>1, <2>3, <2>4, SplitRootStep
<1>5. ASSUME CanCollect, Collect
      PROVE  /\ MpiShape' /\ \A r \in Others : up[r] # << >>
             /\ \A r \in Others : down'[r] = down[r] /\ up'[r] = Tail(up[r])
  BY <1>1, <1>5, CollectedFrom DEF CanCollect
<1>6. CASE RootLengths
  <2>1. /\ call[RootRank] = "lengths" /\ Advance(RootRank, "less") /\ CanCollect /\ Collect
    BY <1>6 DEF RootLengths, At
  <2>2. \A r \in Others : SplitInStep("less", call[r], down'[r], up'[r])
    BY <1>1, <1>5, <2>1, SplitRootMoves
  <2> QED
    BY <1>5, <2>1, <2>2, SplitRootStep
<1>7. CASE RootLess
  <2>1. /\ call[RootRank] = "less" /\ Advance(RootRank, "greater") /\ CanCollect /\ Collect
    BY <1>7 DEF RootLess, At
  <2>2. \A r \in Others : SplitInStep("greater", call[r], down'[r], up'[r])
    BY <1>1, <1>5, <2>1, SplitRootMoves
  <2> QED
    BY <1>5, <2>1, <2>2, SplitRootStep
<1>8. CASE RootGreater
  <2>1. /\ call[RootRank] = "greater" /\ Advance(RootRank, "finalized") /\ CanCollect /\ Collect
    BY <1>8 DEF RootGreater, At
  <2>2. \A r \in Others : SplitInStep("finalized", call[r], down'[r], up'[r])
    BY <1>1, <1>5, <2>1, SplitRootMoves
  <2> QED
    BY <1>5, <2>1, <2>2, SplitRootStep
<1>9. ASSUME NEW r \in Others, SplitNode(r)
      PROVE  SplitInv'
  <2>1. CASE NodeBcast(r)
    <3>1. call[r] = "metadata" /\ Advance(r, "scatter") /\ down[r] # << >> /\ Take(r)
      BY <2>1 DEF NodeBcast, At, CanTake
    <3>2. /\ MpiShape' /\ up' = up /\ down'[r] = Tail(down[r])
          /\ \A s \in Others : s # r => down'[s] = down[s]
      BY <1>1, <3>1, TakenBy
    <3>3. SplitInStep(call[RootRank], "scatter", down'[r], up'[r])
      BY <1>1, <3>1, <3>2, SplitNodeMoves
    <3> QED
      BY <3>1, <3>2, <3>3, SplitNodeStep
  <2>2. CASE NodeScatter(r)
    <3>1. call[r] = "scatter" /\ Advance(r, "lengths") /\ down[r] # << >> /\ Take(r)
      BY <2>2 DEF NodeScatter, At, CanTake
    <3>2. /\ MpiShape' /\ up' = up /\ down'[r] = Tail(down[r])
          /\ \A s \in Others : s # r => down'[s] = down[s]
      BY <1>1, <3>1, TakenBy
    <3>3. SplitInStep(call[RootRank], "lengths", down'[r], up'[r])
      BY <1>1, <3>1, <3>2, SplitNodeMoves
    <3> QED
      BY <3>1, <3>2, <3>3, SplitNodeStep
  <2>3. CASE NodeLengths(r)
    <3>1. call[r] = "lengths" /\ Advance(r, "less") /\ Contribute(r, "lengths", Lengths(r))
      BY <2>3 DEF NodeLengths, At
    <3>2. /\ MpiShape' /\ down' = down /\ up'[r] = Append(up[r], Entry("lengths", Lengths(r)))
          /\ \A s \in Others : s # r => up'[s] = up[s]
      BY <1>1, <3>1, ContributedBy
    <3>3. SplitInStep(call[RootRank], "less", down'[r], up'[r])
      BY <1>1, <3>1, <3>2, SplitNodeMoves
    <3> QED
      BY <3>1, <3>2, <3>3, SplitNodeStep
  <2>4. CASE NodeLess(r)
    <3>1. call[r] = "less" /\ Advance(r, "greater") /\ Contribute(r, "less", Less(r))
      BY <2>4 DEF NodeLess, At
    <3>2. /\ MpiShape' /\ down' = down /\ up'[r] = Append(up[r], Entry("less", Less(r)))
          /\ \A s \in Others : s # r => up'[s] = up[s]
      BY <1>1, <3>1, ContributedBy
    <3>3. SplitInStep(call[RootRank], "greater", down'[r], up'[r])
      BY <1>1, <3>1, <3>2, SplitNodeMoves
    <3> QED
      BY <3>1, <3>2, <3>3, SplitNodeStep
  <2>5. CASE NodeGreater(r)
    <3>1. call[r] = "greater" /\ Advance(r, "finalized") /\ Contribute(r, "greater", Greater(r))
      BY <2>5 DEF NodeGreater, At
    <3>2. /\ MpiShape' /\ down' = down /\ up'[r] = Append(up[r], Entry("greater", Greater(r)))
          /\ \A s \in Others : s # r => up'[s] = up[s]
      BY <1>1, <3>1, ContributedBy
    <3>3. SplitInStep(call[RootRank], "finalized", down'[r], up'[r])
      BY <1>1, <3>1, <3>2, SplitNodeMoves
    <3> QED
      BY <3>1, <3>2, <3>3, SplitNodeStep
  <2> QED
    BY <1>9, <2>1, <2>2, <2>3, <2>4, <2>5 DEF SplitNode
<1> QED
  BY <1>2, <1>3, <1>4, <1>6, <1>7, <1>8, <1>9 DEF SplitNext, SplitRoot
-----------------------------------------------------------------------------
(* parkmeans: the root. *)

\* What is read from a queue to which an entry was added.
LEMMA PutHead ==
  ASSUME NEW q, NEW e
  PROVE  /\ IsQueue(q, << >>) => Append(q, e) # << >> /\ Head(Append(q, e)) = e
         /\ \A a : IsQueue(q, <<a>>) =>
              /\ Append(q, e) # << >> /\ Head(Append(q, e)) = Head(q)
              /\ Head(Tail(Append(q, e))) = e
<1>1. ASSUME IsQueue(q, << >>)
      PROVE  Append(q, e) # << >> /\ Head(Append(q, e)) = e
  <2>1. q = << >> /\ Append(<< >>, e) = <<e>>
    BY <1>1, QueueNone, AppendPair
  <2> QED
    BY <2>1
<1>2. ASSUME NEW a, IsQueue(q, <<a>>)
      PROVE  /\ Append(q, e) # << >> /\ Head(Append(q, e)) = Head(q)
             /\ Head(Tail(Append(q, e))) = e
  <2>1. q = <<q[1]>>
    BY <1>2 DEF IsQueue
  <2>2. Append(q, e) = <<q[1], e>>
    BY <2>1, AppendPair
  <2> QED
    BY <2>1, <2>2
<1> QED
  BY <1>1, <1>2

\* What the table of parkmeans says of the data at the head of a queue.
LEMMA KMeansHeads ==
  ASSUME NEW a, NEW b, NEW d, NEW u, KMeansInStep(a, b, d, u)
  PROVE  (d # << >> => Head(d).op = b) /\ (u # << >> => Head(u).op = a)
BY QueueNone, TakeOne DEF KMeansInStep

\* The root goes on to its next collective.
LEMMA RootDataFollows ==
  ASSUME NEW b, NEW d, NEW u, NEW own, NEW m, NEW value, Follows("data", b, d, u, own, m)
  PROVE  Follows("sums", b, Append(d, Entry("data", value)), u, own,
                 [c \in ClusterIds |-> Scale * value[c]])
<1>1. b = "data" /\ IsQueue(d, << >>) /\ IsQueue(u, << >>)
  BY DEF Follows, KMeansInStep
<1>2. IsQueue(Append(d, Entry("data", value)), <<"data">>)
  BY <1>1, PutOne
<1>3. Head(Append(d, Entry("data", value))).value = value
  <2>1. Head(Append(d, Entry("data", value))) = Entry("data", value)
    BY <1>1, PutHead
  <2> QED
    BY <2>1 DEF Entry
<1> QED
  BY <1>1, <1>2, <1>3 DEF Follows, KMeansInStep, ToldToStop, MeansUnderWay

\* RootSums: the rank has contributed, so its means are the root's.
LEMMA RootSumsFollows ==
  ASSUME NEW b, NEW d, NEW u, NEW own, NEW m, Follows("sums", b, d, u, own, m), u # << >>
  PROVE  Follows("counts", b, d, Tail(u), own, m)
<1>1. /\ d = << >> /\ b \in {"counts", "converged"}
      /\ KMeansInStep("counts", b, d, Tail(u))
  BY QueueNone, TakeOne DEF Follows, KMeansInStep
<1> QED
  BY <1>1 DEF Follows, ToldToStop, MeansUnderWay

\* RootCounts: nobody is waiting for means when the root has new ones.
LEMMA RootCountsFollows ==
  ASSUME NEW b, NEW d, NEW u, NEW own, NEW m, Follows("counts", b, d, u, own, m),
         u # << >>, NEW new
  PROVE  Follows("converged", b, d, Tail(u), own, new)
<1>1. d = << >> /\ KMeansInStep("converged", b, d, Tail(u))
  BY QueueNone, TakeOne DEF Follows, KMeansInStep
<1> QED
  BY <1>1 DEF Follows, ToldToStop, MeansUnderWay

\* RootConverged: the other ranks are sent the root's verdict.
LEMMA RootConvergedFollows ==
  ASSUME NEW b, NEW d, NEW u, NEW own, NEW m, NEW value \in BOOLEAN,
         Follows("converged", b, d, u, own, m)
  PROVE  Follows(AfterConverged(value), b, Append(d, Entry("converged", value)), u, own, m)
<1>1. b = "converged" /\ IsQueue(d, << >>) /\ IsQueue(u, << >>)
  BY DEF Follows, KMeansInStep
<1>2. IsQueue(Append(d, Entry("converged", value)), <<"converged">>)
  BY <1>1, PutOne
<1>3. Head(Append(d, Entry("converged", value))).value = value
  <2>1. Head(Append(d, Entry("converged", value))) = Entry("converged", value)
    BY <1>1, PutHead
  <2> QED
    BY <2>1 DEF Entry
<1>4. AfterConverged(value) = IF value THEN "indices" ELSE "means"
  BY DEF AfterConverged
<1>5. KMeansInStep(AfterConverged(value), b, Append(d, Entry("converged", value)), u)
  BY <1>1, <1>2, <1>4 DEF KMeansInStep
<1> QED
  BY <1>1, <1>3, <1>4, <1>5 DEF Follows, ToldToStop, MeansUnderWay

\* RootMeans: what follows a verdict to go on.
LEMMA RootMeansFollows ==
  ASSUME NEW b, NEW d, NEW u, NEW own, NEW m, Follows("means", b, d, u, own, m)
  PROVE  Follows("sums", b, Append(d, Entry("means", m)), u, own, m)
<1> DEFINE z == Append(d, Entry("means", m))
<1>1. Entry("means", m).value = m
  BY DEF Entry
<1>2. CASE b = "converged"
  <2>1. IsQueue(d, <<"converged">>) /\ IsQueue(u, << >>) /\ d # << >> /\ Head(d).value = FALSE
    BY <1>2, TakeOne DEF Follows, KMeansInStep, ToldToStop
  <2>2. /\ IsQueue(z, <<"converged", "means">>)
        /\ z # << >> /\ Head(z) = Head(d) /\ Head(Tail(z)).value = m
    BY <1>1, <2>1, PutOne, PutHead
  <2> HIDE DEF z
  <2>3. Follows("sums", b, z, u, own, m)
    BY <1>2, <2>1, <2>2 DEF Follows, KMeansInStep, ToldToStop, MeansUnderWay
  <2> QED
    BY <2>3 DEF z
<1>3. CASE b = "means"
  <2>1. IsQueue(d, << >>) /\ IsQueue(u, << >>)
    BY <1>3 DEF Follows, KMeansInStep
  <2>2. IsQueue(z, <<"means">>) /\ Head(z).value = m
    BY <1>1, <2>1, PutOne, PutHead
  <2> HIDE DEF z
  <2>3. Follows("sums", b, z, u, own, m)
    BY <1>3, <2>1, <2>2 DEF Follows, KMeansInStep, ToldToStop, MeansUnderWay
  <2> QED
    BY <2>3 DEF z
<1>4. b = "converged" \/ b = "means"
  BY DEF Follows, KMeansInStep
<1> QED
  BY <1>2, <1>3, <1>4

\* RootIndices: the last collective.
LEMMA RootIndicesFollows ==
  ASSUME NEW b, NEW d, NEW u, NEW own, NEW m, Follows("indices", b, d, u, own, m), u # << >>
  PROVE  Follows("finalized", b, d, Tail(u), own, m)
<1>1. b = "finalized" /\ KMeansInStep("finalized", b, d, Tail(u))
  BY QueueNone, TakeOne DEF Follows, KMeansInStep
<1> QED
  BY <1>1 DEF Follows, ToldToStop, MeansUnderWay
-----------------------------------------------------------------------------
(* parkmeans: the other ranks. *)

\* Another rank goes on to its next collective.
LEMMA NodeDataFollows ==
  ASSUME NEW a, NEW d, NEW u, NEW own, NEW m, Follows(a, "data", d, u, own, m), d # << >>
  PROVE  Follows(a, "sums", Tail(d), u, [c \in ClusterIds |-> Scale * Head(d).value[c]], m)
<1>1. a = "sums" /\ IsQueue(u, << >>) /\ IsQueue(Tail(d), << >>)
  BY QueueNone, TakeOne DEF Follows, KMeansInStep
<1>2. m = [c \in ClusterIds |-> Scale * Head(d).value[c]]
  BY <1>1 DEF Follows, MeansUnderWay
<1> QED
  BY <1>1, <1>2 DEF Follows, KMeansInStep, ToldToStop, MeansUnderWay

\* NodeSums: the rank has the means of the root, which waits for the sums.
LEMMA NodeSumsFollows ==
  ASSUME NEW a, NEW d, NEW u, NEW own, NEW m, NEW value, Follows(a, "sums", d, u, own, m)
  PROVE  Follows(a, "counts", d, Append(u, Entry("sums", value)), own, m)
<1>1. a = "sums" /\ IsQueue(d, << >>) /\ IsQueue(Append(u, Entry("sums", value)), <<"sums">>)
  BY PutOne DEF Follows, KMeansInStep
<1> QED
  BY <1>1 DEF Follows, KMeansInStep, ToldToStop, MeansUnderWay

\* NodeCounts: the root may still be waiting for the sums of others.
LEMMA NodeCountsFollows ==
  ASSUME NEW a, NEW d, NEW u, NEW own, NEW m, NEW value, Follows(a, "counts", d, u, own, m)
  PROVE  Follows(a, "converged", d, Append(u, Entry("counts", value)), own, m)
<1> DEFINE z == Append(u, Entry("counts", value))
<1>1. /\ IsQueue(d, << >>) /\ d = << >>
      /\ \/ a = "sums" /\ IsQueue(z, <<"sums", "counts">>)
         \/ a = "counts" /\ IsQueue(z, <<"counts">>)
  BY QueueNone, PutOne DEF Follows, KMeansInStep
<1> HIDE DEF z
<1>2. KMeansInStep(a, "converged", d, z)
  BY <1>1 DEF KMeansInStep
<1>3. Follows(a, "converged", d, z, own, m)
  BY <1>1, <1>2 DEF Follows, ToldToStop, MeansUnderWay
<1> QED
  BY <1>3 DEF z

\* NodeConverged: the rank goes where the root went.
LEMMA NodeConvergedFollows ==
  ASSUME NEW a, NEW d, NEW u, NEW own, NEW m, Follows(a, "converged", d, u, own, m), d # << >>
  PROVE  /\ Head(d).value \in BOOLEAN
         /\ Follows(a, AfterConverged(Head(d).value), Tail(d), u, own, m)
<1>1. Head(d).value = (a = "indices")
  BY DEF Follows, ToldToStop
<1>2. /\ IsQueue(u, << >>)
      /\ \/ a = "sums" /\ IsQueue(Tail(d), <<"means">>)
         \/ a = "means" /\ IsQueue(Tail(d), << >>)
         \/ a = "indices" /\ IsQueue(Tail(d), << >>)
  BY QueueNone, TakeOne DEF Follows, KMeansInStep
<1>3. AfterConverged(Head(d).value) = IF a = "indices" THEN "indices" ELSE "means"
  BY <1>1 DEF AfterConverged
<1>4. KMeansInStep(a, AfterConverged(Head(d).value), Tail(d), u)
  BY <1>2, <1>3 DEF KMeansInStep
<1>5. a = "sums" => Head(Tail(d)).value = m
  BY DEF Follows, MeansUnderWay
<1> QED
  BY <1>1, <1>2, <1>3, <1>4, <1>5 DEF Follows, ToldToStop, MeansUnderWay

\* NodeMeans: the rank has the root's means again.
LEMMA NodeMeansFollows ==
  ASSUME NEW a, NEW d, NEW u, NEW own, NEW m, Follows(a, "means", d, u, own, m), d # << >>
  PROVE  Follows(a, "sums", Tail(d), u, Head(d).value, m)
<1>1. a = "sums" /\ IsQueue(u, << >>) /\ IsQueue(Tail(d), << >>)
  BY QueueNone, TakeOne DEF Follows, KMeansInStep
<1>2. Head(d).value = m
  BY <1>1 DEF Follows, MeansUnderWay
<1> QED
  BY <1>1, <1>2 DEF Follows, KMeansInStep, ToldToStop, MeansUnderWay

\* NodeIndices: the rank is done.
LEMMA NodeIndicesFollows ==
  ASSUME NEW a, NEW d, NEW u, NEW own, NEW m, NEW value, Follows(a, "indices", d, u, own, m)
  PROVE  Follows(a, "finalized", d, Append(u, Entry("indices", value)), own, m)
<1>1. /\ a = "indices" /\ IsQueue(d, << >>)
      /\ IsQueue(Append(u, Entry("indices", value)), <<"indices">>)
  BY PutOne DEF Follows, KMeansInStep
<1> QED
  BY <1>1 DEF Follows, KMeansInStep, ToldToStop, MeansUnderWay

\* A step of the root and one of another rank, as the invariant sees them.
LEMMA KMeansRootStep ==
  ASSUME KMeansInv, NEW point, Move(RootRank, point), MpiShape',
         DOMAIN means' = Ranks, \A r \in Others : means'[r] = means[r],
         converged' \in [Ranks -> BOOLEAN],
         \A r \in Others : Follows(point, pc[r], down'[r], up'[r], means[r], means'[RootRank])
  PROVE  KMeansInv'
<1>1. pc' = [pc EXCEPT ![RootRank] = point] /\ DOMAIN pc = Ranks
  BY DEF Move, KMeansInv
<1>2. DOMAIN pc' = Ranks /\ pc'[RootRank] = point /\ \A r \in Others : pc'[r] = pc[r]
  BY <1>1, RanksAre
<1> QED
  BY <1>2 DEF KMeansInv

\* A step of another rank of parkmeans, as the invariant sees it.
LEMMA KMeansNodeStep ==
  ASSUME KMeansInv, NEW r \in Others, NEW point, Move(r, point), MpiShape',
         DOMAIN means' = Ranks, \A s \in Ranks : s # r => means'[s] = means[s],
         converged' \in [Ranks -> BOOLEAN],
         Follows(pc[RootRank], point, down'[r], up'[r], means'[r], means[RootRank]),
         \A s \in Others : s # r => down'[s] = down[s] /\ up'[s] = up[s]
  PROVE  KMeansInv'
<1>1. pc' = [pc EXCEPT ![r] = point] /\ DOMAIN pc = Ranks
  BY DEF Move, KMeansInv
<1>2. /\ DOMAIN pc' = Ranks /\ pc'[r] = point
      /\ pc'[RootRank] = pc[RootRank] /\ means'[RootRank] = means[RootRank]
      /\ \A s \in Others : s # r => pc'[s] = pc[s] /\ means'[s] = means[s]
  BY <1>1, RanksAre
<1>3. ASSUME NEW s \in Others
      PROVE  Follows(pc'[RootRank], pc'[s], down'[s], up'[s], means'[s], means'[RootRank])
  <2>1. CASE s = r
    BY <1>2, <2>1
  <2>2. CASE s # r
    BY <1>2, <2>2 DEF KMeansInv
  <2> QED
    BY <2>1, <2>2
<1> QED
  BY <1>2, <1>3 DEF KMeansInv

\* The steps of parkmeans' root.
LEMMA KMeansRootKeeps ==
  ASSUME KMeansInv, KMeansRoot
  PROVE  KMeansInv'
<1>1. /\ MpiShape /\ DOMAIN means = Ranks /\ converged \in [Ranks -> BOOLEAN]
      /\ \A r \in Others : Follows(pc[RootRank], pc[r], down[r], up[r], means[r], means[RootRank])
  BY DEF KMeansInv
<1>2. ASSUME CanCollect, Collect
      PROVE  /\ MpiShape' /\ \A r \in Others : up[r] # << >>
             /\ \A r \in Others : down'[r] = down[r] /\ up'[r] = Tail(up[r])
  BY <1>1, <1>2, CollectedFrom DEF CanCollect
<1>3. CASE TooFewNumbers
  BY <1>3 DEF TooFewNumbers, Abort, kmeansVars, KMeansInv, MpiShape
<1>4. CASE RootData
  <2> DEFINE value == [r \in Ranks |-> numbers[r + 1]]
             sent == [r \in Others |-> value]
             new == [c \in ClusterIds |-> Scale * value[c]]
  <2>1. /\ pc[RootRank] = "data" /\ Move(RootRank, "sums") /\ Distribute("data", sent)
        /\ means' = [means EXCEPT ![RootRank] = new] /\ converged' = converged
    BY <1>4 DEF RootData, Ready, Begin
  <2> HIDE DEF value, new
  <2>2. /\ DOMAIN means' = Ranks /\ means'[RootRank] = new
        /\ \A r \in Others : means'[r] = means[r]
    BY <1>1, <2>1, RanksAre
  <2>3. /\ MpiShape' /\ up' = up
        /\ \A r \in Others : down'[r] = Append(down[r], Entry("data", value))
    <3>1. \A r \in Others : sent[r] = value
      OBVIOUS
    <3> HIDE DEF sent
    <3>2. /\ MpiShape' /\ up' = up
          /\ \A r \in Others : down'[r] = Append(down[r], Entry("data", sent[r]))
      BY <1>1, <2>1, Distributed
    <3> QED
      BY <3>1, <3>2
  <2>4. \A r \in Others : Follows("sums", pc[r], down'[r], up'[r], means[r], new)
    <3> SUFFICES ASSUME NEW r \in Others
                 PROVE  Follows("sums", pc[r], down'[r], up'[r], means[r], new)
      OBVIOUS
    <3>1. Follows("data", pc[r], down[r], up[r], means[r], means[RootRank])
      BY <1>1, <2>1
    <3>2. Follows("sums", pc[r], Append(down[r], Entry("data", value)), up[r], means[r], new)
      BY <3>1, RootDataFollows DEF new
    <3> QED
      BY <2>3, <3>2
  <2> QED
    BY <1>1, <2>1, <2>2, <2>3, <2>4, KMeansRootStep
<1>5. CASE RootSums
  <2>1. /\ pc[RootRank] = "sums" /\ Move(RootRank, "counts") /\ CanCollect /\ Collect
        /\ means' = means /\ converged' = converged
    BY <1>5 DEF RootSums, Ready
  <2>2. \A r \in Others : Follows("counts", pc[r], down'[r], up'[r], means[r], means[RootRank])
    BY <1>1, <1>2, <2>1, RootSumsFollows
  <2> QED
    BY <1>1, <1>2, <2>1, <2>2, KMeansRootStep
<1>6. CASE RootCounts
  <2>1. /\ pc[RootRank] = "counts" /\ Move(RootRank, "converged") /\ CanCollect /\ Collect
        /\ \E new : /\ means' = [means EXCEPT ![RootRank] = new]
                    /\ converged' = [converged EXCEPT ![RootRank] = new = means[RootRank]]
    BY <1>6 DEF RootCounts, Ready
  <2>2. /\ DOMAIN means' = Ranks /\ \A r \in Others : means'[r] = means[r]
        /\ converged' \in [Ranks -> BOOLEAN]
    BY <1>1, <2>1, RanksAre
  <2>3. \A r \in Others :
          Follows("converged", pc[r], down'[r], up'[r], means[r], means'[RootRank])
    BY <1>1, <1>2, <2>1, RootCountsFollows
  <2> QED
    BY <1>2, <2>1, <2>2, <2>3, KMeansRootStep
<1>7. CASE RootConverged
  <2> DEFINE value == converged[RootRank]
  <2>1. /\ pc[RootRank] = "converged" /\ Move(RootRank, AfterConverged(value))
        /\ Distribute("converged", [r \in Others |-> value])
        /\ means' = means /\ converged' = converged
    BY <1>7 DEF RootConverged, Ready
  <2>2. value \in BOOLEAN
    BY <1>1, RanksAre
  <2> HIDE DEF value
  <2>3. /\ MpiShape' /\ up' = up
        /\ \A r \in Others : down'[r] = Append(down[r], Entry("converged", value))
    BY <1>1, <2>1, Distributed
  <2>4. \A r \in Others :
          Follows(AfterConverged(value), pc[r], down'[r], up'[r], means[r], means[RootRank])
    BY <1>1, <2>1, <2>2, <2>3, RootConvergedFollows
  <2> QED
    BY <1>1, <2>1, <2>3, <2>4, KMeansRootStep
<1>8. CASE RootMeans
  <2> DEFINE value == means[RootRank]
  <2>1. /\ pc[RootRank] = "means" /\ Move(RootRank, "sums")
        /\ Distribute("means", [r \in Others |-> value])
        /\ means' = means /\ converged' = converged
    BY <1>8 DEF RootMeans, Ready
  <2>2. /\ MpiShape' /\ up' = up
        /\ \A r \in Others : down'[r] = Append(down[r], Entry("means", value))
    BY <1>1, <2>1, Distributed
  <2>3. \A r \in Others : Follows("sums", pc[r], down'[r], up'[r], means[r], means[RootRank])
    BY <1>1, <2>1, <2>2, RootMeansFollows
  <2> QED
    BY <1>1, <2>1, <2>2, <2>3, KMeansRootStep
<1>9. CASE RootIndices
  <2>1. /\ pc[RootRank] = "indices" /\ Move(RootRank, "finalized") /\ CanCollect /\ Collect
        /\ means' = means /\ converged' = converged
    BY <1>9 DEF RootIndices, Ready
  <2>2. \A r \in Others : Follows("finalized", pc[r], down'[r], up'[r], means[r], means[RootRank])
    BY <1>1, <1>2, <2>1, RootIndicesFollows
  <2> QED
    BY <1>1, <1>2, <2>1, <2>2, KMeansRootStep
<1> QED
  BY <1>3, <1>4, <1>5, <1>6, <1>7, <1>8, <1>9 DEF KMeansRoot

\* The steps of parkmeans' other ranks.
LEMMA KMeansNodeKeeps ==
  ASSUME KMeansInv, NEW r \in Others, KMeansNode(r)
  PROVE  KMeansInv'
<1>1. /\ MpiShape /\ DOMAIN means = Ranks /\ converged \in [Ranks -> BOOLEAN]
      /\ Follows(pc[RootRank], pc[r], down[r], up[r], means[r], means[RootRank])
      /\ r \in Ranks
  BY RanksAre DEF KMeansInv
<1>2. ASSUME Take(r)
      PROVE  /\ MpiShape' /\ down'[r] = Tail(down[r]) /\ up'[r] = up[r]
             /\ \A s \in Others : s # r => down'[s] = down[s] /\ up'[s] = up[s]
  BY <1>1, <1>2, TakenBy
<1>3. ASSUME NEW op, NEW value, Contribute(r, op, value)
      PROVE  /\ MpiShape' /\ down'[r] = down[r] /\ up'[r] = Append(up[r], Entry(op, value))
             /\ \A s \in Others : s # r => down'[s] = down[s] /\ up'[s] = up[s]
  BY <1>1, <1>3, ContributedBy
<1>4. ASSUME NEW new, means' = [means EXCEPT ![r] = new]
      PROVE  /\ DOMAIN means' = Ranks /\ means'[r] = new
             /\ \A s \in Ranks : s # r => means'[s] = means[s]
  BY <1>1, <1>4
<1>5. CASE NodeData(r)
  <2> DEFINE new == [c \in ClusterIds |-> Scale * Head(down[r]).value[c]]
  <2>1. /\ pc[r] = "data" /\ Move(r, "sums") /\ down[r] # << >> /\ Take(r)
        /\ means' = [means EXCEPT ![r] = new] /\ converged' = converged
    BY <1>5 DEF NodeData, Ready, Begin, CanTake, Taken
  <2>2. Follows(pc[RootRank], "sums", down'[r], up'[r], new, means[RootRank])
    BY <1>1, <1>2, <2>1, NodeDataFollows
  <2> HIDE DEF new
  <2> QED
    BY <1>1, <1>2, <1>4, <2>1, <2>2, KMeansNodeStep
<1>6. CASE NodeSums(r)
  <2>1. /\ pc[r] = "sums" /\ Move(r, "counts") /\ \E value : Contribute(r, "sums", value)
        /\ means' = means /\ converged' = converged
    BY <1>6 DEF NodeSums, Ready
  <2>2. PICK value : Contribute(r, "sums", value)
    BY <2>1
  <2>3. Follows(pc[RootRank], "counts", down[r], Append(up[r], Entry("sums", value)),
                means[r], means[RootRank])
    BY <1>1, <2>1, NodeSumsFollows
  <2>4. down'[r] = down[r] /\ up'[r] = Append(up[r], Entry("sums", value))
    BY <1>3, <2>2
  <2>5. Follows(pc[RootRank], "counts", down'[r], up'[r], means[r], means[RootRank])
    BY <2>3, <2>4
  <2> QED
    BY <1>1, <1>3, <2>1, <2>2, <2>5, KMeansNodeStep
<1>7. CASE NodeCounts(r)
  <2>1. /\ pc[r] = "counts" /\ Move(r, "converged") /\ Contribute(r, "counts", OwnCounts(r))
        /\ means' = means /\ converged' = converged
    BY <1>7 DEF NodeCounts, Ready
  <2>2. Follows(pc[RootRank], "converged", down[r], Append(up[r], Entry("counts", OwnCounts(r))),
                means[r], means[RootRank])
    BY <1>1, <2>1, NodeCountsFollows
  <2>3. down'[r] = down[r] /\ up'[r] = Append(up[r], Entry("counts", OwnCounts(r)))
    BY <1>3, <2>1
  <2>4. Follows(pc[RootRank], "converged", down'[r], up'[r], means[r], means[RootRank])
    BY <2>2, <2>3
  <2> QED
    BY <1>1, <1>3, <2>1, <2>4, KMeansNodeStep
<1>8. CASE NodeConverged(r)
  <2> DEFINE value == Head(down[r]).value
  <2>1. /\ pc[r] = "converged" /\ Move(r, AfterConverged(value)) /\ down[r] # << >> /\ Take(r)
        /\ means' = means /\ converged' = [converged EXCEPT ![r] = value]
    BY <1>8 DEF NodeConverged, Ready, CanTake, Taken
  <2>2. /\ value \in BOOLEAN
        /\ Follows(pc[RootRank], AfterConverged(value), down'[r], up'[r],
                   means[r], means[RootRank])
    BY <1>1, <1>2, <2>1, NodeConvergedFollows
  <2>3. converged' \in [Ranks -> BOOLEAN]
    BY <1>1, <2>1, <2>2
  <2> QED
    BY <1>1, <1>2, <2>1, <2>2, <2>3, KMeansNodeStep
<1>9. CASE NodeMeans(r)
  <2> DEFINE new == Head(down[r]).value
  <2>1. /\ pc[r] = "means" /\ Move(r, "sums") /\ down[r] # << >> /\ Take(r)
        /\ means' = [means EXCEPT ![r] = new] /\ converged' = converged
    BY <1>9 DEF NodeMeans, Ready, CanTake, Taken
  <2>2. Follows(pc[RootRank], "sums", down'[r], up'[r], new, means[RootRank])
    BY <1>1, <1>2, <2>1, NodeMeansFollows
  <2> HIDE DEF new
  <2> QED
    BY <1>1, <1>2, <1>4, <2>1, <2>2, KMeansNodeStep
<1>10. CASE NodeIndices(r)
  <2>1. /\ pc[r] = "indices" /\ Move(r, "finalized") /\ Contribute(r, "indices", minIndex[r])
        /\ means' = means /\ converged' = converged
    BY <1>10 DEF NodeIndices, Ready
  <2>2. Follows(pc[RootRank], "finalized", down[r], Append(up[r], Entry("indices", minIndex[r])),
                means[r], means[RootRank])
    BY <1>1, <2>1, NodeIndicesFollows
  <2>3. down'[r] = down[r] /\ up'[r] = Append(up[r], Entry("indices", minIndex[r]))
    BY <1>3, <2>1
  <2>4. Follows(pc[RootRank], "finalized", down'[r], up'[r], means[r], means[RootRank])
    BY <2>2, <2>3
  <2> QED
    BY <1>1, <1>3, <2>1, <2>4, KMeansNodeStep
<1> QED
  BY <1>5, <1>6, <1>7, <1>8, <1>9, <1>10 DEF KMeansNode
-----------------------------------------------------------------------------
(* The launcher. *)

\* The launcher starts a program with its invariant.
LEMMA StartsSound ==
  Init => PInv
<1> SUFFICES ASSUME Init PROVE PInv
  OBVIOUS
<1>1. TInv
  BY InitInv DEF Init, TreeInit
<1>2. MpiShape /\ \A r \in Others : down[r] = << >> /\ up[r] = << >>
  BY DEF Init, MpiInit, MpiShape
<1>3. IsQueue(<< >>, << >>)
  BY QueueNone
<1>4. SplitInv
  <2>1. call = [r \in Ranks |-> "metadata"]
    BY DEF Init, SplitStart
  <2>2. DOMAIN call = Ranks /\ call[RootRank] = "metadata"
        /\ \A r \in Others : call[r] = "metadata"
    BY <2>1, RanksAre
  <2>3. \A r \in Others : SplitInStep(call[RootRank], call[r], down[r], up[r])
    BY <1>2, <1>3, <2>2 DEF SplitInStep
  <2> QED
    BY <1>2, <2>2, <2>3 DEF SplitInv
<1>5. KMeansInv /\ pc[RootRank] = "data"
  <2>1. /\ pc = [r \in Ranks |-> "data"] /\ DOMAIN means = Ranks
        /\ converged \in [Ranks -> BOOLEAN]
    BY DEF Init, KMeansStart
  <2>2. DOMAIN pc = Ranks /\ pc[RootRank] = "data" /\ \A r \in Others : pc[r] = "data"
    BY <2>1, RanksAre
  <2>3. ASSUME NEW own, NEW roots
        PROVE  Follows("data", "data", << >>, << >>, own, roots)
    BY <1>3 DEF Follows, KMeansInStep, ToldToStop, MeansUnderWay
  <2>4. \A r \in Others :
          Follows(pc[RootRank], pc[r], down[r], up[r], means[r], means[RootRank])
    BY <1>2, <2>2, <2>3
  <2> QED
    BY <1>2, <2>1, <2>2, <2>4 DEF KMeansInv
<1> QED
  BY <1>1, <1>4, <1>5 DEF PInv, JobInv

\* What a job's invariant is about does not change while nothing of it does.
LEMMA JobStays ==
  ASSUME JobInv, UNCHANGED <<program, jobVars>>
  PROVE  JobInv'
<1>1. UNCHANGED <<program, call, up, down, pc, means, converged>>
  BY DEF jobVars, splitVars, kmeansVars, mpiVars
<1>2. SplitInv => SplitInv'
  BY <1>1 DEF SplitInv, MpiShape
<1>3. KMeansInv => KMeansInv'
  BY <1>1 DEF KMeansInv, MpiShape
<1> QED
  BY <1>1, <1>2, <1>3 DEF JobInv

\* A step of one of the two programs keeps what the launcher knows of both.
LEMMA SplitStepKeeps ==
  ASSUME JobInv, program = "parsplit", SplitNext, UNCHANGED <<program, kmeansVars>>
  PROVE  JobInv'
<1>1. program' = program /\ pc' = pc
  BY DEF kmeansVars
<1>2. SplitInv'
  BY SplitKeeps DEF JobInv
<1> QED
  BY <1>1, <1>2 DEF JobInv

\* The same of parkmeans.
LEMMA KMeansStepKeeps ==
  ASSUME JobInv, program = "parkmeans", KMeansNext, UNCHANGED program
  PROVE  JobInv'
<1>1. KMeansInv
  BY DEF JobInv
<1>2. KMeansInv'
  BY <1>1, KMeansRootKeeps, KMeansNodeKeeps DEF KMeansNext
<1> QED
  BY <1>2 DEF JobInv

\* Every step keeps the invariant of the program that runs.
LEMMA ProgramKeeps ==
  ASSUME PInv, [Next]_vars
  PROVE  PInv'
<1>1. JobInv /\ TInv
  BY DEF PInv
<1>2. ASSUME UNCHANGED <<program, jobVars, treeVars>>
      PROVE  PInv'
  BY <1>1, <1>2, JobStays, StutterKeeps DEF PInv
<1>3. CASE RootStep
  <2>1. UNCHANGED treeVars
    BY <1>3 DEF RootStep, Split, KMeans, builderVars
  <2>2. CASE Split(SplitRoot)
    <3>1. SplitNext /\ program = "parsplit" /\ UNCHANGED <<program, kmeansVars>>
      BY <2>2 DEF Split, SplitNext
    <3> QED
      BY <1>1, <2>1, <3>1, SplitStepKeeps, StutterKeeps DEF PInv
  <2>3. CASE KMeans(KMeansRoot)
    <3>1. KMeansNext /\ program = "parkmeans" /\ UNCHANGED program
      BY <2>3 DEF KMeans, KMeansNext
    <3> QED
      BY <1>1, <2>1, <3>1, KMeansStepKeeps, StutterKeeps DEF PInv
  <2> QED
    BY <1>3, <2>2, <2>3 DEF RootStep
<1>4. ASSUME NEW r \in Others, NodeStep(r)
      PROVE  PInv'
  <2>1. UNCHANGED treeVars
    BY <1>4 DEF NodeStep, Split, KMeans, builderVars
  <2>2. CASE Split(SplitNode(r))
    <3>1. SplitNext /\ program = "parsplit" /\ UNCHANGED <<program, kmeansVars>>
      BY <2>2 DEF Split, SplitNext
    <3> QED
      BY <1>1, <2>1, <3>1, SplitStepKeeps, StutterKeeps DEF PInv
  <2>3. CASE KMeans(KMeansNode(r))
    <3>1. KMeansNext /\ program = "parkmeans" /\ UNCHANGED program
      BY <2>3 DEF KMeans, KMeansNext
    <3> QED
      BY <1>1, <2>1, <3>1, KMeansStepKeeps, StutterKeeps DEF PInv
  <2> QED
    BY <1>4, <2>2, <2>3 DEF NodeStep
<1>5. ASSUME NEW t \in Threads, Thread(t)
      PROVE  PInv'
  <2>1. CASE Tree(TreeThread(t))
    <3>1. TreeThread(t) /\ UNCHANGED <<program, jobVars>>
      BY <2>1 DEF Tree
    <3> QED
      BY <1>1, <3>1, ThreadKeeps, JobStays DEF PInv
  <2>2. CASE Loop(LoopThread(t))
    BY <1>2, <2>2 DEF Loop
  <2> QED
    BY <1>5, <2>1, <2>2 DEF Thread
<1>6. CASE Merge
  BY <1>2, <1>6 DEF Merge
<1>7. CASE UNCHANGED vars
  BY <1>2, <1>7 DEF vars, builderVars
<1> QED
  BY <1>3, <1>4, <1>5, <1>6, <1>7 DEF Next
-----------------------------------------------------------------------------
\* The invariant, for every program the launcher starts.
THEOREM ParallelInvariant ==
  Spec => []PInv
BY StartsSound, ProgramKeeps, PTL DEF Spec

\* No collective takes the data of another.
THEOREM ParallelMatched ==
  Spec => []Matched
<1>1. PInv => Matched
  <2> SUFFICES ASSUME PInv PROVE Matched
    OBVIOUS
  <2>1. ASSUME program = "parsplit"
        PROVE  SplitMatched
    <3>1. \A r \in Others : SplitInStep(call[RootRank], call[r], down[r], up[r])
      BY <2>1 DEF PInv, JobInv, SplitInv
    <3> QED
      BY <3>1, SplitHeads DEF SplitMatched, CanTake, CanCollect
  <2>2. ASSUME program = "parkmeans"
        PROVE  KMeansMatched
    <3>1. \A r \in Others : KMeansInStep(pc[RootRank], pc[r], down[r], up[r])
      BY <2>2 DEF PInv, JobInv, KMeansInv, Follows
    <3> QED
      BY <3>1, KMeansHeads DEF KMeansMatched, CanTake, CanCollect
  <2> QED
    BY <2>1, <2>2 DEF Matched
<1> QED
  BY <1>1, ParallelInvariant, PTL

\* The numbers that are summed up were put into clusters by the same means.
THEOREM ParallelKMeansAgreed ==
  Spec => []KMeansAgreed
<1>1. PInv => KMeansAgreed
  <2> SUFFICES ASSUME PInv, pc[RootRank] = "counts", NEW r \in Others
               PROVE  means[r] = means[RootRank]
    BY DEF KMeansAgreed
  <2>1. Follows(pc[RootRank], pc[r], down[r], up[r], means[r], means[RootRank])
    BY DEF PInv, JobInv, KMeansInv
  <2> QED
    BY <2>1 DEF Follows, MeansUnderWay
<1> QED
  BY <1>1, ParallelInvariant, PTL

\* The creator of a task is alive, whichever program the launcher starts.
THEOREM ParallelCreatorAlive ==
  Spec => []CreatorAlive
<1>1. PInv => CreatorAlive
  BY DEF PInv, TInv
<1> QED
  BY <1>1, ParallelInvariant, PTL

-----------------------------------------------------------------------------
(* The numbers and the clusters of parkmeans. *)

\* The numbers of the ranks, read by the root.
Data == [r \in Ranks |-> numbers[r + 1]]

Members(index, c) == {r \in Ranks : index[r] = c}

\* The clusters that a number v may be put into by the means m.
NearestBy(v, m) ==
  {c \in ClusterIds : \A d \in ClusterIds : Abs(v - m[c]) <= Abs(v - m[d])}

\* The means of the root are those of the clusters.
MeansSettled ==
  \A c \in ClusterIds :
    Members(minIndex, c) # {} =>
      means[RootRank][c] * Cardinality(Members(minIndex, c)) =
        Scale * Sum(Data, Members(minIndex, c))

\* The root is about to stop.
Stopping ==
  pc[RootRank] = "indices" \/ (pc[RootRank] = "converged" /\ converged[RootRank])

\* Rank r has put its number into a cluster by the means the root has.
Assigned(r) ==
  \/ pc[RootRank] = "counts"
  \/ Stopping
  \/ r # RootRank /\ pc[RootRank] = "sums" /\ up[r] # << >>

\* What the root has of a rank's contributions are its number, 1 and its cluster.
GivenRight(a, b, u, s, k, i) ==
  /\ a = "sums" /\ u # << >> => Head(u).value = s
  /\ a = "sums" /\ b = "converged" /\ u # << >> => Head(Tail(u)).value = k
  /\ a = "counts" /\ u # << >> => Head(u).value = k
  /\ a = "indices" /\ u # << >> => Head(u).value = i

\* The numbers came to the ranks as they were read.
NumbersRead ==
  /\ numbers \in Seq(Int)
  /\ DOMAIN val = Ranks /\ DOMAIN minIndex = Ranks
  /\ \A r \in Ranks : pc[r] = "data" \/ val[r] = Scale * numbers[r + 1]
  /\ pc[RootRank] # "data" => Len(numbers) >= N /\ means[RootRank] \in [ClusterIds -> Int]
  /\ \A r \in Others : pc[r] = "data" /\ down[r] # << >> => Head(down[r]).value = Data

\* The contributions under way, and the sums and means made of them.
ClustersRight ==
  /\ \A r \in Ranks : Assigned(r) => minIndex[r] \in NearestBy(val[r], means[RootRank])
  /\ \A r \in Others :
       GivenRight(pc[RootRank], pc[r], up[r], OwnSums(r, minIndex[r]), OwnCounts(r), minIndex[r])
  /\ pc[RootRank] = "counts" =>
       sums = [c \in ClusterIds |-> Scale * Sum(Data, Members(minIndex, c))]
  /\ Stopping => MeansSettled
  /\ KMeansSettled

\* The inductive invariant of what parkmeans computes.
KDataInv ==
  IF program = "parkmeans" THEN NumbersRead /\ ClustersRight ELSE result = << >>

\* A multiple divided again.
LEMMA DivExact ==
  ASSUME NEW k \in Nat \ {0}, NEW a \in Int
  PROVE  (k * a) \div k = a
<1> DEFINE q == (k * a) \div k
           m == (k * a) % k
<1>1. k * a \in Int /\ q \in Int /\ m \in 0 .. k - 1 /\ k * a = k * q + m
  BY SMTT(30)
<1> HIDE DEF q, m
<1>2. k * (a - q) = m
  BY <1>1, SMTT(30)
<1>3. a - q < 1
  BY <1>1, <1>2, SMTT(30)
<1>4. a - q > -1
  BY <1>1, <1>2, SMTT(30)
<1>5. q = a
  BY <1>1, <1>3, <1>4
<1> QED
  BY <1>5 DEF q

\* A mean of up to N scaled numbers is exact.
LEMMA MeanExact ==
  ASSUME NEW k \in 1 .. N, NEW a \in Int
  PROVE  /\ (Scale * a) \div k \in Int
         /\ ((Scale * a) \div k) * k = Scale * a
<1> DEFINE q == Scale \div k
<1>1. k \in Nat \ {0} /\ Scale \in Nat /\ Scale % k = 0
  BY ScaleAssumption, SizeAssumption DEF ScaleAssumption
<1>2. q \in Int /\ Scale = k * q
  BY <1>1, SMTT(30)
<1> HIDE DEF q
<1> DEFINE b == q * a
<1>3. b \in Int /\ Scale * a = k * b
  BY <1>1, <1>2, SMTT(30)
<1> HIDE DEF b
<1>4. (k * b) \div k = b
  BY <1>1, <1>3, DivExact
<1>5. k * b = b * k
  BY <1>1, <1>3
<1> QED
  BY <1>3, <1>4, <1>5

\* Clusters have at most N ranks.
LEMMA RanksFinite ==
  /\ IsFiniteSet(Ranks) /\ Cardinality(Ranks) = N
  /\ \A S \in SUBSET Ranks : IsFiniteSet(S) /\ Cardinality(S) \in Nat /\ Cardinality(S) <= N
  /\ \A S \in SUBSET Ranks : S # {} <=> Cardinality(S) > 0
<1>1. 0 \in Int /\ N - 1 \in Int /\ N \in Nat \ {0}
  BY SizeAssumption
<1>2. IsFiniteSet(Ranks) /\ Cardinality(Ranks) = N
  <2>1. /\ IsFiniteSet(0 .. (N - 1))
        /\ Cardinality(0 .. (N - 1)) = IF 0 > N - 1 THEN 0 ELSE (N - 1) - 0 + 1
    BY <1>1, FS_Interval
  <2>2. (IF 0 > N - 1 THEN 0 ELSE (N - 1) - 0 + 1) = N
    BY <1>1
  <2> QED
    BY <2>1, <2>2 DEF Ranks
<1>3. ASSUME NEW S \in SUBSET Ranks
      PROVE  /\ IsFiniteSet(S) /\ Cardinality(S) \in Nat /\ Cardinality(S) <= N
             /\ S # {} <=> Cardinality(S) > 0
  <2>1. IsFiniteSet(S) /\ Cardinality(S) <= Cardinality(Ranks)
    BY <1>2, FS_Subset
  <2>2. Cardinality(S) \in Nat /\ (Cardinality(S) = 0 <=> S = {})
    BY <2>1, FS_CardinalityType, FS_EmptySet
  <2> QED
    BY <1>2, <2>1, <2>2
<1> QED
  BY <1>2, <1>3

\* The numbers of the ranks.
LEMMA DataAre ==
  ASSUME numbers \in Seq(Int), Len(numbers) >= N
  PROVE  \A r \in Ranks : Data[r] = numbers[r + 1] /\ numbers[r + 1] \in Int
<1> SUFFICES ASSUME NEW r \in Ranks
             PROVE  Data[r] = numbers[r + 1] /\ numbers[r + 1] \in Int
  OBVIOUS
<1>1. Len(numbers) \in Nat
  OBVIOUS
<1>2. r + 1 \in 1 .. Len(numbers)
  BY <1>1, SizeAssumption DEF Ranks
<1> QED
  BY <1>2 DEF Data

\* The sums of the model are those of SetInduction.
LEMMA SumIs ==
  ASSUME NEW f, NEW S
  PROVE  Sum(f, S) = SumOver(f, S)
BY DEF Sum, SumOver

\* The reduction of the sums.
LEMMA SumsReduced ==
  ASSUME numbers \in Seq(Int), Len(numbers) >= N, NEW given, NEW index,
         \A r \in Ranks : val[r] = Scale * numbers[r + 1],
         \A r \in Ranks : given[r] = OwnSums(r, index[r])
  PROVE  Reduced(given) = [c \in ClusterIds |-> Scale * Sum(Data, Members(index, c))]
<1> SUFFICES ASSUME NEW c \in ClusterIds
             PROVE  Sum([r \in Ranks |-> given[r][c]], Ranks) =
                      Scale * Sum(Data, Members(index, c))
  BY DEF Reduced
<1> DEFINE g == [r \in Ranks |-> given[r][c]]
           M == Members(index, c)
           f == Data
<1>1. M \in SUBSET Ranks
  BY DEF Members
<1>2. \A r \in Ranks : given[r][c] = IF r \in M THEN val[r] ELSE 0
  BY ZenonT(30) DEF OwnSums, Members
<1>3. Multiples(f, g, Scale, M)
  BY <1>1, <1>2, DataAre DEF Multiples
<1>4. \A r \in Ranks \ M : g[r] = 0
  BY <1>2
<1>5. Scale \in Int
  BY ScaleAssumption DEF ScaleAssumption
<1>6. IsFiniteSet(Ranks)
  BY RanksFinite
<1> HIDE DEF g, M, f
<1>7. SumOver(g, Ranks) = Scale * SumOver(f, M)
  BY <1>1, <1>3, <1>4, <1>5, <1>6, SumOverPart
<1> QED
  BY <1>7, SumIs DEF g, M, f

\* The reduction of the counts.
LEMMA CountsReduced ==
  ASSUME NEW given, \A r \in Ranks : given[r] = OwnCounts(r)
  PROVE  Reduced(given) = [c \in ClusterIds |-> Cardinality(Members(minIndex, c))]
<1> SUFFICES ASSUME NEW c \in ClusterIds
             PROVE  Sum([r \in Ranks |-> given[r][c]], Ranks) = Cardinality(Members(minIndex, c))
  BY DEF Reduced
<1> DEFINE g == [r \in Ranks |-> given[r][c]]
           M == Members(minIndex, c)
           f == [r \in Ranks |-> 1]
<1>1. M \in SUBSET Ranks
  BY DEF Members
<1>2. ASSUME NEW r \in Ranks PROVE given[r][c] = IF r \in M THEN 1 ELSE 0
  <2>1. given[r] = [d \in ClusterIds |-> IF d = minIndex[r] THEN 1 ELSE 0]
    BY DEF OwnCounts
  <2> QED
    BY <2>1 DEF Members
<1>3. Multiples(f, g, 1, M) /\ \A r \in M : f[r] = 1
  BY <1>1, <1>2 DEF Multiples
<1>4. \A r \in Ranks \ M : g[r] = 0
  BY <1>2
<1> HIDE DEF g, M, f
<1>5. 1 \in Int /\ IsFiniteSet(M) /\ Cardinality(M) \in Nat
  BY <1>1, RanksFinite
<1>6. SumOver(g, Ranks) = 1 * SumOver(f, M)
  BY <1>1, <1>3, <1>4, <1>5, RanksFinite, SumOverPart
<1>7. SumOver(f, M) = Cardinality(M)
  BY <1>3, <1>5, SumOverOnes
<1>8. SumOver(g, Ranks) = Cardinality(M)
  BY <1>5, <1>6, <1>7
<1> QED
  BY <1>8, SumIs DEF g, M

-----------------------------------------------------------------------------
(* The steps of parkmeans, and what they compute. *)

\* What the table says of a rank.
LEMMA TableSays ==
  ASSUME KMeansInv, NEW r \in Others
  PROVE  LET a == pc[RootRank]
             b == pc[r]
         IN  /\ KMeansInStep(a, b, down[r], up[r])
             /\ a = "data" => b = "data"
             /\ b = "data" => a \in {"data", "sums"} /\ up[r] = << >>
             /\ b = "sums" => a = "sums" /\ up[r] = << >> /\ means[r] = means[RootRank]
             /\ b = "means" => up[r] = << >>
             /\ b = "converged" /\ down[r] # << >> => up[r] = << >>
             /\ a \in {"data", "converged", "means"} => up[r] = << >>
             /\ b = "indices" => a = "indices" /\ up[r] = << >>
<1>1. Follows(pc[RootRank], pc[r], down[r], up[r], means[r], means[RootRank])
  BY DEF KMeansInv
<1>2. KMeansInStep(pc[RootRank], pc[r], down[r], up[r])
  BY <1>1 DEF Follows
<1>3. pc[r] = "sums" => pc[RootRank] = "sums" /\ means[r] = means[RootRank]
  BY <1>1, <1>2 DEF Follows, KMeansInStep, MeansUnderWay
<1> QED
  BY <1>2, <1>3, QueueNone, TakeOne DEF KMeansInStep

\* A step of another rank, as the invariant of the data sees it.
LEMMA NodeStepRight ==
  ASSUME KMeansInv, NumbersRead, ClustersRight, NEW r \in Others,
         NEW point, Move(r, point), point # "data",
         numbers' = numbers, sums' = sums, result' = result,
         converged'[RootRank] = converged[RootRank],
         means'[RootRank] = means[RootRank],
         DOMAIN val' = Ranks, DOMAIN minIndex' = Ranks,
         \A s \in Ranks \ {r} : val'[s] = val[s] /\ minIndex'[s] = minIndex[s],
         \A s \in Others \ {r} : up'[s] = up[s] /\ down'[s] = down[s],
         val'[r] = Scale * numbers[r + 1],
         pc[RootRank] = "sums" \/ (val' = val /\ minIndex' = minIndex),
         pc[RootRank] = "sums" /\ up'[r] # << >> =>
           minIndex'[r] \in NearestBy(val'[r], means[RootRank]),
         GivenRight(pc[RootRank], point, up'[r], OwnSums(r, minIndex[r])', OwnCounts(r)',
                    minIndex'[r])
  PROVE  NumbersRead' /\ ClustersRight'
<1>1. /\ DOMAIN pc = Ranks /\ pc' = [pc EXCEPT ![r] = point]
      /\ r \in Ranks /\ r # RootRank /\ RootRank \in Ranks
  BY RanksAre DEF KMeansInv, Move
<1>2. pc'[RootRank] = pc[RootRank] /\ pc'[r] = point /\ \A s \in Ranks \ {r} : pc'[s] = pc[s]
  BY <1>1
<1>3. Data' = Data
  BY DEF Data
<1>4. NumbersRead'
  BY <1>1, <1>2, <1>3 DEF NumbersRead, Others
<1>5. Stopping' = Stopping
  BY <1>2 DEF Stopping
<1>6. ASSUME NEW s \in Ranks, Assigned(s)'
      PROVE  minIndex'[s] \in NearestBy(val'[s], means[RootRank])
  <2>1. CASE s # r
    <3>1. Assigned(s)
      BY <1>2, <1>5, <1>6, <2>1 DEF Assigned, Others
    <3> QED
      BY <2>1, <3>1 DEF ClustersRight
  <2>2. CASE s = r /\ pc[RootRank] = "sums"
    BY <1>2, <1>5, <1>6, <2>2 DEF Assigned, Stopping
  <2>3. CASE s = r /\ pc[RootRank] # "sums"
    <3>1. Assigned(s)
      BY <1>2, <1>5, <1>6, <2>3 DEF Assigned
    <3> QED
      BY <2>3, <3>1 DEF ClustersRight
  <2> QED
    BY <2>1, <2>2, <2>3
<1>7. ASSUME NEW s \in Others
      PROVE  GivenRight(pc'[RootRank], pc'[s], up'[s], OwnSums(s, minIndex[s])', OwnCounts(s)',
                        minIndex'[s])
  <2>1. CASE s = r
    BY <1>2, <2>1
  <2>2. CASE s # r
    <3>1. /\ OwnSums(s, minIndex[s])' = OwnSums(s, minIndex[s])
          /\ OwnCounts(s)' = OwnCounts(s) /\ minIndex'[s] = minIndex[s]
          /\ pc'[s] = pc[s] /\ up'[s] = up[s]
      BY <1>2, <2>2 DEF OwnSums, OwnCounts, Others
    <3> QED
      BY <1>2, <3>1 DEF ClustersRight
  <2> QED
    BY <2>1, <2>2
<1>8. pc[RootRank] # "sums" => \A c \in ClusterIds : Members(minIndex', c) = Members(minIndex, c)
  BY DEF Members
<1>9. pc'[RootRank] = "counts" =>
        sums' = [c \in ClusterIds |-> Scale * Sum(Data', Members(minIndex', c))]
  BY <1>2, <1>3, <1>8 DEF ClustersRight
<1>10. Stopping' => MeansSettled'
  <2> SUFFICES ASSUME Stopping PROVE MeansSettled'
    BY <1>5
  <2>1. pc[RootRank] # "sums"
    BY DEF Stopping
  <2> QED
    BY <1>3, <1>8, <2>1 DEF MeansSettled, ClustersRight
<1>11. KMeansSettled'
  BY DEF KMeansSettled, ClustersRight
<1> QED
  BY <1>4, <1>6, <1>7, <1>9, <1>10, <1>11 DEF ClustersRight

\* The contributions of a rank, one by one.
LEMMA GivenStart ==
  ASSUME NEW a, NEW b, NEW s, NEW k, NEW i
  PROVE  GivenRight(a, b, << >>, s, k, i)
BY DEF GivenRight

\* The steps of the other ranks: each contributes its own number, by the means it
\* was sent.
LEMMA NodeStepsRight ==
  ASSUME KMeansInv, NumbersRead, ClustersRight, NEW r \in Others, KMeansNode(r)
  PROVE  NumbersRead' /\ ClustersRight'
<1>0. /\ MpiShape /\ DOMAIN means = Ranks /\ converged \in [Ranks -> BOOLEAN]
      /\ r \in Ranks /\ r # RootRank /\ RootRank \in Ranks
      /\ DOMAIN val = Ranks /\ DOMAIN minIndex = Ranks
  BY RanksAre DEF KMeansInv, NumbersRead
<1>t. LET a == pc[RootRank]
          b == pc[r]
      IN  /\ KMeansInStep(a, b, down[r], up[r])
          /\ a = "data" => b = "data"
          /\ b = "data" => a \in {"data", "sums"} /\ up[r] = << >>
          /\ b = "sums" => a = "sums" /\ up[r] = << >> /\ means[r] = means[RootRank]
          /\ b = "means" => up[r] = << >>
          /\ b = "converged" /\ down[r] # << >> => up[r] = << >>
          /\ b = "indices" => a = "indices" /\ up[r] = << >>
  BY TableSays
<1>v. pc[r] = "data" \/ val[r] = Scale * numbers[r + 1]
  BY <1>0 DEF NumbersRead
<1>p. pc[RootRank] = "sums" /\ up[r] # << >> => minIndex[r] \in NearestBy(val[r], means[RootRank])
  BY <1>0 DEF ClustersRight, Assigned
\* A step that only takes something.
<1>1. ASSUME NEW point, Move(r, point), point # "data", pc[r] # "data", up[r] = << >>, Take(r),
             UNCHANGED <<numbers, val, minIndex, sums, result>>,
             converged'[RootRank] = converged[RootRank],
             means'[RootRank] = means[RootRank]
      PROVE  NumbersRead' /\ ClustersRight'
  <2>1. /\ up' = up /\ \A s \in Others : s # r => down'[s] = down[s]
    BY <1>0, <1>1, TakenBy
  <2>2. GivenRight(pc[RootRank], point, up'[r], OwnSums(r, minIndex[r])', OwnCounts(r)',
                   minIndex'[r])
    BY <1>1, <2>1, GivenStart
  <2> QED
    BY <1>0, <1>1, <1>v, <2>1, <2>2, NodeStepRight
<1>2. CASE NodeData(r)
  <2>1. /\ pc[r] = "data" /\ down[r] # << >> /\ Take(r) /\ Move(r, "sums")
        /\ means' = [means EXCEPT ![r] = [c \in ClusterIds |-> Scale * Taken(r)[c]]]
        /\ val' = [val EXCEPT ![r] = Scale * Taken(r)[r]]
        /\ UNCHANGED <<numbers, minIndex, sums, converged, result>>
    BY <1>2 DEF NodeData, Ready, CanTake, Begin
  <2>2. /\ up' = up /\ \A s \in Others : s # r => down'[s] = down[s]
    BY <1>0, <2>1, TakenBy
  <2>3. Taken(r) = Data
    BY <1>0, <2>1 DEF NumbersRead, Taken
  <2>4. Taken(r)[r] = numbers[r + 1]
    BY <1>0, <2>3 DEF Data
  <2>5. val'[r] = Scale * numbers[r + 1] /\ DOMAIN val' = Ranks
        /\ \A s \in Ranks \ {r} : val'[s] = val[s]
    BY <1>0, <2>1, <2>4
  <2>6. pc[RootRank] = "sums" /\ up[r] = << >>
    BY <1>t, <2>1, QueueNone DEF KMeansInStep
  <2>7. means'[RootRank] = means[RootRank]
    BY <1>0, <2>1
  <2>8. GivenRight(pc[RootRank], "sums", up'[r], OwnSums(r, minIndex[r])', OwnCounts(r)',
                   minIndex'[r])
    BY <2>2, <2>6, GivenStart
  <2> QED
    BY <1>0, <2>1, <2>2, <2>5, <2>6, <2>7, <2>8, NodeStepRight
<1>3. CASE NodeSums(r)
  <2>1. PICK c \in Nearest(r) :
          minIndex' = [minIndex EXCEPT ![r] = c] /\ Contribute(r, "sums", OwnSums(r, c))
    BY <1>3 DEF NodeSums
  <2>2. /\ pc[r] = "sums" /\ Move(r, "counts")
        /\ UNCHANGED <<numbers, val, means, sums, converged, result>>
    BY <1>3 DEF NodeSums, Ready
  <2>3. pc[RootRank] = "sums" /\ up[r] = << >> /\ means[r] = means[RootRank]
    BY <1>t, <2>2
  <2>4. minIndex'[r] = c /\ DOMAIN minIndex' = Ranks
        /\ \A s \in Ranks \ {r} : minIndex'[s] = minIndex[s]
    BY <1>0, <2>1
  <2>5. minIndex'[r] \in NearestBy(val'[r], means[RootRank])
    BY <2>1, <2>2, <2>3, <2>4 DEF Nearest, NearestBy
  <2>6. /\ down' = down /\ up'[r] = Append(up[r], Entry("sums", OwnSums(r, c)))
        /\ \A s \in Others : s # r => up'[s] = up[s]
    BY <1>0, <2>1, ContributedBy
  <2>7. OwnSums(r, minIndex[r])' = OwnSums(r, c)
    BY <2>2, <2>4 DEF OwnSums
  <2>8. GivenRight(pc[RootRank], "counts", up'[r], OwnSums(r, minIndex[r])', OwnCounts(r)',
                   minIndex'[r])
    <3>1. Head(up'[r]) = Entry("sums", OwnSums(r, c))
      BY <2>3, <2>6, QueueNone, PutHead
    <3> QED
      BY <2>3, <2>7, <3>1 DEF GivenRight, Entry
  <2> QED
    BY <1>0, <1>v, <2>2, <2>3, <2>4, <2>5, <2>6, <2>8, NodeStepRight
<1>4. CASE NodeCounts(r)
  <2>1. /\ pc[r] = "counts" /\ Move(r, "converged") /\ Contribute(r, "counts", OwnCounts(r))
        /\ UNCHANGED <<numbers, val, means, minIndex, sums, converged, result>>
    BY <1>4 DEF NodeCounts, Ready
  <2>2. /\ down' = down /\ up'[r] = Append(up[r], Entry("counts", OwnCounts(r)))
        /\ \A s \in Others : s # r => up'[s] = up[s]
    BY <1>0, <2>1, ContributedBy
  <2>3. /\ OwnSums(r, minIndex[r])' = OwnSums(r, minIndex[r])
        /\ OwnCounts(r)' = OwnCounts(r)
    BY <2>1 DEF OwnSums, OwnCounts
  <2>4. \/ pc[RootRank] = "sums" /\ IsQueue(up[r], <<"sums">>) /\ up[r] # << >>
        \/ pc[RootRank] = "counts" /\ IsQueue(up[r], << >>)
    BY <1>t, <2>1, TakeOne DEF KMeansInStep
  <2>5. GivenRight(pc[RootRank], "converged", up'[r], OwnSums(r, minIndex[r])', OwnCounts(r)',
                   minIndex'[r])
    <3> DEFINE e == Entry("counts", OwnCounts(r))
    <3>0. e.value = OwnCounts(r)
      BY DEF Entry
    <3>a. up'[r] = Append(up[r], e)
      BY <2>2
    <3> HIDE DEF e
    <3>1. CASE pc[RootRank] = "sums"
      <4>1. Head(up[r]).value = OwnSums(r, minIndex[r])
        BY <2>4, <3>1 DEF ClustersRight, GivenRight
      <4>2. IsQueue(up[r], <<"sums">>)
        BY <2>4, <3>1
      <4>3. Head(up'[r]) = Head(up[r]) /\ Head(Tail(up'[r])) = e
        <5> DEFINE q == up[r]
        <5>1. IsQueue(q, <<"sums">>)
          BY <4>2
        <5> HIDE DEF q
        <5>2. Head(Append(q, e)) = Head(q) /\ Head(Tail(Append(q, e))) = e
          BY <5>1, PutHead
        <5> QED
          BY <3>a, <5>2 DEF q
      <4>4. /\ Head(up'[r]).value = OwnSums(r, minIndex[r])'
            /\ Head(Tail(up'[r])).value = OwnCounts(r)'
        BY <2>3, <3>0, <4>1, <4>3
      <4> QED
        BY <3>1, <4>4 DEF GivenRight
    <3>2. CASE pc[RootRank] = "counts"
      <4>1. IsQueue(up[r], << >>)
        BY <2>4, <3>2
      <4>2. Head(up'[r]) = e
        <5> DEFINE q == up[r]
        <5>1. IsQueue(q, << >>)
          BY <4>1
        <5> HIDE DEF q
        <5>2. Head(Append(q, e)) = e
          BY <5>1, PutHead
        <5> QED
          BY <3>a, <5>2 DEF q
      <4>3. Head(up'[r]).value = OwnCounts(r)'
        BY <2>3, <3>0, <4>2
      <4> QED
        BY <3>2, <4>3 DEF GivenRight
    <3> QED
      BY <2>4, <3>1, <3>2
  <2>6. pc[RootRank] = "sums" => minIndex'[r] \in NearestBy(val'[r], means[RootRank])
    BY <1>p, <2>1, <2>4
  <2> QED
    BY <1>0, <1>v, <2>1, <2>2, <2>5, <2>6, NodeStepRight
<1>5. CASE NodeConverged(r)
  <2>1. /\ pc[r] = "converged" /\ down[r] # << >> /\ Take(r)
        /\ Move(r, AfterConverged(Taken(r)))
        /\ converged' = [converged EXCEPT ![r] = Taken(r)]
        /\ UNCHANGED <<numbers, val, means, minIndex, sums, result>>
    BY <1>5 DEF NodeConverged, Ready, CanTake
  <2>2. up[r] = << >> /\ converged'[RootRank] = converged[RootRank]
    BY <1>0, <1>t, <2>1
  <2>3. AfterConverged(Taken(r)) # "data"
    BY DEF AfterConverged
  <2> QED
    BY <1>1, <2>1, <2>2, <2>3
<1>6. CASE NodeMeans(r)
  <2>1. /\ pc[r] = "means" /\ down[r] # << >> /\ Take(r) /\ Move(r, "sums")
        /\ means' = [means EXCEPT ![r] = Taken(r)]
        /\ UNCHANGED <<numbers, val, minIndex, sums, converged, result>>
    BY <1>6 DEF NodeMeans, Ready, CanTake
  <2>2. up[r] = << >> /\ means'[RootRank] = means[RootRank]
    BY <1>0, <1>t, <2>1
  <2> QED
    BY <1>1, <2>1, <2>2
<1>7. CASE NodeIndices(r)
  <2>1. /\ pc[r] = "indices" /\ Move(r, "finalized") /\ Contribute(r, "indices", minIndex[r])
        /\ UNCHANGED <<numbers, val, means, minIndex, sums, converged, result>>
    BY <1>7 DEF NodeIndices, Ready
  <2>2. /\ down' = down /\ up'[r] = Append(up[r], Entry("indices", minIndex[r]))
        /\ \A s \in Others : s # r => up'[s] = up[s]
    BY <1>0, <2>1, ContributedBy
  <2>3. pc[RootRank] = "indices" /\ up[r] = << >>
    BY <1>t, <2>1
  <2>4. GivenRight(pc[RootRank], "finalized", up'[r], OwnSums(r, minIndex[r])', OwnCounts(r)',
                   minIndex'[r])
    <3>1. Head(up'[r]) = Entry("indices", minIndex[r])
      BY <2>2, <2>3, QueueNone, PutHead
    <3> QED
      BY <2>1, <2>3, <3>1 DEF GivenRight, Entry
  <2> QED
    BY <1>0, <1>v, <2>1, <2>2, <2>3, <2>4, NodeStepRight
<1> QED
  BY <1>2, <1>3, <1>4, <1>5, <1>6, <1>7 DEF KMeansNode

\* Where the root is, or was, before its reductions.
LEMMA AllRead ==
  ASSUME KMeansInv, NumbersRead, pc[RootRank] # "data",
         \A r \in Others : pc[r] # "data"
  PROVE  /\ numbers \in Seq(Int) /\ Len(numbers) >= N
         /\ \A r \in Ranks : val[r] = Scale * numbers[r + 1]
<1>1. \A r \in Ranks : pc[r] # "data"
  BY DEF Others
<1> QED
  BY <1>1 DEF NumbersRead

\* The steps of the root: what it reduces are the sums and the sizes of the
\* clusters, so the means it computes are theirs.
LEMMA RootStepsRight ==
  ASSUME KMeansInv, NumbersRead, ClustersRight, KMeansRoot
  PROVE  NumbersRead' /\ ClustersRight'
<1>0. /\ MpiShape /\ DOMAIN means = Ranks /\ converged \in [Ranks -> BOOLEAN]
      /\ RootRank \in Ranks /\ DOMAIN pc = Ranks
      /\ DOMAIN val = Ranks /\ DOMAIN minIndex = Ranks
      /\ \A r \in Others : r \in Ranks /\ r # RootRank
  BY RanksAre DEF KMeansInv, NumbersRead
<1>t. \A r \in Others : KMeansInStep(pc[RootRank], pc[r], down[r], up[r])
  BY TableSays
<1>u. pc[RootRank] \in {"data", "converged", "means"} =>
        \A r \in Others : up[r] = << >>
  BY TableSays
<1>m. ASSUME NEW point, Move(RootRank, point)
      PROVE  /\ pc'[RootRank] = point
             /\ \A r \in Others : pc'[r] = pc[r]
  BY <1>0, <1>m DEF Move
<1>c. ASSUME Collect
      PROVE  /\ \A r \in Others : up'[r] = Tail(up[r])
             /\ down' = down
  BY <1>0, <1>c, CollectedFrom
<1>r. ASSUME result' = result, numbers' = numbers
      PROVE  KMeansSettled'
  BY <1>r DEF KMeansSettled, ClustersRight
<1>d. numbers' = numbers => Data' = Data
  BY DEF Data
<1>1. CASE TooFewNumbers
  <2>1. UNCHANGED <<numbers, pc, val, means, minIndex, sums, converged, result, up, down>>
    BY <1>1 DEF TooFewNumbers, Abort, kmeansVars
  <2>2. NumbersRead'
    BY <2>1 DEF NumbersRead, Data
  <2>3. /\ \A r \in Ranks : Assigned(r)' = Assigned(r)
        /\ \A r \in Others : /\ OwnSums(r, minIndex[r])' = OwnSums(r, minIndex[r])
                             /\ OwnCounts(r)' = OwnCounts(r)
        /\ Stopping' = Stopping /\ MeansSettled' = MeansSettled
        /\ \A c \in ClusterIds : Members(minIndex', c) = Members(minIndex, c)
    BY <2>1 DEF Assigned, OwnSums, OwnCounts, Stopping, MeansSettled, Members, Data
  <2> QED
    BY <1>d, <1>r, <2>1, <2>2, <2>3 DEF ClustersRight
<1>2. CASE RootData
  <2>1. /\ pc[RootRank] = "data" /\ Move(RootRank, "sums") /\ Len(numbers) >= N
        /\ Distribute("data", [r \in Others |-> Data])
        /\ means' = [means EXCEPT ![RootRank] = [c \in ClusterIds |-> Scale * Data[c]]]
        /\ val' = [val EXCEPT ![RootRank] = Scale * Data[RootRank]]
        /\ UNCHANGED <<numbers, minIndex, sums, converged, result>>
    BY <1>2 DEF RootData, Ready, Begin, Data
  <2>2. /\ pc'[RootRank] = "sums" /\ \A r \in Others : pc'[r] = pc[r] /\ pc[r] = "data"
    BY <1>m, <2>1, TableSays
  <2>3. /\ up' = up
        /\ \A r \in Others : down'[r] = Append(down[r], Entry("data", [s \in Others |-> Data][r]))
    BY <1>0, <2>1, Distributed
  <2>4. numbers \in Seq(Int)
    BY DEF NumbersRead
  <2>5. \A c \in ClusterIds : c \in Ranks
    BY ClustersAssumption, SizeAssumption DEF ClusterIds, Ranks
  <2>6. \A c \in ClusterIds : Data[c] \in Int /\ Scale * Data[c] \in Int
    BY <2>1, <2>4, <2>5, DataAre, ScaleAssumption
  <2>7. means'[RootRank] \in [ClusterIds -> Int]
    BY <1>0, <2>1, <2>6
  <2>8. val'[RootRank] = Scale * numbers[RootRank + 1] /\ DOMAIN val' = Ranks
    BY <1>0, <2>1 DEF Data
  <2>9. \A r \in Others : Head(down'[r]).value = Data
    <3> SUFFICES ASSUME NEW r \in Others PROVE Head(down'[r]).value = Data
      OBVIOUS
    <3> DEFINE e == Entry("data", Data)
               q == down[r]
    <3>1. e.value = Data
      BY DEF Entry
    <3>2. IsQueue(q, << >>)
      BY <1>t, <2>1 DEF KMeansInStep
    <3>3. down'[r] = Append(q, e)
      BY <2>3
    <3> HIDE DEF e, q
    <3>4. Head(Append(q, e)) = e
      BY <3>2, PutHead
    <3> QED
      BY <3>1, <3>3, <3>4
  <2>10. NumbersRead'
    <3>1. \A r \in Ranks : r = RootRank \/ r \in Others
      BY DEF Others
    <3>2. \A r \in Ranks : pc'[r] = "data" \/ val'[r] = Scale * numbers[r + 1]
      BY <2>2, <2>8, <3>1
    <3> QED
      BY <1>0, <1>d, <2>1, <2>4, <2>7, <2>8, <2>9, <3>2 DEF NumbersRead
  <2>11. ~Stopping' /\ \A r \in Ranks : ~Assigned(r)'
    BY <1>u, <2>1, <2>2, <2>3 DEF Assigned, Stopping, Others
  <2>12. \A r \in Others : up'[r] = << >>
    BY <1>u, <2>1, <2>3
  <2> QED
    BY <1>r, <2>1, <2>2, <2>10, <2>11, <2>12, GivenStart DEF ClustersRight
<1>3. ASSUME NEW point, Move(RootRank, point), pc[RootRank] # "data", point # "data",
             UNCHANGED <<numbers, val>>, DOMAIN minIndex' = Ranks,
             means'[RootRank] = means[RootRank] \/ means'[RootRank] \in [ClusterIds -> Int],
             \/ down' = down
             \/ \E op, value : Distribute(op, value)
      PROVE  NumbersRead'
  <2>1. means'[RootRank] \in [ClusterIds -> Int]
    BY <1>3 DEF NumbersRead
  <2>2. \A r \in Others : pc'[r] = "data" /\ down'[r] # << >> => Head(down'[r]).value = Data'
    <3> SUFFICES ASSUME NEW r \in Others, pc[r] = "data"
                 PROVE  Head(down'[r]).value = Data
      BY <1>3, <1>d, <1>m
    <3>1. IsQueue(down[r], <<"data">>)
      BY <1>3, <1>t DEF KMeansInStep
    <3>2. down[r] # << >> /\ Head(down[r]).value = Data
      BY <3>1, TakeOne DEF NumbersRead
    <3>3. CASE down' = down
      BY <3>2, <3>3
    <3>4. ASSUME NEW op, NEW value, Distribute(op, value)
          PROVE  Head(down'[r]).value = Data
      <4> DEFINE e == Entry(op, value[r])
                 q == down[r]
      <4>1. down'[r] = Append(q, e)
        BY <1>0, <3>4, Distributed
      <4>2. IsQueue(q, <<"data">>)
        BY <3>1
      <4> HIDE DEF e, q
      <4>3. Head(Append(q, e)) = Head(q)
        BY <4>2, PutHead
      <4> QED
        BY <3>2, <4>1, <4>3 DEF q
    <3> QED
      BY <1>3, <3>3, <3>4
  <2>3. \A r \in Ranks : r = RootRank \/ r \in Others
    BY DEF Others
  <2>4. \A r \in Ranks : pc'[r] = "data" \/ val'[r] = Scale * numbers'[r + 1]
    BY <1>3, <1>m, <2>3 DEF NumbersRead
  <2> QED
    BY <1>3, <2>1, <2>2, <2>4 DEF NumbersRead
<1>4. CASE RootSums
  <2>1. PICK c \in Nearest(RootRank) :
          /\ minIndex' = [minIndex EXCEPT ![RootRank] = c]
          /\ sums' = Reduced(Collected(OwnSums(RootRank, c)))
    BY <1>4 DEF RootSums
  <2>2. /\ pc[RootRank] = "sums" /\ CanCollect /\ Collect /\ Move(RootRank, "counts")
        /\ UNCHANGED <<numbers, val, means, converged, result>>
    BY <1>4 DEF RootSums, Ready
  <2>3. /\ pc'[RootRank] = "counts" /\ \A r \in Others : pc'[r] = pc[r]
        /\ down' = down /\ \A r \in Others : up'[r] = Tail(up[r])
        /\ \A r \in Others : up[r] # << >>
    BY <1>c, <1>m, <2>2 DEF CanCollect
  <2>4. /\ DOMAIN minIndex' = Ranks /\ minIndex'[RootRank] = c
        /\ \A r \in Others : minIndex'[r] = minIndex[r]
    BY <1>0, <2>1
  <2>5. NumbersRead'
    BY <1>3, <2>2, <2>3, <2>4
  <2>6. \A r \in Ranks : minIndex'[r] \in NearestBy(val'[r], means'[RootRank])
    <3>1. ASSUME NEW r \in Others PROVE minIndex[r] \in NearestBy(val[r], means[RootRank])
      BY <1>0, <2>2, <2>3 DEF ClustersRight, Assigned
    <3>2. c \in NearestBy(val[RootRank], means[RootRank])
      BY <2>1 DEF Nearest, NearestBy
    <3>3. \A r \in Ranks : r = RootRank \/ r \in Others
      BY DEF Others
    <3> QED
      BY <2>2, <2>4, <3>1, <3>2, <3>3
  <2>7. ASSUME NEW r \in Others
        PROVE  /\ Head(up[r]).value = OwnSums(r, minIndex[r])
               /\ GivenRight("counts", pc[r], up'[r], OwnSums(r, minIndex[r])',
                             OwnCounts(r)', minIndex'[r])
    <3>1. GivenRight("sums", pc[r], up[r], OwnSums(r, minIndex[r]), OwnCounts(r), minIndex[r])
      BY <2>2 DEF ClustersRight
    <3>2. OwnCounts(r)' = OwnCounts(r)
      BY <2>4 DEF OwnCounts
    <3>3. \/ pc[r] = "counts" /\ Tail(up[r]) = << >>
          \/ pc[r] = "converged"
      BY <1>t, <2>2, <2>3, QueueNone, TakeOne DEF KMeansInStep
    <3>4. pc[r] = "converged" => Head(Tail(up[r])).value = OwnCounts(r)
      BY <2>3, <3>1 DEF GivenRight
    <3> QED
      BY <2>3, <3>1, <3>2, <3>3, <3>4 DEF GivenRight
  <2>8. sums' = [d \in ClusterIds |-> Scale * Sum(Data', Members(minIndex', d))]
    <3> DEFINE given == Collected(OwnSums(RootRank, c))
    <3>1. \A r \in Ranks : given[r] = OwnSums(r, minIndex[r])'
      <4>1. given[RootRank] = OwnSums(RootRank, minIndex[RootRank])'
        BY <1>0, <2>2, <2>4 DEF Collected, OwnSums
      <4>2. ASSUME NEW r \in Others PROVE given[r] = OwnSums(r, minIndex[r])'
        <5>1. given[r] = Head(up[r]).value
          BY <1>0 DEF Collected
        <5>2. OwnSums(r, minIndex[r])' = OwnSums(r, minIndex[r])
          BY <2>2, <2>4 DEF OwnSums
        <5> QED
          BY <2>7, <5>1, <5>2
      <4>3. \A r \in Ranks : r = RootRank \/ r \in Others
        BY DEF Others
      <4> QED
        BY <4>1, <4>2, <4>3
    <3>2. \A r \in Others : pc[r] # "data"
      BY <2>3, TableSays
    <3>3. /\ numbers \in Seq(Int) /\ Len(numbers) >= N
          /\ \A r \in Ranks : val[r] = Scale * numbers[r + 1]
      BY <2>2, <3>2, AllRead
    <3>4. Reduced(given) = [d \in ClusterIds |-> Scale * Sum(Data', Members(minIndex', d))]
      <4> HIDE DEF given
      <4>1. \A r \in Ranks : given[r] = OwnSums(r, minIndex'[r])
        BY <2>2, <3>1 DEF OwnSums
      <4>2. Reduced(given) = [d \in ClusterIds |-> Scale * Sum(Data, Members(minIndex', d))]
        BY <3>3, <4>1, SumsReduced
      <4> QED
        BY <1>d, <2>2, <4>2
    <3> QED
      BY <2>1, <3>4
  <2>9. ~Stopping'
    BY <2>3 DEF Stopping
  <2> QED
    BY <1>r, <2>2, <2>3, <2>5, <2>6, <2>7, <2>8, <2>9 DEF ClustersRight
<1>5. CASE RootCounts
  <2> DEFINE counts == Reduced(Collected(OwnCounts(RootRank)))
             new == NewMeans(counts)
  <2>1. /\ pc[RootRank] = "counts" /\ CanCollect /\ Collect /\ Move(RootRank, "converged")
        /\ means' = [means EXCEPT ![RootRank] = new]
        /\ converged' = [converged EXCEPT ![RootRank] = new = means[RootRank]]
        /\ UNCHANGED <<numbers, val, minIndex, sums, result>>
    BY <1>5 DEF RootCounts, Ready
  <2>2. /\ pc'[RootRank] = "converged" /\ \A r \in Others : pc'[r] = pc[r]
        /\ down' = down /\ \A r \in Others : up'[r] = Tail(up[r])
        /\ \A r \in Others : up[r] # << >>
    BY <1>c, <1>m, <2>1 DEF CanCollect
  <2>3. ASSUME NEW r \in Others
        PROVE  up'[r] = << >> /\ Head(up[r]).value = OwnCounts(r) /\ pc[r] # "data"
    <3>1. GivenRight("counts", pc[r], up[r], OwnSums(r, minIndex[r]), OwnCounts(r), minIndex[r])
      BY <2>1 DEF ClustersRight
    <3>2. Tail(up[r]) = << >> /\ pc[r] # "data"
      BY <1>t, <2>1, <2>2, QueueNone, TakeOne, ZenonT(30) DEF KMeansInStep
    <3> QED
      BY <2>2, <3>1, <3>2 DEF GivenRight
  <2>4. counts = [c \in ClusterIds |-> Cardinality(Members(minIndex, c))]
    <3> DEFINE given == Collected(OwnCounts(RootRank))
    <3>1. ASSUME NEW r \in Ranks PROVE given[r] = OwnCounts(r)
      <4>1. CASE r = RootRank
        BY <4>1 DEF Collected
      <4>2. CASE r # RootRank
        BY <2>3, <4>2 DEF Collected, Others
      <4> QED
        BY <4>1, <4>2
    <3> HIDE DEF given
    <3>2. Reduced(given) = [c \in ClusterIds |-> Cardinality(Members(minIndex, c))]
      BY <3>1, CountsReduced
    <3> QED
      BY <3>2 DEF given
  <2>5. sums = [c \in ClusterIds |-> Scale * Sum(Data, Members(minIndex, c))]
    BY <2>1 DEF ClustersRight
  <2>6. means[RootRank] \in [ClusterIds -> Int] /\ numbers \in Seq(Int) /\ Len(numbers) >= N
    BY <2>1 DEF NumbersRead
  <2> HIDE DEF counts
  <2>7. ASSUME NEW c \in ClusterIds
        PROVE  /\ new[c] \in Int
               /\ Members(minIndex, c) # {} =>
                    new[c] * Cardinality(Members(minIndex, c))
                      = Scale * Sum(Data, Members(minIndex, c))
    <3> DEFINE M == Members(minIndex, c)
               k == Cardinality(M)
               a == Sum(Data, M)
    <3>1. M \in SUBSET Ranks
      BY DEF Members
    <3>2. k \in Nat /\ k <= N /\ (M # {} <=> k > 0) /\ IsFiniteSet(M)
      BY <3>1, RanksFinite
    <3>3. a \in Int
      <4>1. Summable(Data, M)
        BY <2>6, <3>1, <3>2, DataAre DEF Summable
      <4> QED
        BY <4>1, SumOverStep, SumIs
    <3>4. sums[c] = Scale * a /\ counts[c] = k /\ means[RootRank][c] \in Int
      BY <2>4, <2>5, <2>6
    <3>5. new[c] = IF k > 0 THEN (Scale * a) \div k ELSE means[RootRank][c]
      BY <3>4 DEF NewMeans
    <3> HIDE DEF k, a, M, new
    <3>6. CASE k > 0
      <4>1. k \in 1 .. N
        BY <3>2, <3>6, SizeAssumption
      <4>2. (Scale * a) \div k \in Int /\ ((Scale * a) \div k) * k = Scale * a
        BY <3>3, <4>1, MeanExact
      <4>3. new[c] = (Scale * a) \div k
        BY <3>5, <3>6
      <4>4. new[c] \in Int /\ new[c] * k = Scale * a
        BY <4>2, <4>3
      <4> QED
        BY <4>4 DEF k, a, M
    <3>7. CASE ~(k > 0)
      <4>1. new[c] = means[RootRank][c] /\ M = {}
        BY <3>2, <3>5, <3>7
      <4> QED
        BY <3>4, <4>1 DEF M
    <3> QED
      BY <3>6, <3>7
  <2>8. new \in [ClusterIds -> Int]
    <3>1. new = [c \in ClusterIds |-> new[c]]
      BY DEF NewMeans
    <3> HIDE DEF new
    <3> QED
      BY <2>7, <3>1
  <2> HIDE DEF new
  <2>9. means'[RootRank] = new /\ converged'[RootRank] = (new = means[RootRank])
    BY <1>0, <2>1
  <2>10. NumbersRead'
    BY <1>0, <1>3, <2>1, <2>2, <2>8, <2>9
  <2>11. Stopping' => new = means[RootRank]
    BY <2>2, <2>9 DEF Stopping
  <2>12. Stopping' => MeansSettled'
    BY <1>d, <2>1, <2>7, <2>9 DEF MeansSettled
  <2>13. ASSUME NEW r \in Ranks, Assigned(r)'
         PROVE  minIndex'[r] \in NearestBy(val'[r], means'[RootRank])
    <3>1. Stopping'
      BY <2>2, <2>13 DEF Assigned
    <3>2. means'[RootRank] = means[RootRank]
      BY <2>9, <2>11, <3>1
    <3> QED
      BY <2>1, <3>2 DEF ClustersRight, Assigned
  <2> QED
    BY <1>r, <2>1, <2>2, <2>3, <2>10, <2>12, <2>13, GivenStart DEF ClustersRight
\* A step that changes nothing the root needs to know of the clusters.
<1>6. ASSUME NEW point, Move(RootRank, point), pc[RootRank] \in {"converged", "means"},
             point = "indices" => pc[RootRank] = "converged" /\ converged[RootRank],
             point \in {"indices", "means", "sums"},
             \E op, value : Distribute(op, value),
             UNCHANGED <<numbers, val, means, minIndex, sums, converged, result>>
      PROVE  NumbersRead' /\ ClustersRight'
  <2>1. NumbersRead'
    BY <1>0, <1>3, <1>6
  <2>2. \A r \in Others : up[r] = << >> /\ up'[r] = << >>
    BY <1>u, <1>6 DEF Distribute
  <2>3. pc'[RootRank] = point
    BY <1>m, <1>6
  <2>4. Stopping' => Stopping
    <3>1. Stopping' => point = "indices"
      BY <1>6, <2>3 DEF Stopping
    <3> QED
      BY <1>6, <3>1 DEF Stopping
  <2>5. Stopping' => MeansSettled'
    BY <1>d, <1>6, <2>4 DEF ClustersRight, MeansSettled
  <2>6. \A r \in Ranks : Assigned(r)' => Assigned(r)
    BY <1>6, <2>2, <2>3, <2>4 DEF Assigned, Others
  <2>7. pc'[RootRank] # "counts"
    BY <1>6, <2>3
  <2> QED
    BY <1>6, <1>r, <2>1, <2>2, <2>5, <2>6, <2>7, GivenStart DEF ClustersRight
<1>7. CASE RootConverged
  <2>1. /\ pc[RootRank] = "converged" /\ Move(RootRank, AfterConverged(converged[RootRank]))
        /\ \E op, value : Distribute(op, value)
        /\ UNCHANGED <<numbers, val, means, minIndex, sums, converged, result>>
    BY <1>7 DEF RootConverged, Ready
  <2>2. /\ AfterConverged(converged[RootRank]) \in {"indices", "means"}
        /\ AfterConverged(converged[RootRank]) = "indices" => converged[RootRank]
    BY DEF AfterConverged
  <2> QED
    BY <1>6, <2>1, <2>2
<1>8. CASE RootMeans
  <2>1. /\ pc[RootRank] = "means" /\ Move(RootRank, "sums")
        /\ \E op, value : Distribute(op, value)
        /\ UNCHANGED <<numbers, val, means, minIndex, sums, converged, result>>
    BY <1>8 DEF RootMeans, Ready
  <2> QED
    BY <1>6, <2>1
<1>9. CASE RootIndices
  <2> DEFINE indices == Collected(minIndex[RootRank])
  <2>1. /\ pc[RootRank] = "indices" /\ CanCollect /\ Collect /\ Move(RootRank, "finalized")
        /\ result' = [c \in ClusterIds |->
                         [mean |-> means[RootRank][c],
                          members |-> {r \in Ranks : indices[r] = c}]]
        /\ UNCHANGED <<numbers, val, means, minIndex, sums, converged>>
    BY <1>9 DEF RootIndices, Ready
  <2>2. /\ pc'[RootRank] = "finalized" /\ \A r \in Others : pc'[r] = pc[r]
        /\ down' = down /\ \A r \in Others : up'[r] = Tail(up[r])
        /\ \A r \in Others : up[r] # << >>
    BY <1>c, <1>m, <2>1 DEF CanCollect
  <2>3. ASSUME NEW r \in Others
        PROVE  Head(up[r]).value = minIndex[r] /\ pc[r] # "data"
    <3>1. GivenRight("indices", pc[r], up[r], OwnSums(r, minIndex[r]), OwnCounts(r), minIndex[r])
      BY <2>1 DEF ClustersRight
    <3>2. pc[r] # "data"
      BY <1>t, <2>1 DEF KMeansInStep
    <3> QED
      BY <2>2, <3>1, <3>2 DEF GivenRight
  <2>4. \A r \in Ranks : indices[r] = minIndex[r]
    BY <2>3 DEF Collected, Others
  <2>5. NumbersRead'
    BY <1>0, <1>3, <2>1, <2>2
  <2>6. /\ numbers \in Seq(Int) /\ Len(numbers) >= N
        /\ \A r \in Ranks : val[r] = Scale * numbers[r + 1]
    BY <2>1, <2>3, AllRead
  <2>7. KMeansSettled'
    <3> SUFFICES ASSUME NEW c \in ClusterIds
                 PROVE  LET members == result'[c].members
                        IN  /\ \A r \in members : \A d \in ClusterIds :
                                 Abs(Scale * numbers[r + 1] - result'[c].mean)
                                   <= Abs(Scale * numbers[r + 1] - result'[d].mean)
                            /\ members # {} =>
                                 result'[c].mean * Cardinality(members)
                                   = Scale * Sum([r \in Ranks |-> numbers[r + 1]], members)
      BY <2>1, ZenonT(30) DEF KMeansSettled
    <3>1. \A d \in ClusterIds : result'[d].mean = means[RootRank][d]
      BY <2>1
    <3>2. result'[c].members = Members(minIndex, c)
      <4>1. result'[c].members = {r \in Ranks : indices[r] = c}
        BY <2>1
      <4> HIDE DEF indices
      <4> QED
        BY <2>4, <4>1 DEF Members
    <3>3. MeansSettled /\ \A r \in Ranks : minIndex[r] \in NearestBy(val[r], means[RootRank])
      BY <2>1 DEF ClustersRight, Stopping, Assigned
    <3>4. ASSUME NEW r \in Members(minIndex, c), NEW d \in ClusterIds
          PROVE  Abs(Scale * numbers[r + 1] - means[RootRank][c])
                   <= Abs(Scale * numbers[r + 1] - means[RootRank][d])
      <4>1. r \in Ranks /\ c \in NearestBy(val[r], means[RootRank])
        BY <3>3 DEF Members
      <4>2. val[r] = Scale * numbers[r + 1]
        BY <2>6, <4>1
      <4>3. Abs(val[r] - means[RootRank][c]) <= Abs(val[r] - means[RootRank][d])
        BY <4>1 DEF NearestBy
      <4> QED
        BY <4>2, <4>3
    <3>5. Members(minIndex, c) # {} =>
            means[RootRank][c] * Cardinality(Members(minIndex, c))
              = Scale * Sum([r \in Ranks |-> numbers[r + 1]], Members(minIndex, c))
      BY <3>3 DEF MeansSettled, Data
    <3> QED
      BY <3>1, <3>2, <3>4, <3>5
  <2>8. ~Stopping' /\ \A r \in Ranks : ~Assigned(r)'
    BY <2>2 DEF Stopping, Assigned
  <2>9. ASSUME NEW r \in Others
        PROVE  GivenRight("finalized", pc[r], up'[r], OwnSums(r, minIndex[r])', OwnCounts(r)',
                          minIndex'[r])
    BY DEF GivenRight
  <2> QED
    BY <2>2, <2>5, <2>7, <2>8, <2>9 DEF ClustersRight
<1> QED
  BY <1>1, <1>2, <1>4, <1>5, <1>7, <1>8, <1>9 DEF KMeansRoot

\* Before the numbers are distributed.
LEMMA KMeansStartsRight ==
  Init => KDataInv
<1> SUFFICES ASSUME Init PROVE KDataInv
  OBVIOUS
<1>1. CASE program # "parkmeans"
  BY <1>1 DEF Init, KMeansStart, KDataInv
<1>2. CASE program = "parkmeans"
  <2>1. PICK f \in KMeansFiles : KMeansStart(f)
    BY <1>2 DEF Init
  <2>2. /\ numbers \in Seq(Int) /\ result = << >>
        /\ \A r \in Ranks : pc[r] = "data"
        /\ DOMAIN val = Ranks /\ DOMAIN minIndex = Ranks
    BY <2>1, KMeansFilesAssumption DEF KMeansStart
  <2>3. \A r \in Others : down[r] = << >> /\ up[r] = << >>
    BY DEF Init, MpiInit
  <2>4. NumbersRead
    BY <2>2, <2>3, RanksAre DEF NumbersRead
  <2>5. ~Stopping /\ \A r \in Ranks : ~Assigned(r)
    BY <2>2, RanksAre DEF Stopping, Assigned
  <2>6. pc[RootRank] # "counts" /\ KMeansSettled
    BY <2>2, RanksAre DEF KMeansSettled
  <2>7. ClustersRight
    BY <2>3, <2>5, <2>6, GivenStart DEF ClustersRight
  <2> QED
    BY <1>2, <2>4, <2>7 DEF KDataInv
<1> QED
  BY <1>1, <1>2

\* A step that is not one of parkmeans.
LEMMA KMeansDataStays ==
  ASSUME KDataInv, UNCHANGED <<program, kmeansVars>>,
         program # "parkmeans" \/ UNCHANGED mpiVars
  PROVE  KDataInv'
<1>1. UNCHANGED <<program, numbers, pc, val, means, minIndex, sums, converged, result>>
  BY DEF kmeansVars
<1>2. CASE program # "parkmeans"
  BY <1>1, <1>2 DEF KDataInv
<1>3. CASE program = "parkmeans"
  <2>1. up' = up /\ down' = down
    BY <1>3 DEF mpiVars
  <2>2. NumbersRead'
    BY <1>1, <1>3, <2>1 DEF KDataInv, NumbersRead, Data
  <2>3. /\ \A r \in Ranks : Assigned(r)' = Assigned(r)
        /\ \A r \in Others : /\ OwnSums(r, minIndex[r])' = OwnSums(r, minIndex[r])
                             /\ OwnCounts(r)' = OwnCounts(r)
        /\ Stopping' = Stopping /\ MeansSettled' = MeansSettled /\ Data' = Data
    BY <1>1, <2>1 DEF Assigned, OwnSums, OwnCounts, Stopping, MeansSettled, Members, Data
  <2>4. KMeansSettled'
    BY <1>1, <1>3 DEF KDataInv, ClustersRight, KMeansSettled
  <2>5. ClustersRight'
    BY <1>1, <1>3, <2>1, <2>3, <2>4 DEF KDataInv, ClustersRight
  <2> QED
    BY <1>1, <1>3, <2>2, <2>5 DEF KDataInv
<1> QED
  BY <1>2, <1>3

\* Every step keeps what is known of the numbers and the clusters.
LEMMA KMeansDataKeeps ==
  ASSUME PInv, KDataInv, [Next]_vars
  PROVE  KDataInv'
<1>1. ASSUME program = "parkmeans", KMeansNext, UNCHANGED program
      PROVE  KDataInv'
  <2>1. KMeansInv /\ NumbersRead /\ ClustersRight
    BY <1>1 DEF PInv, JobInv, KDataInv
  <2>2. NumbersRead' /\ ClustersRight'
    BY <1>1, <2>1, RootStepsRight, NodeStepsRight DEF KMeansNext
  <2> QED
    BY <1>1, <2>2 DEF KDataInv
<1>2. CASE RootStep
  <2>1. CASE Split(SplitRoot)
    BY <2>1, KMeansDataStays DEF Split
  <2>2. CASE KMeans(KMeansRoot)
    BY <1>1, <2>2 DEF KMeans, KMeansNext
  <2> QED
    BY <1>2, <2>1, <2>2 DEF RootStep
<1>3. ASSUME NEW r \in Others, NodeStep(r)
      PROVE  KDataInv'
  <2>1. CASE Split(SplitNode(r))
    BY <2>1, KMeansDataStays DEF Split
  <2>2. CASE KMeans(KMeansNode(r))
    BY <1>1, <2>2 DEF KMeans, KMeansNext
  <2> QED
    BY <1>3, <2>1, <2>2 DEF NodeStep
<1>4. ASSUME UNCHANGED <<program, jobVars>>
      PROVE  KDataInv'
  BY <1>4, KMeansDataStays DEF jobVars
<1>5. ASSUME NEW t \in Threads, Thread(t)
      PROVE  KDataInv'
  BY <1>4, <1>5 DEF Thread, Tree, Loop
<1>6. CASE Merge
  BY <1>4, <1>6 DEF Merge
<1>7. CASE UNCHANGED vars
  BY <1>4, <1>7 DEF vars
<1> QED
  BY <1>2, <1>3, <1>5, <1>6, <1>7 DEF Next

\* What parkmeans prints: its means are those of its clusters, and every number is
\* in the cluster whose mean is nearest (main() of the root, parkmeans.cpp).
THEOREM ParallelKMeansSettled ==
  Spec => []KMeansSettled
<1>1. KDataInv => KMeansSettled
  BY DEF KDataInv, ClustersRight, KMeansSettled
<1> QED
  BY <1>1, KMeansStartsRight, KMeansDataKeeps, ParallelInvariant, PTL DEF Spec

-----------------------------------------------------------------------------
(* The triangles that the mesh builders count. *)

\* A triangle is named by its cube and its number there.
Triangles == Cubes \X (Nat \ {0})

\* The stores hold triangles.
StoresRight ==
  /\ triangles \in [Cubes -> Nat]
  /\ stores \in [Threads -> Seq(Triangles)]
  /\ total \in Int
  /\ at \in [Threads -> Points]

\* The calls that have not returned.
Live == {b \in Tasks : state[b] = "live"}

\* The triangles in the stores.
Emitted == Added(Threads, [t \in Threads |-> Len(stores[t])])

\* The account of the tree builder: a call that has not begun, or makes no calls,
\* has counted nothing.
TreeSums ==
  /\ IsFiniteSet(Live)
  /\ sum \in [Tasks -> Int]
  /\ \A b \in Tasks : state[b] \in {"absent", "queued"} \/ Leaf(b) \/ b \in empty => sum[b] = 0
  /\ state[Root] # "done" => total = 0
  /\ TreeAccounted = Emitted

\* The account of the loop builder.
LoopSums ==
  /\ next \in Nat
  /\ partial \in [Threads -> Int]
  /\ \A t \in Threads : at[t] = "start" => partial[t] = 0
  /\ LoopAccounted = Emitted

\* The account of the builder that runs.
MeshSums ==
  /\ StoresRight
  /\ program = "tree" => TreeSums
  /\ program = "loop" => LoopSums

-----------------------------------------------------------------------------
(* The cubes. *)

\* The octant's offset along axis d is 0 or 1.
LEMMA OffsetIs ==
  ASSUME NEW o \in Octants, NEW d \in 1 .. Dims
  PROVE  Offset(o, d) \in 0 .. 1
<1>1. Dims - d \in 0 .. Dims /\ o \in Int
  BY OctantsAre, GridAssumption DEF Octants
<1>2. 2 ^ (Dims - d) \in Nat \ {0}
  BY <1>1, TwoPowers, GridAssumption, PowersPositive
<1> DEFINE p == 2 ^ (Dims - d)
<1>3. p \in Nat \ {0}
  BY <1>2
<1> HIDE DEF p
<1>4. o \div p \in Int
  BY <1>1, <1>3, SMTT(30)
<1> DEFINE q == o \div p
<1>5. q \in Int
  BY <1>4
<1> HIDE DEF q
<1>6. q % 2 \in 0 .. 1
  BY <1>5
<1> QED
  BY <1>6 DEF Offset, q, p

\* The edges of the blocks that lead to the cube of a leaf, along axis d.
Edge(b, d) == [i \in DOMAIN b |-> Offset(b[i], d) * 2 ^ (Depth - i)]

\* The partial sums that CubeOf() builds.
EdgeSums(b, d) ==
  LET q == [i \in DOMAIN b |-> i]
  IN  CHOOSE g : g = [s \in SUBSET DOMAIN q |->
                        IF s = {} THEN 0
                        ELSE LET x == Max(s)
                             IN  g[s \ {x}] + Offset(b[q[x]], d) * 2 ^ (Depth - q[x])]

\* They are the coordinates of the cube.
LEMMA CubeOfIs ==
  ASSUME NEW b
  PROVE  CubeOf(b) = [d \in 1 .. Dims |-> EdgeSums(b, d)[DOMAIN [i \in DOMAIN b |-> i]]]
BY DEF CubeOf, EdgeSums, FoldLeftDomain, FoldLeft, MapThenFoldSet

\* A finite set of integers has a greatest one.
LEMMA Greatest ==
  ASSUME NEW S \in SUBSET Int, IsFiniteSet(S), S # {}
  PROVE  Max(S) \in S
<1> DEFINE G == {T \in SUBSET S : T # {} => \E x \in T : \A y \in T : x >= y}
<1>1. {} \in G
  OBVIOUS
<1>2. ASSUME NEW T \in SUBSET S, NEW x \in S \ T, T \in G PROVE T \cup {x} \in G
  <2>1. CASE T = {}
    BY <2>1
  <2>2. CASE T # {}
    <3>1. PICK z \in T : \A y \in T : z >= y
      BY <1>2, <2>2
    <3>2. \A y \in T : y \in Int
      OBVIOUS
    <3>3. CASE z >= x
      BY <3>1, <3>3
    <3>4. CASE ~(z >= x)
      <4>1. \A y \in T \cup {x} : x >= y
        BY <3>1, <3>2, <3>4
      <4> QED
        BY <4>1
    <3> QED
      BY <3>3, <3>4
  <2> QED
    BY <2>1, <2>2
<1> HIDE DEF G
<1>3. S \in G
  BY <1>1, <1>2, FiniteInduction
<1> QED
  BY <1>3 DEF G, Max

\* They are those of the edges.
LEMMA EdgeSumsAre ==
  ASSUME NEW b, NEW d, NEW n \in Nat, DOMAIN b = 1 .. n, Summable(Edge(b, d), 1 .. n)
  PROVE  EdgeSums(b, d)[DOMAIN [i \in DOMAIN b |-> i]] = SumOver(Edge(b, d), 1 .. n)
<1> DEFINE D == SUBSET (1 .. n)
           f == Edge(b, d)
           q == [i \in DOMAIN b |-> i]
           B(g) == [s \in SUBSET DOMAIN q |->
                      IF s = {} THEN 0
                      ELSE LET x == Max(s)
                           IN  g[s \ {x}] + Offset(b[q[x]], d) * 2 ^ (Depth - q[x])]
           h == [s \in D |-> SumOver(f, s)]
           P == EdgeSums(b, d)
<1>1. DOMAIN q = 1 .. n
  OBVIOUS
<1>2. ASSUME NEW s \in D, s # {}
      PROVE  /\ Max(s) \in s /\ s \ {Max(s)} \in D /\ Summable(f, s)
             /\ f[Max(s)] = Offset(b[q[Max(s)]], d) * 2 ^ (Depth - q[Max(s)])
             /\ f[Max(s)] \in Int /\ IsFiniteSet(s)
  <2>1. Summable(f, s) /\ IsFiniteSet(s)
    BY FS_Subset DEF Summable
  <2>2. s \in SUBSET Int
    OBVIOUS
  <2>3. Max(s) \in s
    BY <1>2, <2>1, <2>2, Greatest
  <2>4. q[Max(s)] = Max(s) /\ Max(s) \in DOMAIN b
    BY <2>3
  <2>5. f[Max(s)] = Offset(b[q[Max(s)]], d) * 2 ^ (Depth - q[Max(s)])
    BY <2>4 DEF Edge
  <2> QED
    BY <2>1, <2>3, <2>5 DEF Summable
<1>3. \A g : \A s \in D : B(g)[s] = IF s = {} THEN 0 ELSE g[s \ {Max(s)}] + f[Max(s)]
  BY <1>1, <1>2
<1>4. h = B(h)
  <2>1. ASSUME NEW s \in D PROVE h[s] = B(h)[s]
    <3>1. CASE s = {}
      <4>1. SumOver(f, {}) = 0
        <5>1. Summable(f, {})
          BY FS_EmptySet DEF Summable
        <5> QED
          BY <5>1, SumOverStep
      <4>2. h[s] = 0
        BY <3>1, <4>1
      <4> QED
        BY <1>3, <3>1, <4>2
    <3>2. CASE s # {}
      <4>1. SumOver(f, s) = f[Max(s)] + SumOver(f, s \ {Max(s)})
        <5>1. Summable(f, s) /\ Max(s) \in s
          BY <1>2, <3>2
        <5> HIDE DEF f, h, B
        <5>2. \A x \in s : SumOver(f, s) = f[x] + SumOver(f, s \ {x})
          BY <5>1, SumOverTakes
        <5> QED
          BY <5>1, <5>2
      <4>2. h[s] = SumOver(f, s) /\ h[s \ {Max(s)}] = SumOver(f, s \ {Max(s)})
        BY <1>2, <3>2
      <4>3. SumOver(f, s \ {Max(s)}) \in Int
        <5>1. Summable(f, s \ {Max(s)})
          BY <1>2, <3>2, FS_Subset DEF Summable
        <5> QED
          BY <5>1, SumOverStep
      <4>4. B(h)[s] = h[s \ {Max(s)}] + f[Max(s)]
        BY <1>3, <3>2
      <4> DEFINE u == SumOver(f, s \ {Max(s)})
                 v == f[Max(s)]
      <4>5. u \in Int /\ v \in Int /\ h[s] = v + u /\ B(h)[s] = u + v
        BY <1>2, <3>2, <4>1, <4>2, <4>3, <4>4
      <4> HIDE DEF u, v, h, B
      <4> QED
        BY <4>5
    <3> QED
      BY <3>1, <3>2
  <2>2. DOMAIN h = D /\ h = [s \in D |-> h[s]]
    OBVIOUS
  <2>3. B(h) = [s \in D |-> B(h)[s]]
    BY <1>1
  <2> HIDE DEF h, B, D
  <2> QED
    BY <2>1, <2>2, <2>3
<1>5. P = B(P)
  <2>1. P = CHOOSE g : g = B(g)
    BY DEF EdgeSums
  <2> HIDE DEF P, B, h
  <2> QED
    BY <1>4, <2>1
<1>6. P[1 .. n] = SumOver(f, 1 .. n)
  <2> DEFINE m == [s \in D |-> Cardinality(s)]
             G == {s \in D : P[s] = SumOver(f, s)}
  <2>1. m \in [D -> Nat] /\ \A s \in D : s # {} => m[s \ {Max(s)}] < m[s]
    <3>1. ASSUME NEW s \in D PROVE IsFiniteSet(s) /\ Cardinality(s) \in Nat
      BY FS_Subset, FS_CardinalityType DEF Summable
    <3>2. ASSUME NEW s \in D, s # {} PROVE m[s \ {Max(s)}] < m[s]
      <4>1. Cardinality(s \ {Max(s)}) = Cardinality(s) - 1
        BY <1>2, <3>1, <3>2, FS_RemoveElement
      <4>2. m[s] = Cardinality(s) /\ m[s \ {Max(s)}] = Cardinality(s \ {Max(s)})
        BY <1>2, <3>2
      <4> QED
        BY <3>1, <4>1, <4>2
    <3> QED
      BY <3>1, <3>2
  <2> HIDE DEF m, P
  <2>2. ASSUME NEW s \in D, \A t \in D : m[t] < m[s] => t \in G PROVE s \in G
    <3>1. P[s] = B(P)[s] /\ h[s] = B(h)[s] /\ h[s] = SumOver(f, s)
      BY <1>4, <1>5
    <3>2. s # {} => P[s \ {Max(s)}] = SumOver(f, s \ {Max(s)})
      BY <1>2, <2>1, <2>2
    <3>3. s # {} => h[s \ {Max(s)}] = SumOver(f, s \ {Max(s)})
      BY <1>2
    <3>4. /\ B(P)[s] = IF s = {} THEN 0 ELSE P[s \ {Max(s)}] + f[Max(s)]
          /\ B(h)[s] = IF s = {} THEN 0 ELSE h[s \ {Max(s)}] + f[Max(s)]
      BY <1>3
    <3> HIDE DEF h, B
    <3> QED
      BY <3>1, <3>2, <3>3, <3>4
  <2>3. 1 .. n \in D
    OBVIOUS
  <2> HIDE DEF D, G
  <2>4. D \subseteq G
    BY <2>1, <2>2, MeasureInduction
  <2> QED
    BY <2>3, <2>4 DEF G
<1> QED
  BY <1>1, <1>6

\* The cube of a leaf is one of the grid.
LEMMA LeafCube ==
  ASSUME NEW b \in Tasks, Leaf(b)
  PROVE  CubeOf(b) \in Cubes
<1>1. /\ Depth \in Nat /\ GridSize = 2 ^ Depth
      /\ b \in [1 .. Depth -> Octants]
  <2>1. PICK k \in 0 .. Depth : b \in [1 .. k -> Octants]
    BY DEF Tasks
  <2>2. Depth \in Nat /\ k \in Nat /\ Len(b) = k
    BY <2>1, DepthAssumption
  <2> QED
    BY <2>1, <2>2, DepthAssumption DEF Leaf
<1>2. \A k \in 0 .. Depth : 2 ^ k \in Nat \ {0}
  BY <1>1, TwoPowers, PowersPositive
<1> SUFFICES ASSUME NEW d \in 1 .. Dims
             PROVE  EdgeSums(b, d)[DOMAIN [i \in DOMAIN b |-> i]] \in 0 .. GridSize - 1
  BY CubeOfIs DEF Cubes
<1> DEFINE f == Edge(b, d)
           w(i) == 2 ^ (Depth - i)
           G == {n \in Nat : n <= Depth =>
                   /\ Summable(f, 1 .. n)
                   /\ SumOver(f, 1 .. n) \in 0 .. w(0) - w(n)}
<1>3. \A n \in 0 .. Depth : w(n) \in Nat \ {0}
  <2>1. \A n \in 0 .. Depth : Depth - n \in 0 .. Depth
    BY <1>1
  <2> QED
    BY <1>2, <2>1
<1>4. \A n \in Nat : n + 1 <= Depth => w(n) = 2 * w(n + 1)
  <2> SUFFICES ASSUME NEW n \in Nat, n + 1 <= Depth PROVE w(n) = 2 * w(n + 1)
    OBVIOUS
  <2>1. Depth - (n + 1) \in 0 .. Depth - 1 /\ Depth - n = (Depth - (n + 1)) + 1
    BY <1>1
  <2>2. \A k \in 0 .. Depth - 1 : 2 ^ (k + 1) = 2 * 2 ^ k
    BY TwoPowers DEF PowerLaw
  <2> QED
    BY <2>1, <2>2
<1>5. \A i \in 1 .. Depth : f[i] \in 0 .. w(i)
  <2> SUFFICES ASSUME NEW i \in 1 .. Depth PROVE f[i] \in 0 .. w(i)
    OBVIOUS
  <2>1. Offset(b[i], d) \in 0 .. 1
    BY <1>1, OffsetIs
  <2>2. f[i] = Offset(b[i], d) * w(i)
    BY <1>1 DEF Edge
  <2>3. w(i) \in Nat
    BY <1>1, <1>3
  <2> DEFINE o == Offset(b[i], d)
             p == w(i)
  <2>4. o \in 0 .. 1 /\ p \in Nat /\ f[i] = o * p
    BY <2>1, <2>2, <2>3
  <2> HIDE DEF o, p, f
  <2>5. f[i] \in 0 .. p
    <3>1. o = 0 \/ o = 1
      BY <2>4
    <3> QED
      BY <2>4, <3>1
  <2> QED
    BY <2>5 DEF p
<1> HIDE DEF f, w
<1>6. 0 \in G
  <2>1. 1 .. 0 = {} /\ w(0) - w(0) = 0
    BY <1>1, <1>3
  <2>2. Summable(f, {})
    BY FS_EmptySet DEF Summable
  <2>3. SumOver(f, {}) = 0
    BY <2>2, SumOverStep
  <2> QED
    BY <2>1, <2>2, <2>3
<1>7. ASSUME NEW n \in Nat, n \in G PROVE n + 1 \in G
  <2> SUFFICES ASSUME n + 1 <= Depth
               PROVE  /\ Summable(f, 1 .. n + 1)
                      /\ SumOver(f, 1 .. n + 1) \in 0 .. w(0) - w(n + 1)
    OBVIOUS
  <2>1. 1 .. n + 1 = (1 .. n) \cup {n + 1} /\ n + 1 \notin 1 .. n /\ n + 1 \in 1 .. Depth
    OBVIOUS
  <2>2. Summable(f, 1 .. n) /\ SumOver(f, 1 .. n) \in 0 .. w(0) - w(n)
    BY <1>1, <1>7
  <2>3. f[n + 1] \in Int /\ f[n + 1] \in 0 .. w(n + 1)
    BY <1>5, <2>1
  <2>4. /\ Summable(f, (1 .. n) \cup {n + 1})
        /\ SumOver(f, (1 .. n) \cup {n + 1}) = f[n + 1] + SumOver(f, 1 .. n)
    BY <2>1, <2>2, <2>3, SumOverAdds
  <2>5. w(n) = 2 * w(n + 1) /\ w(n + 1) \in Nat /\ w(0) \in Nat
    BY <1>1, <1>3, <1>4, <2>1
  <2>6. f[n + 1] + SumOver(f, 1 .. n) \in 0 .. w(0) - w(n + 1)
    BY <2>2, <2>3, <2>5
  <2> QED
    BY <2>1, <2>4, <2>6
<1> HIDE DEF G
<1>8. Nat \subseteq G
  BY <1>6, <1>7, NatSetInduction
<1>9. Summable(f, 1 .. Depth) /\ SumOver(f, 1 .. Depth) \in 0 .. w(0) - w(Depth)
  BY <1>1, <1>8 DEF G
<1>10. w(0) = GridSize /\ w(Depth) = 1
  <2>1. Depth - 0 = Depth /\ Depth - Depth = 0 /\ 2 ^ 0 = 1
    BY <1>1, TwoPowers DEF PowerLaw
  <2> QED
    BY <1>1, <2>1 DEF w
<1>11. DOMAIN b = 1 .. Depth
  BY <1>1
<1>12. EdgeSums(b, d)[DOMAIN [i \in DOMAIN b |-> i]] = SumOver(Edge(b, d), 1 .. Depth)
  BY <1>1, <1>9, <1>11, EdgeSumsAre DEF f
<1> QED
  BY <1>9, <1>10, <1>12 DEF f

\* The cube of an iteration is one of the grid.
LEMMA IterationCube ==
  ASSUME NEW i \in Int
  PROVE  CubeOfIteration(i) \in Cubes
<1> SUFFICES ASSUME NEW d \in 1 .. Dims
             PROVE  (i \div GridSize ^ (Dims - d)) % GridSize \in 0 .. GridSize - 1
  BY DEF CubeOfIteration, Cubes
<1>1. Dims - d \in 0 .. Dims
  BY GridAssumption
<1> DEFINE p == GridSize ^ (Dims - d)
<1>2. p \in Nat \ {0} /\ GridSize \in Nat \ {0}
  BY <1>1, GridPowers, GridAssumption, PowersPositive
<1> HIDE DEF p
<1>3. i \div p \in Int
  BY <1>2, SMTT(30)
<1> DEFINE q == i \div p
<1>4. q \in Int
  BY <1>3
<1> HIDE DEF q
<1>5. q % GridSize \in 0 .. GridSize - 1
  BY <1>2, <1>4, SMTT(30)
<1> QED
  BY <1>5 DEF q, p

\* The triangles of a cube.
LEMMA TrianglesAre ==
  ASSUME triangles \in [Cubes -> Nat], NEW c \in Cubes
  PROVE  TrianglesOf(c) \in Seq(Triangles) /\ Len(TrianglesOf(c)) = triangles[c]
<1>1. triangles[c] \in Nat
  OBVIOUS
<1> DEFINE n == triangles[c]
<1>2. n \in Nat
  BY <1>1
<1>3. \A i \in 1 .. n : <<c, i>> \in Triangles
  BY <1>2 DEF Triangles
<1> HIDE DEF n
<1> DEFINE s == [i \in 1 .. n |-> <<c, i>>]
<1>4. s \in [1 .. n -> Triangles]
  BY <1>3
<1> HIDE DEF s
<1>5. s \in Seq(Triangles) /\ Len(s) = n
  BY <1>2, <1>4
<1> QED
  BY <1>5 DEF s, n, TrianglesOf

\* The parts that FlattenSeq() builds.
Flattened(q) ==
  CHOOSE g : g = [i \in 1 .. Len(q) |-> IF i = 1 THEN q[i] ELSE g[i - 1] \o q[i]]

\* The last of them is the result.
LEMMA FlattenIs ==
  ASSUME NEW q
  PROVE  FlattenSeq(q) = IF Len(q) = 0 THEN q ELSE Flattened(q)[Len(q)]
BY DEF FlattenSeq, Flattened

\* They satisfy their equation.
LEMMA FlattenedAre ==
  ASSUME NEW T, NEW q \in Seq(Seq(T))
  PROVE  \A i \in 1 .. Len(q) :
           /\ Flattened(q)[i] \in Seq(T)
           /\ Flattened(q)[i] = IF i = 1 THEN q[i] ELSE Flattened(q)[i - 1] \o q[i]
<1> DEFINE D == 1 .. Len(q)
           U == Seq(T)
           m == [i \in D |-> i]
           B == [p \in [D -> U] \X D |-> IF p[2] = 1 THEN q[p[2]] ELSE p[1][p[2] - 1] \o q[p[2]]]
<1>1. Len(q) \in Nat /\ \A i \in D : q[i] \in U /\ i \in Nat
  OBVIOUS
<1>2. \A i \in D : i # 1 => i - 1 \in D
  BY <1>1
<1>3. m \in [D -> Nat] /\ \A i \in D : i # 1 => m[i - 1] < m[i]
  BY <1>1, <1>2
<1> HIDE DEF m, D
<1>4. Descending(B, D, U, m)
  <2>1. B \in [[D -> U] \X D -> U]
    <3>1. ASSUME NEW g \in [D -> U], NEW i \in D
          PROVE  (IF i = 1 THEN q[i] ELSE g[i - 1] \o q[i]) \in U
      <4>1. CASE i = 1
        BY <1>1, <4>1
      <4>2. CASE i # 1
        <5>1. g[i - 1] \in U /\ q[i] \in U
          BY <1>1, <1>2, <4>2
        <5> QED
          BY <4>2, <5>1
      <4> QED
        BY <4>1, <4>2
    <3> HIDE DEF U
    <3> QED
      BY <3>1
  <2>2. ASSUME NEW g \in [D -> U], NEW h \in [D -> U], NEW i \in D,
               \A j \in D : m[j] < m[i] => g[j] = h[j]
        PROVE  B[<<g, i>>] = B[<<h, i>>]
    <3>1. i # 1 => g[i - 1] = h[i - 1]
      BY <1>2, <1>3, <2>2
    <3>2. /\ B[<<g, i>>] = IF i = 1 THEN q[i] ELSE g[i - 1] \o q[i]
          /\ B[<<h, i>>] = IF i = 1 THEN q[i] ELSE h[i - 1] \o q[i]
      OBVIOUS
    <3> HIDE DEF B
    <3> QED
      BY <3>1, <3>2
  <2>3. U # {}
    <3>1. << >> \in U
      OBVIOUS
    <3> QED
      BY <3>1
  <2> HIDE DEF B, U
  <2> QED
    BY <1>3, <2>1, <2>2, <2>3 DEF Descending
<1>5. PICK g \in Defines(B, D, U) : TRUE
  <2> HIDE DEF B, U
  <2> QED
    BY <1>4, Recursion
<1>6. g = [i \in D |-> IF i = 1 THEN q[i] ELSE g[i - 1] \o q[i]]
  <2>1. g \in [D -> U] /\ \A i \in D : g[i] = B[<<g, i>>]
    BY <1>5 DEF Defines
  <2>2. \A i \in D : B[<<g, i>>] = IF i = 1 THEN q[i] ELSE g[i - 1] \o q[i]
    BY <2>1
  <2> HIDE DEF B
  <2> QED
    BY <2>1, <2>2
<1> DEFINE P == Flattened(q)
<1>7. P = [i \in 1 .. Len(q) |-> IF i = 1 THEN q[i] ELSE P[i - 1] \o q[i]]
  BY <1>6 DEF Flattened, D
<1> HIDE DEF P
<1>8. \A i \in D : P[i] \in U
  <2> DEFINE G == {i \in D : P[i] \in U}
  <2>1. ASSUME NEW i \in D, \A j \in D : m[j] < m[i] => j \in G PROVE i \in G
    <3>1. P[i] = IF i = 1 THEN q[i] ELSE P[i - 1] \o q[i]
      BY <1>7 DEF D
    <3>2. i # 1 => P[i - 1] \in U
      BY <1>2, <1>3, <2>1
    <3>3. q[i] \in U
      BY <1>1
    <3>4. P[i] \in U
      <4>1. CASE i = 1
        BY <3>1, <3>3, <4>1
      <4>2. CASE i # 1
        <5> DEFINE a == P[i - 1]
                   c == q[i]
        <5>1. a \in Seq(T) /\ c \in Seq(T) /\ P[i] = a \o c
          BY <3>1, <3>2, <3>3, <4>2
        <5> HIDE DEF a, c
        <5>2. a \o c \in Seq(T)
          BY <5>1
        <5> QED
          BY <5>1, <5>2
      <4> QED
        BY <4>1, <4>2
    <3> QED
      BY <3>4
  <2> HIDE DEF G
  <2>2. D \subseteq G
    BY <1>3, <2>1, MeasureInduction
  <2> QED
    BY <2>2 DEF G
<1>9. \A i \in D : P[i] = IF i = 1 THEN q[i] ELSE P[i - 1] \o q[i]
  BY <1>7 DEF D
<1> QED
  BY <1>8, <1>9 DEF P, D

\* Sequences of sequences are flattened into a sequence.
LEMMA FlattenedSeq ==
  ASSUME NEW T, NEW q \in Seq(Seq(T))
  PROVE  FlattenSeq(q) \in Seq(T)
<1>1. Len(q) \in Nat /\ \A i \in 1 .. Len(q) : Flattened(q)[i] \in Seq(T)
  BY FlattenedAre
<1>2. Len(q) # 0 => Len(q) \in 1 .. Len(q)
  BY <1>1
<1>3. Len(q) = 0 => q \in Seq(T)
  <2>1. Len(q) = 0 => q = << >>
    OBVIOUS
  <2> QED
    BY <2>1
<1> QED
  BY <1>1, <1>2, <1>3, FlattenIs

\* What holds of nothing, and of each part if of the one before it, holds of the
\* whole.
LEMMA FlattenInduction ==
  ASSUME NEW T, NEW q \in Seq(Seq(T)), NEW G, <<0, << >>>> \in G,
         \A i \in 1 .. Len(q) : \A s \in Seq(T) : <<i - 1, s>> \in G => <<i, s \o q[i]>> \in G
  PROVE  <<Len(q), FlattenSeq(q)>> \in G
<1> DEFINE n == Len(q)
           P == Flattened(q)
           K == {i \in Nat : i \in 1 .. n => <<i, P[i]>> \in G}
<1>1. n \in Nat /\ \A i \in 1 .. n : q[i] \in Seq(T)
  OBVIOUS
<1>2. \A i \in 1 .. n : P[i] \in Seq(T) /\ P[i] = IF i = 1 THEN q[i] ELSE P[i - 1] \o q[i]
  BY FlattenedAre
<1>3. \A i \in 1 .. n : \A s \in Seq(T) : <<i - 1, s>> \in G => <<i, s \o q[i]>> \in G
  OBVIOUS
<1> HIDE DEF P, n
<1>4. 0 \in K
  OBVIOUS
<1>5. ASSUME NEW i \in Nat, i \in K PROVE i + 1 \in K
  <2> SUFFICES ASSUME i + 1 \in 1 .. n PROVE <<i + 1, P[i + 1]>> \in G
    BY <1>5
  <2>1. CASE i = 0
    <3>1. 1 \in 1 .. n
      BY <2>1
    <3> DEFINE s == q[1]
    <3>2. s \in Seq(T) /\ P[1] = s
      BY <1>1, <1>2, <3>1
    <3>3. << >> \in Seq(T)
      OBVIOUS
    <3>4. <<1 - 1, << >>>> \in G => <<1, << >> \o s>> \in G
      BY <1>3, <3>1, <3>3
    <3> HIDE DEF s
    <3>5. << >> \o s = s
      BY <3>2
    <3>6. 1 - 1 = 0
      OBVIOUS
    <3>7. <<1 - 1, << >>>> \in G
      BY <3>6
    <3>8. <<1, P[1]>> \in G
      BY <3>2, <3>4, <3>5, <3>7
    <3>9. i + 1 = 1
      BY <2>1
    <3> QED
      BY <3>8, <3>9
  <2>2. CASE i # 0
    <3>1. i \in 1 .. n /\ i + 1 # 1 /\ (i + 1) - 1 = i
      BY <1>1, <2>2
    <3>2. <<i, P[i]>> \in G
      BY <1>5, <3>1
    <3>3. P[i] \in Seq(T) /\ P[i + 1] = P[i] \o q[i + 1]
      BY <1>2, <3>1
    <3> QED
      BY <1>3, <3>1, <3>2, <3>3
  <2> QED
    BY <2>1, <2>2
<1> HIDE DEF K
<1>6. Nat \subseteq K
  BY <1>4, <1>5, NatSetInduction
<1>7. n # 0 => <<n, P[n]>> \in G
  BY <1>1, <1>6 DEF K
<1>8. FlattenSeq(q) = IF n = 0 THEN q ELSE P[n]
  BY FlattenIs DEF n, P
<1>9. n = 0 => q = << >>
  BY DEF n
<1>10. CASE n = 0
  BY <1>8, <1>9, <1>10 DEF n
<1>11. CASE n # 0
  BY <1>7, <1>8, <1>11 DEF n
<1> QED
  BY <1>10, <1>11

\* One sequence after another.
LEMMA OneAfterAnother ==
  ASSUME NEW T, NEW s \in Seq(T), NEW t \in Seq(T)
  PROVE  /\ s \o t \in Seq(T) /\ Len(s \o t) = Len(s) + Len(t)
         /\ ToSet(s \o t) = ToSet(s) \cup ToSet(t)
         /\ IsInjective(s) /\ IsInjective(t) /\ ToSet(s) \cap ToSet(t) = {} =>
              IsInjective(s \o t)
<1> DEFINE c == s \o t
           m == Len(s)
           n == Len(t)
<1>1. m \in Nat /\ n \in Nat /\ DOMAIN s = 1 .. m /\ DOMAIN t = 1 .. n
  OBVIOUS
<1>2. /\ c \in Seq(T) /\ Len(c) = m + n /\ DOMAIN c = 1 .. m + n
      /\ \A i \in 1 .. m + n : c[i] = IF i <= m THEN s[i] ELSE t[i - m]
  OBVIOUS
<1> HIDE DEF c, m, n
<1>3. \A i \in 1 .. m : i \in 1 .. m + n /\ c[i] = s[i]
  BY <1>1, <1>2
<1>4. \A i \in 1 .. n : m + i \in 1 .. m + n /\ c[m + i] = t[i]
  <2> SUFFICES ASSUME NEW i \in 1 .. n PROVE m + i \in 1 .. m + n /\ c[m + i] = t[i]
    OBVIOUS
  <2>1. m + i \in 1 .. m + n /\ ~(m + i <= m) /\ (m + i) - m = i
    BY <1>1
  <2> QED
    BY <1>2, <2>1
<1>5. \A i \in 1 .. m + n : i \in 1 .. m \/ (i - m \in 1 .. n /\ c[i] = t[i - m])
  BY <1>1, <1>2
<1>6. ToSet(c) = ToSet(s) \cup ToSet(t)
  <2>1. /\ ToSet(s) = {s[i] : i \in 1 .. m} /\ ToSet(t) = {t[i] : i \in 1 .. n}
        /\ ToSet(c) = {c[i] : i \in 1 .. m + n}
    BY <1>1, <1>2 DEF ToSet
  <2>2. ASSUME NEW i \in 1 .. m + n PROVE c[i] \in ToSet(s) \cup ToSet(t)
    <3>1. CASE i \in 1 .. m
      BY <1>3, <2>1, <3>1
    <3>2. CASE i - m \in 1 .. n /\ c[i] = t[i - m]
      BY <2>1, <3>2
    <3> QED
      BY <1>5, <3>1, <3>2
  <2>3. ASSUME NEW i \in 1 .. m PROVE s[i] \in ToSet(c)
    BY <1>3, <2>1
  <2>4. ASSUME NEW i \in 1 .. n PROVE t[i] \in ToSet(c)
    BY <1>4, <2>1
  <2> QED
    BY <2>1, <2>2, <2>3, <2>4
<1>7. ASSUME IsInjective(s), IsInjective(t), ToSet(s) \cap ToSet(t) = {}
      PROVE  IsInjective(c)
  <2> SUFFICES ASSUME NEW i \in 1 .. m + n, NEW j \in 1 .. m + n, c[i] = c[j] PROVE i = j
    BY <1>2 DEF IsInjective
  <2>1. \A k, l \in 1 .. m : s[k] = s[l] => k = l
    BY <1>1, <1>7 DEF IsInjective
  <2>2. \A k, l \in 1 .. n : t[k] = t[l] => k = l
    BY <1>1, <1>7 DEF IsInjective
  <2>3. \A k \in 1 .. m, l \in 1 .. n : s[k] # t[l]
    BY <1>1, <1>7 DEF ToSet
  <2>4. CASE i \in 1 .. m
    BY <1>3, <1>5, <2>1, <2>3, <2>4
  <2>5. CASE j \in 1 .. m
    BY <1>3, <1>5, <2>1, <2>3, <2>5
  <2>6. CASE i \notin 1 .. m /\ j \notin 1 .. m
    <3>1. i - m \in 1 .. n /\ j - m \in 1 .. n /\ t[i - m] = t[j - m]
      BY <1>5, <2>6
    <3>2. i - m = j - m
      BY <2>2, <3>1
    <3> QED
      BY <1>1, <3>2
  <2> QED
    BY <2>4, <2>5, <2>6
<1> QED
  BY <1>2, <1>6, <1>7 DEF c, m, n

\* Parts that have nothing in common, each with no triangle twice, are flattened
\* into a sequence with no triangle twice.
LEMMA FlattenApart ==
  ASSUME NEW T, NEW q \in Seq(Seq(T)),
         \A i \in 1 .. Len(q) : IsInjective(q[i]),
         \A i, j \in 1 .. Len(q) : i # j => ToSet(q[i]) \cap ToSet(q[j]) = {}
  PROVE  /\ IsInjective(FlattenSeq(q))
         /\ ToSet(FlattenSeq(q)) = UNION {ToSet(q[i]) : i \in 1 .. Len(q)}
<1> DEFINE All(k) == UNION {ToSet(q[i]) : i \in 1 .. k}
           G == {p \in Nat \X Seq(T) : IsInjective(p[2]) /\ ToSet(p[2]) = All(p[1])}
<1>1. Len(q) \in Nat /\ \A i \in 1 .. Len(q) : q[i] \in Seq(T)
  OBVIOUS
<1>2. <<0, << >>>> \in G
  <2>1. << >> \in Seq(T) /\ IsInjective(<< >>) /\ ToSet(<< >>) = {}
    BY DEF IsInjective, ToSet
  <2>2. All(0) = {}
    OBVIOUS
  <2> QED
    BY <2>1, <2>2
<1>3. ASSUME NEW i \in 1 .. Len(q), NEW s \in Seq(T), <<i - 1, s>> \in G
      PROVE  <<i, s \o q[i]>> \in G
  <2> DEFINE r == q[i]
  <2>1. i - 1 \in Nat /\ i \in Nat /\ r \in Seq(T) /\ IsInjective(r)
    BY <1>1
  <2>2. IsInjective(s) /\ ToSet(s) = All(i - 1)
    BY <1>3
  <2>3. \A j \in 1 .. i - 1 : j \in 1 .. Len(q) /\ j # i
    BY <1>1
  <2>4. All(i - 1) \cap ToSet(r) = {}
    <3>1. \A j \in 1 .. i - 1 : ToSet(q[j]) \cap ToSet(q[i]) = {}
      BY <2>3
    <3> QED
      BY <3>1
  <2>5. All(i) = All(i - 1) \cup ToSet(r)
    <3>1. 1 .. i = (1 .. i - 1) \cup {i}
      BY <2>1
    <3> QED
      BY <3>1
  <2> HIDE DEF r, All, G
  <2>6. /\ s \o r \in Seq(T) /\ IsInjective(s \o r)
        /\ ToSet(s \o r) = ToSet(s) \cup ToSet(r)
    BY <2>1, <2>2, <2>4, OneAfterAnother
  <2>7. <<i, s \o r>> \in G
    BY <2>1, <2>2, <2>5, <2>6 DEF G
  <2> QED
    BY <2>7 DEF r
<1> HIDE DEF G
<1>4. <<Len(q), FlattenSeq(q)>> \in G
  BY <1>2, <1>3, FlattenInduction
<1> QED
  BY <1>4 DEF G

-----------------------------------------------------------------------------
(* The builders' steps. *)

\* The sums of the model are those of SetInduction.
LEMMA AddedIs ==
  ASSUME NEW S, NEW f
  PROVE  Added(S, f) = SumOver(f, S)
BY DEF Added, SumOver

\* A team is finite.
LEMMA TeamIsFinite ==
  IsFiniteSet(Threads)
<1>1. IsFiniteSet(0 .. MaxThreads - 1)
  BY ThreadsAssumption, FS_Interval
<1> QED
  BY <1>1, ThreadsAssumption, FS_Subset

\* A thread emits triangles: one more for each.
LEMMA EmitCounts ==
  ASSUME StoresRight, NEW t \in Threads, NEW e \in Seq(Triangles), Emit(t, e)
  PROVE  /\ stores' \in [Threads -> Seq(Triangles)]
         /\ Emitted \in Int
         /\ Emitted' = Emitted + Len(e)
<1> DEFINE f == [u \in Threads |-> Len(stores[u])]
           g == [u \in Threads |-> Len(stores'[u])]
           s == stores[t] \o e
<1>1. stores[t] \in Seq(Triangles) /\ Len(stores[t]) \in Int /\ Len(e) \in Int
  BY DEF StoresRight
<1>2. s \in Seq(Triangles) /\ Len(s) = Len(stores[t]) + Len(e)
  BY <1>1
<1>3. stores' = [stores EXCEPT ![t] = s]
  BY DEF Emit
<1> HIDE DEF s
<1>4. /\ stores' \in [Threads -> Seq(Triangles)]
      /\ \A u \in Threads : stores'[u] = IF u = t THEN s ELSE stores[u]
  BY <1>2, <1>3 DEF StoresRight
<1>5. Summable(f, Threads)
  <2>1. \A u \in Threads : Len(stores[u]) \in Int
    BY DEF StoresRight
  <2> QED
    BY <2>1, TeamIsFinite DEF Summable
<1>6. g[t] = Len(s) /\ f[t] = Len(stores[t]) /\ \A u \in Threads \ {t} : g[u] = f[u]
  BY <1>4
<1> HIDE DEF f, g
<1>7. SumOver(g, Threads) = SumOver(f, Threads) - f[t] + g[t]
  <2>1. g[t] \in Int
    BY <1>1, <1>2, <1>6
  <2>2. \A u \in Threads \ {t} : g[u] = f[u]
    BY <1>6
  <2>3. Summable(g, Threads) /\ SumOver(g, Threads) = SumOver(f, Threads) - f[t] + g[t]
    BY <1>5, <2>1, <2>2, SumOverChanges
  <2> QED
    BY <2>3
<1>8. SumOver(f, Threads) \in Int
  BY <1>5, SumOverStep
<1>9. Emitted = SumOver(f, Threads) /\ Emitted' = SumOver(g, Threads)
  BY AddedIs DEF Emitted, f, g
<1> QED
  BY <1>1, <1>2, <1>4, <1>6, <1>7, <1>8, <1>9

\* What the calls in progress have, as a sum.
LEMMA TreeAccountedIs ==
  TreeAccounted = SumOver(sum, Live) + total
BY AddedIs DEF TreeAccounted, Live

\* A task begins with nothing.
LEMMA BeginAccounts ==
  ASSUME TInv, TreeSums, total \in Int, NEW b \in Tasks, state[b] \in {"absent", "queued"},
         state' = [state EXCEPT ![b] = "live"],
         UNCHANGED <<triangles, stores, total, empty, sum>>
  PROVE  TreeSums'
<1>1. \A d \in Tasks : state'[d] = IF d = b THEN "live" ELSE state[d]
  BY DEF TInv
<1>2. Live' = Live \cup {b} /\ b \notin Live /\ sum[b] = 0
  BY <1>1 DEF Live, TreeSums
<1>3. Summable(sum, Live)
  BY DEF TreeSums, Summable, Live
<1>4. Summable(sum, Live \cup {b}) /\ SumOver(sum, Live \cup {b}) = sum[b] + SumOver(sum, Live)
  <2>1. sum[b] \in Int /\ b \notin Live
    BY <1>2
  <2> QED
    BY <1>3, <2>1, SumOverAdds
<1>5. SumOver(sum, Live) \in Int
  BY <1>3, SumOverStep
<1>6. SumOver(sum', Live') = SumOver(sum, Live)
  BY <1>2, <1>4, <1>5
<1>7. TreeAccounted' = TreeAccounted
  <2>1. TreeAccounted' = SumOver(sum', Live') + total'
    BY AddedIs DEF TreeAccounted, Live
  <2> QED
    BY <1>6, <2>1, TreeAccountedIs
<1>8. Emitted' = Emitted
  BY DEF Emitted
<1>9. IsFiniteSet(Live')
  BY <1>2, <1>4 DEF Summable
<1>10. ASSUME NEW d \in Tasks, state'[d] \in {"absent", "queued"} \/ Leaf(d) \/ d \in empty
       PROVE  sum[d] = 0
  BY <1>1, <1>10 DEF TreeSums
<1>11. state'[Root] # "done" => total = 0
  BY <1>1, RootIsTask DEF TreeSums
<1> QED
  BY <1>7, <1>8, <1>9, <1>10, <1>11 DEF TreeSums

\* A call returns n triangles: k more than its own calls had returned.
LEMMA ReturnAccounts ==
  ASSUME TInv, TreeSums, total \in Int, NEW t \in Threads, NEW b \in Tasks, NEW k \in Int,
         Runs(t, b), Return(t, b, sum[b] + k), Emitted \in Int, Emitted' = Emitted + k
  PROVE  TreeSums' /\ total' \in Int
<1> DEFINE n == sum[b] + k
           f == Front(b)
           L == Live \ {b}
<1>1. state[b] = "live" /\ sum[b] \in Int /\ n \in Int
  BY RunsLive DEF TreeSums
<1>2. \A d \in Tasks : state'[d] = IF d = b THEN "done" ELSE state[d]
  BY DEF TInv, Return
<1>3. /\ total' = IF b = Root THEN n ELSE total
      /\ sum' = IF b = Root THEN sum ELSE [sum EXCEPT ![f] = @ + n]
      /\ empty' = empty
  BY DEF Return
<1>4. Live' = L /\ b \in Live /\ IsFiniteSet(L)
  BY <1>1, <1>2, FS_RemoveElement DEF Live, TreeSums
<1>5. Summable(sum, Live) /\ Summable(sum, L)
  BY <1>4 DEF TreeSums, Summable, Live
<1>6. SumOver(sum, Live) = sum[b] + SumOver(sum, L)
  BY <1>4, <1>5, SumOverTakes
<1>7. SumOver(sum, L) \in Int
  BY <1>5, SumOverStep
<1>8. TreeAccounted' = SumOver(sum', L) + total'
  <2>1. TreeAccounted' = SumOver(sum', Live') + total'
    BY AddedIs DEF TreeAccounted, Live
  <2> QED
    BY <1>4, <2>1
<1>9. TreeAccounted = sum[b] + SumOver(sum, L) + total
  BY <1>6, TreeAccountedIs
<1>10. Emitted' = TreeAccounted + k
  BY DEF TreeSums
<1> HIDE DEF n, f, L
<1>11. CASE b = Root
  <2>1. total = 0 /\ total' = n /\ sum' = sum
    BY <1>1, <1>3, <1>11 DEF TreeSums
  <2>2. TreeAccounted' = Emitted'
    BY <1>1, <1>7, <1>8, <1>9, <1>10, <2>1 DEF n
  <2>3. \A d \in Tasks :
          state'[d] \in {"absent", "queued"} \/ Leaf(d) \/ d \in empty' => sum'[d] = 0
    BY <1>2, <1>3, <2>1 DEF TreeSums
  <2>4. state'[Root] = "done"
    BY <1>2, <1>11
  <2> QED
    BY <1>1, <1>4, <2>1, <2>2, <2>3, <2>4 DEF TreeSums
<1>12. CASE b # Root
  <2>1. f \in Tasks /\ \E o \in Octants : b = Append(f, o)
    BY <1>12, TaskIsChild DEF f
  <2>2. PICK o \in Octants : b = Append(f, o)
    BY <2>1
  <2>3. state[f] = "live"
    BY <1>1, <1>12 DEF TInv, CreatorAlive, f
  <2>4. ~Leaf(f)
    BY <2>1, <2>2, ChildIsTask
  <2>5. f \notin empty
    <3>1. o \in Int /\ o >= 0
      BY OctantsAre DEF Octants
    <3>2. f \in empty => made[f] = 0
      BY DEF TInv, CreatedInOrder
    <3>3. o >= made[f] => state[b] = "absent"
      BY <2>1, <2>2 DEF TInv, CreatedInOrder
    <3> QED
      BY <1>1, <3>1, <3>2, <3>3
  <2>6. f # b
    <3>1. f \in Seq(Octants) /\ Len(f) \in Nat
      BY <2>1, TaskIsSeq
    <3>2. Len(Append(f, o)) = Len(f) + 1
      BY <3>1
    <3> QED
      BY <2>2, <3>1, <3>2
  <2>7. total' = total /\ sum' \in [Tasks -> Int]
        /\ \A d \in Tasks : sum'[d] = IF d = f THEN sum[f] + n ELSE sum[d]
    <3>1. sum' = [sum EXCEPT ![f] = sum[f] + n] /\ total' = total
      BY <1>3, <1>12
    <3>2. sum[f] + n \in Int
      BY <1>1, <2>1 DEF TreeSums
    <3> QED
      BY <2>1, <3>1, <3>2 DEF TreeSums
  <2>8. f \in L /\ \A d \in L : d \in Tasks
    BY <2>1, <2>3, <2>6 DEF L, Live
  <2>9. SumOver(sum', L) = SumOver(sum, L) - sum[f] + sum'[f]
    <3>1. sum'[f] \in Int /\ \A d \in L \ {f} : sum'[d] = sum[d]
      BY <2>1, <2>7, <2>8
    <3>2. Summable(sum, L) /\ f \in L
      BY <1>5, <2>8
    <3> DEFINE g == sum'
    <3>3. g[f] \in Int /\ \A d \in L \ {f} : g[d] = sum[d]
      BY <3>1
    <3> HIDE DEF g
    <3>4. SumOver(g, L) = SumOver(sum, L) - sum[f] + g[f]
      BY <3>2, <3>3, SumOverChanges
    <3> QED
      BY <3>4 DEF g
  <2>10. TreeAccounted' = Emitted'
    <3>1. sum[f] \in Int /\ sum'[f] = sum[f] + n
      BY <2>1, <2>7 DEF TreeSums
    <3> QED
      BY <1>1, <1>7, <1>8, <1>9, <1>10, <2>7, <2>9, <3>1 DEF n
  <2>11. ASSUME NEW d \in Tasks, state'[d] \in {"absent", "queued"} \/ Leaf(d) \/ d \in empty'
         PROVE  sum'[d] = 0
    <3>1. d # f
      BY <1>2, <1>3, <2>1, <2>3, <2>4, <2>5, <2>6, <2>11
    <3>2. state[d] \in {"absent", "queued"} \/ Leaf(d) \/ d \in empty
      BY <1>2, <1>3, <2>11
    <3> QED
      BY <2>7, <3>1, <3>2 DEF TreeSums
  <2>12. state'[Root] # "done" => total' = 0
    BY <1>2, <1>12, <2>7, RootIsTask DEF TreeSums
  <2> QED
    BY <1>4, <2>7, <2>10, <2>11, <2>12 DEF TreeSums
<1> QED
  BY <1>11, <1>12

\* The number of triangles emitted is one.
LEMMA EmittedIs ==
  ASSUME StoresRight
  PROVE  Emitted \in Int
<1> DEFINE f == [u \in Threads |-> Len(stores[u])]
<1>1. \A u \in Threads : Len(stores[u]) \in Int
  BY DEF StoresRight
<1>2. Summable(f, Threads)
  BY <1>1, TeamIsFinite DEF Summable
<1>3. Emitted = SumOver(f, Threads)
  BY AddedIs DEF Emitted
<1> HIDE DEF f
<1> QED
  BY <1>2, <1>3, SumOverStep

\* The threads that are in the loop.
InLoop == {t \in Threads : at[t] = "allocated"}

\* What the threads and the reduction have, as a sum.
LEMMA LoopAccountedIs ==
  LoopAccounted = SumOver(partial, InLoop) + total
BY AddedIs DEF LoopAccounted, InLoop

\* A chunk's triangles are a sequence of them.
LEMMA ChunkIs ==
  ASSUME StoresRight, next \in Nat
  PROVE  LET cubes == [i \in 1 .. Cardinality(Handed) |-> CubeOfIteration(next + i - 1)]
         IN  FlattenSeq([i \in DOMAIN cubes |-> TrianglesOf(cubes[i])]) \in Seq(Triangles)
<1> DEFINE n == Cardinality(Handed)
           cubes == [i \in 1 .. n |-> CubeOfIteration(next + i - 1)]
           q == [i \in DOMAIN cubes |-> TrianglesOf(cubes[i])]
<1>1. n \in Nat
  <2>1. \A k \in Int : Min({next + ChunkSize, k}) \in Int
    <3>1. next + ChunkSize \in Int
      BY ChunkAssumption
    <3> DEFINE a == next + ChunkSize
    <3> HIDE DEF a
    <3> SUFFICES ASSUME NEW k \in Int, a \in Int PROVE Min({a, k}) \in Int
      BY <3>1 DEF a
    <3>2. \E x \in {a, k} : \A y \in {a, k} : x <= y
      OBVIOUS
    <3> QED
      BY <3>2 DEF Min
  <2>2. Iterations \in Int
    BY GridPowers, GridAssumption, PowersPositive DEF Iterations
  <2>3. Min({next + ChunkSize, Iterations}) - 1 \in Int
    BY <2>1, <2>2
  <2>4. IsFiniteSet(Handed)
    BY <2>3, FS_Interval DEF Handed
  <2> QED
    BY <2>4, FS_CardinalityType
<1> HIDE DEF n
<1>2. \A i \in 1 .. n : cubes[i] \in Cubes
  BY <1>1, IterationCube
<1>3. DOMAIN cubes = 1 .. n
  OBVIOUS
<1> HIDE DEF cubes
<1>4. \A i \in 1 .. n : TrianglesOf(cubes[i]) \in Seq(Triangles)
  BY <1>2, TrianglesAre DEF StoresRight
<1>5. q \in Seq(Seq(Triangles))
  <2> DEFINE T == Seq(Triangles)
             p == [i \in 1 .. n |-> TrianglesOf(cubes[i])]
  <2>1. \A i \in 1 .. n : TrianglesOf(cubes[i]) \in T
    BY <1>4
  <2>2. q = p
    BY <1>3
  <2> HIDE DEF T, q
  <2>3. p \in Seq(T)
    BY <1>1, <2>1
  <2> QED
    BY <2>2, <2>3 DEF T
<1> HIDE DEF q
<1>6. FlattenSeq(q) \in Seq(Triangles)
  BY <1>5, FlattenedSeq
<1> QED
  BY <1>6 DEF q, cubes, n

\* A step of a thread of the loop builder.
LEMMA LoopKeepsSums ==
  ASSUME StoresRight, LoopSums, NEW t \in Threads, LoopThread(t)
  PROVE  StoresRight' /\ LoopSums'
<1>1. Summable(partial, InLoop) /\ IsFiniteSet(InLoop)
  BY TeamIsFinite, FS_Subset DEF Summable, InLoop, LoopSums
<1>2. SumOver(partial, InLoop) \in Int
  BY <1>1, SumOverStep
<1>3. LoopAccounted' = SumOver(partial', InLoop') + total'
  BY AddedIs DEF LoopAccounted, InLoop
<1>4. Emitted = SumOver(partial, InLoop) + total /\ total \in Int
  BY LoopAccountedIs DEF LoopSums, StoresRight
<1>5. CASE Allocate(t) /\ UNCHANGED loopVars
  <2>1. /\ at' = [at EXCEPT ![t] = "allocated"] /\ at[t] = "start"
        /\ UNCHANGED <<triangles, stores, total, next, partial>>
    BY <1>5 DEF Allocate, loopVars
  <2>2. StoresRight' /\ \A u \in Threads : at'[u] = IF u = t THEN "allocated" ELSE at[u]
    BY <2>1 DEF StoresRight, Points
  <2>3. InLoop' = InLoop \cup {t} /\ t \notin InLoop
    BY <2>1, <2>2 DEF InLoop
  <2>4. partial[t] = 0 /\ partial[t] \in Int
    BY <2>1 DEF LoopSums
  <2>5. SumOver(partial, InLoop \cup {t}) = partial[t] + SumOver(partial, InLoop)
    BY <1>1, <2>3, <2>4, SumOverAdds
  <2>6. SumOver(partial', InLoop') = SumOver(partial, InLoop)
    BY <1>2, <2>1, <2>3, <2>4, <2>5
  <2>7. Emitted' = Emitted
    BY <2>1 DEF Emitted
  <2>8. LoopAccounted' = Emitted'
    BY <1>3, <1>4, <2>1, <2>6, <2>7
  <2>9. \A u \in Threads : at'[u] = "start" => partial'[u] = 0
    BY <2>1, <2>2 DEF LoopSums
  <2> QED
    BY <2>1, <2>2, <2>8, <2>9 DEF LoopSums
<1>6. CASE RunChunk(t)
  <2> DEFINE cubes == [i \in 1 .. Cardinality(Handed) |-> CubeOfIteration(next + i - 1)]
             e == FlattenSeq([i \in DOMAIN cubes |-> TrianglesOf(cubes[i])])
  <2>1. /\ Emit(t, e) /\ partial' = [partial EXCEPT ![t] = partial[t] + Len(e)]
        /\ next' = next + ChunkSize /\ at[t] = "allocated"
        /\ UNCHANGED <<triangles, at, total>>
    BY <1>6 DEF RunChunk
  <2>2. e \in Seq(Triangles)
    BY ChunkIs DEF LoopSums
  <2> HIDE DEF e
  <2>3. stores' \in [Threads -> Seq(Triangles)] /\ Emitted' = Emitted + Len(e)
    BY <2>1, <2>2, EmitCounts
  <2>4. Len(e) \in Int /\ partial[t] \in Int
    BY <2>2 DEF LoopSums
  <2>5. /\ partial' \in [Threads -> Int]
        /\ \A u \in Threads : partial'[u] = IF u = t THEN partial[t] + Len(e) ELSE partial[u]
    BY <2>1, <2>4 DEF LoopSums
  <2>6. InLoop' = InLoop /\ t \in InLoop /\ \A u \in InLoop : u \in Threads
    BY <2>1 DEF InLoop
  <2> DEFINE g == partial'
  <2>7. g[t] \in Int /\ g[t] = partial[t] + Len(e)
    BY <2>4, <2>5
  <2>8. \A u \in InLoop \ {t} : g[u] = partial[u]
    BY <2>5, <2>6
  <2> HIDE DEF g
  <2>9. Summable(g, InLoop) /\ SumOver(g, InLoop) = SumOver(partial, InLoop) - partial[t] + g[t]
    BY <1>1, <2>6, <2>7, <2>8, SumOverChanges
  <2>10. LoopAccounted' = SumOver(g, InLoop) + total
    BY <1>3, <2>1, <2>6 DEF g
  <2>11. LoopAccounted' = Emitted'
    BY <1>2, <1>4, <2>3, <2>4, <2>7, <2>9, <2>10
  <2>12. next' \in Nat
    BY <2>1, ChunkAssumption DEF LoopSums
  <2>13. \A u \in Threads : at'[u] = "start" => partial'[u] = 0
    BY <2>1, <2>5 DEF LoopSums
  <2> QED
    BY <2>1, <2>3, <2>5, <2>11, <2>12, <2>13 DEF LoopSums, StoresRight
<1>7. CASE Reduce(t)
  <2>1. /\ total' = total + partial[t] /\ at' = [at EXCEPT ![t] = "finished"]
        /\ at[t] = "allocated"
        /\ UNCHANGED <<triangles, stores, next, partial>>
    BY <1>7 DEF Reduce, GoTo, loopVars
  <2>2. partial[t] \in Int
    BY DEF LoopSums
  <2>3. StoresRight' /\ \A u \in Threads : at'[u] = IF u = t THEN "finished" ELSE at[u]
    BY <1>4, <2>1, <2>2 DEF StoresRight, Points
  <2>4. InLoop' = InLoop \ {t} /\ t \in InLoop
    BY <2>1, <2>3 DEF InLoop
  <2>5. SumOver(partial, InLoop) = partial[t] + SumOver(partial, InLoop \ {t})
    BY <1>1, <2>4, SumOverTakes
  <2>6. SumOver(partial, InLoop \ {t}) \in Int
    <3>1. Summable(partial, InLoop \ {t})
      BY <1>1, FS_Subset DEF Summable
    <3> QED
      BY <3>1, SumOverStep
  <2>7. Emitted' = Emitted
    BY <2>1 DEF Emitted
  <2>8. LoopAccounted' = Emitted'
    BY <1>3, <1>4, <2>1, <2>2, <2>4, <2>5, <2>6, <2>7
  <2>9. \A u \in Threads : at'[u] = "start" => partial'[u] = 0
    BY <2>1, <2>3 DEF LoopSums
  <2> QED
    BY <2>1, <2>3, <2>8, <2>9 DEF LoopSums
<1> QED
  BY <1>5, <1>6, <1>7 DEF LoopThread

\* A step of a thread of the tree builder.
LEMMA TreeKeepsSums ==
  ASSUME StoresRight, TInv, TreeSums, NEW t \in Threads, TreeThread(t)
  PROVE  StoresRight' /\ TreeSums'
<1>1. total \in Int /\ Emitted \in Int
  BY EmittedIs DEF StoresRight
<1>2. ASSUME NEW p \in Points, GoTo(t, p), UNCHANGED <<triangles, stores, total>>
      PROVE  StoresRight'
  BY <1>2 DEF GoTo, StoresRight
<1>3. ASSUME UNCHANGED <<stores, total, empty, state, sum>>
      PROVE  TreeSums'
  BY <1>3 DEF TreeSums, TreeAccounted, Emitted, Live
<1>4. {"allocated", "working", "finished"} \subseteq Points
  BY DEF Points
<1>5. CASE Allocate(t) /\ UNCHANGED treeVars
  <2>1. GoTo(t, "allocated") /\ UNCHANGED <<triangles, stores, total, empty, state, sum>>
    BY <1>5 DEF Allocate, GoTo, treeVars
  <2> QED
    BY <1>2, <1>3, <1>4, <2>1
<1>6. CASE BeginSingle(t)
  <2>1. /\ GoTo(t, "working") /\ UNCHANGED <<triangles, stores, total, empty, sum>>
        /\ state[Root] \in {"absent", "queued"} /\ state' = [state EXCEPT ![Root] = "live"]
    BY <1>6 DEF BeginSingle
  <2>2. TreeSums'
    BY <1>1, <2>1, RootIsTask, BeginAccounts
  <2> QED
    BY <1>2, <1>4, <2>1, <2>2
<1>7. CASE SkipSingle(t)
  <2>1. GoTo(t, "working") /\ UNCHANGED <<triangles, stores, total, empty, state, sum>>
    BY <1>7 DEF SkipSingle, treeVars
  <2> QED
    BY <1>2, <1>3, <1>4, <2>1
<1>8. CASE TreeLeave(t)
  <2>1. GoTo(t, "finished") /\ UNCHANGED <<triangles, stores, total, empty, state, sum>>
    BY <1>8 DEF TreeLeave, treeVars
  <2> QED
    BY <1>2, <1>3, <1>4, <2>1
<1>9. ASSUME NEW b \in Tasks, Spawn(t, b)
      PROVE  StoresRight' /\ TreeSums'
  <2> DEFINE c == Append(b, made[b])
  <2>1. /\ made[b] \in Octants /\ ~Leaf(b) /\ state' = [state EXCEPT ![c] = "queued"]
        /\ UNCHANGED <<triangles, at, stores, total, empty, sum>>
    BY <1>9 DEF Spawn, meshVars
  <2>2. c \in Tasks
    BY <2>1, ChildIsTask
  <2>3. state[c] = "absent" /\ sum[c] = 0
    <3>1. made[b] >= made[b]
      BY <2>1, OctantsAre DEF Octants
    <3> QED
      BY <2>1, <2>2, <3>1 DEF TInv, CreatedInOrder, TreeSums
  <2> HIDE DEF c
  <2>4. \A d \in Tasks : state'[d] = IF d = c THEN "queued" ELSE state[d]
    BY <2>1 DEF TInv
  <2>5. Live' = Live
    BY <2>3, <2>4 DEF Live
  <2>6. TreeAccounted' = TreeAccounted /\ Emitted' = Emitted
    <3>1. TreeAccounted = Added(Live, sum) + total /\ TreeAccounted' = Added(Live', sum') + total'
      BY DEF TreeAccounted, Live
    <3> QED
      BY <2>1, <2>5, <3>1 DEF Emitted
  <2>7. \A d \in Tasks : state'[d] \in {"absent", "queued"} \/ Leaf(d) \/ d \in empty => sum[d] = 0
    BY <2>3, <2>4 DEF TreeSums
  <2>8. state'[Root] # "done" => total = 0
    BY <2>3, <2>4, RootIsTask DEF TreeSums
  <2>9. StoresRight'
    BY <2>1 DEF StoresRight
  <2> QED
    BY <2>1, <2>5, <2>6, <2>7, <2>8, <2>9 DEF TreeSums
<1>10. ASSUME NEW b \in Tasks, BeginTask(t, b)
       PROVE  StoresRight' /\ TreeSums'
  <2>1. /\ UNCHANGED <<triangles, at, stores, total, empty, sum>>
        /\ state[b] \in {"absent", "queued"} /\ state' = [state EXCEPT ![b] = "live"]
    BY <1>10 DEF BeginTask, meshVars
  <2>2. TreeSums'
    BY <1>1, <2>1, BeginAccounts
  <2>3. StoresRight'
    BY <2>1 DEF StoresRight
  <2> QED
    BY <2>2, <2>3
<1>11. ASSUME NEW b \in Tasks, BuildCube(t, b)
       PROVE  StoresRight' /\ TreeSums'
  <2> DEFINE c == CubeOf(b)
             k == triangles[c]
             e == TrianglesOf(c)
  <2>1. Runs(t, b) /\ Leaf(b) /\ Emit(t, e) /\ Return(t, b, k)
    BY <1>11 DEF BuildCube
  <2>2. c \in Cubes
    BY <2>1, LeafCube
  <2> HIDE DEF c
  <2>3. e \in Seq(Triangles) /\ Len(e) = k /\ k \in Int
    BY <2>2, TrianglesAre DEF StoresRight
  <2>4. stores' \in [Threads -> Seq(Triangles)] /\ Emitted' = Emitted + Len(e)
    <3> HIDE DEF e, k
    <3> QED
      BY <2>1, <2>3, EmitCounts
  <2> HIDE DEF e, k
  <2>5. sum[b] + k = k
    BY <2>1, <2>3 DEF TreeSums
  <2>6. Return(t, b, sum[b] + k) /\ Emitted' = Emitted + k
    BY <2>1, <2>3, <2>4, <2>5
  <2>7. TreeSums' /\ total' \in Int
    BY <1>1, <2>1, <2>3, <2>6, ReturnAccounts
  <2>8. StoresRight'
    BY <2>1, <2>4, <2>7 DEF StoresRight, Return
  <2> QED
    BY <2>7, <2>8
<1>12. ASSUME NEW b \in Tasks, Runs(t, b), Return(t, b, sum[b] + 0), UNCHANGED stores
       PROVE  StoresRight' /\ TreeSums'
  <2>1. Emitted' = Emitted + 0
    BY <1>1, <1>12 DEF Emitted
  <2>2. TreeSums' /\ total' \in Int
    BY <1>1, <1>12, <2>1, ReturnAccounts
  <2>3. StoresRight'
    BY <1>12, <2>2 DEF StoresRight, Return
  <2> QED
    BY <2>2, <2>3
<1>13. ASSUME NEW b \in Tasks, LeaveOut(t, b)
       PROVE  StoresRight' /\ TreeSums'
  <2>1. b \in empty /\ Runs(t, b) /\ Return(t, b, 0) /\ UNCHANGED stores
    BY <1>13 DEF LeaveOut
  <2>2. sum[b] + 0 = 0
    BY <2>1 DEF TreeSums
  <2> QED
    BY <1>12, <2>1, <2>2
<1>14. ASSUME NEW b \in Tasks, Join(t, b)
       PROVE  StoresRight' /\ TreeSums'
  <2>1. Runs(t, b) /\ Return(t, b, sum[b]) /\ UNCHANGED stores
    BY <1>14 DEF Join
  <2>2. sum[b] + 0 = sum[b]
    BY DEF TreeSums
  <2> QED
    BY <1>12, <2>1, <2>2
<1> QED
  BY <1>5, <1>6, <1>7, <1>8, <1>9, <1>10, <1>11, <1>13, <1>14 DEF TreeThread

\* The launcher starts a builder with nothing emitted.
LEMMA MeshSumsStart ==
  Init => MeshSums
<1> SUFFICES ASSUME Init PROVE MeshSums
  OBVIOUS
<1>1. /\ triangles \in [Cubes -> 0 .. MaxTriangles]
      /\ at = [t \in Threads |-> "start"]
      /\ stores = [t \in Threads |-> << >>]
      /\ total = 0 /\ next = 0
      /\ partial = [t \in Threads |-> 0]
      /\ state = [b \in Tasks |-> "absent"]
      /\ sum = [b \in Tasks |-> 0]
  BY DEF Init, StoresStart, TreeStart, LoopStart
<1>2. StoresRight
  <2>1. triangles \in [Cubes -> Nat]
    BY <1>1
  <2>2. stores \in [Threads -> Seq(Triangles)]
    BY <1>1
  <2> QED
    BY <1>1, <2>1, <2>2 DEF StoresRight, Points
<1>3. Live = {} /\ InLoop = {}
  BY <1>1 DEF Live, InLoop
<1>4. IsFiniteSet({}) /\ SumOver(sum, {}) = 0 /\ SumOver(partial, {}) = 0
  <2>1. IsFiniteSet({})
    BY FS_EmptySet
  <2>2. Summable(sum, {}) /\ Summable(partial, {})
    BY <2>1 DEF Summable
  <2> QED
    BY <2>1, <2>2, SumOverStep
<1>5. Emitted = 0
  <2> DEFINE f == [t \in Threads |-> Len(stores[t])]
             o == [t \in Threads |-> 1]
  <2>1. \A t \in Threads : f[t] = 0 /\ o[t] = 1
    BY <1>1
  <2>2. Emitted = SumOver(f, Threads)
    BY AddedIs DEF Emitted
  <2> HIDE DEF f, o
  <2>3. Multiples(o, f, 0, Threads)
    BY <2>1 DEF Multiples
  <2>4. Summable(o, Threads)
    BY <2>1, TeamIsFinite DEF Summable
  <2>5. SumOver(f, Threads) = 0 * SumOver(o, Threads)
    <3>1. Threads \in SUBSET Threads /\ \A t \in Threads \ Threads : f[t] = 0
      OBVIOUS
    <3>2. 0 \in Int
      OBVIOUS
    <3> QED
      BY <2>3, <3>1, <3>2, TeamIsFinite, SumOverPart
  <2>6. SumOver(o, Threads) \in Int
    BY <2>4, SumOverStep
  <2> DEFINE k == SumOver(o, Threads)
  <2> HIDE DEF k
  <2>7. k \in Int => 0 * k = 0
    OBVIOUS
  <2> QED
    BY <2>2, <2>5, <2>6, <2>7 DEF k
<1>6. TreeSums
  BY <1>1, <1>3, <1>4, <1>5, TreeAccountedIs DEF TreeSums
<1>7. LoopSums
  BY <1>1, <1>3, <1>4, <1>5, LoopAccountedIs DEF LoopSums
<1> QED
  BY <1>2, <1>6, <1>7 DEF MeshSums

\* Every step keeps the account of the builder that runs.
LEMMA MeshSumsKeep ==
  ASSUME PInv, MeshSums, [Next]_vars
  PROVE  MeshSums'
<1>1. ASSUME UNCHANGED <<program, builderVars>>
      PROVE  MeshSums'
  <2>1. UNCHANGED <<program, meshVars, treeVars, loopVars>>
    BY <1>1 DEF builderVars
  <2>2. StoresRight'
    BY <2>1 DEF meshVars, StoresRight, MeshSums
  <2>3. TreeSums => TreeSums'
    BY <2>1 DEF meshVars, treeVars, TreeSums, TreeAccounted, Emitted, Live
  <2>4. LoopSums => LoopSums'
    BY <2>1 DEF meshVars, loopVars, LoopSums, LoopAccounted, Emitted
  <2> QED
    BY <2>1, <2>2, <2>3, <2>4 DEF MeshSums
<1>2. CASE RootStep
  BY <1>1, <1>2 DEF RootStep, Split, KMeans
<1>3. ASSUME NEW r \in Others, NodeStep(r)
      PROVE  MeshSums'
  BY <1>1, <1>3 DEF NodeStep, Split, KMeans
<1>4. ASSUME NEW t \in Threads, Thread(t)
      PROVE  MeshSums'
  <2>1. CASE Tree(TreeThread(t))
    <3>1. program = "tree" /\ program' = program /\ TreeThread(t)
      BY <2>1 DEF Tree
    <3>2. StoresRight' /\ TreeSums'
      BY <3>1, TreeKeepsSums DEF PInv, MeshSums
    <3> QED
      BY <3>1, <3>2 DEF MeshSums
  <2>2. CASE Loop(LoopThread(t))
    <3>1. program = "loop" /\ program' = program /\ LoopThread(t)
      BY <2>2 DEF Loop
    <3>2. StoresRight' /\ LoopSums'
      BY <3>1, LoopKeepsSums DEF MeshSums
    <3> QED
      BY <3>1, <3>2 DEF MeshSums
  <2> QED
    BY <1>4, <2>1, <2>2 DEF Thread
<1>5. CASE Merge
  <2>1. /\ UNCHANGED <<program, treeVars, loopVars>>
        /\ \A t \in Threads : at[t] = "finished"
        /\ at' = [t \in Threads |-> "merged"]
        /\ UNCHANGED <<triangles, stores, total>>
    BY <1>5 DEF Merge, MergeData
  <2>2. StoresRight'
    BY <2>1 DEF StoresRight, Points, MeshSums
  <2>3. TreeSums => TreeSums'
    BY <2>1 DEF treeVars, TreeSums, TreeAccounted, Emitted, Live
  <2>4. InLoop = {} /\ InLoop' = {}
    BY <2>1 DEF InLoop
  <2>5. LoopAccounted' = LoopAccounted
    <3>1. /\ LoopAccounted = Added(InLoop, partial) + total
          /\ LoopAccounted' = Added(InLoop', partial') + total'
      BY DEF LoopAccounted, InLoop
    <3> QED
      BY <2>1, <2>4, <3>1 DEF loopVars
  <2>6. LoopSums => LoopSums'
    <3>1. \A t \in Threads : at'[t] # "start"
      BY <2>1
    <3> QED
      BY <2>1, <2>5, <3>1 DEF loopVars, LoopSums, Emitted
  <2> QED
    BY <2>1, <2>2, <2>3, <2>6 DEF MeshSums
<1>6. CASE UNCHANGED vars
  BY <1>1, <1>6 DEF vars
<1> QED
  BY <1>2, <1>3, <1>4, <1>5, <1>6 DEF Next

\* However the tasks or chunks fall to the threads, and in whichever order they
\* are added, each triangle emitted so far is accounted for once: marchCubes() of
\* both builders loses no addition.
THEOREM ParallelSumsAccount ==
  Spec => []SumsAccount
<1>1. MeshSums => SumsAccount
  BY DEF MeshSums, SumsAccount, TreeSums, LoopSums, Emitted, Builders
<1> QED
  BY <1>1, MeshSumsStart, MeshSumsKeep, ParallelInvariant, PTL DEF Spec

-----------------------------------------------------------------------------
(* Numbers in a base. *)

\* A number has one quotient and one remainder.
LEMMA QuotientIs ==
  ASSUME NEW m \in Nat \ {0}, NEW q \in Int, NEW r \in 0 .. m - 1
  PROVE  (m * q + r) \div m = q /\ (m * q + r) % m = r
<1> DEFINE a == m * q + r
           p == a \div m
           s == a % m
<1>1. a \in Int /\ p \in Int /\ s \in 0 .. m - 1 /\ a = m * p + s /\ a = m * q + r
  <2>1. a \in Int
    BY SMTT(30)
  <2> HIDE DEF a
  <2>2. p \in Int /\ s \in 0 .. m - 1 /\ a = m * p + s
    BY <2>1, SMTT(30)
  <2> QED
    BY <2>1, <2>2 DEF a
<1> HIDE DEF a, p, s
<1>2. m * (p - q) = r - s
  BY <1>1, SMTT(30)
<1>3. p - q < 1 /\ p - q > -1
  BY <1>1, <1>2, SMTT(30)
<1>4. p = q /\ s = r
  BY <1>1, <1>3
<1> QED
  BY <1>4 DEF p, s, a

\* Dividing twice.
LEMMA QuotientTwice ==
  ASSUME NEW b \in Nat \ {0}, NEW m \in Nat \ {0}, NEW a \in Int
  PROVE  a \div (b * m) = (a \div b) \div m
<1> DEFINE q == a \div b
           r == a % b
           p == q \div m
           s == q % m
           k == b * m
           t == b * s + r
<1>1. q \in Int /\ r \in 0 .. b - 1 /\ a = b * q + r
  BY SMTT(30)
<1> HIDE DEF q, r
<1>2. p \in Int /\ s \in 0 .. m - 1 /\ q = m * p + s
  BY <1>1, SMTT(30)
<1> HIDE DEF p, s
<1>3. k \in Nat \ {0}
  BY SMTT(30)
<1>4. b * s \in Int /\ b * s <= b * (m - 1)
  BY <1>2, SMTT(30)
<1>5. t \in 0 .. k - 1
  <2>1. b * (m - 1) = b * m - b
    BY SMTT(30)
  <2>2. b * s >= 0
    BY <1>2, SMTT(30)
  <2> QED
    BY <1>1, <1>4, <2>1, <2>2, SMTT(30)
<1>6. a = k * p + t
  <2>1. b * (m * p + s) = (b * m) * p + b * s
    BY <1>2, SMTT(30)
  <2> QED
    BY <1>1, <1>2, <1>4, <2>1, SMTT(30)
<1> HIDE DEF k, t
<1>7. a \div k = p
  BY <1>2, <1>3, <1>5, <1>6, QuotientIs
<1> QED
  BY <1>7 DEF k, p, q

\* The n digits of a number, the first one counting most.
Digits(b, n, x) == [i \in 1 .. n |-> (x \div b ^ (n - i)) % b]

\* The last digit is the remainder, the others are those of the quotient.
LEMMA DigitsLonger ==
  ASSUME NEW b \in Nat \ {0}, NEW n \in Nat, PowerLaw(b, n + 1), NEW x \in Nat
  PROVE  /\ \A i \in 1 .. n : Digits(b, n + 1, x)[i] = Digits(b, n, x \div b)[i]
         /\ Digits(b, n + 1, x)[n + 1] = x % b
<1>1. \A k \in 0 .. n : b ^ k \in Nat \ {0} /\ b ^ (k + 1) = b * b ^ k
  BY PowersPositive DEF PowerLaw
<1>2. ASSUME NEW i \in 1 .. n
      PROVE  Digits(b, n + 1, x)[i] = Digits(b, n, x \div b)[i]
  <2> DEFINE m == b ^ (n - i)
  <2>1. n - i \in 0 .. n /\ n + 1 - i = (n - i) + 1 /\ i \in 1 .. n + 1
    OBVIOUS
  <2>2. m \in Nat \ {0} /\ b ^ (n + 1 - i) = b * m
    BY <1>1, <2>1
  <2> HIDE DEF m
  <2>3. x \div (b * m) = (x \div b) \div m
    <3>1. x \in Int /\ m \in Nat \ {0}
      BY <2>2
    <3> QED
      BY <3>1, QuotientTwice, Zenon
  <2> QED
    BY <2>1, <2>2, <2>3 DEF Digits, m
<1>3. Digits(b, n + 1, x)[n + 1] = x % b
  <2>1. n + 1 \in 1 .. n + 1 /\ n + 1 - (n + 1) = 0 /\ b ^ 0 = 1
    BY DEF PowerLaw
  <2>2. x \div 1 = x
    OBVIOUS
  <2> QED
    BY <2>1, <2>2 DEF Digits
<1> QED
  BY <1>2, <1>3

\* Numbers with the same digits are the same.
LEMMA DigitsTell ==
  ASSUME NEW b \in Nat \ {0}, NEW n \in Nat, PowerLaw(b, n),
         NEW x \in 0 .. b ^ n - 1, NEW y \in 0 .. b ^ n - 1,
         \A i \in 1 .. n : Digits(b, n, x)[i] = Digits(b, n, y)[i]
  PROVE  x = y
<1> DEFINE Same(k, u, v) == \A i \in 1 .. k : Digits(b, k, u)[i] = Digits(b, k, v)[i]
           G == {k \in Nat : k <= n => \A u, v \in 0 .. b ^ k - 1 : Same(k, u, v) => u = v}
<1>1. \A k \in 0 .. n : b ^ k \in Nat \ {0} /\ PowerLaw(b, k)
  BY PowersPositive DEF PowerLaw
<1>2. 0 \in G
  <2>1. b ^ 0 = 1
    BY DEF PowerLaw
  <2> QED
    BY <2>1
<1>3. ASSUME NEW k \in Nat, k \in G PROVE k + 1 \in G
  <2> SUFFICES ASSUME k + 1 <= n, NEW u \in 0 .. b ^ (k + 1) - 1, NEW v \in 0 .. b ^ (k + 1) - 1,
                      Same(k + 1, u, v)
               PROVE  u = v
    OBVIOUS
  <2> DEFINE w == b ^ k
             W == b ^ (k + 1)
  <2>1. w \in Nat \ {0} /\ W \in Nat \ {0} /\ W = b * w /\ PowerLaw(b, k + 1)
    BY <1>1 DEF PowerLaw
  <2>2. \A z \in 0 .. W - 1 : z \div b \in 0 .. w - 1 /\ z = b * (z \div b) + (z % b)
    <3> HIDE DEF w, W
    <3> SUFFICES ASSUME NEW z \in 0 .. W - 1
                 PROVE  z \div b \in 0 .. w - 1 /\ z = b * (z \div b) + (z % b)
      OBVIOUS
    <3> DEFINE q == z \div b
               r == z % b
    <3>1. z \in Nat /\ q \in Int /\ r \in 0 .. b - 1 /\ z = b * q + r
      BY <2>1, SMTT(30)
    <3> HIDE DEF q, r
    <3>2. b * q < b * w
      BY <2>1, <3>1, SMTT(30)
    <3>3. q < w
      BY <2>1, <3>1, <3>2, SMTT(30)
    <3>4. q >= 0
      BY <3>1, SMTT(30)
    <3> QED
      BY <2>1, <3>1, <3>3, <3>4 DEF q, r
  <2>3. u \in Nat /\ v \in Nat
    BY <2>1
  <2> HIDE DEF w, W
  <2>4. /\ \A i \in 1 .. k : Digits(b, k, u \div b)[i] = Digits(b, k, v \div b)[i]
        /\ u % b = v % b
    <3>1. /\ \A i \in 1 .. k : Digits(b, k + 1, u)[i] = Digits(b, k, u \div b)[i]
          /\ Digits(b, k + 1, u)[k + 1] = u % b
      BY <2>1, <2>3, DigitsLonger, ZenonT(30)
    <3>2. /\ \A i \in 1 .. k : Digits(b, k + 1, v)[i] = Digits(b, k, v \div b)[i]
          /\ Digits(b, k + 1, v)[k + 1] = v % b
      BY <2>1, <2>3, DigitsLonger, ZenonT(30)
    <3>3. \A i \in 1 .. k : i \in 1 .. k + 1
      OBVIOUS
    <3>4. k + 1 \in 1 .. k + 1
      OBVIOUS
    <3>5. \A i \in 1 .. k + 1 : Digits(b, k + 1, u)[i] = Digits(b, k + 1, v)[i]
      OBVIOUS
    <3> HIDE DEF Same
    <3> QED
      BY <3>1, <3>2, <3>3, <3>4, <3>5
  <2>5. u \div b = v \div b
    <3>1. u \div b \in 0 .. w - 1 /\ v \div b \in 0 .. w - 1
      BY <2>2 DEF W
    <3>2. Same(k, u \div b, v \div b)
      BY <2>4
    <3>3. \A c, d \in 0 .. w - 1 : Same(k, c, d) => c = d
      BY <1>3 DEF w
    <3> HIDE DEF Same
    <3> QED
      BY <3>1, <3>2, <3>3
  <2> QED
    BY <2>2, <2>4, <2>5 DEF W
<1> HIDE DEF G
<1>4. Nat \subseteq G
  BY <1>2, <1>3, NatSetInduction
<1> QED
  BY <1>4 DEF G

\* Any digits are those of a number, which is the sum of what they count.
Worth(b, n, o) == [i \in 1 .. n |-> o[i] * b ^ (n - i)]

LEMMA DigitsSum ==
  ASSUME NEW b \in Nat \ {0}, NEW n \in Nat, PowerLaw(b, n), NEW o \in [1 .. n -> 0 .. b - 1]
  PROVE  /\ Summable(Worth(b, n, o), 1 .. n)
         /\ SumOver(Worth(b, n, o), 1 .. n) \in 0 .. b ^ n - 1
         /\ \A i \in 1 .. n : Digits(b, n, SumOver(Worth(b, n, o), 1 .. n))[i] = o[i]
<1> DEFINE f(k) == [i \in 1 .. k |-> o[i] * b ^ (k - i)]
           V(k) == SumOver(f(k), 1 .. k)
           Good(k) == /\ Summable(f(k), 1 .. k) /\ V(k) \in 0 .. b ^ k - 1
                      /\ \A i \in 1 .. k : Digits(b, k, V(k))[i] = o[i]
           G == {k \in Nat : k <= n => Good(k)}
<1>1. \A k \in 0 .. n : b ^ k \in Nat \ {0} /\ PowerLaw(b, k)
  BY PowersPositive DEF PowerLaw
<1>2. 0 \in G
  <2>1. b ^ 0 = 1 /\ 1 .. 0 = {}
    BY DEF PowerLaw
  <2>2. \A g : Summable(g, {}) /\ SumOver(g, {}) = 0
    BY FS_EmptySet, SumOverStep DEF Summable
  <2>3. Summable(f(0), 1 .. 0) /\ V(0) = 0
    BY <2>1, <2>2
  <2> QED
    BY <2>1, <2>3
<1>3. ASSUME NEW k \in Nat, k \in G PROVE k + 1 \in G
  <2> SUFFICES ASSUME k + 1 <= n PROVE Good(k + 1)
    OBVIOUS
  <2> DEFINE g == f(k)
             h == f(k + 1)
             w == b ^ k
             v == V(k)
             d == o[k + 1]
             I == 1 .. k
  <2>1. /\ w \in Nat \ {0} /\ b ^ (k + 1) = b * w /\ PowerLaw(b, k + 1)
        /\ Summable(g, I) /\ v \in 0 .. w - 1
        /\ \A i \in I : Digits(b, k, v)[i] = o[i]
    <3>1. PowerLaw(b, k + 1) /\ w \in Nat \ {0}
      BY <1>1
    <3>2. Good(k)
      BY <1>3
    <3> QED
      BY <3>1, <3>2 DEF PowerLaw
  <2>2. 1 .. k + 1 = I \cup {k + 1} /\ k + 1 \notin I /\ k + 1 \in 1 .. n
    OBVIOUS
  <2>3. d \in 0 .. b - 1
    BY <2>2
  <2>4. \A i \in I : h[i] = b * g[i] /\ g[i] \in Int
    <3> SUFFICES ASSUME NEW i \in I PROVE h[i] = b * g[i] /\ g[i] \in Int
      OBVIOUS
    <3>1. k - i \in 0 .. k - 1 /\ k + 1 - i = (k - i) + 1 /\ i \in 1 .. n
      OBVIOUS
    <3> DEFINE p == b ^ (k - i)
               c == o[i]
    <3>2. p \in Nat /\ b ^ (k + 1 - i) = b * p /\ c \in Nat
      BY <1>1, <2>1, <3>1 DEF PowerLaw
    <3>3. g[i] = c * p /\ h[i] = c * (b * p)
      <4>1. i \in 1 .. k /\ i \in 1 .. k + 1
        OBVIOUS
      <4>2. g[i] = o[i] * b ^ (k - i) /\ h[i] = o[i] * b ^ (k + 1 - i)
        BY <4>1
      <4> QED
        BY <3>2, <4>2
    <3> HIDE DEF p, c, g, h
    <3> QED
      BY <3>2, <3>3, SMTT(30)
  <2>5. h[k + 1] = d
    <3>1. k + 1 - (k + 1) = 0 /\ b ^ 0 = 1 /\ d * 1 = d
      BY <2>3 DEF PowerLaw
    <3>2. h[k + 1] = o[k + 1] * b ^ (k + 1 - (k + 1))
      BY <2>2
    <3> QED
      BY <3>1, <3>2
  <2>6. SumOver(h, I) = b * v /\ Summable(h, I)
    <3>1. Multiples(g, h, b, I) /\ I \in SUBSET I /\ \A x \in I \ I : h[x] = 0
      BY <2>4 DEF Multiples
    <3> HIDE DEF g, h, I, v
    <3>2. IsFiniteSet(I) /\ b \in Int
      BY <2>1 DEF Summable
    <3>3. SumOver(h, I) = b * SumOver(g, I)
      BY <3>1, <3>2, SumOverPart
    <3>4. \A i \in I : h[i] \in Int
      BY <2>4, <3>2, SMTT(30)
    <3> QED
      BY <3>2, <3>3, <3>4 DEF Summable, v, g, I
  <2> HIDE DEF g, h, I
  <2>7. Summable(h, 1 .. k + 1) /\ SumOver(h, 1 .. k + 1) = d + b * v
    <3>1. h[k + 1] \in Int
      BY <2>3, <2>5
    <3>2. Summable(h, I \cup {k + 1}) /\ SumOver(h, I \cup {k + 1}) = h[k + 1] + SumOver(h, I)
      BY <2>2, <2>6, <3>1, SumOverAdds
    <3> QED
      BY <2>2, <2>5, <2>6, <3>2
  <2> DEFINE u == b * v + d
  <2>8. V(k + 1) = u
    <3>1. V(k + 1) = SumOver(h, 1 .. k + 1)
      BY DEF h
    <3> HIDE DEF v
    <3>2. d + b * v = u
      BY <2>1, <2>3, SMTT(30)
    <3> QED
      BY <2>7, <3>1, <3>2
  <2> HIDE DEF v, d, w
  <2>9. u \in Nat /\ u <= b * w - 1
    <3>1. b * v <= b * (w - 1)
      BY <2>1, SMTT(30)
    <3>2. b * (w - 1) = b * w - b /\ b * v >= 0
      BY <2>1, SMTT(30)
    <3> QED
      BY <2>1, <2>3, <3>1, <3>2, SMTT(30)
  <2>10. u \div b = v /\ u % b = d
    <3>1. v \in Int /\ b \in Nat \ {0}
      BY <2>1
    <3> QED
      BY <2>3, <3>1, QuotientIs, Zenon
  <2> HIDE DEF u
  <2>11. \A i \in 1 .. k + 1 : Digits(b, k + 1, u)[i] = o[i]
    <3>1. /\ \A i \in 1 .. k : Digits(b, k + 1, u)[i] = Digits(b, k, u \div b)[i]
          /\ Digits(b, k + 1, u)[k + 1] = u % b
      BY <2>1, <2>9, DigitsLonger
    <3>2. \A i \in 1 .. k : Digits(b, k + 1, u)[i] = o[i]
      BY <2>1, <2>10, <3>1 DEF I
    <3>3. Digits(b, k + 1, u)[k + 1] = o[k + 1]
      BY <2>10, <3>1 DEF d
    <3> QED
      BY <2>2, <3>2, <3>3 DEF I
  <2>12. u \in 0 .. b ^ (k + 1) - 1
    BY <2>1, <2>9
  <2> HIDE DEF V
  <2> QED
    BY <2>7, <2>8, <2>11, <2>12 DEF h
<1> HIDE DEF G
<1>4. Nat \subseteq G
  BY <1>2, <1>3, NatSetInduction
<1>5. Good(n)
  <2> HIDE DEF Good
  <2> QED
    BY <1>4 DEF G
<1>6. f(n) = Worth(b, n, o)
  BY DEF Worth
<1> QED
  BY <1>5, <1>6

-----------------------------------------------------------------------------
(* Each cube is that of one leaf, and of one iteration. *)

\* The digits of a leaf's coordinates are the offsets of its octants.
LEMMA LeafDigits ==
  ASSUME NEW b \in Tasks, Leaf(b), NEW d \in 1 .. Dims
  PROVE  /\ b \in [1 .. Depth -> Octants]
         /\ CubeOf(b)[d] \in 0 .. 2 ^ Depth - 1
         /\ \A i \in 1 .. Depth : Digits(2, Depth, CubeOf(b)[d])[i] = Offset(b[i], d)
<1>1. Depth \in Nat /\ b \in [1 .. Depth -> Octants]
  <2>1. PICK k \in 0 .. Depth : b \in [1 .. k -> Octants]
    BY DEF Tasks
  <2>2. Depth \in Nat /\ k \in Nat /\ Len(b) = k
    BY <2>1, DepthAssumption
  <2> QED
    BY <2>1, <2>2 DEF Leaf
<1> DEFINE o == [i \in 1 .. Depth |-> Offset(b[i], d)]
           w == Worth(2, Depth, o)
<1>2. o \in [1 .. Depth -> 0 .. 2 - 1] /\ PowerLaw(2, Depth)
  BY <1>1, OffsetIs, TwoPowers
<1>3. w = Edge(b, d) /\ DOMAIN b = 1 .. Depth
  BY <1>1 DEF Worth, Edge
<1> HIDE DEF w
<1>4. \A i \in 1 .. Depth : o[i] = Offset(b[i], d)
  OBVIOUS
<1> HIDE DEF o
<1>5. /\ Summable(w, 1 .. Depth)
      /\ SumOver(w, 1 .. Depth) \in 0 .. 2 ^ Depth - 1
      /\ \A i \in 1 .. Depth : Digits(2, Depth, SumOver(w, 1 .. Depth))[i] = o[i]
  <2>1. 2 \in Nat \ {0}
    OBVIOUS
  <2> QED
    BY <1>1, <1>2, <2>1, DigitsSum DEF w
<1>6. CubeOf(b)[d] = SumOver(w, 1 .. Depth)
  <2>1. EdgeSums(b, d)[DOMAIN [i \in DOMAIN b |-> i]] = SumOver(Edge(b, d), 1 .. Depth)
    BY <1>1, <1>3, <1>5, EdgeSumsAre
  <2>2. CubeOf(b)[d] = EdgeSums(b, d)[DOMAIN [i \in DOMAIN b |-> i]]
    BY CubeOfIs
  <2> QED
    BY <1>3, <2>1, <2>2
<1> QED
  BY <1>1, <1>4, <1>5, <1>6

\* Octants with the same offsets are the same.
LEMMA OctantsApart ==
  ASSUME NEW o \in Octants, NEW p \in Octants, \A d \in 1 .. Dims : Offset(o, d) = Offset(p, d)
  PROVE  o = p
<1>1. \A d \in 1 .. Dims : Digits(2, Dims, o)[d] = Digits(2, Dims, p)[d]
  BY DEF Digits, Offset
<1>2. o \in 0 .. 2 ^ Dims - 1 /\ p \in 0 .. 2 ^ Dims - 1
  BY DEF Octants
<1>3. 2 \in Nat \ {0} /\ Dims \in Nat /\ PowerLaw(2, Dims)
  BY GridAssumption, TwoPowers
<1> QED
  BY <1>1, <1>2, <1>3, DigitsTell

\* There is an octant with any offsets.
LEMMA OctantWith ==
  ASSUME NEW f \in [1 .. Dims -> 0 .. 1]
  PROVE  \E o \in Octants : \A d \in 1 .. Dims : Offset(o, d) = f[d]
<1>1. 2 \in Nat \ {0} /\ Dims \in Nat /\ PowerLaw(2, Dims) /\ 0 .. 2 - 1 = 0 .. 1
  BY GridAssumption, TwoPowers
<1> DEFINE o == SumOver(Worth(2, Dims, f), 1 .. Dims)
<1>2. o \in 0 .. 2 ^ Dims - 1 /\ \A d \in 1 .. Dims : Digits(2, Dims, o)[d] = f[d]
  BY <1>1, DigitsSum
<1> HIDE DEF o
<1>3. o \in Octants /\ \A d \in 1 .. Dims : Offset(o, d) = f[d]
  BY <1>2 DEF Digits, Offset, Octants
<1> QED
  BY <1>3

\* Different leaves have different cubes.
LEMMA LeavesApart ==
  ASSUME NEW a \in Tasks, NEW b \in Tasks, Leaf(a), Leaf(b), CubeOf(a) = CubeOf(b)
  PROVE  a = b
<1>1. CASE Dims = 0
  <2>1. \A o, p \in Octants : o = p
    BY <1>1, OctantsApart
  <2>2. a \in [1 .. Depth -> Octants] /\ b \in [1 .. Depth -> Octants]
    <3>1. \A x \in Tasks : Leaf(x) => x \in [1 .. Depth -> Octants]
      <4> SUFFICES ASSUME NEW x \in Tasks, Leaf(x) PROVE x \in [1 .. Depth -> Octants]
        OBVIOUS
      <4>1. PICK k \in 0 .. Depth : x \in [1 .. k -> Octants]
        BY DEF Tasks
      <4>2. Depth \in Nat /\ k \in Nat /\ Len(x) = k
        BY <4>1, DepthAssumption
      <4> QED
        BY <4>1, <4>2 DEF Leaf
    <3> QED
      BY <3>1
  <2>3. \A i \in 1 .. Depth : a[i] = b[i]
    <3>1. \A i \in 1 .. Depth : a[i] \in Octants /\ b[i] \in Octants
      BY <2>2
    <3> QED
      BY <2>1, <3>1
  <2>4. a = [i \in 1 .. Depth |-> a[i]] /\ b = [i \in 1 .. Depth |-> b[i]]
    BY <2>2
  <2> QED
    BY <2>3, <2>4
<1>2. CASE Dims # 0
  <2>1. 1 \in 1 .. Dims
    BY <1>2, GridAssumption
  <2>2. a \in [1 .. Depth -> Octants] /\ b \in [1 .. Depth -> Octants]
    BY <2>1, LeafDigits
  <2>3. ASSUME NEW i \in 1 .. Depth PROVE a[i] = b[i]
    <3>1. \A d \in 1 .. Dims : Offset(a[i], d) = Offset(b[i], d)
      <4> SUFFICES ASSUME NEW d \in 1 .. Dims PROVE Offset(a[i], d) = Offset(b[i], d)
        OBVIOUS
      <4>1. \A j \in 1 .. Depth : Digits(2, Depth, CubeOf(a)[d])[j] = Offset(a[j], d)
        BY LeafDigits
      <4>2. \A j \in 1 .. Depth : Digits(2, Depth, CubeOf(b)[d])[j] = Offset(b[j], d)
        BY LeafDigits
      <4> QED
        BY <4>1, <4>2
    <3>2. a[i] \in Octants /\ b[i] \in Octants
      BY <2>2
    <3> QED
      BY <3>1, <3>2, OctantsApart
  <2>4. a = [i \in 1 .. Depth |-> a[i]] /\ b = [i \in 1 .. Depth |-> b[i]]
    BY <2>2
  <2> QED
    BY <2>3, <2>4
<1> QED
  BY <1>1, <1>2

\* A digit in base two.
LEMMA BinaryDigit ==
  ASSUME NEW n \in Nat, PowerLaw(2, n), NEW x \in Int, NEW i \in 1 .. n
  PROVE  Digits(2, n, x)[i] \in 0 .. 1
<1> DEFINE p == 2 ^ (n - i)
           q == x \div p
<1>1. n - i \in 0 .. n /\ 2 \in Nat \ {0}
  OBVIOUS
<1>2. p \in Nat \ {0}
  BY <1>1, PowersPositive
<1> HIDE DEF p
<1>3. q \in Int
  BY <1>2, SMTT(30)
<1>4. Digits(2, n, x)[i] = q % 2
  BY DEF Digits, p
<1> HIDE DEF q
<1>5. q % 2 \in 0 .. 1
  BY <1>3
<1> QED
  BY <1>4, <1>5

\* Every cube of the grid is that of a leaf.
LEMMA LeafOfCube ==
  ASSUME NEW c \in Cubes
  PROVE  \E b \in Tasks : Leaf(b) /\ CubeOf(b) = c
<1>1. /\ Depth \in Nat /\ GridSize = 2 ^ Depth /\ PowerLaw(2, Depth) /\ 2 \in Nat \ {0}
      /\ \A d \in 1 .. Dims : c[d] \in 0 .. 2 ^ Depth - 1
  BY DepthAssumption, TwoPowers DEF Cubes
<1> DEFINE Dig(d, i) == Digits(2, Depth, c[d])[i]
           Right(o, i) == o \in Octants /\ \A d \in 1 .. Dims : Offset(o, d) = Dig(d, i)
           b == [i \in 1 .. Depth |-> CHOOSE o : Right(o, i)]
<1>2. \A i \in 1 .. Depth : \E o : Right(o, i)
  <2> SUFFICES ASSUME NEW i \in 1 .. Depth PROVE \E o : Right(o, i)
    OBVIOUS
  <2> DEFINE f == [d \in 1 .. Dims |-> Dig(d, i)]
  <2>1. f \in [1 .. Dims -> 0 .. 1]
    <3>1. \A d \in 1 .. Dims : c[d] \in Int
      BY <1>1
    <3> QED
      BY <1>1, <3>1, BinaryDigit
  <2>2. \A d \in 1 .. Dims : f[d] = Dig(d, i)
    OBVIOUS
  <2> HIDE DEF f, Dig
  <2>3. \E o \in Octants : \A d \in 1 .. Dims : Offset(o, d) = f[d]
    BY <2>1, OctantWith
  <2> QED
    BY <2>2, <2>3
<1> HIDE DEF Dig
<1>3. \A i \in 1 .. Depth : Right(b[i], i)
  BY <1>2
<1>4. b \in [1 .. Depth -> Octants]
  BY <1>3
<1> HIDE DEF b
<1>5. b \in Tasks /\ Leaf(b)
  <2>1. Depth \in 0 .. Depth
    BY <1>1
  <2>2. Len(b) = Depth
    BY <1>1, <1>4
  <2> QED
    BY <1>4, <2>1, <2>2 DEF Tasks, Leaf
<1>6. \A d \in 1 .. Dims : CubeOf(b)[d] = c[d]
  <2> SUFFICES ASSUME NEW d \in 1 .. Dims PROVE CubeOf(b)[d] = c[d]
    OBVIOUS
  <2>1. /\ CubeOf(b)[d] \in 0 .. 2 ^ Depth - 1
        /\ \A i \in 1 .. Depth : Digits(2, Depth, CubeOf(b)[d])[i] = Offset(b[i], d)
    BY <1>5, LeafDigits
  <2>2. \A i \in 1 .. Depth : Digits(2, Depth, c[d])[i] = Offset(b[i], d)
    BY <1>3 DEF Dig
  <2>3. \A i \in 1 .. Depth : Digits(2, Depth, CubeOf(b)[d])[i] = Digits(2, Depth, c[d])[i]
    BY <2>1, <2>2
  <2>4. c[d] \in 0 .. 2 ^ Depth - 1
    BY <1>1
  <2> QED
    BY <1>1, <2>1, <2>3, <2>4, DigitsTell
<1>7. CubeOf(b) = c
  <2>1. CubeOf(b) \in Cubes
    BY <1>5, LeafCube
  <2>2. /\ CubeOf(b) = [d \in 1 .. Dims |-> CubeOf(b)[d]]
        /\ c = [d \in 1 .. Dims |-> c[d]]
    BY <2>1 DEF Cubes
  <2> QED
    BY <1>6, <2>2
<1> QED
  BY <1>5, <1>7

\* Each iteration of the loop has a cube of its own.
LEMMA IterationsApart ==
  ASSUME NEW i \in 0 .. Iterations - 1, NEW j \in 0 .. Iterations - 1,
         CubeOfIteration(i) = CubeOfIteration(j)
  PROVE  i = j
<1>1. \A d \in 1 .. Dims : Digits(GridSize, Dims, i)[d] = Digits(GridSize, Dims, j)[d]
  <2>1. CubeOfIteration(i) = Digits(GridSize, Dims, i)
    BY DEF Digits, CubeOfIteration
  <2>2. CubeOfIteration(j) = Digits(GridSize, Dims, j)
    BY DEF Digits, CubeOfIteration
  <2> QED
    BY <2>1, <2>2
<1>2. /\ GridSize \in Nat \ {0} /\ Dims \in Nat /\ PowerLaw(GridSize, Dims)
      /\ i \in 0 .. GridSize ^ Dims - 1 /\ j \in 0 .. GridSize ^ Dims - 1
  BY GridAssumption, GridPowers DEF Iterations
<1> QED
  BY <1>1, <1>2, DigitsTell

\* Every cube of the grid is that of an iteration.
LEMMA IterationOfCube ==
  ASSUME NEW c \in Cubes
  PROVE  \E i \in 0 .. Iterations - 1 : CubeOfIteration(i) = c
<1>1. /\ GridSize \in Nat \ {0} /\ Dims \in Nat /\ PowerLaw(GridSize, Dims)
      /\ c \in [1 .. Dims -> 0 .. GridSize - 1]
  BY GridAssumption, GridPowers DEF Cubes
<1> DEFINE i == SumOver(Worth(GridSize, Dims, c), 1 .. Dims)
<1>2. i \in 0 .. GridSize ^ Dims - 1 /\ \A d \in 1 .. Dims : Digits(GridSize, Dims, i)[d] = c[d]
  BY <1>1, DigitsSum
<1> HIDE DEF i
<1>3. CubeOfIteration(i) = Digits(GridSize, Dims, i)
  BY DEF Digits, CubeOfIteration
<1>4. CubeOfIteration(i) = [d \in 1 .. Dims |-> CubeOfIteration(i)[d]]
  BY DEF CubeOfIteration
<1>5. CubeOfIteration(i) = c
  BY <1>1, <1>2, <1>3, <1>4
<1> QED
  BY <1>2, <1>5 DEF Iterations

-----------------------------------------------------------------------------
(* What the stores hold. *)

\* The triangles of the cubes D, if f says how many each has.
TrianglesIn(f, D) == UNION {{c} \X (1 .. f[c]) : c \in D}

\* The triangles of a cube, as a set.
LEMMA TrianglesOnce ==
  ASSUME triangles \in [Cubes -> Nat], NEW c \in Cubes
  PROVE  /\ IsInjective(TrianglesOf(c))
         /\ ToSet(TrianglesOf(c)) = {c} \X (1 .. triangles[c])
<1> DEFINE n == triangles[c]
           s == [i \in 1 .. n |-> <<c, i>>]
<1>1. DOMAIN s = 1 .. n /\ \A i \in 1 .. n : s[i] = <<c, i>>
  OBVIOUS
<1>2. TrianglesOf(c) = s
  BY DEF TrianglesOf
<1> HIDE DEF s, n
<1>3. IsInjective(s) /\ ToSet(s) = {<<c, i>> : i \in 1 .. n}
  <2>1. IsInjective(s)
    BY <1>1 DEF IsInjective
  <2>2. ToSet(s) = {s[i] : i \in 1 .. n}
    BY <1>1 DEF ToSet
  <2> QED
    BY <1>1, <2>1, <2>2
<1>4. {<<c, i>> : i \in 1 .. n} = {c} \X (1 .. n)
  OBVIOUS
<1> QED
  BY <1>2, <1>3, <1>4 DEF n

\* The triangles of different cubes are different.
LEMMA TrianglesElsewhere ==
  ASSUME NEW f, NEW D, NEW E, D \cap E = {}
  PROVE  /\ TrianglesIn(f, D) \cap TrianglesIn(f, E) = {}
         /\ TrianglesIn(f, D \cup E) = TrianglesIn(f, D) \cup TrianglesIn(f, E)
<1> DEFINE P(c) == {c} \X (1 .. f[c])
<1>1. \A c : \A x \in P(c) : x[1] = c
  OBVIOUS
<1>2. \A S : TrianglesIn(f, S) = UNION {P(c) : c \in S}
  BY DEF TrianglesIn
<1> HIDE DEF P
<1>3. ASSUME NEW x \in TrianglesIn(f, D) \cap TrianglesIn(f, E) PROVE FALSE
  <2>1. PICK c \in D : x \in P(c)
    BY <1>2, <1>3
  <2>2. PICK e \in E : x \in P(e)
    BY <1>2, <1>3
  <2> QED
    BY <1>1, <2>1, <2>2
<1>4. TrianglesIn(f, D \cup E) = TrianglesIn(f, D) \cup TrianglesIn(f, E)
  BY <1>2
<1> QED
  BY <1>3, <1>4

\* No triangle is in the stores s twice, and those in W are in them.
Apart(s, W) ==
  /\ \A t \in Threads : IsInjective(s[t])
  /\ \A t, u \in Threads : t # u => ToSet(s[t]) \cap ToSet(s[u]) = {}
  /\ W = UNION {ToSet(s[t]) : t \in Threads}

\* Triangles that are in no store are put into one.
LEMMA EmitKeepsApart ==
  ASSUME NEW s \in [Threads -> Seq(Triangles)], NEW W, Apart(s, W),
         NEW t \in Threads, NEW e \in Seq(Triangles), IsInjective(e), ToSet(e) \cap W = {}
  PROVE  Apart([s EXCEPT ![t] = s[t] \o e], W \cup ToSet(e))
<1> DEFINE a == s[t] \o e
           r == [s EXCEPT ![t] = a]
<1>1. s[t] \in Seq(Triangles)
  OBVIOUS
<1>2. ToSet(s[t]) \subseteq W /\ \A u \in Threads : ToSet(s[u]) \subseteq W
  BY DEF Apart
<1>3. ToSet(a) = ToSet(s[t]) \cup ToSet(e) /\ IsInjective(a)
  <2>1. IsInjective(s[t]) /\ ToSet(s[t]) \cap ToSet(e) = {}
    BY <1>2 DEF Apart
  <2> QED
    BY <1>1, <2>1, OneAfterAnother
<1>4. \A u \in Threads : r[u] = IF u = t THEN a ELSE s[u]
  OBVIOUS
<1> HIDE DEF a, r
<1>5. \A u \in Threads : IsInjective(r[u])
  BY <1>3, <1>4 DEF Apart
<1>6. \A u, v \in Threads : u # v => ToSet(r[u]) \cap ToSet(r[v]) = {}
  <2> SUFFICES ASSUME NEW u \in Threads, NEW v \in Threads, u # v
               PROVE  ToSet(r[u]) \cap ToSet(r[v]) = {}
    OBVIOUS
  <2>1. ToSet(s[u]) \cap ToSet(s[v]) = {}
    BY DEF Apart
  <2>2. ToSet(s[u]) \cap ToSet(e) = {} /\ ToSet(s[v]) \cap ToSet(e) = {}
    BY <1>2
  <2>3. CASE u = t
    <3>1. r[u] = a /\ r[v] = s[v]
      BY <1>4, <2>3
    <3> QED
      BY <1>3, <2>1, <2>2, <2>3, <3>1
  <2>4. CASE v = t
    <3>1. r[v] = a /\ r[u] = s[u]
      BY <1>4, <2>4
    <3> QED
      BY <1>3, <2>1, <2>2, <2>4, <3>1
  <2>5. CASE u # t /\ v # t
    <3>1. r[u] = s[u] /\ r[v] = s[v]
      BY <1>4, <2>5
    <3> QED
      BY <2>1, <3>1
  <2> QED
    BY <2>3, <2>4, <2>5
<1>7. W \cup ToSet(e) = UNION {ToSet(r[u]) : u \in Threads}
  <2>1. W = UNION {ToSet(s[u]) : u \in Threads}
    BY DEF Apart
  <2>2. \A u \in Threads : ToSet(r[u]) = IF u = t THEN ToSet(s[t]) \cup ToSet(e)
                                                  ELSE ToSet(s[u])
    BY <1>3, <1>4
  <2> QED
    BY <2>1, <2>2, SMTT(30)
<1> QED
  BY <1>5, <1>6, <1>7 DEF Apart, r, a

\* The merged array holds what the stores hold, each triangle once, and is as long
\* as they are together.
LEMMA MergedRight ==
  ASSUME StoresRight, NEW W, Apart(stores, W)
  PROVE  IsInjective(Merged) /\ ToSet(Merged) = W /\ Len(Merged) = Emitted
<1> DEFINE n == MaxThreads
           U == Seq(Triangles)
           q == [i \in 1 .. n |-> IF i - 1 \in Threads THEN stores[i - 1] ELSE << >>]
<1>1. n \in Nat /\ \A t \in Threads : t + 1 \in 1 .. n /\ (t + 1) - 1 = t /\ t \in Nat
  BY ThreadsAssumption
<1>2. << >> \in Seq(Triangles) /\ IsInjective(<< >>) /\ ToSet(<< >>) = {} /\ Len(<< >>) = 0
  BY DEF IsInjective, ToSet
<1>3. /\ \A i \in 1 .. n : q[i] = IF i - 1 \in Threads THEN stores[i - 1] ELSE << >>
      /\ q \in [1 .. n -> U]
  <2>1. \A i \in 1 .. n : (IF i - 1 \in Threads THEN stores[i - 1] ELSE << >>) \in U
    BY <1>2 DEF StoresRight
  <2> HIDE DEF U
  <2> QED
    BY <2>1
<1>4. Merged = FlattenSeq(q)
  BY DEF Merged
<1> HIDE DEF q, n
<1>5. q \in Seq(U) /\ Len(q) = n
  <2> HIDE DEF U
  <2> QED
    BY <1>1, <1>3
<1>6. \A i \in 1 .. Len(q) : IsInjective(q[i])
  BY <1>2, <1>3, <1>5 DEF Apart
<1>7. \A i, j \in 1 .. Len(q) : i # j => ToSet(q[i]) \cap ToSet(q[j]) = {}
  <2> SUFFICES ASSUME NEW i \in 1 .. n, NEW j \in 1 .. n, i # j
               PROVE  ToSet(q[i]) \cap ToSet(q[j]) = {}
    BY <1>5
  <2>1. CASE i - 1 \in Threads /\ j - 1 \in Threads
    <3>1. i - 1 # j - 1
      BY <1>1
    <3>2. q[i] = stores[i - 1] /\ q[j] = stores[j - 1]
      BY <1>3, <2>1
    <3> QED
      BY <2>1, <3>1, <3>2 DEF Apart
  <2>2. CASE i - 1 \notin Threads
    <3>1. q[i] = << >>
      BY <1>3, <2>2
    <3> QED
      BY <1>2, <3>1
  <2>3. CASE j - 1 \notin Threads
    <3>1. q[j] = << >>
      BY <1>3, <2>3
    <3> QED
      BY <1>2, <3>1
  <2> QED
    BY <2>1, <2>2, <2>3
<1>8. IsInjective(Merged) /\ ToSet(Merged) = UNION {ToSet(q[i]) : i \in 1 .. Len(q)}
  BY <1>4, <1>5, <1>6, <1>7, FlattenApart
<1>9. UNION {ToSet(q[i]) : i \in 1 .. Len(q)} = W
  <2>1. W = UNION {ToSet(stores[t]) : t \in Threads}
    BY DEF Apart
  <2>2. ASSUME NEW i \in 1 .. n PROVE ToSet(q[i]) \subseteq W
    BY <1>2, <1>3, <2>1
  <2>3. ASSUME NEW t \in Threads PROVE \E i \in 1 .. n : ToSet(q[i]) = ToSet(stores[t])
    <3>1. t + 1 \in 1 .. n /\ q[t + 1] = stores[t]
      BY <1>1, <1>3
    <3> QED
      BY <3>1
  <2> QED
    BY <1>5, <2>1, <2>2, <2>3
<1>10. Len(Merged) = Emitted
  <2> DEFINE f == [t \in Threads |-> Len(stores[t])]
             B(k) == {t \in Threads : t < k}
             G == {p \in Nat \X U : Len(p[2]) = SumOver(f, B(p[1]))}
  <2>1. \A t \in Threads : f[t] = Len(stores[t]) /\ f[t] \in Int /\ stores[t] \in Seq(Triangles)
    BY DEF StoresRight
  <2>2. \A k : Summable(f, B(k))
    <3>1. \A k : IsFiniteSet(B(k))
      BY TeamIsFinite, FS_Subset
    <3> QED
      BY <2>1, <3>1 DEF Summable
  <2>3. Emitted = SumOver(f, Threads)
    BY AddedIs DEF Emitted
  <2>4. B(n) = Threads
    BY <1>1
  <2>5. B(0) = {}
    BY <1>1
  <2> HIDE DEF f
  <2>6. <<0, << >>>> \in G
    <3>1. SumOver(f, {}) = 0
      BY <2>2, <2>5, SumOverStep
    <3> QED
      BY <1>2, <2>5, <3>1
  <2>7. ASSUME NEW i \in 1 .. Len(q), NEW s \in U, <<i - 1, s>> \in G
        PROVE  <<i, s \o q[i]>> \in G
    <3>1. i \in Nat /\ i - 1 \in Nat /\ i \in 1 .. n /\ Len(s) \in Int
      BY <1>1, <1>5
    <3>2. Len(s) = SumOver(f, B(i - 1))
      BY <2>7
    <3>3. q[i] \in U
      BY <1>3, <3>1
    <3>4. s \o q[i] \in U /\ Len(s \o q[i]) = Len(s) + Len(q[i])
      BY <3>3, OneAfterAnother
    <3>5. Len(q[i]) + SumOver(f, B(i - 1)) = SumOver(f, B(i))
      <4>1. CASE i - 1 \in Threads
        <5>1. B(i) = B(i - 1) \cup {i - 1} /\ i - 1 \notin B(i - 1)
          BY <1>1, <3>1, <4>1
        <5>2. f[i - 1] \in Int /\ Summable(f, B(i - 1))
          BY <2>1, <2>2, <4>1
        <5> HIDE DEF B
        <5>3. SumOver(f, B(i - 1) \cup {i - 1}) = f[i - 1] + SumOver(f, B(i - 1))
          BY <5>1, <5>2, SumOverAdds
        <5>4. q[i] = stores[i - 1] /\ f[i - 1] = Len(stores[i - 1])
          BY <1>3, <2>1, <3>1, <4>1
        <5> QED
          BY <5>1, <5>3, <5>4
      <4>2. CASE i - 1 \notin Threads
        <5>1. B(i) = B(i - 1)
          BY <1>1, <3>1, <4>2
        <5>2. q[i] = << >>
          BY <1>3, <3>1, <4>2
        <5>3. SumOver(f, B(i - 1)) \in Int
          BY <3>1, <3>2
        <5> HIDE DEF B
        <5> QED
          BY <1>2, <5>1, <5>2, <5>3
      <4> QED
        BY <4>1, <4>2
    <3>6. Len(q[i]) \in Int
      BY <3>3
    <3> DEFINE r == s \o q[i]
    <3>7. r \in U /\ Len(r) = SumOver(f, B(i))
      BY <3>1, <3>2, <3>4, <3>5, <3>6
    <3> HIDE DEF r, B, U
    <3>8. <<i, r>> \in G
      BY <3>1, <3>7
    <3> QED
      BY <3>8 DEF r
  <2> HIDE DEF G
  <2>8. <<Len(q), FlattenSeq(q)>> \in G
    BY <1>5, <2>6, <2>7, FlattenInduction
  <2>9. Len(FlattenSeq(q)) = SumOver(f, B(Len(q)))
    BY <2>8 DEF G
  <2> QED
    BY <1>4, <1>5, <2>3, <2>4, <2>9
<1> QED
  BY <1>8, <1>9, <1>10

-----------------------------------------------------------------------------
(* What is in the stores while the builders run. *)

\* Where a thread is after its part of the region.
Over == {"finished", "merged"}

\* The cubes that were built.
TreeCubes == {CubeOf(b) : b \in {l \in Tasks : Leaf(l) /\ state[l] = "done"}}

LoopCubes == {CubeOfIteration(i) : i \in {j \in 0 .. Iterations - 1 : j < next}}

\* A block that was divided has returned only if all its parts have; no thread
\* leaves the region before the traversal is over.
TreeDone ==
  /\ empty \subseteq EmptyBlocks
  /\ \A b \in Tasks \ empty, o \in Octants :
       ~Leaf(b) /\ state[b] = "done" => state[Append(b, o)] = "done"
  /\ \A t \in Threads : at[t] = "working" => state[Root] # "absent"
  /\ \A t \in Threads : at[t] \in Over =>
       state[Root] = "done" /\ \A b \in Tasks : state[b] \in {"absent", "done"}

\* No thread leaves the loop before all its iterations were handed out.
LoopDone == \A t \in Threads : at[t] \in Over => next >= Iterations

\* The stores hold the triangles of the cubes that were built, each once.
MeshDone ==
  /\ program = "tree" => TreeDone /\ Apart(stores, TrianglesIn(triangles, TreeCubes))
  /\ program = "loop" => LoopDone /\ Apart(stores, TrianglesIn(triangles, LoopCubes))
  /\ program \in Jobs => \A t \in Threads : at[t] = "start"
  /\ MeshResult

\* The octants that lead to a leaf, up to a level.
Towards(l, k) == [i \in 1 .. k |-> l[i]]

\* They are the blocks that the leaf's cube is in.
LEMMA TowardsIs ==
  ASSUME NEW l \in [1 .. Depth -> Octants], NEW k \in 0 .. Depth
  PROVE  /\ Towards(l, k) \in Tasks /\ Len(Towards(l, k)) = k
         /\ CubeOf(l) \in Inside(Towards(l, k))
         /\ k < Depth => /\ l[k + 1] \in Octants
                         /\ Append(Towards(l, k), l[k + 1]) = Towards(l, k + 1)
<1> DEFINE b == Towards(l, k)
<1>1. Depth \in Nat /\ k \in Nat /\ l \in Seq(Octants) /\ Len(l) = Depth
  BY DepthAssumption
<1>2. \A j \in 0 .. Depth : /\ Towards(l, j) \in [1 .. j -> Octants]
                            /\ \A i \in 1 .. j : Towards(l, j)[i] = l[i]
  <2> SUFFICES ASSUME NEW j \in 0 .. Depth
               PROVE  /\ Towards(l, j) \in [1 .. j -> Octants]
                      /\ \A i \in 1 .. j : Towards(l, j)[i] = l[i]
    OBVIOUS
  <2>1. \A i \in 1 .. j : l[i] \in Octants
    BY <1>1
  <2> QED
    BY <2>1 DEF Towards
<1>3. b \in [1 .. k -> Octants] /\ \A i \in 1 .. k : b[i] = l[i]
  BY <1>2
<1>4. b \in Tasks
  BY <1>3 DEF Tasks
<1> HIDE DEF b
<1>5. b \in Seq(Octants) /\ Len(b) = k
  BY <1>1, <1>3
<1>6. CubeOf(l) \in Inside(b)
  <2> DEFINE s == SubSeq(b, 1, k)
             r == SubSeq(l, 1, k)
  <2>1. \A i \in 1 .. k : b[i] \in Octants /\ l[i] \in Octants
    BY <1>1, <1>3
  <2>2. /\ s \in Seq(Octants) /\ Len(s) = (IF 1 \leq k THEN k - 1 + 1 ELSE 0)
        /\ \A i \in 1 .. k - 1 + 1 : s[i] = b[1 + i - 1]
    BY <1>1, <1>5, <2>1, SubSeqProperties
  <2>3. /\ r \in Seq(Octants) /\ Len(r) = (IF 1 \leq k THEN k - 1 + 1 ELSE 0)
        /\ \A i \in 1 .. k - 1 + 1 : r[i] = l[1 + i - 1]
    BY <1>1, <2>1, SubSeqProperties
  <2> HIDE DEF s, r
  <2>4. Len(s) = k /\ Len(r) = k
    BY <1>1, <2>2, <2>3
  <2>5. \A i \in 1 .. k : i \in 1 .. k - 1 + 1 /\ 1 + i - 1 = i
    BY <1>1
  <2>6. \A i \in 1 .. Len(s) : s[i] = r[i]
    BY <1>3, <2>2, <2>3, <2>4, <2>5
  <2>7. s = r
    BY <2>2, <2>3, <2>4, <2>6, SeqEqual
  <2>8. IsPrefix(b, l)
    BY <1>1, <1>5, <2>7 DEF IsPrefix, s, r
  <2> QED
    BY <2>8 DEF Inside
<1>7. ASSUME k < Depth
      PROVE  l[k + 1] \in Octants /\ Append(b, l[k + 1]) = Towards(l, k + 1)
  <2> DEFINE a == Append(b, l[k + 1])
             c == Towards(l, k + 1)
  <2>1. k + 1 \in 0 .. Depth /\ k + 1 \in 1 .. Depth /\ l[k + 1] \in Octants
    BY <1>1, <1>7
  <2>2. c \in [1 .. k + 1 -> Octants] /\ \A i \in 1 .. k + 1 : c[i] = l[i]
    BY <1>2, <2>1
  <2> HIDE DEF c
  <2>3. c \in Seq(Octants) /\ Len(c) = k + 1
    BY <1>1, <2>2
  <2>4. a \in Seq(Octants) /\ Len(a) = k + 1
    BY <1>5, <2>1
  <2>5. \A i \in 1 .. k + 1 : a[i] = c[i]
    <3>1. \A i \in 1 .. k + 1 : a[i] = IF i = k + 1 THEN l[k + 1] ELSE b[i]
      BY <1>1, <1>5
    <3> HIDE DEF a
    <3>2. \A i \in 1 .. k + 1 : i # k + 1 => i \in 1 .. k
      BY <1>1
    <3> QED
      BY <1>3, <2>2, <3>1, <3>2
  <2> HIDE DEF a
  <2>6. a = c
    BY <2>3, <2>4, <2>5, SeqEqual
  <2> QED
    BY <2>1, <2>6 DEF a, c
<1> QED
  BY <1>4, <1>5, <1>6, <1>7 DEF b

\* When the traversal is over, every cube with triangles was built.
LEMMA TreeBuiltAll ==
  ASSUME TreeDone, state[Root] = "done", NEW c \in Cubes, triangles[c] # 0
  PROVE  c \in TreeCubes
<1>1. PICK l \in Tasks : Leaf(l) /\ CubeOf(l) = c
  BY LeafOfCube
<1>2. Depth \in Nat /\ l \in [1 .. Depth -> Octants]
  <2>1. PICK k \in 0 .. Depth : l \in [1 .. k -> Octants]
    BY DEF Tasks
  <2>2. Depth \in Nat /\ k \in Nat /\ Len(l) = k
    BY <2>1, DepthAssumption
  <2> QED
    BY <1>1, <2>1, <2>2 DEF Leaf
<1> DEFINE G == {k \in Nat : k <= Depth => state[Towards(l, k)] = "done"}
<1>3. 0 \in G
  <2>1. Towards(l, 0) = << >>
    BY DEF Towards
  <2> QED
    BY <2>1 DEF Root
<1>4. ASSUME NEW k \in Nat, k \in G PROVE k + 1 \in G
  <2> SUFFICES ASSUME k + 1 <= Depth PROVE state[Towards(l, k + 1)] = "done"
    OBVIOUS
  <2>1. k \in 0 .. Depth /\ k < Depth
    BY <1>2
  <2> DEFINE b == Towards(l, k)
  <2>2. /\ b \in Tasks /\ Len(b) = k /\ CubeOf(l) \in Inside(b)
        /\ l[k + 1] \in Octants /\ Append(b, l[k + 1]) = Towards(l, k + 1)
    BY <1>2, <2>1, TowardsIs
  <2>3. state[b] = "done"
    BY <1>4, <2>1
  <2> HIDE DEF b, G
  <2>4. ~Leaf(b)
    BY <2>1, <2>2 DEF Leaf
  <2>5. b \notin empty
    BY <1>1, <2>2 DEF TreeDone, EmptyBlocks
  <2> QED
    BY <2>2, <2>3, <2>4, <2>5 DEF TreeDone
<1> HIDE DEF G
<1>5. Nat \subseteq G
  BY <1>3, <1>4, NatSetInduction
<1>6. state[Towards(l, Depth)] = "done"
  BY <1>2, <1>5 DEF G
<1>7. Towards(l, Depth) = l
  BY <1>2 DEF Towards
<1> QED
  BY <1>1, <1>6, <1>7 DEF TreeCubes

\* Then the stores hold what marchCubes() is to return.
LEMMA TreeYieldsAll ==
  ASSUME StoresRight, TreeDone, state[Root] = "done"
  PROVE  TrianglesIn(triangles, TreeCubes) = Wanted
<1> DEFINE P(c) == {c} \X (1 .. triangles[c])
<1>1. \A c \in Cubes : ToSet(TrianglesOf(c)) = P(c)
  BY TrianglesOnce DEF StoresRight
<1>2. TreeCubes \subseteq Cubes
  BY LeafCube DEF TreeCubes
<1>3. \A c \in Cubes : c \notin TreeCubes => P(c) = {}
  <2> SUFFICES ASSUME NEW c \in Cubes, c \notin TreeCubes PROVE P(c) = {}
    OBVIOUS
  <2>1. triangles[c] = 0
    BY TreeBuiltAll
  <2> QED
    BY <2>1
<1>4. TrianglesIn(triangles, TreeCubes) = UNION {P(c) : c \in TreeCubes}
  BY DEF TrianglesIn
<1>5. Wanted = UNION {ToSet(TrianglesOf(c)) : c \in Cubes}
  BY DEF Wanted
<1> HIDE DEF P
<1> QED
  BY <1>1, <1>2, <1>3, <1>4, <1>5

\* So they do when the loop is over.
LEMMA LoopYieldsAll ==
  ASSUME StoresRight, next \in Nat, next >= Iterations
  PROVE  TrianglesIn(triangles, LoopCubes) = Wanted
<1>1. Iterations \in Int
  BY GridPowers, GridAssumption, PowersPositive DEF Iterations
<1>2. LoopCubes = Cubes
  <2>1. \A j \in 0 .. Iterations - 1 : j < next
    BY <1>1
  <2>2. ASSUME NEW c \in Cubes PROVE c \in LoopCubes
    <3>1. PICK i \in 0 .. Iterations - 1 : CubeOfIteration(i) = c
      BY IterationOfCube
    <3> QED
      BY <2>1, <3>1 DEF LoopCubes
  <2>3. ASSUME NEW c \in LoopCubes PROVE c \in Cubes
    <3>1. PICK i \in 0 .. Iterations - 1 : CubeOfIteration(i) = c
      BY <2>3 DEF LoopCubes
    <3>2. i \in Nat
      BY <1>1
    <3> QED
      BY <3>1, <3>2, IterationCube
  <2> QED
    BY <2>2, <2>3
<1>3. \A c \in Cubes : ToSet(TrianglesOf(c)) = {c} \X (1 .. triangles[c])
  BY TrianglesOnce DEF StoresRight
<1> QED
  BY <1>2, <1>3 DEF TrianglesIn, Wanted

-----------------------------------------------------------------------------
(* The builders' steps keep it. *)

\* A task moves on before the end of the traversal.
LEMMA TaskMoves ==
  ASSUME TInv, TreeDone, NEW b \in Tasks, NEW s \in States \ {"absent"},
         state' = [state EXCEPT ![b] = s], empty' = empty, triangles' = triangles,
         state[b] # "done",
         s = "done" /\ ~Leaf(b) /\ b \notin empty =>
           \A o \in Octants : state[Append(b, o)] = "done",
         \A u \in Threads : at'[u] \notin Over,
         \A u \in Threads : at'[u] = "working" => at[u] = "working" \/ b = Root
  PROVE  /\ TreeDone'
         /\ TreeCubes' = TreeCubes \cup (IF Leaf(b) /\ s = "done" THEN {CubeOf(b)} ELSE {})
<1>1. \A c \in Tasks : state'[c] = IF c = b THEN s ELSE state[c]
  BY DEF TInv
<1>2. empty' \subseteq EmptyBlocks'
  BY DEF TreeDone, EmptyBlocks
<1>3. ASSUME NEW c \in Tasks, c \notin empty', NEW o \in Octants, ~Leaf(c), state'[c] = "done"
      PROVE  state'[Append(c, o)] = "done"
  <2>1. Append(c, o) \in Tasks
    BY <1>3, ChildIsTask
  <2>2. state[Append(c, o)] = "done"
    <3>1. CASE c = b
      BY <1>1, <1>3, <3>1
    <3>2. CASE c # b
      BY <1>1, <1>3, <3>2 DEF TreeDone
    <3> QED
      BY <3>1, <3>2
  <2>3. Append(c, o) # b
    BY <2>2
  <2> QED
    BY <1>1, <2>1, <2>2, <2>3
<1>4. ASSUME NEW u \in Threads, at'[u] = "working"
      PROVE  state'[Root] # "absent"
  <2>1. Root \in Tasks
    BY RootIsTask
  <2>2. state[Root] # "absent" \/ b = Root
    BY <1>4 DEF TreeDone
  <2> QED
    BY <1>1, <2>1, <2>2
<1>5. TreeDone'
  BY <1>2, <1>3, <1>4 DEF TreeDone
<1>6. TreeCubes' = TreeCubes \cup (IF Leaf(b) /\ s = "done" THEN {CubeOf(b)} ELSE {})
  <2> DEFINE L == {l \in Tasks : Leaf(l) /\ state[l] = "done"}
             M == {l \in Tasks : Leaf(l) /\ state'[l] = "done"}
  <2>1. M = L \cup (IF Leaf(b) /\ s = "done" THEN {b} ELSE {})
    BY <1>1
  <2>2. TreeCubes = {CubeOf(l) : l \in L} /\ TreeCubes' = {CubeOf(l) : l \in M}
    BY DEF TreeCubes
  <2> HIDE DEF L, M
  <2> QED
    BY <2>1, <2>2
<1> QED
  BY <1>5, <1>6

\* While a task is queued or runs, or none was begun, no thread has left.
LEMMA NoneOver ==
  ASSUME TreeDone, state[Root] = "absent" \/ \E b \in Tasks : state[b] \in Pointer
  PROVE  \A u \in Threads : at[u] \notin Over
BY DEF TreeDone, Pointer

\* A step of a thread of the tree builder.
LEMMA TreeKeepsDone ==
  ASSUME StoresRight, TInv, TreeDone, Apart(stores, TrianglesIn(triangles, TreeCubes)),
         NEW t \in Threads, TreeThread(t)
  PROVE  /\ TreeDone' /\ Apart(stores', TrianglesIn(triangles', TreeCubes'))
         /\ \E u \in Threads : at'[u] # "merged"
<1>1. \A c, o : c \in Tasks /\ ~Leaf(c) /\ o \in Octants => Append(c, o) \in Tasks
  BY ChildIsTask
<1>2. ASSUME NEW p \in Points \ {"merged"}, GoTo(t, p), UNCHANGED <<triangles, stores, treeVars>>,
             p = "working" => state[Root] # "absent",
             p \in Over => state[Root] = "done" /\ \A b \in Tasks : state[b] \in {"absent", "done"}
      PROVE  /\ TreeDone' /\ Apart(stores', TrianglesIn(triangles', TreeCubes'))
             /\ \E u \in Threads : at'[u] # "merged"
  <2>1. \A u \in Threads : at'[u] = IF u = t THEN p ELSE at[u]
    BY <1>2 DEF GoTo, StoresRight
  <2>2. empty' = empty /\ state' = state /\ triangles' = triangles /\ stores' = stores
    BY <1>2 DEF treeVars
  <2>3. TreeCubes' = TreeCubes
    BY <2>2 DEF TreeCubes
  <2>4. EmptyBlocks' = EmptyBlocks
    BY <2>2 DEF EmptyBlocks
  <2>5. TreeDone'
    BY <1>2, <2>1, <2>2, <2>4 DEF TreeDone
  <2> QED
    BY <2>1, <2>2, <2>3, <2>5
<1>3. ASSUME NEW b \in Tasks, NEW s \in States \ {"absent"}, state' = [state EXCEPT ![b] = s],
             empty' = empty, triangles' = triangles, stores' = stores, state[b] # "done",
             s = "done" =>
               ~Leaf(b) /\ (b \notin empty => \A o \in Octants : state[Append(b, o)] = "done"),
             \A u \in Threads : at'[u] \notin Over,
             \A u \in Threads : at'[u] = "working" => at[u] = "working" \/ b = Root
      PROVE  /\ TreeDone' /\ Apart(stores', TrianglesIn(triangles', TreeCubes'))
             /\ \E u \in Threads : at'[u] # "merged"
  <2>1. TreeDone' /\ TreeCubes' = TreeCubes
    BY <1>3, TaskMoves
  <2> QED
    BY <1>3, <2>1 DEF Over
<1>4. CASE Allocate(t) /\ UNCHANGED treeVars
  <2>1. "allocated" \in Points \ {"merged"} /\ "allocated" \notin Over
    BY DEF Points, Over
  <2> QED
    BY <1>2, <1>4, <2>1 DEF Allocate, GoTo
<1>5. CASE SkipSingle(t)
  <2>1. "working" \in Points \ {"merged"} /\ "working" \notin Over
    BY DEF Points, Over
  <2> QED
    BY <1>2, <1>5, <2>1 DEF SkipSingle
<1>6. CASE TreeLeave(t)
  <2>1. "finished" \in Points \ {"merged"}
    BY DEF Points
  <2>2. state[Root] = "done"
    BY <1>6, RootIsTask DEF TreeLeave, TreeDone
  <2> QED
    BY <1>2, <1>6, <2>1, <2>2 DEF TreeLeave
<1>7. CASE BeginSingle(t)
  <2>1. \A u \in Threads : at'[u] = IF u = t THEN "working" ELSE at[u]
    BY <1>7 DEF BeginSingle, GoTo, StoresRight
  <2>2. \A u \in Threads : at[u] \notin Over
    BY <1>7, NoneOver DEF BeginSingle
  <2>3. \A u \in Threads : at'[u] \notin Over
    BY <2>1, <2>2 DEF Over
  <2>4. "live" \in States \ {"absent"} /\ Root \in Tasks
    BY RootIsTask DEF States
  <2> QED
    BY <1>3, <1>7, <2>3, <2>4 DEF BeginSingle
<1>8. ASSUME NEW b \in Tasks, Spawn(t, b)
      PROVE  /\ TreeDone' /\ Apart(stores', TrianglesIn(triangles', TreeCubes'))
             /\ \E u \in Threads : at'[u] # "merged"
  <2>1. state[b] = "live"
    BY <1>8, RunsLive DEF Spawn
  <2>2. \A u \in Threads : at[u] \notin Over
    BY <2>1, NoneOver DEF Pointer
  <2> DEFINE c == Append(b, made[b])
  <2>3. /\ state' = [state EXCEPT ![c] = "queued"] /\ empty' = empty
        /\ triangles' = triangles /\ stores' = stores /\ at' = at
        /\ ~Leaf(b) /\ made[b] \in Octants
    BY <1>8 DEF Spawn, meshVars
  <2>4. c \in Tasks /\ made[b] >= made[b]
    BY <1>1, <2>3 DEF TInv, Octants
  <2>5. state[c] = "absent"
    BY <2>3, <2>4 DEF TInv, CreatedInOrder
  <2> HIDE DEF c
  <2>6. "queued" \in States \ {"absent"}
    BY DEF States
  <2> QED
    BY <1>3, <2>2, <2>3, <2>4, <2>5, <2>6
<1>9. ASSUME NEW b \in Tasks, BeginTask(t, b)
      PROVE  /\ TreeDone' /\ Apart(stores', TrianglesIn(triangles', TreeCubes'))
             /\ \E u \in Threads : at'[u] # "merged"
  <2>1. /\ state' = [state EXCEPT ![b] = "live"] /\ empty' = empty /\ state[b] = "queued"
        /\ triangles' = triangles /\ stores' = stores /\ at' = at
    BY <1>9 DEF BeginTask, meshVars
  <2>2. \A u \in Threads : at[u] \notin Over
    BY <2>1, NoneOver DEF Pointer
  <2>3. "live" \in States \ {"absent"}
    BY DEF States
  <2> QED
    BY <1>3, <2>1, <2>2, <2>3
<1>10. ASSUME NEW b \in Tasks, Runs(t, b), NEW n, Return(t, b, n), ~Leaf(b), UNCHANGED stores,
              b \notin empty => \A c \in Children(b) : state[c] = "done"
       PROVE  /\ TreeDone' /\ Apart(stores', TrianglesIn(triangles', TreeCubes'))
              /\ \E u \in Threads : at'[u] # "merged"
  <2>1. state[b] = "live"
    BY <1>10, RunsLive
  <2>2. /\ state' = [state EXCEPT ![b] = "done"] /\ empty' = empty
        /\ triangles' = triangles /\ stores' = stores /\ at' = at
    BY <1>10 DEF Return
  <2>3. \A u \in Threads : at[u] \notin Over
    BY <2>1, NoneOver DEF Pointer
  <2>4. "done" \in States \ {"absent"}
    BY DEF States
  <2>5. b \notin empty => \A o \in Octants : state[Append(b, o)] = "done"
    BY <1>10 DEF Children
  <2> QED
    BY <1>3, <1>10, <2>1, <2>2, <2>3, <2>4, <2>5
<1>11. ASSUME NEW b \in Tasks, LeaveOut(t, b)
       PROVE  /\ TreeDone' /\ Apart(stores', TrianglesIn(triangles', TreeCubes'))
              /\ \E u \in Threads : at'[u] # "merged"
  <2>1. ~Leaf(b)
    BY <1>11 DEF LeaveOut, TreeDone, EmptyBlocks
  <2> QED
    BY <1>10, <1>11, <2>1 DEF LeaveOut
<1>12. ASSUME NEW b \in Tasks, Join(t, b)
       PROVE  /\ TreeDone' /\ Apart(stores', TrianglesIn(triangles', TreeCubes'))
              /\ \E u \in Threads : at'[u] # "merged"
  BY <1>10, <1>12 DEF Join
<1>13. ASSUME NEW b \in Tasks, BuildCube(t, b)
       PROVE  /\ TreeDone' /\ Apart(stores', TrianglesIn(triangles', TreeCubes'))
              /\ \E u \in Threads : at'[u] # "merged"
  <2> DEFINE c == CubeOf(b)
             e == TrianglesOf(c)
             W == TrianglesIn(triangles, TreeCubes)
  <2>1. /\ state' = [state EXCEPT ![b] = "done"] /\ empty' = empty
        /\ triangles' = triangles /\ at' = at /\ Leaf(b)
        /\ stores' = [stores EXCEPT ![t] = stores[t] \o e]
    BY <1>13 DEF BuildCube, Return, Emit
  <2>2. state[b] = "live"
    BY <1>13, RunsLive DEF BuildCube
  <2>3. \A u \in Threads : at[u] \notin Over
    BY <2>2, NoneOver DEF Pointer
  <2>4. "done" \in States \ {"absent"}
    BY DEF States
  <2>5. TreeDone' /\ TreeCubes' = TreeCubes \cup {CubeOf(b)}
    BY <2>1, <2>2, <2>3, <2>4, TaskMoves
  <2>6. c \in Cubes /\ triangles \in [Cubes -> Nat] /\ stores \in [Threads -> Seq(Triangles)]
    BY <2>1, LeafCube DEF StoresRight
  <2>7. c \notin TreeCubes
    <3> SUFFICES ASSUME c \in TreeCubes PROVE FALSE
      OBVIOUS
    <3>1. PICK l \in Tasks : Leaf(l) /\ state[l] = "done" /\ CubeOf(l) = CubeOf(b)
      BY DEF TreeCubes
    <3>2. l = b
      BY <2>1, <3>1, LeavesApart
    <3> QED
      BY <2>2, <3>1, <3>2
  <2> HIDE DEF c
  <2>8. /\ e \in Seq(Triangles) /\ IsInjective(e)
        /\ ToSet(e) = TrianglesIn(triangles, {c})
    BY <2>6, TrianglesAre, TrianglesOnce DEF TrianglesIn
  <2>9. /\ TrianglesIn(triangles, TreeCubes) \cap TrianglesIn(triangles, {c}) = {}
        /\ TrianglesIn(triangles, TreeCubes \cup {c}) = W \cup TrianglesIn(triangles, {c})
    <3>1. TreeCubes \cap {c} = {}
      BY <2>7
    <3> QED
      BY <3>1, TrianglesElsewhere
  <2> HIDE DEF e
  <2>10. ToSet(e) \cap W = {} /\ Apart(stores, W)
    BY <2>8, <2>9
  <2> HIDE DEF W
  <2>11. Apart([stores EXCEPT ![t] = stores[t] \o e], W \cup ToSet(e))
    BY <2>6, <2>8, <2>10, EmitKeepsApart
  <2>12. TrianglesIn(triangles', TreeCubes') = W \cup ToSet(e)
    BY <2>1, <2>5, <2>8, <2>9 DEF c
  <2>13. at'[t] # "merged"
    BY <2>1, <2>3 DEF Over
  <2> QED
    BY <2>1, <2>5, <2>11, <2>12, <2>13
<1> QED
  BY <1>4, <1>5, <1>6, <1>7, <1>8, <1>9, <1>11, <1>12, <1>13 DEF TreeThread

\* A chunk is the next iterations, as many as there are.
LEMMA HandedAre ==
  ASSUME next \in Nat, next < Iterations
  PROVE  /\ IsFiniteSet(Handed) /\ Cardinality(Handed) \in Nat \ {0}
         /\ Handed = next .. next + Cardinality(Handed) - 1
         /\ next + Cardinality(Handed) \in Nat /\ next + Cardinality(Handed) <= Iterations
         /\ next + ChunkSize \in Nat
         /\ next + Cardinality(Handed) = next + ChunkSize
              \/ (next + Cardinality(Handed) = Iterations /\ Iterations <= next + ChunkSize)
<1> DEFINE a == next + ChunkSize
           m == Min({a, Iterations})
<1>1. Iterations \in Int /\ a \in Nat /\ a > next
  <2>1. Iterations \in Int
    BY GridPowers, GridAssumption, PowersPositive DEF Iterations
  <2> QED
    BY <2>1, ChunkAssumption
<1> HIDE DEF a
<1>2. m = IF a <= Iterations THEN a ELSE Iterations
  <2> SUFFICES ASSUME NEW x \in Int, NEW y \in Int
               PROVE  Min({x, y}) = IF x <= y THEN x ELSE y
    BY <1>1
  <2>1. \E z \in {x, y} : \A w \in {x, y} : z <= w
    OBVIOUS
  <2>2. Min({x, y}) \in {x, y} /\ \A w \in {x, y} : Min({x, y}) <= w
    BY <2>1 DEF Min
  <2> QED
    BY <2>2
<1>3. Handed = next .. m - 1
  BY DEF Handed, a
<1> HIDE DEF m
<1>4. m \in Nat /\ m > next /\ m <= Iterations
  BY <1>1, <1>2
<1>5. Cardinality(next .. m - 1) = m - 1 - next + 1 /\ IsFiniteSet(next .. m - 1)
  <2> DEFINE k == m - 1
  <2>1. k \in Int /\ next \in Int /\ ~(next > k)
    BY <1>4
  <2> HIDE DEF k
  <2>2. IsFiniteSet(next .. k) /\ Cardinality(next .. k) = IF next > k THEN 0 ELSE k - next + 1
    BY <2>1, FS_Interval
  <2> QED
    BY <2>1, <2>2 DEF k
<1>6. Cardinality(Handed) = m - next /\ IsFiniteSet(Handed)
  BY <1>3, <1>4, <1>5
<1> QED
  BY <1>1, <1>2, <1>3, <1>4, <1>6 DEF a

\* The triangles of a chunk, each once.
LEMMA ChunkOnce ==
  ASSUME StoresRight, next \in Nat, next < Iterations
  PROVE  LET cubes == [i \in 1 .. Cardinality(Handed) |-> CubeOfIteration(next + i - 1)]
             emitted == FlattenSeq([i \in DOMAIN cubes |-> TrianglesOf(cubes[i])])
         IN  /\ emitted \in Seq(Triangles) /\ IsInjective(emitted)
             /\ ToSet(emitted) = TrianglesIn(triangles, {CubeOfIteration(i) : i \in Handed})
<1> DEFINE n == Cardinality(Handed)
           cubes == [i \in 1 .. n |-> CubeOfIteration(next + i - 1)]
           q == [i \in DOMAIN cubes |-> TrianglesOf(cubes[i])]
           E == {CubeOfIteration(i) : i \in Handed}
<1>1. /\ n \in Nat \ {0} /\ Handed = next .. next + n - 1
      /\ next + n \in Nat /\ next + n <= Iterations
  BY HandedAre
<1>2. Iterations \in Int
  BY GridPowers, GridAssumption, PowersPositive DEF Iterations
<1> HIDE DEF n
<1>3. DOMAIN cubes = 1 .. n /\ \A i \in 1 .. n : cubes[i] = CubeOfIteration(next + i - 1)
  OBVIOUS
<1>4. \A i \in 1 .. n : cubes[i] \in Cubes
  BY <1>1, IterationCube
<1>5. \A i, j \in 1 .. n : i # j => cubes[i] # cubes[j]
  <2> SUFFICES ASSUME NEW i \in 1 .. n, NEW j \in 1 .. n, cubes[i] = cubes[j] PROVE i = j
    OBVIOUS
  <2> DEFINE k == next + i - 1
             l == next + j - 1
  <2>1. k \in 0 .. Iterations - 1 /\ l \in 0 .. Iterations - 1 /\ (k = l => i = j)
    BY <1>1, <1>2
  <2>2. CubeOfIteration(k) = CubeOfIteration(l)
    BY <1>3
  <2> HIDE DEF k, l
  <2>3. k = l
    BY <2>1, <2>2, IterationsApart
  <2> QED
    BY <2>1, <2>3
<1>6. E = {cubes[i] : i \in 1 .. n}
  <2>1. ASSUME NEW i \in Handed PROVE \E j \in 1 .. n : cubes[j] = CubeOfIteration(i)
    <3> DEFINE j == i - next + 1
    <3>1. j \in 1 .. n /\ next + j - 1 = i
      BY <1>1
    <3> HIDE DEF j
    <3> QED
      BY <1>3, <3>1
  <2>2. ASSUME NEW j \in 1 .. n PROVE cubes[j] \in E
    <3>1. next + j - 1 \in Handed
      BY <1>1
    <3> QED
      BY <1>3, <3>1
  <2> HIDE DEF cubes
  <2> QED
    BY <2>1, <2>2
<1> HIDE DEF cubes, E
<1>7. \A i \in 1 .. n : /\ TrianglesOf(cubes[i]) \in Seq(Triangles)
                        /\ IsInjective(TrianglesOf(cubes[i]))
                        /\ ToSet(TrianglesOf(cubes[i])) = {cubes[i]} \X (1 .. triangles[cubes[i]])
  BY <1>4, TrianglesAre, TrianglesOnce DEF StoresRight
<1>8. q \in Seq(Seq(Triangles)) /\ Len(q) = n /\ \A i \in 1 .. n : q[i] = TrianglesOf(cubes[i])
  <2> DEFINE T == Seq(Triangles)
             p == [i \in 1 .. n |-> TrianglesOf(cubes[i])]
  <2>1. \A i \in 1 .. n : TrianglesOf(cubes[i]) \in T
    BY <1>7
  <2>2. q = p
    BY <1>3
  <2> HIDE DEF T, q
  <2>3. p \in Seq(T) /\ Len(p) = n /\ \A i \in 1 .. n : p[i] = TrianglesOf(cubes[i])
    BY <1>1, <2>1
  <2> HIDE DEF p
  <2> QED
    BY <2>2, <2>3 DEF T
<1> HIDE DEF q
<1>9. \A i \in 1 .. Len(q) : IsInjective(q[i])
  BY <1>7, <1>8
<1>10. \A i, j \in 1 .. Len(q) : i # j => ToSet(q[i]) \cap ToSet(q[j]) = {}
  <2> SUFFICES ASSUME NEW i \in 1 .. n, NEW j \in 1 .. n, i # j
               PROVE  ToSet(q[i]) \cap ToSet(q[j]) = {}
    BY <1>8
  <2>1. /\ ToSet(q[i]) = {cubes[i]} \X (1 .. triangles[cubes[i]])
        /\ ToSet(q[j]) = {cubes[j]} \X (1 .. triangles[cubes[j]])
    BY <1>7, <1>8
  <2>2. cubes[i] # cubes[j]
    BY <1>5
  <2> QED
    BY <2>1, <2>2
<1>11. /\ IsInjective(FlattenSeq(q))
       /\ ToSet(FlattenSeq(q)) = UNION {ToSet(q[i]) : i \in 1 .. Len(q)}
  BY <1>8, <1>9, <1>10, FlattenApart
<1>12. UNION {ToSet(q[i]) : i \in 1 .. Len(q)} = TrianglesIn(triangles, E)
  <2> DEFINE P(c) == {c} \X (1 .. triangles[c])
  <2>1. \A i \in 1 .. n : ToSet(q[i]) = P(cubes[i])
    BY <1>7, <1>8
  <2>2. TrianglesIn(triangles, E) = UNION {P(c) : c \in E}
    BY DEF TrianglesIn
  <2> HIDE DEF P
  <2> QED
    BY <1>6, <1>8, <2>1, <2>2
<1>13. FlattenSeq(q) \in Seq(Triangles)
  BY <1>8, FlattenedSeq
<1> QED
  BY <1>11, <1>12, <1>13 DEF q, cubes, n, E

\* A step of a thread of the loop builder.
LEMMA LoopKeepsDone ==
  ASSUME StoresRight, LoopSums, LoopDone, Apart(stores, TrianglesIn(triangles, LoopCubes)),
         NEW t \in Threads, LoopThread(t)
  PROVE  /\ LoopDone' /\ Apart(stores', TrianglesIn(triangles', LoopCubes'))
         /\ \E u \in Threads : at'[u] # "merged"
<1>1. next \in Nat /\ Iterations \in Int /\ Iterations' = Iterations
  BY GridPowers, GridAssumption, PowersPositive DEF LoopSums, Iterations
<1>2. CASE Allocate(t) /\ UNCHANGED loopVars
  <2>1. \A u \in Threads : at'[u] = IF u = t THEN "allocated" ELSE at[u]
    BY <1>2 DEF Allocate, StoresRight
  <2>2. next' = next /\ stores' = stores /\ triangles' = triangles
    BY <1>2 DEF Allocate, loopVars
  <2>3. LoopCubes' = LoopCubes
    BY <2>2 DEF LoopCubes
  <2> QED
    BY <2>1, <2>2, <2>3 DEF LoopDone, Over
<1>3. CASE Reduce(t)
  <2>1. \A u \in Threads : at'[u] = IF u = t THEN "finished" ELSE at[u]
    BY <1>3 DEF Reduce, GoTo, StoresRight
  <2>2. next' = next /\ stores' = stores /\ triangles' = triangles /\ next >= Iterations
    BY <1>3 DEF Reduce, loopVars
  <2>3. LoopCubes' = LoopCubes
    BY <2>2 DEF LoopCubes
  <2> QED
    BY <2>1, <2>2, <2>3 DEF LoopDone, Over
<1>4. CASE RunChunk(t)
  <2> DEFINE cubes == [i \in 1 .. Cardinality(Handed) |-> CubeOfIteration(next + i - 1)]
             e == FlattenSeq([i \in DOMAIN cubes |-> TrianglesOf(cubes[i])])
             E == {CubeOfIteration(i) : i \in Handed}
             W == TrianglesIn(triangles, LoopCubes)
  <2>1. /\ at[t] = "allocated" /\ next < Iterations /\ next' = next + ChunkSize
        /\ triangles' = triangles /\ at' = at
        /\ stores' = [stores EXCEPT ![t] = stores[t] \o e]
    BY <1>4 DEF RunChunk, Emit
  <2>2. e \in Seq(Triangles) /\ IsInjective(e) /\ ToSet(e) = TrianglesIn(triangles, E)
    BY <1>1, <2>1, ChunkOnce
  <2> HIDE DEF e, cubes
  <2>3. /\ Handed = next .. next + Cardinality(Handed) - 1 /\ Cardinality(Handed) \in Nat
        /\ next + Cardinality(Handed) <= Iterations /\ next + ChunkSize \in Nat
        /\ next + Cardinality(Handed) = next + ChunkSize
             \/ (next + Cardinality(Handed) = Iterations /\ Iterations <= next + ChunkSize)
    BY <1>1, <2>1, HandedAre
  <2>4. LoopCubes \cap E = {}
    <3> SUFFICES ASSUME NEW c \in LoopCubes, c \in E PROVE FALSE
      OBVIOUS
    <3>1. PICK i \in 0 .. Iterations - 1 : i < next /\ CubeOfIteration(i) = c
      BY DEF LoopCubes
    <3>2. PICK j \in Handed : CubeOfIteration(j) = c
      BY DEF E
    <3>3. j \in 0 .. Iterations - 1 /\ j >= next
      BY <1>1, <2>3, <3>2
    <3>4. i = j
      BY <3>1, <3>2, <3>3, IterationsApart
    <3> QED
      BY <1>1, <3>1, <3>3, <3>4
  <2>5. LoopCubes' = LoopCubes \cup E
    <3> DEFINE I == {j \in 0 .. Iterations - 1 : j < next}
               J == {j \in 0 .. Iterations - 1 : j < next + ChunkSize}
    <3>1. J = I \cup Handed
      <4> DEFINE n == Cardinality(Handed)
                 a == next + ChunkSize
      <4>1. /\ Handed = next .. next + n - 1 /\ n \in Nat /\ next + n <= Iterations /\ a \in Nat
            /\ next + n = a \/ (next + n = Iterations /\ Iterations <= a)
        BY <2>3
      <4>2. J = {j \in 0 .. Iterations - 1 : j < a}
        OBVIOUS
      <4> HIDE DEF n, a, J
      <4> QED
        BY <1>1, <4>1, <4>2
    <3>2. LoopCubes = {CubeOfIteration(i) : i \in I}
      BY DEF LoopCubes
    <3>3. LoopCubes' = {CubeOfIteration(i) : i \in J}
      BY <1>1, <2>1 DEF LoopCubes
    <3> HIDE DEF I, J
    <3> QED
      BY <3>1, <3>2, <3>3
  <2> HIDE DEF E
  <2>6. /\ TrianglesIn(triangles, LoopCubes) \cap TrianglesIn(triangles, E) = {}
        /\ TrianglesIn(triangles, LoopCubes \cup E) = W \cup TrianglesIn(triangles, E)
    BY <2>4, TrianglesElsewhere
  <2>7. ToSet(e) \cap W = {} /\ Apart(stores, W) /\ stores \in [Threads -> Seq(Triangles)]
    BY <2>2, <2>6 DEF StoresRight
  <2> HIDE DEF W
  <2>8. Apart([stores EXCEPT ![t] = stores[t] \o e], W \cup ToSet(e))
    BY <2>2, <2>7, EmitKeepsApart
  <2>9. TrianglesIn(triangles', LoopCubes') = W \cup ToSet(e)
    BY <2>1, <2>2, <2>5, <2>6
  <2>10. LoopDone'
    <3>1. \A u \in Threads : at[u] \notin Over
      BY <1>1, <2>1 DEF LoopDone
    <3> QED
      BY <2>1, <3>1 DEF LoopDone
  <2> QED
    BY <2>1, <2>8, <2>9, <2>10
<1> QED
  BY <1>2, <1>3, <1>4 DEF LoopThread

\* The merge returns the triangles of all cubes, each once.
LEMMA MergeKeepsDone ==
  ASSUME TInv, MeshSums, MeshDone, Merge
  PROVE  MeshDone'
<1>1. /\ program \in Builders /\ program' = program
      /\ \A t \in Threads : at[t] = "finished"
      /\ at' = [t \in Threads |-> "merged"] /\ data' = Merged
      /\ triangles' = triangles /\ stores' = stores /\ total' = total
      /\ empty' = empty /\ state' = state /\ next' = next
  BY DEF Merge, MergeData, treeVars, loopVars
<1>2. PICK t \in Threads : at[t] = "finished"
  BY <1>1, ThreadsAssumption
<1>3. StoresRight
  BY DEF MeshSums
<1>4. IsFiniteSet({}) /\ SumOver(sum, {}) = 0 /\ SumOver(partial, {}) = 0
  <2>1. IsFiniteSet({})
    BY FS_EmptySet
  <2>2. Summable(sum, {}) /\ Summable(partial, {})
    BY <2>1 DEF Summable
  <2> QED
    BY <2>1, <2>2, SumOverStep
<1>5. ASSUME NEW W, Apart(stores, W), W = Wanted, total = Emitted
      PROVE  MeshResult'
  <2>1. IsInjective(Merged) /\ ToSet(Merged) = W /\ Len(Merged) = Emitted
    BY <1>3, <1>5, MergedRight
  <2>2. Wanted' = Wanted
    BY <1>1 DEF Wanted, TrianglesOf
  <2> QED
    BY <1>1, <1>5, <2>1, <2>2 DEF MeshResult
<1>6. CASE program = "tree"
  <2>1. TreeDone /\ Apart(stores, TrianglesIn(triangles, TreeCubes)) /\ TreeSums
    BY <1>6 DEF MeshDone, MeshSums
  <2>2. state[Root] = "done" /\ \A b \in Tasks : state[b] \in {"absent", "done"}
    BY <1>2, <2>1 DEF TreeDone, Over
  <2>3. TrianglesIn(triangles, TreeCubes) = Wanted
    BY <1>3, <2>1, <2>2, TreeYieldsAll
  <2>4. Live = {}
    BY <2>2 DEF Live
  <2>5. total = Emitted
    BY <1>3, <1>4, <2>1, <2>4, TreeAccountedIs DEF TreeSums, StoresRight
  <2>6. MeshResult'
    BY <1>5, <2>1, <2>3, <2>5
  <2>7. TreeCubes' = TreeCubes /\ EmptyBlocks' = EmptyBlocks
    BY <1>1 DEF TreeCubes, EmptyBlocks
  <2>8. TreeDone'
    BY <1>1, <2>1, <2>2, <2>7 DEF TreeDone
  <2> QED
    BY <1>1, <1>6, <2>1, <2>6, <2>7, <2>8 DEF MeshDone, Jobs
<1>7. CASE program = "loop"
  <2>1. LoopDone /\ Apart(stores, TrianglesIn(triangles, LoopCubes)) /\ LoopSums
    BY <1>7 DEF MeshDone, MeshSums
  <2>2. next >= Iterations /\ next \in Nat
    BY <1>2, <2>1 DEF LoopDone, Over, LoopSums
  <2>3. TrianglesIn(triangles, LoopCubes) = Wanted
    BY <1>3, <2>2, LoopYieldsAll
  <2>4. InLoop = {}
    BY <1>1 DEF InLoop
  <2>5. total = Emitted
    BY <1>3, <1>4, <2>1, <2>4, LoopAccountedIs DEF LoopSums, StoresRight
  <2>6. MeshResult'
    BY <1>5, <2>1, <2>3, <2>5
  <2>7. LoopCubes' = LoopCubes
    BY <1>1 DEF LoopCubes, Iterations, CubeOfIteration
  <2>8. LoopDone'
    BY <1>1, <2>2 DEF LoopDone, Iterations
  <2> QED
    BY <1>1, <1>7, <2>1, <2>6, <2>7, <2>8 DEF MeshDone, Jobs
<1> QED
  BY <1>1, <1>6, <1>7 DEF Builders

\* The launcher starts a builder with empty stores and no cube built.
LEMMA MeshDoneStart ==
  Init => MeshDone
<1> SUFFICES ASSUME Init PROVE MeshDone
  OBVIOUS
<1>1. /\ at = [t \in Threads |-> "start"]
      /\ stores = [t \in Threads |-> << >>]
      /\ empty \in SUBSET EmptyBlocks /\ next = 0
      /\ state = [b \in Tasks |-> "absent"]
  BY DEF Init, StoresStart, TreeStart, LoopStart
<1>2. \A t \in Threads : at[t] = "start"
  BY <1>1
<1>3. \A b \in Tasks : state[b] = "absent"
  BY <1>1
<1>4. TreeDone
  <2>1. \A b \in Tasks \ empty : ~(state[b] = "done")
    BY <1>3
  <2> QED
    BY <1>1, <1>2, <2>1 DEF TreeDone, Over
<1>5. LoopDone
  BY <1>2 DEF LoopDone, Over
<1>6. TreeCubes = {} /\ LoopCubes = {}
  <2>1. TreeCubes = {}
    BY <1>3 DEF TreeCubes
  <2>2. \A j \in 0 .. Iterations - 1 : ~(j < 0)
    BY GridPowers, GridAssumption, PowersPositive DEF Iterations
  <2> QED
    BY <1>1, <2>1, <2>2 DEF LoopCubes
<1>7. Apart(stores, TrianglesIn(triangles, {}))
  <2>1. TrianglesIn(triangles, {}) = {}
    BY DEF TrianglesIn
  <2>2. IsInjective(<< >>) /\ ToSet(<< >>) = {}
    BY DEF IsInjective, ToSet
  <2>3. \A t \in Threads : stores[t] = << >>
    BY <1>1
  <2> QED
    BY <2>1, <2>2, <2>3 DEF Apart
<1>8. MeshResult
  BY <1>2, ThreadsAssumption DEF MeshResult
<1> QED
  BY <1>2, <1>4, <1>5, <1>6, <1>7, <1>8 DEF MeshDone

\* Every step keeps what is in the stores.
LEMMA MeshDoneKeeps ==
  ASSUME PInv, MeshSums, MeshDone, [Next]_vars
  PROVE  MeshDone'
<1>1. ASSUME UNCHANGED <<program, builderVars>>
      PROVE  MeshDone'
  <2>1. UNCHANGED <<program, triangles, at, stores, total, data, empty, state, next>>
    BY <1>1 DEF builderVars, meshVars, treeVars, loopVars
  <2>2. TreeDone => TreeDone'
    <3>1. EmptyBlocks' = EmptyBlocks
      BY <2>1 DEF EmptyBlocks
    <3> QED
      BY <2>1, <3>1 DEF TreeDone
  <2>3. LoopDone => LoopDone'
    BY <2>1 DEF LoopDone, Iterations
  <2>4. TreeCubes' = TreeCubes /\ LoopCubes' = LoopCubes
    BY <2>1 DEF TreeCubes, LoopCubes, Iterations, CubeOfIteration
  <2>5. MeshResult => MeshResult'
    BY <2>1 DEF MeshResult, Wanted, TrianglesOf
  <2> QED
    BY <2>1, <2>2, <2>3, <2>4, <2>5 DEF MeshDone
<1>2. CASE RootStep
  BY <1>1, <1>2 DEF RootStep, Split, KMeans
<1>3. ASSUME NEW r \in Others, NodeStep(r)
      PROVE  MeshDone'
  BY <1>1, <1>3 DEF NodeStep, Split, KMeans
<1>4. ASSUME NEW t \in Threads, Thread(t)
      PROVE  MeshDone'
  <2>1. CASE Tree(TreeThread(t))
    <3>1. program = "tree" /\ program' = program /\ TreeThread(t)
      BY <2>1 DEF Tree
    <3>2. /\ TreeDone' /\ Apart(stores', TrianglesIn(triangles', TreeCubes'))
          /\ \E u \in Threads : at'[u] # "merged"
      BY <3>1, TreeKeepsDone DEF PInv, MeshSums, MeshDone
    <3>3. MeshResult'
      BY <3>2 DEF MeshResult
    <3> QED
      BY <3>1, <3>2, <3>3 DEF MeshDone, Jobs
  <2>2. CASE Loop(LoopThread(t))
    <3>1. program = "loop" /\ program' = program /\ LoopThread(t)
      BY <2>2 DEF Loop
    <3>2. /\ LoopDone' /\ Apart(stores', TrianglesIn(triangles', LoopCubes'))
          /\ \E u \in Threads : at'[u] # "merged"
      BY <3>1, LoopKeepsDone DEF MeshSums, MeshDone
    <3>3. MeshResult'
      BY <3>2 DEF MeshResult
    <3> QED
      BY <3>1, <3>2, <3>3 DEF MeshDone, Jobs
  <2> QED
    BY <1>4, <2>1, <2>2 DEF Thread
<1>5. CASE Merge
  BY <1>5, MergeKeepsDone DEF PInv
<1>6. CASE UNCHANGED vars
  BY <1>1, <1>6 DEF vars
<1> QED
  BY <1>2, <1>3, <1>4, <1>5, <1>6 DEF Next

\* What marchCubes() of both builders returns, and mergeData() puts together, are
\* the triangles of every cube of the grid, each once: no leaf of the octree and no
\* iteration is lost or built twice, however the threads share the work.
THEOREM ParallelMeshResult ==
  Spec => []MeshResult
<1>1. MeshDone => MeshResult
  BY DEF MeshDone
<1> QED
  BY <1>1, MeshDoneStart, MeshDoneKeeps, MeshSumsStart, MeshSumsKeep, ParallelInvariant, PTL
     DEF Spec

-----------------------------------------------------------------------------
(* What parsplit keeps of a sequence. *)

\* What is kept of the first elements.
ChosenUpTo(s, S) ==
  CHOOSE g : g = [i \in 0 .. Len(s) |->
                    IF i = 0 THEN << >>
                    ELSE IF s[i] \in S THEN Append(g[i - 1], s[i]) ELSE g[i - 1]]

\* The last of them is the result.
LEMMA ChosenIs ==
  ASSUME NEW s, NEW S
  PROVE  Chosen(s, S) = ChosenUpTo(s, S)[Len(s)]
BY DEF Chosen, ChosenUpTo

\* They satisfy their equation.
LEMMA ChosenAre ==
  ASSUME NEW T, NEW s \in Seq(T), NEW S
  PROVE  /\ ChosenUpTo(s, S)[0] = << >>
         /\ \A i \in 1 .. Len(s) :
              ChosenUpTo(s, S)[i] = IF s[i] \in S THEN Append(ChosenUpTo(s, S)[i - 1], s[i])
                                                  ELSE ChosenUpTo(s, S)[i - 1]
         /\ \A i \in 0 .. Len(s) : ChosenUpTo(s, S)[i] \in Seq(T \cap S)
<1> DEFINE D == 0 .. Len(s)
           U == Seq(T)
           m == [i \in D |-> i]
           B == [p \in [D -> U] \X D |->
                   IF p[2] = 0 THEN << >>
                   ELSE IF s[p[2]] \in S THEN Append(p[1][p[2] - 1], s[p[2]]) ELSE p[1][p[2] - 1]]
<1>1. Len(s) \in Nat /\ \A i \in D : i \in Nat /\ (i # 0 => s[i] \in T)
  OBVIOUS
<1>2. \A i \in D : i # 0 => i - 1 \in D
  BY <1>1
<1>3. m \in [D -> Nat] /\ \A i \in D : i # 0 => m[i - 1] < m[i]
  BY <1>1, <1>2
<1> HIDE DEF m, D
<1>4. Descending(B, D, U, m)
  <2>1. B \in [[D -> U] \X D -> U]
    <3>1. ASSUME NEW g \in [D -> U], NEW i \in D
          PROVE  (IF i = 0 THEN << >>
                  ELSE IF s[i] \in S THEN Append(g[i - 1], s[i]) ELSE g[i - 1]) \in U
      <4>1. CASE i = 0
        BY <4>1
      <4>2. CASE i # 0
        <5>1. g[i - 1] \in U /\ s[i] \in T
          BY <1>1, <1>2, <4>2
        <5>2. Append(g[i - 1], s[i]) \in U
          BY <5>1
        <5> QED
          BY <4>2, <5>1, <5>2
      <4> QED
        BY <4>1, <4>2
    <3> HIDE DEF U
    <3> QED
      BY <3>1
  <2>2. ASSUME NEW g \in [D -> U], NEW h \in [D -> U], NEW i \in D,
               \A j \in D : m[j] < m[i] => g[j] = h[j]
        PROVE  B[<<g, i>>] = B[<<h, i>>]
    <3>1. i # 0 => g[i - 1] = h[i - 1]
      BY <1>2, <1>3, <2>2
    <3>2. \A f \in [D -> U] :
            B[<<f, i>>] = IF i = 0 THEN << >>
                          ELSE IF s[i] \in S THEN Append(f[i - 1], s[i]) ELSE f[i - 1]
      OBVIOUS
    <3> HIDE DEF B
    <3> QED
      BY <3>1, <3>2
  <2>3. U # {}
    <3>1. << >> \in U
      OBVIOUS
    <3> QED
      BY <3>1
  <2> HIDE DEF B, U
  <2> QED
    BY <1>3, <2>1, <2>2, <2>3 DEF Descending
<1>5. PICK g \in Defines(B, D, U) : TRUE
  <2> HIDE DEF B, U
  <2> QED
    BY <1>4, Recursion
<1>6. g = [i \in D |-> IF i = 0 THEN << >>
                       ELSE IF s[i] \in S THEN Append(g[i - 1], s[i]) ELSE g[i - 1]]
  <2>1. g \in [D -> U] /\ \A i \in D : g[i] = B[<<g, i>>]
    BY <1>5 DEF Defines
  <2>2. \A i \in D : B[<<g, i>>] = IF i = 0 THEN << >>
                                   ELSE IF s[i] \in S THEN Append(g[i - 1], s[i]) ELSE g[i - 1]
    BY <2>1
  <2> HIDE DEF B
  <2> QED
    BY <2>1, <2>2
<1> DEFINE P == ChosenUpTo(s, S)
<1>7. P = [i \in 0 .. Len(s) |-> IF i = 0 THEN << >>
                                 ELSE IF s[i] \in S THEN Append(P[i - 1], s[i]) ELSE P[i - 1]]
  BY <1>6 DEF ChosenUpTo, D
<1> HIDE DEF P
<1>8. \A i \in D : P[i] = IF i = 0 THEN << >>
                          ELSE IF s[i] \in S THEN Append(P[i - 1], s[i]) ELSE P[i - 1]
  BY <1>7 DEF D
<1>9. \A i \in D : P[i] \in Seq(T \cap S)
  <2> DEFINE G == {i \in D : P[i] \in Seq(T \cap S)}
  <2>1. ASSUME NEW i \in D, \A j \in D : m[j] < m[i] => j \in G PROVE i \in G
    <3>1. CASE i = 0
      <4>1. << >> \in Seq(T \cap S)
        OBVIOUS
      <4>2. P[i] = << >>
        BY <1>8, <3>1
      <4> QED
        BY <4>1, <4>2
    <3>2. CASE i # 0
      <4>1. P[i - 1] \in Seq(T \cap S)
        BY <1>2, <1>3, <2>1, <3>2
      <4>2. s[i] \in S => Append(P[i - 1], s[i]) \in Seq(T \cap S)
        <5> DEFINE R == T \cap S
                   q == P[i - 1]
        <5>1. q \in Seq(R) /\ (s[i] \in S => s[i] \in R)
          BY <1>1, <3>2, <4>1
        <5> HIDE DEF R, q
        <5>2. s[i] \in S => Append(q, s[i]) \in Seq(R)
          BY <5>1
        <5> QED
          BY <5>2 DEF R, q
      <4>3. P[i] = IF s[i] \in S THEN Append(P[i - 1], s[i]) ELSE P[i - 1]
        BY <1>8, <3>2
      <4>4. P[i] \in Seq(T \cap S)
        BY <4>1, <4>2, <4>3
      <4> QED
        BY <4>4
    <3> QED
      BY <3>1, <3>2
  <2> HIDE DEF G
  <2>2. D \subseteq G
    BY <1>3, <2>1, MeasureInduction
  <2> QED
    BY <2>2 DEF G
<1>10. 0 \in D /\ \A i \in 1 .. Len(s) : i \in D /\ i # 0
  BY <1>1 DEF D
<1> QED
  BY <1>8, <1>9, <1>10 DEF P, D

\* What is kept is in S.
LEMMA ChosenType ==
  ASSUME NEW T, NEW s \in Seq(T), NEW S
  PROVE  Chosen(s, S) \in Seq(T \cap S)
<1>1. Len(s) \in 0 .. Len(s)
  OBVIOUS
<1> QED
  BY <1>1, ChosenAre, ChosenIs

\* What is kept of the first i + j elements is what is kept of the first i, and
\* after it what is kept of the next j.
LEMMA ChosenLonger ==
  ASSUME NEW T, NEW s \in Seq(T), NEW S, NEW a \in Nat, NEW k \in Nat, a + k <= Len(s)
  PROVE  ChosenUpTo(s, S)[a + k] = ChosenUpTo(s, S)[a] \o Chosen(SubSeq(s, a + 1, a + k), S)
<1> DEFINE P == ChosenUpTo(s, S)
           t == SubSeq(s, a + 1, a + k)
           Q == ChosenUpTo(t, S)
           n == Len(s)
<1>1. n \in Nat /\ a + k <= n /\ \A i \in 1 .. n : s[i] \in T
  OBVIOUS
<1>2. t \in Seq(T) /\ Len(t) = k /\ \A i \in 1 .. k : t[i] = s[a + i]
  <2> DEFINE b == a + k
  <2>0. b \in Int /\ a + 1 \in Int /\ \A i \in a + 1 .. b : s[i] \in T
    BY <1>1
  <2>1. /\ SubSeq(s, a + 1, b) \in Seq(T)
        /\ Len(SubSeq(s, a + 1, b)) = IF a + 1 <= b THEN b - (a + 1) + 1 ELSE 0
        /\ \A i \in 1 .. b - (a + 1) + 1 : SubSeq(s, a + 1, b)[i] = s[a + 1 + i - 1]
    BY <2>0, SubSeqProperties
  <2> HIDE DEF t
  <2>2. t = SubSeq(s, a + 1, b)
    BY DEF t
  <2>3. b - (a + 1) + 1 = k /\ \A i \in 1 .. k : a + 1 + i - 1 = a + i
    OBVIOUS
  <2>4. Len(t) = k
    BY <2>1, <2>2, <2>3
  <2> QED
    BY <2>1, <2>2, <2>3, <2>4
<1> HIDE DEF t, n
<1>3. /\ \A i \in 1 .. n : P[i] = IF s[i] \in S THEN Append(P[i - 1], s[i]) ELSE P[i - 1]
      /\ \A i \in 0 .. n : P[i] \in Seq(T \cap S)
  BY ChosenAre, ZenonT(30) DEF n
<1>4. /\ Q[0] = << >>
      /\ \A i \in 1 .. k : Q[i] = IF t[i] \in S THEN Append(Q[i - 1], t[i]) ELSE Q[i - 1]
      /\ \A i \in 0 .. k : Q[i] \in Seq(T \cap S)
  <2>1. t \in Seq(T) /\ Len(t) = k
    BY <1>2
  <2>2. /\ ChosenUpTo(t, S)[0] = << >>
        /\ \A i \in 1 .. Len(t) :
              ChosenUpTo(t, S)[i] = IF t[i] \in S THEN Append(ChosenUpTo(t, S)[i - 1], t[i])
                                                  ELSE ChosenUpTo(t, S)[i - 1]
        /\ \A i \in 0 .. Len(t) : ChosenUpTo(t, S)[i] \in Seq(T \cap S)
    BY <2>1, ChosenAre
  <2> HIDE DEF Q
  <2>3. Q = ChosenUpTo(t, S)
    BY DEF Q
  <2> QED
    BY <2>1, <2>2, <2>3
<1> HIDE DEF P, Q
<1> DEFINE R == T \cap S
           Right(i) == P[a + i] = P[a] \o Q[i]
           G == {i \in Nat : i <= k => Right(i)}
<1> HIDE DEF Right
<1>5. 0 \in G
  <2>1. P[a] \in Seq(R)
    BY <1>1, <1>3
  <2> HIDE DEF R
  <2>2. P[a] \o << >> = P[a] /\ a + 0 = a
    BY <2>1
  <2>3. Right(0)
    BY <1>4, <2>2 DEF Right
  <2> QED
    BY <2>3
<1>6. ASSUME NEW i \in Nat, i \in G PROVE i + 1 \in G
  <2> SUFFICES ASSUME i + 1 <= k PROVE Right(i + 1)
    OBVIOUS
  <2>1. /\ a + (i + 1) \in 1 .. n /\ (a + (i + 1)) - 1 = a + i /\ a + i \in 0 .. n /\ a \in 0 .. n
        /\ i + 1 \in 1 .. k /\ (i + 1) - 1 = i /\ i \in 0 .. k
    BY <1>1
  <2> DEFINE x == s[a + (i + 1)]
             p == P[a]
             q == Q[i]
  <2>2. t[i + 1] = x /\ x \in T
    BY <1>1, <1>2, <2>1
  <2>3. P[a + (i + 1)] = IF x \in S THEN Append(P[a + i], x) ELSE P[a + i]
    BY <1>3, <2>1
  <2>4. Q[i + 1] = IF x \in S THEN Append(q, x) ELSE q
    BY <1>4, <2>1, <2>2
  <2>5. P[a + i] = p \o q
    <3>1. Right(i)
      BY <1>6, <2>1
    <3> QED
      BY <3>1 DEF Right
  <2>6. p \in Seq(T) /\ q \in Seq(T)
    <3>1. p \in Seq(R) /\ q \in Seq(R) /\ R \subseteq T
      BY <1>3, <1>4, <2>1
    <3> HIDE DEF p, q, R
    <3>2. Seq(R) \subseteq Seq(T)
      BY <3>1, SeqMonotonic
    <3> QED
      BY <3>1, <3>2
  <2> HIDE DEF x, p, q
  <2>7. Append(p \o q, x) = p \o Append(q, x)
    <3> DEFINE l == Append(p \o q, x)
               r == p \o Append(q, x)
    <3>1. /\ l \in Seq(T) /\ Len(l) = Len(p) + Len(q) + 1
          /\ \A j \in 1 .. Len(p) + Len(q) + 1 :
               l[j] = IF j = Len(p) + Len(q) + 1 THEN x
                      ELSE IF j <= Len(p) THEN p[j] ELSE q[j - Len(p)]
      BY <2>2, <2>6
    <3>2. /\ r \in Seq(T) /\ Len(r) = Len(p) + Len(q) + 1
          /\ \A j \in 1 .. Len(p) + Len(q) + 1 :
               r[j] = IF j = Len(p) + Len(q) + 1 THEN x
                      ELSE IF j <= Len(p) THEN p[j] ELSE q[j - Len(p)]
      BY <2>2, <2>6
    <3> HIDE DEF l, r
    <3>3. \A j \in 1 .. Len(l) : l[j] = r[j]
      BY <3>1, <3>2
    <3>4. l = r
      BY <3>1, <3>2, <3>3, SeqEqual
    <3> QED
      BY <3>4 DEF l, r
  <2> QED
    BY <2>3, <2>4, <2>5, <2>7 DEF p, Right
<1> HIDE DEF G
<1>7. Nat \subseteq G
  BY <1>5, <1>6, NatSetInduction
<1>8. P[a + k] = P[a] \o Q[k]
  <2>1. Right(k)
    BY <1>7 DEF G
  <2> QED
    BY <2>1 DEF Right
<1>9. Chosen(t, S) = Q[k]
  BY <1>2, ChosenIs DEF Q
<1> QED
  BY <1>8, <1>9 DEF P, t

-----------------------------------------------------------------------------
(* The parts of the file. *)

\* A root's file is cut into as many equal parts as there are ranks.
LEMMA PartsAre ==
  ASSUME NEW k \in Nat
  PROVE  \A r \in 0 .. N : /\ r * k \in Nat /\ r * k <= N * k
                           /\ r < N => (r + 1) * k = r * k + k /\ r * k + k <= N * k
<1> SUFFICES ASSUME NEW r \in 0 .. N
             PROVE  /\ r * k \in Nat /\ r * k <= N * k
                    /\ r < N => (r + 1) * k = r * k + k /\ r * k + k <= N * k
  OBVIOUS
<1>1. N \in Nat /\ N - r \in Nat /\ r \in Nat
  BY SizeAssumption
<1>2. \A x, y \in Nat : x * y \in Nat
  OBVIOUS
<1>3. \A x, y \in Int : (x + y) * k = x * k + y * k
  OBVIOUS
<1>4. N * k = r * k + (N - r) * k
  <2>1. (r + (N - r)) * k = r * k + (N - r) * k
    BY <1>1, <1>3
  <2>2. r + (N - r) = N
    BY <1>1
  <2> QED
    BY <2>1, <2>2
<1>5. r * k \in Nat /\ (N - r) * k \in Nat
  BY <1>1, <1>2
<1>6. ASSUME r < N
      PROVE  (r + 1) * k = r * k + k /\ r * k + k <= N * k
  <2>1. N - r - 1 \in Nat
    BY <1>1, <1>6
  <2>2. (N - r - 1) * k \in Nat
    BY <1>2, <2>1
  <2>3. (N - r) * k = (N - r - 1) * k + 1 * k
    <3>1. ((N - r - 1) + 1) * k = (N - r - 1) * k + 1 * k
      BY <1>3, <2>1
    <3>2. (N - r - 1) + 1 = N - r
      BY <1>1
    <3> QED
      BY <3>1, <3>2
  <2>4. (r + 1) * k = r * k + 1 * k
    BY <1>1, <1>3
  <2>5. 1 * k = k
    OBVIOUS
  <2> DEFINE a == r * k
             b == (N - r) * k
             e == (N - r - 1) * k
             f == N * k
             g == (r + 1) * k
             h == 1 * k
  <2>6. f = a + b /\ b = e + h /\ g = a + h /\ h = k /\ a \in Nat /\ e \in Nat
    BY <1>4, <1>5, <2>2, <2>3, <2>4, <2>5
  <2> HIDE DEF a, b, e, f, g, h
  <2>7. g = a + k /\ a + k <= f
    BY <2>6
  <2> QED
    BY <2>7 DEF a, f, g
<1> DEFINE a == r * k
           b == (N - r) * k
           f == N * k
<1>7. f = a + b /\ a \in Nat /\ b \in Nat
  BY <1>4, <1>5
<1> HIDE DEF a, b, f
<1>8. a <= f
  BY <1>7
<1> QED
  BY <1>5, <1>6, <1>8 DEF a, f

\* What is kept of the part of rank r.
Kept(r, k, S) == Chosen(Part(r, k), S)

\* Where the elements of a rank begin, if c says how many each rank has.
Before(c, r) == SumOver(c, 0 .. r - 1)

\* What is kept of the file is what each rank keeps of its part, one after the
\* other.
LEMMA KeptInParts ==
  ASSUME NEW T, file \in Seq(T), NEW k \in Nat, Len(file) = N * k, NEW S, NEW c,
         \A r \in Ranks : c[r] = Len(Kept(r, k, S))
  PROVE  /\ Chosen(file, S) \in Seq(T \cap S) /\ Len(Chosen(file, S)) = Before(c, N)
         /\ \A q \in Ranks : \A j \in 1 .. c[q] :
              Chosen(file, S)[Before(c, q) + j] = Kept(q, k, S)[j]
         /\ \A i \in 1 .. Before(c, N) : \E q \in Ranks :
              Before(c, q) < i /\ i <= Before(c, q) + c[q]
         /\ \A q \in Ranks : Before(c, q) \in Int /\ c[q] \in Nat
<1> DEFINE P == ChosenUpTo(file, S)
           U == T \cap S
           d(r) == Before(c, r)
           x(r) == Kept(r, k, S)
           Right(r) == /\ Len(P[r * k]) = d(r)
                       /\ \A q \in 0 .. r - 1 :
                            /\ d(q) \in Nat /\ d(q) + c[q] <= d(r)
                            /\ \A j \in 1 .. c[q] : P[r * k][d(q) + j] = x(q)[j]
                       /\ \A i \in 1 .. d(r) : \E q \in 0 .. r - 1 :
                            d(q) < i /\ i <= d(q) + c[q]
<1>1. N \in Nat /\ Ranks = 0 .. N - 1
  BY SizeAssumption DEF Ranks
<1>2. P[0] = << >> /\ \A i \in 0 .. Len(file) : P[i] \in Seq(U)
  <2>1. /\ ChosenUpTo(file, S)[0] = << >>
        /\ \A i \in 0 .. Len(file) : ChosenUpTo(file, S)[i] \in Seq(T \cap S)
    BY ChosenAre
  <2> HIDE DEF P, U
  <2>2. P = ChosenUpTo(file, S) /\ U = T \cap S
    BY DEF P, U
  <2> QED
    BY <2>1, <2>2
<1>3. \A r \in Ranks : /\ x(r) \in Seq(U) /\ c[r] = Len(x(r)) /\ c[r] \in Nat
                       /\ P[(r + 1) * k] = P[r * k] \o x(r)
                       /\ P[r * k] \in Seq(U)
  <2> SUFFICES ASSUME NEW r \in Ranks
               PROVE  /\ x(r) \in Seq(U) /\ c[r] = Len(x(r)) /\ c[r] \in Nat
                      /\ P[(r + 1) * k] = P[r * k] \o x(r)
                      /\ P[r * k] \in Seq(U)
    OBVIOUS
  <2> DEFINE a == r * k
  <2>1. a \in Nat /\ (r + 1) * k = a + k /\ a + k <= Len(file)
    <3>1. r \in 0 .. N /\ r < N
      BY <1>1
    <3> QED
      BY <3>1, PartsAre
  <2>2. Part(r, k) = SubSeq(file, a + 1, a + k)
    BY <2>1 DEF Part
  <2> HIDE DEF a
  <2>3. SubSeq(file, a + 1, a + k) \in Seq(T)
    <3> DEFINE b == a + k
    <3>1. b \in Int /\ a + 1 \in Int /\ \A i \in a + 1 .. b : file[i] \in T
      BY <2>1
    <3> HIDE DEF b
    <3>2. SubSeq(file, a + 1, b) \in Seq(T)
      BY <3>1, SubSeqProperties
    <3> QED
      BY <3>2 DEF b
  <2>4. x(r) \in Seq(U)
    BY <2>2, <2>3, ChosenType DEF Kept
  <2>5. ChosenUpTo(file, S)[a + k]
          = ChosenUpTo(file, S)[a] \o Chosen(SubSeq(file, a + 1, a + k), S)
    BY <2>1, ChosenLonger
  <2>6. P[(r + 1) * k] = P[a] \o x(r)
    BY <2>1, <2>2, <2>5 DEF Kept
  <2>7. P[a] \in Seq(U)
    BY <1>2, <2>1
  <2>8. c[r] = Len(x(r))
    OBVIOUS
  <2> HIDE DEF x, U, P
  <2>9. c[r] \in Nat
    BY <2>4, <2>8
  <2> QED
    BY <2>4, <2>6, <2>7, <2>8, <2>9 DEF a
<1>4. d(0) = 0 /\ \A r \in Ranks : d(r) \in Int => d(r + 1) = d(r) + c[r]
  <2>1. \A r \in 0 .. N : Summable(c, 0 .. r - 1)
    <3>1. \A r \in 0 .. N : IsFiniteSet(0 .. r - 1) /\ \A q \in 0 .. r - 1 : q \in Ranks
      <4>1. \A r \in 0 .. N : 0 \in Int /\ r - 1 \in Int /\ \A q \in 0 .. r - 1 : q \in Ranks
        BY <1>1
      <4>2. \A b \in Int : IsFiniteSet(0 .. b)
        BY FS_Interval
      <4> QED
        BY <4>1, <4>2
    <3>2. \A r \in Ranks : c[r] \in Int
      BY <1>3
    <3> QED
      BY <3>1, <3>2 DEF Summable
  <2>2. d(0) = 0
    <3>1. 0 .. 0 - 1 = {} /\ 0 \in 0 .. N
      BY <1>1
    <3>2. Summable(c, {})
      BY <2>1, <3>1
    <3> QED
      BY <3>1, <3>2, SumOverStep DEF Before
  <2>3. ASSUME NEW r \in Ranks PROVE d(r + 1) = c[r] + d(r)
    <3> DEFINE s == 0 .. r - 1
    <3>1. 0 .. (r + 1) - 1 = s \cup {r} /\ r \notin s /\ r \in 0 .. N
      BY <1>1
    <3>2. Summable(c, s) /\ c[r] \in Int
      BY <1>3, <2>1, <3>1
    <3>3. d(r + 1) = SumOver(c, s \cup {r}) /\ d(r) = SumOver(c, s)
      BY <3>1 DEF Before
    <3> HIDE DEF s, d
    <3>4. SumOver(c, s \cup {r}) = c[r] + SumOver(c, s)
      BY <3>1, <3>2, SumOverAdds
    <3> QED
      BY <3>3, <3>4
  <2>4. \A r \in Ranks : c[r] \in Int
    BY <1>3
  <2> HIDE DEF d
  <2>5. \A r \in Ranks : d(r) \in Int => d(r + 1) = d(r) + c[r]
    BY <2>3, <2>4
  <2> QED
    BY <2>2, <2>5
<1> HIDE DEF x, U, P, d
<1>5. Right(0)
  <2>1. 0 * k = 0 /\ Len(<< >>) = 0
    OBVIOUS
  <2> QED
    BY <1>2, <1>4, <2>1
<1>6. ASSUME NEW r \in Ranks, Right(r) PROVE Right(r + 1)
  <2> DEFINE p == P[r * k]
             y == x(r)
             z == P[(r + 1) * k]
  <2>1. p \in Seq(U) /\ y \in Seq(U) /\ z = p \o y /\ Len(y) = c[r] /\ c[r] \in Nat
    BY <1>3
  <2>2. Len(p) = d(r)
    BY <1>6
  <2>3. d(r) \in Nat /\ d(r + 1) = d(r) + c[r]
    <3>1. Len(p) \in Nat
      BY <2>1
    <3> QED
      BY <1>4, <2>2, <3>1
  <2>4. /\ \A q \in 0 .. r - 1 : /\ d(q) \in Nat /\ d(q) + c[q] <= d(r)
                                 /\ \A j \in 1 .. c[q] : p[d(q) + j] = x(q)[j]
        /\ \A i \in 1 .. d(r) : \E q \in 0 .. r - 1 : d(q) < i /\ i <= d(q) + c[q]
    BY <1>6
  <2>5. \A q \in 0 .. (r + 1) - 1 : (q \in 0 .. r - 1 /\ q \in Ranks) \/ q = r
    BY <1>1
  <2>6. \A q \in 0 .. r - 1 : q \in 0 .. (r + 1) - 1
    BY <1>1
  <2>7. r \in 0 .. (r + 1) - 1
    BY <1>1
  <2> HIDE DEF p, y, z
  <2>8. /\ Len(z) = d(r + 1)
        /\ \A i \in 1 .. d(r + 1) : z[i] = IF i <= d(r) THEN p[i] ELSE y[i - d(r)]
    <3>1. /\ Len(p \o y) = Len(p) + Len(y)
          /\ \A i \in 1 .. Len(p) + Len(y) :
               (p \o y)[i] = IF i <= Len(p) THEN p[i] ELSE y[i - Len(p)]
      BY <2>1
    <3> QED
      BY <2>1, <2>2, <2>3, <3>1
  <2>9. ASSUME NEW q \in 0 .. (r + 1) - 1
        PROVE  /\ d(q) \in Nat /\ d(q) + c[q] <= d(r + 1)
               /\ \A j \in 1 .. c[q] : z[d(q) + j] = x(q)[j]
    <3>1. CASE q \in 0 .. r - 1 /\ q \in Ranks
      <4>1. d(q) \in Nat /\ d(q) + c[q] <= d(r) /\ c[q] \in Nat
        BY <1>3, <2>4, <3>1
      <4>2. d(q) + c[q] <= d(r + 1)
        BY <2>1, <2>3, <4>1
      <4>3. ASSUME NEW j \in 1 .. c[q] PROVE z[d(q) + j] = x(q)[j]
        <5> DEFINE e == d(q)
                   f == c[q]
                   g == d(r)
                   h == c[r]
        <5>0. e \in Nat /\ f \in Nat /\ g \in Nat /\ h \in Nat /\ e + f <= g
          BY <2>1, <2>3, <4>1
        <5> HIDE DEF e, f, g, h
        <5>1. e + j \in 1 .. g + h /\ e + j <= g
          <6> SUFFICES ASSUME NEW i \in 1 .. f PROVE e + i \in 1 .. g + h /\ e + i <= g
            BY DEF f
          <6> QED
            BY <5>0
        <5>2. d(q) + j \in 1 .. d(r + 1) /\ d(q) + j <= d(r)
          BY <2>3, <5>1 DEF e, g, h
        <5> QED
          BY <2>4, <2>8, <3>1, <5>2
      <4> QED
        BY <4>1, <4>2, <4>3
    <3>2. CASE q = r
      <4>1. d(r) + c[r] <= d(r + 1)
        BY <2>1, <2>3
      <4>2. ASSUME NEW j \in 1 .. c[r] PROVE z[d(r) + j] = y[j]
        <5>1. d(r) + j \in 1 .. d(r + 1) /\ ~(d(r) + j <= d(r)) /\ (d(r) + j) - d(r) = j
          BY <2>1, <2>3
        <5> QED
          BY <2>8, <5>1
      <4> QED
        BY <2>3, <3>2, <4>1, <4>2 DEF y
    <3> QED
      BY <2>5, <3>1, <3>2
  <2>10. ASSUME NEW i \in 1 .. d(r + 1)
         PROVE  \E q \in 0 .. (r + 1) - 1 : d(q) < i /\ i <= d(q) + c[q]
    <3>1. CASE i <= d(r)
      <4>1. i \in 1 .. d(r)
        BY <2>3, <3>1
      <4> QED
        BY <2>4, <2>6, <4>1
    <3>2. CASE ~(i <= d(r))
      <4>1. d(r) < i /\ i <= d(r) + c[r]
        BY <2>1, <2>3, <3>2
      <4> QED
        BY <2>7, <4>1
    <3> QED
      BY <3>1, <3>2
  <2> QED
    BY <2>8, <2>9, <2>10 DEF z
<1> HIDE DEF Right
<1>7. Right(N)
  <2> DEFINE G == {r \in Nat : r <= N => Right(r)}
  <2>1. 0 \in G
    BY <1>5
  <2>2. ASSUME NEW r \in Nat, r \in G PROVE r + 1 \in G
    <3>1. r + 1 <= N => r \in Ranks /\ r <= N
      BY <1>1
    <3> QED
      BY <1>6, <2>2, <3>1
  <2> HIDE DEF G
  <2>3. Nat \subseteq G
    BY <2>1, <2>2, NatSetInduction
  <2> QED
    BY <1>1, <2>3 DEF G
<1>8. Chosen(file, S) = P[N * k]
  BY ChosenIs DEF P
<1>9. Chosen(file, S) \in Seq(T \cap S)
  BY ChosenType
<1>10. /\ Len(P[N * k]) = d(N)
       /\ \A q \in 0 .. N - 1 : /\ d(q) \in Nat
                                /\ \A j \in 1 .. c[q] : P[N * k][d(q) + j] = x(q)[j]
       /\ \A i \in 1 .. d(N) : \E q \in 0 .. N - 1 : d(q) < i /\ i <= d(q) + c[q]
  BY <1>7 DEF Right
<1> QED
  BY <1>1, <1>3, <1>8, <1>9, <1>10 DEF d, x

\* Of every rank, what it keeps of its part.
KeptBy(received, k, S) == \A r \in Ranks : received[r] = Kept(r, k, S)

\* What the root prints is what it would have kept of the whole file.
LEMMA PlacedIs ==
  ASSUME NEW T, file \in Seq(T), NEW k \in Nat, Len(file) = N * k, NEW S, NEW offset,
         \A r \in Ranks : lengths[r][offset] = Len(Kept(r, k, S))
  PROVE  /\ Len(Chosen(file, S)) = Total(offset) /\ Chosen(file, S) \in Seq(T \cap S)
         /\ \A received : KeptBy(received, k, S) => Placed(received, offset) = Chosen(file, S)
<1> DEFINE c == Counts(offset)
           F == Chosen(file, S)
           U == T \cap S
<1>1. \A r \in Ranks : c[r] = Len(Kept(r, k, S))
  BY DEF Counts
<1>2. \A r : Displacement(r, offset) = Before(c, r)
  BY DEF Displacement, Before, SumOver
<1> HIDE DEF c
<1>3. /\ F \in Seq(U) /\ Len(F) = Before(c, N)
      /\ \A q \in Ranks : \A j \in 1 .. c[q] : F[Before(c, q) + j] = Kept(q, k, S)[j]
      /\ \A i \in 1 .. Before(c, N) : \E q \in Ranks : Before(c, q) < i /\ i <= Before(c, q) + c[q]
      /\ \A q \in Ranks : Before(c, q) \in Int /\ c[q] \in Nat
  BY <1>1, KeptInParts
<1>4. Total(offset) = Before(c, N)
  BY <1>2 DEF Total
<1> HIDE DEF F, U
<1>5. ASSUME NEW received, KeptBy(received, k, S)
      PROVE  Placed(received, offset) = F
  <2>1. \A r \in Ranks : received[r] = Kept(r, k, S)
    BY <1>5 DEF KeptBy
  <2> DEFINE Mine(i, q) == /\ Displacement(q, offset) < i
                           /\ i <= Displacement(q, offset) + Counts(offset)[q]
             r(i) == CHOOSE q \in Ranks : Mine(i, q)
             n == Total(offset)
  <2>2. \A i, q : Mine(i, q) <=> Before(c, q) < i /\ i <= Before(c, q) + c[q]
    BY <1>2 DEF c
  <2>3. Placed(received, offset) = [i \in 1 .. n |-> received[r(i)][i - Before(c, r(i))]]
    <3>1. Placed(received, offset)
            = [i \in 1 .. n |-> received[r(i)][i - Displacement(r(i), offset)]]
      BY DEF Placed
    <3> HIDE DEF r
    <3> QED
      BY <1>2, <3>1
  <2>4. ASSUME NEW i \in 1 .. n
        PROVE  received[r(i)][i - Before(c, r(i))] = F[i]
    <3> DEFINE q == r(i)
               b == Before(c, q)
    <3>1. \E p \in Ranks : Mine(i, p)
      BY <1>3, <1>4, <2>2
    <3> HIDE DEF Mine
    <3>2. q \in Ranks /\ Mine(i, q)
      BY <3>1
    <3> HIDE DEF q
    <3>3. b \in Int /\ c[q] \in Nat /\ b < i /\ i <= b + c[q]
      BY <1>3, <2>2, <3>2
    <3>4. \A j \in 1 .. c[q] : F[b + j] = received[q][j]
      BY <1>3, <2>1, <3>2
    <3> HIDE DEF b
    <3>5. i - b \in 1 .. c[q] /\ b + (i - b) = i
      BY <3>3
    <3>6. F[i] = received[q][i - b]
      BY <3>4, <3>5
    <3> QED
      BY <3>6 DEF q, b
  <2>5. F = [i \in 1 .. n |-> F[i]]
    <3> HIDE DEF n
    <3>1. Len(F) = n
      BY <1>3, <1>4 DEF n
    <3> QED
      BY <1>3, <3>1
  <2> HIDE DEF r, n
  <2> QED
    BY <2>3, <2>4, <2>5
<1> QED
  BY <1>3, <1>4, <1>5 DEF F, U

-----------------------------------------------------------------------------
(* What parsplit's ranks know, and what is under way between them. *)

\* The element in the middle of the file, and how many elements a rank is sent.
Median == file[MedianIndex(Len(file))]

Share == Len(file) \div N

\* The lists of a single process.
Lists ==
  <<Chosen(file, Below(Median)), Chosen(file, {Median}), Chosen(file, Above(Median))>>

\* What rank r finds in its part.
KeptLengths(r) ==
  <<Len(Kept(r, Share, Below(Median))), Len(Kept(r, Share, {Median})),
    Len(Kept(r, Share, Above(Median)))>>

\* What the root sends to rank r, and what it is given by it.
Sent(r) == {Entry("metadata", <<Median, Share>>), Entry("scatter", Part(r, Share))}

Given(r) ==
  {Entry("lengths", KeptLengths(r)), Entry("less", Kept(r, Share, Below(Median))),
   Entry("greater", Kept(r, Share, Above(Median)))}

\* The median m and the elements c of rank r, when it enters call b next.
RankRight(r, b, m, c) ==
  /\ b # "metadata" => m = Median
  /\ b \notin {"metadata", "scatter"} => c = Part(r, Share)

\* What the root has counted and printed, when it enters call a next.
RootRight(a, e, l, p) ==
  /\ a # "metadata" => Usable(file) /\ e = Share
  /\ a \in {"less", "greater", "finalized"} => \A r \in Ranks : l[r] = KeptLengths(r)
  /\ a \notin {"greater", "finalized"} => p = << >>
  /\ a = "greater" => p = <<Lists[1], Lists[2]>>
  /\ a = "finalized" => p = Lists

SplitData ==
  /\ file = NoFile \/ file \in Seq(Bytes)
  /\ DOMAIN median = Ranks /\ DOMAIN chunk = Ranks /\ DOMAIN elements = Ranks
  /\ \A r \in Ranks : RankRight(r, call[r], median[r], chunk[r])
  /\ \A r \in Others : down[r] \in Seq(Sent(r)) /\ up[r] \in Seq(Given(r))
  /\ RootRight(call[RootRank], elements[RootRank], lengths, printed)

SplitDataInv == IF program = "parsplit" THEN SplitData ELSE printed = << >>

\* All of it is about the file, which nothing changes.
LEMMA FileStays ==
  ASSUME file' = file
  PROVE  /\ Median' = Median /\ Share' = Share /\ Lists' = Lists
         /\ \A r, b, m, c : RankRight(r, b, m, c)' = RankRight(r, b, m, c)
         /\ \A r : Sent(r)' = Sent(r) /\ Given(r)' = Given(r)
         /\ \A a, e, l, p : RootRight(a, e, l, p)' = RootRight(a, e, l, p)
<1>1. Median' = Median /\ Share' = Share
  BY DEF Median, Share
<1>2. Lists' = Lists
  BY <1>1 DEF Lists
<1>3. \A r : Part(r, Share)' = Part(r, Share)
  BY <1>1 DEF Part
<1>4. \A r : KeptLengths(r)' = KeptLengths(r)
  BY <1>1, <1>3 DEF KeptLengths, Kept
<1>5. \A r : Sent(r)' = Sent(r) /\ Given(r)' = Given(r)
  BY <1>1, <1>3, <1>4 DEF Sent, Given, Kept
<1>6. \A r, b, m, c : RankRight(r, b, m, c)' = RankRight(r, b, m, c)
  BY <1>1, <1>3 DEF RankRight
<1>7. \A a, e, l, p : RootRight(a, e, l, p)' = RootRight(a, e, l, p)
  BY <1>1, <1>2, <1>4 DEF RootRight, Usable
<1> QED
  BY <1>1, <1>2, <1>5, <1>6, <1>7

\* An entry's call tells what its value is.
LEMMA EntriesAre ==
  ASSUME NEW r
  PROVE  /\ \A e \in Sent(r) : /\ e.op = "metadata" => e.value = <<Median, Share>>
                               /\ e.op = "scatter" => e.value = Part(r, Share)
         /\ \A e \in Given(r) :
              /\ e.op = "lengths" => e.value = KeptLengths(r)
              /\ e.op = "less" => e.value = Kept(r, Share, Below(Median))
              /\ e.op = "greater" => e.value = Kept(r, Share, Above(Median))
BY DEF Sent, Given, Entry

\* What a queue holds when something is put at its end or taken from its head.
LEMMA QueueOf ==
  ASSUME NEW S, NEW q \in Seq(S)
  PROVE  /\ \A e \in S : Append(q, e) \in Seq(S)
         /\ q # << >> => Head(q) \in S /\ Tail(q) \in Seq(S)
OBVIOUS

\* What a rank computes of its part.
LEMMA OwnPart ==
  ASSUME NEW r, median[r] = Median, chunk[r] = Part(r, Share)
  PROVE  /\ Less(r) = Kept(r, Share, Below(Median))
         /\ Equal(r) = Len(Kept(r, Share, {Median}))
         /\ Greater(r) = Kept(r, Share, Above(Median))
         /\ Lengths(r) = KeptLengths(r)
BY DEF Less, Equal, Greater, Lengths, KeptLengths, Kept

\* A rank computes on its own elements only.
KeepsOthers(r) ==
  /\ DOMAIN median' = Ranks /\ DOMAIN chunk' = Ranks /\ DOMAIN elements' = Ranks
  /\ \A s \in Ranks : s # r => /\ median'[s] = median[s] /\ chunk'[s] = chunk[s]
                              /\ elements'[s] = elements[s]

\* A step of the root, as the invariant sees it.
LEMMA RootDataStep ==
  ASSUME SplitData, DOMAIN call = Ranks, NEW point, Advance(RootRank, point), file' = file,
         KeepsOthers(RootRank), RankRight(RootRank, point, median'[RootRank], chunk'[RootRank]),
         RootRight(point, elements'[RootRank], lengths', printed'),
         \A r \in Others : down'[r] \in Seq(Sent(r)) /\ up'[r] \in Seq(Given(r))
  PROVE  SplitData'
<1>1. /\ call'[RootRank] = point /\ \A r \in Ranks : r # RootRank => call'[r] = call[r]
      /\ \A r \in Ranks : r # RootRank => median'[r] = median[r] /\ chunk'[r] = chunk[r]
      /\ DOMAIN median' = Ranks /\ DOMAIN chunk' = Ranks /\ DOMAIN elements' = Ranks
  BY RanksAre DEF KeepsOthers, Advance
<1>2. \A r \in Ranks : RankRight(r, call'[r], median'[r], chunk'[r])
  <2>1. ASSUME NEW r \in Ranks PROVE RankRight(r, call'[r], median'[r], chunk'[r])
    <3>1. CASE r = RootRank
      BY <1>1, <3>1
    <3>2. CASE r # RootRank
      <4>1. RankRight(r, call[r], median[r], chunk[r])
        BY DEF SplitData
      <4> QED
        BY <1>1, <3>2, <4>1
    <3> QED
      BY <3>1, <3>2
  <2> QED
    BY <2>1
<1>3. RootRight(call'[RootRank], elements'[RootRank], lengths', printed')
  BY <1>1
<1> QED
  BY <1>1, <1>2, <1>3, FileStays DEF SplitData

\* A step of another rank, as the invariant sees it.
LEMMA NodeDataStep ==
  ASSUME SplitData, DOMAIN call = Ranks, NEW r \in Others, NEW point, Advance(r, point),
         UNCHANGED <<file, lengths, printed>>, KeepsOthers(r),
         RankRight(r, point, median'[r], chunk'[r]),
         down'[r] \in Seq(Sent(r)), up'[r] \in Seq(Given(r)),
         \A s \in Others : s # r => down'[s] = down[s] /\ up'[s] = up[s]
  PROVE  SplitData'
<1>1. /\ call'[r] = point /\ \A s \in Ranks : s # r => call'[s] = call[s]
      /\ elements'[RootRank] = elements[RootRank] /\ call'[RootRank] = call[RootRank]
      /\ \A s \in Ranks : s # r => median'[s] = median[s] /\ chunk'[s] = chunk[s]
      /\ DOMAIN median' = Ranks /\ DOMAIN chunk' = Ranks /\ DOMAIN elements' = Ranks
  BY RanksAre DEF KeepsOthers, Advance
<1>2. \A s \in Ranks : RankRight(s, call'[s], median'[s], chunk'[s])
  <2>1. ASSUME NEW s \in Ranks PROVE RankRight(s, call'[s], median'[s], chunk'[s])
    <3>1. CASE s = r
      BY <1>1, <3>1
    <3>2. CASE s # r
      <4>1. RankRight(s, call[s], median[s], chunk[s])
        BY DEF SplitData
      <4> QED
        BY <1>1, <3>2, <4>1
    <3> QED
      BY <3>1, <3>2
  <2> QED
    BY <2>1
<1>3. RootRight(call'[RootRank], elements'[RootRank], lengths', printed')
  BY <1>1 DEF SplitData
<1>4. \A s \in Others : down'[s] \in Seq(Sent(s)) /\ up'[s] \in Seq(Given(s))
  BY DEF SplitData
<1> QED
  BY <1>1, <1>2, <1>3, <1>4, FileStays DEF SplitData

\* A file that can be split is cut into N equal parts.
LEMMA ShareIs ==
  ASSUME Usable(file), file = NoFile \/ file \in Seq(Bytes)
  PROVE  file \in Seq(Bytes) /\ Share \in Nat /\ Len(file) = N * Share
<1>1. file \in Seq(Bytes) /\ Len(file) \in Nat /\ Len(file) % N = 0
  BY DEF Usable
<1> DEFINE n == Len(file)
<1>2. n \in Nat /\ n % N = 0 /\ N \in Nat \ {0}
  BY <1>1, SizeAssumption
<1> HIDE DEF n
<1>3. n = N * (n \div N) + (n % N) /\ n \div N \in Nat
  BY <1>2, SMTT(30)
<1> DEFINE q == n \div N
<1>4. q \in Nat /\ n = N * q + 0
  BY <1>2, <1>3
<1> HIDE DEF q
<1>5. n = N * q
  <2>1. N * q \in Nat
    BY <1>2, <1>4
  <2> QED
    BY <1>4, <2>1
<1> QED
  BY <1>1, <1>4, <1>5 DEF n, q, Share

-----------------------------------------------------------------------------
(* The steps of parsplit, and what they compute. *)

\* Before the job.
LEMMA SplitDataStart ==
  Init => SplitDataInv
<1>0. Init => printed = << >>
  BY DEF Init, SplitStart
<1> SUFFICES ASSUME Init, program = "parsplit" PROVE SplitData
  BY <1>0 DEF SplitDataInv
<1>1. PICK f \in Files : SplitStart(f)
  BY DEF Init
<1>2. /\ file = NoFile \/ file \in Seq(Bytes)
      /\ DOMAIN median = Ranks /\ DOMAIN chunk = Ranks /\ DOMAIN elements = Ranks
      /\ \A r \in Ranks : call[r] = "metadata"
      /\ printed = << >>
  BY <1>1, FilesAssumption DEF SplitStart
<1>3. \A r \in Others : down[r] = << >> /\ up[r] = << >>
  BY DEF Init, MpiInit
<1>4. \A r \in Others : down[r] \in Seq(Sent(r)) /\ up[r] \in Seq(Given(r))
  <2>1. \A S : << >> \in Seq(S)
    OBVIOUS
  <2> QED
    BY <1>3, <2>1
<1>5. \A r \in Ranks : RankRight(r, call[r], median[r], chunk[r])
  BY <1>2 DEF RankRight
<1>6. RootRight(call[RootRank], elements[RootRank], lengths, printed)
  BY <1>2, RanksAre DEF RootRight
<1> QED
  BY <1>2, <1>4, <1>5, <1>6 DEF SplitData

\* The steps of the other ranks.
LEMMA SplitNodeData ==
  ASSUME SplitInv, SplitData, NEW r \in Others, SplitNode(r)
  PROVE  SplitData'
<1>1. MpiShape /\ DOMAIN call = Ranks /\ r \in Ranks
  BY RanksAre DEF SplitInv
<1>2. /\ down[r] \in Seq(Sent(r)) /\ up[r] \in Seq(Given(r))
      /\ RankRight(r, call[r], median[r], chunk[r])
      /\ DOMAIN median = Ranks /\ DOMAIN chunk = Ranks /\ DOMAIN elements = Ranks
  BY <1>1 DEF SplitData
<1>3. down[r] # << >> => /\ Head(down[r]).op = call[r]
                         /\ Head(down[r]) \in Sent(r) /\ Tail(down[r]) \in Seq(Sent(r))
  <2>1. SplitInStep(call[RootRank], call[r], down[r], up[r])
    BY DEF SplitInv
  <2> QED
    BY <1>2, <2>1, SplitHeads, QueueOf
<1>4. /\ UNCHANGED <<chunk, median, elements>> => KeepsOthers(r)
      /\ \A m, e : /\ median' = [median EXCEPT ![r] = m] /\ chunk' = chunk
                   /\ elements' = [elements EXCEPT ![r] = e]
                  => KeepsOthers(r) /\ median'[r] = m
      /\ \A c : UNCHANGED <<median, elements>> /\ chunk' = [chunk EXCEPT ![r] = c]
                => KeepsOthers(r) /\ chunk'[r] = c
  BY <1>1, <1>2 DEF KeepsOthers
<1>5. ASSUME NEW op, NEW value, NEW point, call[r] \notin {"metadata", "scatter"},
             point \notin {"metadata", "scatter"}, Entry(op, value) \in Given(r),
             Contribute(r, op, value), Advance(r, point),
             UNCHANGED <<file, chunk, median, elements, lengths, printed>>
      PROVE  SplitData'
  <2>1. /\ down' = down /\ up'[r] = Append(up[r], Entry(op, value))
        /\ \A s \in Others : s # r => up'[s] = up[s]
    BY <1>1, <1>5, ContributedBy
  <2>2. up'[r] \in Seq(Given(r)) /\ down'[r] \in Seq(Sent(r))
    BY <1>2, <1>5, <2>1, QueueOf
  <2>3. RankRight(r, point, median'[r], chunk'[r])
    BY <1>2, <1>5 DEF RankRight
  <2>4. UNCHANGED <<file, lengths, printed>> /\ KeepsOthers(r)
    BY <1>4, <1>5
  <2>5. \A s \in Others : s # r => down'[s] = down[s] /\ up'[s] = up[s]
    BY <2>1
  <2> QED
    BY <1>1, <1>5, <2>2, <2>3, <2>4, <2>5, NodeDataStep
<1>6. ASSUME call[r] \notin {"metadata", "scatter"}
      PROVE  /\ Entry("lengths", Lengths(r)) \in Given(r)
             /\ Entry("less", Less(r)) \in Given(r)
             /\ Entry("greater", Greater(r)) \in Given(r)
  BY <1>2, <1>6, OwnPart DEF RankRight, Given
<1>7. ASSUME down[r] # << >>, Take(r)
      PROVE  /\ down'[r] \in Seq(Sent(r)) /\ up'[r] \in Seq(Given(r))
             /\ \A s \in Others : s # r => down'[s] = down[s] /\ up'[s] = up[s]
  <2>1. up' = up /\ down'[r] = Tail(down[r]) /\ \A s \in Others : s # r => down'[s] = down[s]
    BY <1>1, <1>7, TakenBy
  <2> QED
    BY <1>2, <1>3, <1>7, <2>1
<1>8. CASE NodeBcast(r)
  <2>1. /\ call[r] = "metadata" /\ Advance(r, "scatter") /\ down[r] # << >> /\ Take(r)
        /\ UNCHANGED <<file, chunk, lengths, printed>>
        /\ median' = [median EXCEPT ![r] = Taken(r)[1]]
        /\ elements' = [elements EXCEPT ![r] = Taken(r)[2]]
    BY <1>8 DEF NodeBcast, At, CanTake
  <2>2. Taken(r) = <<Median, Share>>
    BY <1>3, <2>1, EntriesAre DEF Taken
  <2>3. KeepsOthers(r) /\ median'[r] = Taken(r)[1] /\ UNCHANGED <<file, lengths, printed>>
    BY <1>4, <2>1
  <2>4. RankRight(r, "scatter", median'[r], chunk'[r])
    BY <2>2, <2>3 DEF RankRight
  <2> QED
    BY <1>1, <1>7, <2>1, <2>3, <2>4, NodeDataStep
<1>9. CASE NodeScatter(r)
  <2>1. /\ call[r] = "scatter" /\ Advance(r, "lengths") /\ down[r] # << >> /\ Take(r)
        /\ UNCHANGED <<file, median, elements, lengths, printed>>
        /\ chunk' = [chunk EXCEPT ![r] = Taken(r)]
    BY <1>9 DEF NodeScatter, At, CanTake
  <2>2. Taken(r) = Part(r, Share)
    BY <1>3, <2>1, EntriesAre DEF Taken
  <2>3. KeepsOthers(r) /\ chunk'[r] = Taken(r) /\ UNCHANGED <<file, lengths, printed>>
    BY <1>4, <2>1
  <2>4. RankRight(r, "lengths", median'[r], chunk'[r])
    BY <1>2, <2>1, <2>2, <2>3 DEF RankRight
  <2> QED
    BY <1>1, <1>7, <2>1, <2>3, <2>4, NodeDataStep
<1>10. CASE NodeLengths(r)
  BY <1>5, <1>6, <1>10 DEF NodeLengths, At
<1>11. CASE NodeLess(r)
  BY <1>5, <1>6, <1>11 DEF NodeLess, At
<1>12. CASE NodeGreater(r)
  BY <1>5, <1>6, <1>12 DEF NodeGreater, At
<1> QED
  BY <1>8, <1>9, <1>10, <1>11, <1>12 DEF SplitNode

\* The lists the root puts together are those of a single process.
LEMMA ListsAre ==
  ASSUME Usable(file), file = NoFile \/ file \in Seq(Bytes),
         \A r \in Ranks : lengths[r] = KeptLengths(r)
  PROVE  /\ \A received :
              /\ KeptBy(received, Share, Below(Median))
                   => Placed(received, 1) = Lists[1]
              /\ KeptBy(received, Share, Above(Median))
                   => Placed(received, 3) = Lists[3]
         /\ [i \in 1 .. Total(2) |-> Median] = Lists[2]
<1>1. file \in Seq(Bytes) /\ Share \in Nat /\ Len(file) = N * Share
  BY ShareIs
<1>2. \A r \in Ranks : /\ lengths[r][1] = Len(Kept(r, Share, Below(Median)))
                       /\ lengths[r][2] = Len(Kept(r, Share, {Median}))
                       /\ lengths[r][3] = Len(Kept(r, Share, Above(Median)))
  <2> SUFFICES ASSUME NEW r \in Ranks
               PROVE  /\ lengths[r][1] = Len(Kept(r, Share, Below(Median)))
                      /\ lengths[r][2] = Len(Kept(r, Share, {Median}))
                      /\ lengths[r][3] = Len(Kept(r, Share, Above(Median)))
    OBVIOUS
  <2> DEFINE x == Len(Kept(r, Share, Below(Median)))
             y == Len(Kept(r, Share, {Median}))
             z == Len(Kept(r, Share, Above(Median)))
  <2>1. lengths[r] = <<x, y, z>>
    BY DEF KeptLengths
  <2> HIDE DEF x, y, z
  <2>2. lengths[r][1] = x /\ lengths[r][2] = y /\ lengths[r][3] = z
    BY <2>1
  <2> QED
    BY <2>2 DEF x, y, z
<1> DEFINE A == Below(Median)
           B == {Median}
           C == Above(Median)
           k == Share
<1> HIDE DEF A, B, C, k
<1>3. \A received : KeptBy(received, k, A)
                      => Placed(received, 1) = Chosen(file, A)
  <2>1. \A r \in Ranks : lengths[r][1] = Len(Kept(r, k, A))
    BY <1>2 DEF A, k
  <2>2. file \in Seq(Bytes) /\ k \in Nat /\ Len(file) = N * k
    BY <1>1 DEF k
  <2> QED
    BY <2>1, <2>2, PlacedIs
<1>4. \A received : KeptBy(received, k, C)
                      => Placed(received, 3) = Chosen(file, C)
  <2>1. \A r \in Ranks : lengths[r][3] = Len(Kept(r, k, C))
    BY <1>2 DEF C, k
  <2>2. file \in Seq(Bytes) /\ k \in Nat /\ Len(file) = N * k
    BY <1>1 DEF k
  <2> QED
    BY <2>1, <2>2, PlacedIs
<1>5. Len(Chosen(file, B)) = Total(2) /\ Chosen(file, B) \in Seq(Bytes \cap B)
  <2>1. \A r \in Ranks : lengths[r][2] = Len(Kept(r, k, B))
    BY <1>2 DEF B, k
  <2>2. file \in Seq(Bytes) /\ k \in Nat /\ Len(file) = N * k
    BY <1>1 DEF k
  <2> QED
    BY <2>1, <2>2, PlacedIs, ZenonT(30)
<1>6. [i \in 1 .. Total(2) |-> Median] = Chosen(file, B)
  <2> DEFINE F == Chosen(file, B)
  <2> HIDE DEF F
  <2>1. F \in Seq(Bytes \cap {Median}) /\ Len(F) = Total(2)
    BY <1>5 DEF F, B
  <2>2. F = [i \in 1 .. Len(F) |-> F[i]] /\ \A i \in 1 .. Len(F) : F[i] = Median
    BY <2>1
  <2> QED
    BY <2>1, <2>2 DEF F
<1> QED
  BY <1>3, <1>4, <1>6 DEF Lists, A, B, C, k

\* The steps of the root.
LEMMA SplitRootData ==
  ASSUME SplitInv, SplitData, SplitRoot
  PROVE  SplitData'
<1>1. MpiShape /\ DOMAIN call = Ranks /\ RootRank \in Ranks
  BY RanksAre DEF SplitInv
<1>2. /\ \A r \in Others : down[r] \in Seq(Sent(r)) /\ up[r] \in Seq(Given(r))
      /\ RankRight(RootRank, call[RootRank], median[RootRank], chunk[RootRank])
      /\ RootRight(call[RootRank], elements[RootRank], lengths, printed)
      /\ DOMAIN median = Ranks /\ DOMAIN chunk = Ranks /\ DOMAIN elements = Ranks
      /\ file = NoFile \/ file \in Seq(Bytes)
  BY <1>1 DEF SplitData
<1>3. /\ UNCHANGED <<chunk, median, elements>> => KeepsOthers(RootRank)
      /\ \A m, e : /\ median' = [median EXCEPT ![RootRank] = m] /\ chunk' = chunk
                   /\ elements' = [elements EXCEPT ![RootRank] = e]
                  => KeepsOthers(RootRank) /\ median'[RootRank] = m /\ elements'[RootRank] = e
      /\ \A c : UNCHANGED <<median, elements>> /\ chunk' = [chunk EXCEPT ![RootRank] = c]
                => KeepsOthers(RootRank) /\ chunk'[RootRank] = c
  BY <1>1, <1>2 DEF KeepsOthers
\* The root hands data over.
<1>4. ASSUME NEW op, NEW value, Distribute(op, value),
             \A r \in Others : Entry(op, value[r]) \in Sent(r)
      PROVE  \A r \in Others : down'[r] \in Seq(Sent(r)) /\ up'[r] \in Seq(Given(r))
  <2>1. up' = up /\ \A r \in Others : down'[r] = Append(down[r], Entry(op, value[r]))
    BY <1>1, <1>4, Distributed
  <2> QED
    BY <1>2, <1>4, <2>1, QueueOf
\* The root takes what it is given.
<1>5. ASSUME CanCollect
      PROVE  /\ \A r \in Others : Head(up[r]) \in Given(r) /\ Head(up[r]).op = call[RootRank]
             /\ Collect => \A r \in Others : /\ down'[r] \in Seq(Sent(r))
                                             /\ up'[r] \in Seq(Given(r))
  <2>1. \A r \in Others : /\ Head(up[r]) \in Given(r) /\ Head(up[r]).op = call[RootRank]
                          /\ Tail(up[r]) \in Seq(Given(r))
    <3>1. ASSUME NEW r \in Others
          PROVE  /\ Head(up[r]) \in Given(r) /\ Head(up[r]).op = call[RootRank]
                 /\ Tail(up[r]) \in Seq(Given(r))
      <4>1. SplitInStep(call[RootRank], call[r], down[r], up[r]) /\ up[r] # << >>
        BY <1>5 DEF SplitInv, CanCollect
      <4> QED
        BY <1>2, <4>1, SplitHeads, QueueOf
    <3> QED
      BY <3>1
  <2>2. ASSUME Collect
        PROVE  \A r \in Others : down'[r] \in Seq(Sent(r)) /\ up'[r] \in Seq(Given(r))
    <3>1. down' = down /\ \A r \in Others : up'[r] = Tail(up[r])
      BY <1>1, <2>2, CollectedFrom
    <3> QED
      BY <1>2, <2>1, <3>1
  <2> QED
    BY <2>1, <2>2
<1>6. CASE RootAborts
  <2>1. UNCHANGED splitVars /\ up' = up /\ down' = down
    BY <1>6 DEF RootAborts, Abort
  <2>2. UNCHANGED <<file, call, chunk, median, elements, lengths, printed>>
    BY <2>1 DEF splitVars
  <2> QED
    BY <2>1, <2>2, FileStays DEF SplitData
<1>7. CASE RootBcast
  <2>1. /\ call[RootRank] = "metadata" /\ Usable(file) /\ Advance(RootRank, "scatter")
        /\ UNCHANGED <<file, chunk, lengths, printed>>
        /\ median' = [median EXCEPT ![RootRank] = Median]
        /\ elements' = [elements EXCEPT ![RootRank] = Share]
        /\ Distribute("metadata", [r \in Others |-> <<Median, Share>>])
    BY <1>7 DEF RootBcast, At, Median, Share
  <2>2. \A r \in Others : down'[r] \in Seq(Sent(r)) /\ up'[r] \in Seq(Given(r))
    <3>1. \A r \in Others :
            Entry("metadata", [s \in Others |-> <<Median, Share>>][r]) \in Sent(r)
      BY DEF Sent
    <3> QED
      BY <1>4, <2>1, <3>1
  <2>3. /\ KeepsOthers(RootRank) /\ median'[RootRank] = Median
        /\ elements'[RootRank] = Share
    BY <1>3, <2>1
  <2>4. RankRight(RootRank, "scatter", median'[RootRank], chunk'[RootRank])
    BY <2>3 DEF RankRight
  <2>5. RootRight("scatter", elements'[RootRank], lengths', printed')
    BY <1>2, <2>1, <2>3 DEF RootRight
  <2> QED
    BY <1>1, <2>1, <2>2, <2>3, <2>4, <2>5, RootDataStep
<1>8. CASE RootScatter
  <2>1. /\ call[RootRank] = "scatter" /\ Advance(RootRank, "lengths")
        /\ UNCHANGED <<file, median, elements, lengths, printed>>
        /\ elements[RootRank] = Share
        /\ chunk' = [chunk EXCEPT ![RootRank] = Part(RootRank, elements[RootRank])]
        /\ Distribute("scatter", [r \in Others |-> Part(r, elements[RootRank])])
    BY <1>2, <1>8 DEF RootScatter, At, RootRight
  <2>2. \A r \in Others : down'[r] \in Seq(Sent(r)) /\ up'[r] \in Seq(Given(r))
    <3>1. \A r \in Others :
            Entry("scatter", [s \in Others |-> Part(s, elements[RootRank])][r]) \in Sent(r)
      BY <2>1 DEF Sent
    <3> QED
      BY <1>4, <2>1, <3>1
  <2>3. KeepsOthers(RootRank) /\ chunk'[RootRank] = Part(RootRank, Share)
    BY <1>3, <2>1
  <2>4. RankRight(RootRank, "lengths", median'[RootRank], chunk'[RootRank])
    BY <1>2, <2>1, <2>3 DEF RankRight
  <2>5. RootRight("lengths", elements'[RootRank], lengths', printed')
    BY <1>2, <2>1 DEF RootRight
  <2> QED
    BY <1>1, <2>1, <2>2, <2>3, <2>4, <2>5, RootDataStep
\* The three gathers.
<1>9. ASSUME NEW point, Advance(RootRank, point), CanCollect, Collect,
             UNCHANGED <<file, chunk, median, elements>>,
             call[RootRank] \notin {"metadata", "scatter"},
             RootRight(point, elements[RootRank], lengths', printed')
      PROVE  SplitData'
  <2>1. KeepsOthers(RootRank) /\ elements'[RootRank] = elements[RootRank]
    BY <1>3, <1>9
  <2>2. RankRight(RootRank, point, median'[RootRank], chunk'[RootRank])
    BY <1>2, <1>9 DEF RankRight
  <2>3. RootRight(point, elements'[RootRank], lengths', printed')
    BY <1>9, <2>1
  <2>4. \A r \in Others : down'[r] \in Seq(Sent(r)) /\ up'[r] \in Seq(Given(r))
    BY <1>5, <1>9
  <2> QED
    BY <1>1, <1>9, <2>1, <2>2, <2>3, <2>4, RootDataStep
<1>10. ASSUME call[RootRank] \notin {"metadata", "scatter"}
       PROVE  /\ median[RootRank] = Median
              /\ Less(RootRank) = Kept(RootRank, Share, Below(Median))
              /\ Greater(RootRank) = Kept(RootRank, Share, Above(Median))
              /\ Lengths(RootRank) = KeptLengths(RootRank)
  BY <1>2, <1>10, OwnPart DEF RankRight
<1>11. CASE RootLengths
  <2>1. /\ call[RootRank] = "lengths" /\ Advance(RootRank, "less") /\ CanCollect /\ Collect
        /\ UNCHANGED <<file, chunk, median, elements, printed>>
        /\ lengths' = Collected(Lengths(RootRank))
    BY <1>11 DEF RootLengths, At
  <2>2. \A r \in Ranks : lengths'[r] = KeptLengths(r)
    <3>1. \A r \in Others : Head(up[r]).value = KeptLengths(r)
      BY <1>5, <2>1, EntriesAre
    <3> QED
      BY <1>10, <2>1, <3>1 DEF Collected, Others
  <2>3. RootRight("less", elements[RootRank], lengths', printed')
    BY <1>2, <2>1, <2>2 DEF RootRight
  <2> QED
    BY <1>9, <2>1, <2>3
<1>12. CASE RootLess
  <2>1. /\ call[RootRank] = "less" /\ Advance(RootRank, "greater") /\ CanCollect /\ Collect
        /\ UNCHANGED <<file, chunk, median, elements, lengths>>
        /\ printed' = <<Placed(Collected(Less(RootRank)), 1),
                        [i \in 1 .. Total(2) |-> median[RootRank]]>>
    BY <1>12 DEF RootLess, At
  <2>2. KeptBy(Collected(Less(RootRank)), Share, Below(Median))
    <3>1. \A r \in Others : Head(up[r]).value = Kept(r, Share, Below(Median))
      BY <1>5, <2>1, EntriesAre
    <3> QED
      BY <1>10, <2>1, <3>1 DEF Collected, Others, KeptBy
  <2>3. Usable(file) /\ \A r \in Ranks : lengths[r] = KeptLengths(r)
    BY <1>2, <2>1 DEF RootRight
  <2>4. printed' = <<Lists[1], Lists[2]>>
    <3>1. Placed(Collected(Less(RootRank)), 1) = Lists[1]
      BY <1>2, <2>2, <2>3, ListsAre
    <3>2. [i \in 1 .. Total(2) |-> median[RootRank]] = Lists[2]
      <4>1. [i \in 1 .. Total(2) |-> Median] = Lists[2]
        BY <1>2, <2>3, ListsAre
      <4> QED
        BY <1>10, <2>1, <4>1
    <3> QED
      BY <2>1, <3>1, <3>2
  <2>5. RootRight("greater", elements[RootRank], lengths', printed')
    BY <1>2, <2>1, <2>3, <2>4 DEF RootRight
  <2> QED
    BY <1>9, <2>1, <2>5
<1>13. CASE RootGreater
  <2>1. /\ call[RootRank] = "greater" /\ Advance(RootRank, "finalized") /\ CanCollect /\ Collect
        /\ UNCHANGED <<file, chunk, median, elements, lengths>>
        /\ printed' = Append(printed, Placed(Collected(Greater(RootRank)), 3))
    BY <1>13 DEF RootGreater, At
  <2>2. KeptBy(Collected(Greater(RootRank)), Share, Above(Median))
    <3>1. \A r \in Others : Head(up[r]).value = Kept(r, Share, Above(Median))
      BY <1>5, <2>1, EntriesAre
    <3> QED
      BY <1>10, <2>1, <3>1 DEF Collected, Others, KeptBy
  <2>3. /\ Usable(file) /\ \A r \in Ranks : lengths[r] = KeptLengths(r)
        /\ printed = <<Lists[1], Lists[2]>>
    BY <1>2, <2>1 DEF RootRight
  <2>4. printed' = Lists
    <3>1. Placed(Collected(Greater(RootRank)), 3) = Lists[3]
      BY <1>2, <2>2, <2>3, ListsAre
    <3>2. printed' = <<Lists[1], Lists[2], Lists[3]>>
      <4>1. printed' = Append(<<Lists[1], Lists[2]>>, Lists[3])
        BY <2>1, <2>3, <3>1
      <4> QED
        BY <4>1, AppendPair
    <3>3. Lists = <<Lists[1], Lists[2], Lists[3]>>
      BY DEF Lists
    <3> QED
      BY <3>2, <3>3
  <2>5. RootRight("finalized", elements[RootRank], lengths', printed')
    BY <1>2, <2>1, <2>3, <2>4 DEF RootRight
  <2> QED
    BY <1>9, <2>1, <2>5
<1> QED
  BY <1>6, <1>7, <1>8, <1>11, <1>12, <1>13 DEF SplitRoot

\* Nothing of parsplit changes.
LEMMA SplitDataStays ==
  ASSUME SplitDataInv, UNCHANGED <<program, splitVars>>,
         program # "parsplit" \/ UNCHANGED mpiVars
  PROVE  SplitDataInv'
<1>1. CASE program # "parsplit"
  BY <1>1 DEF SplitDataInv, splitVars
<1>2. CASE program = "parsplit"
  <2>1. UNCHANGED <<file, call, chunk, median, elements, lengths, printed, up, down>>
    BY <1>2 DEF splitVars, mpiVars
  <2>2. SplitData'
    BY <1>2, <2>1, FileStays DEF SplitDataInv, SplitData
  <2> QED
    BY <1>2, <2>2 DEF SplitDataInv
<1> QED
  BY <1>1, <1>2

\* Every step keeps what is known of parsplit's data.
LEMMA SplitDataKeeps ==
  ASSUME PInv, SplitDataInv, [Next]_vars
  PROVE  SplitDataInv'
<1>1. ASSUME program = "parsplit", SplitNext, UNCHANGED program
      PROVE  SplitDataInv'
  <2>1. SplitInv /\ SplitData
    BY <1>1 DEF PInv, JobInv, SplitDataInv
  <2>2. SplitData'
    BY <1>1, <2>1, SplitRootData, SplitNodeData DEF SplitNext
  <2> QED
    BY <1>1, <2>2 DEF SplitDataInv
<1>2. CASE RootStep
  <2>1. CASE Split(SplitRoot)
    BY <1>1, <2>1 DEF Split, SplitNext
  <2>2. CASE KMeans(KMeansRoot)
    <3>1. UNCHANGED <<program, splitVars>> /\ program # "parsplit"
      BY <2>2 DEF KMeans
    <3> QED
      BY <3>1, SplitDataStays
  <2> QED
    BY <1>2, <2>1, <2>2 DEF RootStep
<1>3. ASSUME NEW r \in Others, NodeStep(r)
      PROVE  SplitDataInv'
  <2>1. CASE Split(SplitNode(r))
    BY <1>1, <2>1 DEF Split, SplitNext
  <2>2. CASE KMeans(KMeansNode(r))
    <3>1. UNCHANGED <<program, splitVars>> /\ program # "parsplit"
      BY <2>2 DEF KMeans
    <3> QED
      BY <3>1, SplitDataStays
  <2> QED
    BY <1>3, <2>1, <2>2 DEF NodeStep
<1>4. ASSUME UNCHANGED <<program, jobVars>>
      PROVE  SplitDataInv'
  BY <1>4, SplitDataStays DEF jobVars
<1>5. ASSUME NEW t \in Threads, Thread(t)
      PROVE  SplitDataInv'
  BY <1>4, <1>5 DEF Thread, Tree, Loop
<1>6. CASE Merge
  BY <1>4, <1>6 DEF Merge
<1>7. CASE UNCHANGED vars
  BY <1>4, <1>7 DEF vars
<1> QED
  BY <1>2, <1>3, <1>5, <1>6, <1>7 DEF Next

\* The first lists of all three.
LEMMA FirstLists ==
  ASSUME NEW x, NEW y, NEW z
  PROVE  /\ SubSeq(<<x, y, z>>, 1, 2) = <<x, y>>
         /\ SubSeq(<<x, y, z>>, 1, 3) = <<x, y, z>>
<1> DEFINE O == {x, y, z}
           s == <<x, y, z>>
<1>1. /\ s[1] = x /\ s[2] = y /\ s[3] = z /\ x \in O /\ y \in O /\ z \in O
      /\ <<x, y>> \in Seq(O) /\ s \in Seq(O) /\ Len(<<x, y>>) = 2 /\ Len(s) = 3
      /\ <<x, y>>[1] = x /\ <<x, y>>[2] = y
  OBVIOUS
<1> HIDE DEF O, s
<1>2. ASSUME NEW n \in {2, 3}
      PROVE  /\ SubSeq(s, 1, n) \in Seq(O) /\ Len(SubSeq(s, 1, n)) = n
             /\ \A i \in 1 .. n : SubSeq(s, 1, n)[i] = s[i]
  <2>1. n \in Int /\ \A i \in 1 .. n : s[i] \in O
    BY <1>1
  <2>2. /\ SubSeq(s, 1, n) \in Seq(O)
        /\ Len(SubSeq(s, 1, n)) = IF 1 <= n THEN n - 1 + 1 ELSE 0
        /\ \A i \in 1 .. n - 1 + 1 : SubSeq(s, 1, n)[i] = s[1 + i - 1]
    BY <2>1, SubSeqProperties
  <2>3. (\A i \in 1 .. n : i \in 1 .. n - 1 + 1 /\ 1 + i - 1 = i) /\ 1 <= n /\ n - 1 + 1 = n
    OBVIOUS
  <2> QED
    BY <2>2, <2>3
<1> DEFINE t == SubSeq(s, 1, 2)
           u == SubSeq(s, 1, 3)
           p == <<x, y>>
<1>3. /\ t \in Seq(O) /\ Len(t) = 2 /\ \A i \in 1 .. 2 : t[i] = s[i]
      /\ u \in Seq(O) /\ Len(u) = 3 /\ \A i \in 1 .. 3 : u[i] = s[i]
  BY <1>2
<1>4. p \in Seq(O) /\ Len(p) = 2 /\ p[1] = s[1] /\ p[2] = s[2]
  BY <1>1
<1> HIDE DEF t, u, p
<1>5. t = p
  <2>1. \A i \in 1 .. 2 : i = 1 \/ i = 2
    OBVIOUS
  <2>2. Len(t) = Len(p) /\ \A i \in 1 .. Len(t) : t[i] = p[i]
    BY <1>3, <1>4, <2>1
  <2> QED
    BY <1>3, <1>4, <2>2, SeqEqual
<1>6. u = s
  BY <1>1, <1>3, SeqEqual
<1> QED
  BY <1>5, <1>6 DEF t, u, p, s

\* The lists that parsplit prints are those of a single process: every element of
\* the file once, in its order, around the element in the middle, whatever the pace
\* of the ranks (run_root() and gather_part(), parsplit.cpp).
THEOREM ParallelSplitResult ==
  Spec => []SplitResult
<1>1. SplitDataInv => SplitResult
  <2> SUFFICES ASSUME SplitDataInv, printed # << >> PROVE printed = SubSeq(Lists, 1, Len(printed))
    BY DEF SplitResult, Lists, Median
  <2>1. printed = <<Lists[1], Lists[2]>> \/ printed = Lists
    BY DEF SplitDataInv, SplitData, RootRight
  <2>2. Lists = <<Lists[1], Lists[2], Lists[3]>>
    BY DEF Lists
  <2>3. SubSeq(Lists, 1, 2) = <<Lists[1], Lists[2]>> /\ SubSeq(Lists, 1, 3) = Lists
    BY <2>2, FirstLists
  <2>4. CASE printed = <<Lists[1], Lists[2]>>
    <3>1. Len(printed) = 2
      BY <2>4
    <3> QED
      BY <2>3, <2>4, <3>1
  <2>5. CASE printed = Lists
    <3>1. Len(printed) = 3
      BY <2>5 DEF Lists
    <3> QED
      BY <2>3, <2>5, <3>1
  <2> QED
    BY <2>1, <2>4, <2>5
<1> QED
  BY <1>1, SplitDataStart, SplitDataKeeps, ParallelInvariant, PTL DEF Spec
=============================================================================
