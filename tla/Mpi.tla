-------------------------------- MODULE Mpi --------------------------------
(***************************************************************************)
(* The part of MPI that the two PRL programs use: rooted collectives over  *)
(* COMM_WORLD, and Abort.                                                  *)
(*                                                                         *)
(* MPI is not part of the repository.  A collective is taken to bind its   *)
(* ranks as little as the standard allows: the root of a Bcast or Scatter  *)
(* goes on when it has handed its data over, and so does a rank that       *)
(* contributes to a Gather, Gatherv or Reduce; only those who need data    *)
(* wait.  Collectives are matched by their order alone, so what a rank     *)
(* takes is what comes next, whichever call it was meant for.              *)
(***************************************************************************)
EXTENDS Integers, Sequences

CONSTANT N       \* the size of COMM_WORLD

ASSUME SizeAssumption == N \in Nat \ {0}

Ranks == 0 .. N - 1

RootRank == 0

Others == Ranks \ {RootRank}

VARIABLES
  up,       \* up[r]: contributions of rank r that the root has not taken yet
  down,     \* down[r]: data from the root that rank r has not taken yet
  aborted   \* the job has been killed

mpiVars == <<up, down, aborted>>

MpiInit ==
  /\ up = [r \in Others |-> << >>]
  /\ down = [r \in Others |-> << >>]
  /\ aborted = FALSE

Entry(op, value) == [op |-> op, value |-> value]

\* The root's half of Bcast and Scatter; rank r is sent value[r].
Distribute(op, value) ==
  /\ down' = [r \in Others |-> Append(down[r], Entry(op, value[r]))]
  /\ UNCHANGED <<up, aborted>>

\* The other ranks' half: they wait for the root's data.
CanTake(r) == down[r] # << >>

Taken(r) == Head(down[r]).value

Take(r) ==
  /\ down' = [down EXCEPT ![r] = Tail(@)]
  /\ UNCHANGED <<up, aborted>>

\* The other ranks' half of Gather, Gatherv and Reduce.
Contribute(r, op, value) ==
  /\ up' = [up EXCEPT ![r] = Append(@, Entry(op, value))]
  /\ UNCHANGED <<down, aborted>>

\* The root's half: it waits for everyone; own is its own contribution.
CanCollect == \A r \in Others : up[r] # << >>

Collected(own) == [r \in Ranks |-> IF r = RootRank THEN own ELSE Head(up[r]).value]

Collect ==
  /\ up' = [r \in Others |-> Tail(up[r])]
  /\ UNCHANGED <<down, aborted>>

\* Abort ends every process of the job; so does the launcher when one of them
\* is killed by a signal.
Abort ==
  /\ aborted' = TRUE
  /\ UNCHANGED <<up, down>>
=============================================================================
