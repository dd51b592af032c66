---------------------------- MODULE AtLeastOnce ----------------------------
(***************************************************************************)
(* What the connection promises: the texts 1, 2, ... that the user enters  *)
(* at the client are printed by the server in their order, each perhaps    *)
(* more than once, none left out before one that is printed.               *)
(***************************************************************************)
EXTENDS Integers, Sequences

VARIABLES
  entered,   \* how many texts the user has entered
  printed    \* the texts the server has printed

ChannelInit == entered = 0 /\ printed = << >>

Latest == IF printed = << >> THEN 0 ELSE printed[Len(printed)]

EnterText == entered' = entered + 1 /\ UNCHANGED printed

PrintNext ==
  /\ Latest < entered
  /\ printed' = Append(printed, Latest + 1)
  /\ UNCHANGED entered

PrintAgain ==
  /\ printed # << >>
  /\ printed' = Append(printed, Latest)
  /\ UNCHANGED entered

ChannelNext == EnterText \/ PrintNext \/ PrintAgain

ChannelSpec == ChannelInit /\ [][ChannelNext]_<<entered, printed>>
=============================================================================
