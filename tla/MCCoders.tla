------------------------------ MODULE MCCoders ------------------------------
(***************************************************************************)
(* The coders of the repository: the LDPC coder on every parity check      *)
(* matrix for a short message, or the affine cipher on files of up to two  *)
(* lines, some of their words known.                                       *)
(***************************************************************************)
EXTENDS LdpcCode, AffineCipher

VARIABLE program   \* the program that runs

vars == <<program, ldpcVars, affineVars>>

\* Keys in and out of the range of remainders, one of them negative, and one
\* without an inverse.
MCUserKeys == {Key(1, 0), Key(3, 25), Key(15, -30), Key(29, 51), Key(13, 4), Key(-3, 5)}

MCKnownWords == {<<13, 0>>, <<18, 4>>, <<9, 8, 13>>}

\* The first line is not to be read under any key, and the last one hardly.
MCLines ==
  {<< <<7, 7>> >>, << <<13, 0>> >>, << <<9, 8, 13>>, <<0, 0>> >>,
   << <<18, 4>>, <<0, 0>>, <<7, 7>>, <<1, 1>>, <<2, 2>>, <<3, 3>> >>}

MCFiles == SeqOf(MCLines, 2) \ {<< >>}

\* Lists of candidates: right keys, wrong ones, none.
MCGuesses == SeqOf({Key(3, 25), Key(15, 22), Key(7, 2)}, 2)

MCOutside == {-1, 0, 9}

Init ==
  \/ program = "ldpc" /\ LdpcInit /\ AffineStart("decrypt", NoKey, << >>)
  \/ program = "affine" /\ AffineInit /\ LdpcStart(<< >>, {})

Next ==
  \/ program = "ldpc" /\ LdpcNext /\ UNCHANGED <<program, affineVars>>
  \/ program = "affine" /\ AffineNext /\ UNCHANGED <<program, ldpcVars>>

Spec == Init /\ [][Next]_vars
=============================================================================
