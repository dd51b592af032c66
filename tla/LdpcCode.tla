------------------------------ MODULE LdpcCode ------------------------------
(***************************************************************************)
(* The LDPC coder: a message is encoded with a random parity check matrix, *)
(* which is saved, sent over a noisy channel and decoded with the same     *)
(* matrix.                                                                 *)
(*                                                                         *)
(* The belief propagation computes likelihoods in floating point; all that *)
(* is modelled of an iteration is that it ends with some word.  What the   *)
(* channel does to the bits makes no difference then, but their number     *)
(* does.                                                                   *)
(***************************************************************************)
EXTENDS BinaryMatrix

CONSTANTS
  MessageLen,     \* inputBits: the bits of the message
  MaxIterations   \* maxIterations of decode(): 500

ASSUME LdpcAssumption ==
  /\ MessageLen \in Nat /\ MessageLen > 1
  /\ MaxIterations \in Nat \ {0}

VARIABLES
  check,       \* H, the parity check matrix
  message,     \* inputMatrix
  coding,      \* G, which both programs make of H
  stage,       \* how far the two programs are
  codeword,    \* encoded
  word,        \* x
  iteration,   \* iteration of decode()
  warned,      \* "Decoding stopped before convergence."
  decoded      \* what runDecode() prints

ldpcVars == <<check, message, coding, stage, codeword, word, iteration, warned, decoded>>

CodeLen == 2 * MessageLen

Bits == Indices(CodeLen)

FirstHalf == Indices(MessageLen)

\* parityCheckMatrix(): rows come in pairs, each with half of the ones; those
\* of the first pair are in order, those of the others at random.
ParityCheckMatrices ==
  {H \in [Indices(CodeLen - 2) -> kSubset(MessageLen, Bits)] :
     /\ H[0] = FirstHalf
     /\ \A i \in DOMAIN H : i % 2 = 1 => H[i] = Bits \ H[i - 1]}

IsCodeWord(v) == Times(check, v) = {}

\* nBits of codingMatrix().
MessageBits ==
  LET columns == GaussJordan(Transpose(check, CodeLen), CodeLen - 2).rows
      reduced == GaussJordan(Transpose(columns, CodeLen - 2), CodeLen).rows
  IN  CodeLen - Ones(reduced)

\* codingMatrix()
CodingMatrix ==
  LET steps == GaussJordan(Transpose(check, CodeLen), CodeLen - 2).steps
      first == CodeLen - MessageBits
      unit  == [i \in Bits |-> IF i >= first THEN {i - first} ELSE {}]
  IN  Product(Transpose(steps, CodeLen), unit, CodeLen - first)

LdpcStart(matrix, bits) ==
  /\ check = matrix
  /\ message = bits
  /\ stage = "encoding"
  /\ coding = << >>
  /\ codeword = {} /\ word = {} /\ decoded = {}
  /\ iteration = 0
  /\ warned = FALSE

LdpcInit ==
  \E matrix \in ParityCheckMatrices, bits \in SUBSET Indices(MessageLen) :
    LdpcStart(matrix, bits)
-----------------------------------------------------------------------------
\* runEncode().  A random matrix may have too many dependent rows, so that the
\* coding matrix has more columns than the message has bits, and binaryProduct()
\* throws.
Encode ==
  /\ stage = "encoding"
  /\ coding' = CodingMatrix
  /\ IF MessageBits = MessageLen
       THEN stage' = "sent" /\ codeword' = Times(coding', message)
       ELSE stage' = "thrown" /\ UNCHANGED codeword
  /\ UNCHANGED <<check, message, word, iteration, warned, decoded>>

\* Some digits of the input are lost.
RefuseSize ==
  /\ stage = "sent"
  /\ stage' = "refused"
  /\ UNCHANGED <<check, message, coding, codeword, word, iteration, warned, decoded>>

Accept ==
  /\ stage = "sent"
  /\ stage' = "decoding"
  /\ UNCHANGED <<check, message, coding, codeword, word, iteration, warned, decoded>>

\* An iteration of decode().
Iterate(x) ==
  /\ stage = "decoding"
  /\ word' = x
  /\ IF IsCodeWord(x)
       THEN stage' = "stopped" /\ UNCHANGED iteration
       ELSE /\ iteration' = iteration + 1
            /\ stage' = IF iteration + 1 = MaxIterations THEN "stopped" ELSE stage
  /\ UNCHANGED <<check, message, coding, codeword, warned, decoded>>

\* The bits that are 1, from bit i on, and those from the last bit back.
Substituted(solved) ==
  LET from[i \in 0 .. MessageLen] ==
        IF i = MessageLen THEN {}
        ELSE IF Odd(from[i + 1] \cap solved.rows[i]) <=> i \in solved.vector
          THEN from[i + 1] ELSE from[i + 1] \cup {i}
  IN  from

\* getMessageFromCodeword(): elimination, then substitution.
MessageOf(x, beyond) ==
  Substituted(GaussElimination(coding, MessageLen, x, beyond))[0]

\* The end of decode(), and runDecode().
PrintMessage(beyond) ==
  /\ stage = "stopped"
  /\ warned' = (iteration = MaxIterations - 1)
  /\ decoded' = MessageOf(word, beyond)
  /\ stage' = "printed"
  /\ UNCHANGED <<check, message, coding, codeword, word, iteration>>

LdpcNext ==
  \/ Encode
  \/ RefuseSize
  \/ Accept
  \/ \E x \in SUBSET Bits : Iterate(x)
  \/ \E beyond \in SUBSET Indices(MessageLen) : PrintMessage(beyond)

LdpcSpec == LdpcInit /\ [][LdpcNext]_ldpcVars
-----------------------------------------------------------------------------
\* What is sent passes every check, and when decode() comes to the word that was
\* sent, or to any other code word, the message that is printed is the one that
\* is encoded as that word, whatever gaussElimination() reads beyond the matrix.
CodeWordsDecoded ==
  /\ stage = "sent" => IsCodeWord(codeword)
  /\ stage = "printed" /\ IsCodeWord(word) =>
       /\ Times(coding, decoded) = word
       /\ word = codeword => decoded = message

\* "Decoding stopped before convergence." is printed if decode() has gone
\* through all its iterations without a code word, and only then.
WarnedOfFailure ==
  stage = "printed" => (warned <=> ~IsCodeWord(word))
=============================================================================
