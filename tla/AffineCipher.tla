---------------------------- MODULE AffineCipher ----------------------------
(***************************************************************************)
(* The affine cipher: a file of lines is encrypted with one key, and each  *)
(* line either decrypted with that key or given to the analysis, which has *)
(* to find a key.                                                          *)
(*                                                                         *)
(* A letter is its position in the alphabet, a line a sequence of words;   *)
(* the space between them is left alone.  Products of keys and letters     *)
(* beyond the range of int are left out.                                   *)
(***************************************************************************)
EXTENDS Integers, Sequences, SequencesExt, FiniteSets, FiniteSetsExt

CONSTANTS
  UserKeys,     \* keys that the user gives
  Files,        \* plaintext files: sequences of lines
  KnownWords,   \* TOP_N_WORDS
  Guesses,      \* the lists of candidate keys
  Outside       \* what memory before the table of inverses holds

VARIABLES
  mode,      \* "decrypt" or "analyse"
  userKey,   \* the key the file was encrypted with
  file,      \* the plaintext
  cipher,    \* the lines to decrypt
  phase,     \* where the program is
  guesses,   \* candidateKeys, those that have not been tried yet
  bestKey,   \* bestKey of findKeys()
  trial,     \* the Crypto object of findKeys()
  crypto,    \* the Crypto object of doCryptoAnalysis()
  output     \* the lines printed: the text, and the key used

affineVars == <<mode, userKey, file, cipher, phase, guesses, bestKey, trial, crypto, output>>

Letters == 0 .. 25

Key(a, b) == [a |-> a, b |-> b]

\* The remainder as C++ has it.
Rem(x, n) == IF x < 0 THEN -((-x) % n) ELSE x % n

Shifted(x) == IF Rem(x, 26) < 0 THEN Rem(x, 26) + 26 ELSE Rem(x, 26)

Table == <<-1, 1, -1, 9, -1, 21, -1, 15, -1, 3, -1, 19, -1,
           -1, -1, 7, -1, 23, -1, 11, -1, 5, -1, 17, -1, 25>>

\* multiplicativeInverse(): the remainder of a negative number is outside of the
\* table.
Inverses(a) == IF Rem(a, 26) < 0 THEN Outside ELSE {Table[Rem(a, 26) + 1]}

EncryptChar(c, a, b) == Shifted(c * a + b)

DecryptChar(c, inverse, b) == Shifted(inverse * (c - b))

\* Each letter is looked up in a table.
OnLetters(line, table) ==
  [w \in DOMAIN line |-> [i \in DOMAIN line[w] |-> table[line[w][i]]]]

Encrypt(line, key) == OnLetters(line, [c \in Letters |-> EncryptChar(c, key.a, key.b)])

\* A Crypto object, as far as decrypting goes.
NewCrypto == [b |-> -1, inverse |-> -1, table |-> << >>, hasTable |-> FALSE]

\* Slip: init() leaves the table of the last key.
InitCryptoSlip(object, key, inverse) ==
  [object EXCEPT !.b = key.b, !.inverse = inverse]

\* init() throws if the inverse is -1.
InitCrypto(object, key, inverse) ==
  [object EXCEPT !.b = key.b, !.inverse = inverse, !.hasTable = FALSE]

MakeDecryptTable(object) ==
  IF object.hasTable THEN object
  ELSE [object EXCEPT !.table = [c \in Letters |-> DecryptChar(c, object.inverse, object.b)],
                      !.hasTable = TRUE]

Decrypted(object, line) == OnLetters(line, object.table)
-----------------------------------------------------------------------------
\* analyseWords(): the extraction that finds the end of the line leaves the last
\* word in place, which is counted again.
Counted(text) == IF text = << >> THEN << << >> >> ELSE Append(text, Last(text))

Known(text) == Cardinality({i \in DOMAIN Counted(text) : Counted(text)[i] \in KnownWords})

\* knownWords.second / knownWords.first > SUFFICIENT_KNOWN_WORDS_RATIO, which is
\* 0.2.  All decryptions of a line have the same number of words.
Sufficient(known, line) == 5 * known > Len(Counted(line))

AKeyOpts == {1, 3, 5, 7, 9, 11, 15, 17, 19, 21, 23, 25}

AllKeys == [a : AKeyOpts, b : Letters]

Lines == Seq(Seq(Letters))

\* findCandidateKeys() only keeps keys with an inverse.
ASSUME CipherAssumption ==
  /\ UserKeys \subseteq [a : Int, b : Int]
  /\ Files \subseteq Seq(Lines)
  /\ Guesses \subseteq Seq(AllKeys)
  /\ Outside \subseteq Int

With(key, line) ==
  Decrypted(MakeDecryptTable(InitCrypto(NewCrypto, key, Table[key.a + 1])), line)

NoKey == Key(0, 0)

\* findByDictionary(): the first of the keys with most known words.
FindByDictionary(line) ==
  LET most  == Max({Known(With(k, line)) : k \in AllKeys})
      bestA == Min({k.a : k \in {k \in AllKeys : Known(With(k, line)) = most}})
      bestB == Min({k.b : k \in {k \in AllKeys : k.a = bestA /\ Known(With(k, line)) = most}})
  IN  [key |-> IF most = 0 THEN NoKey ELSE Key(bestA, bestB), known |-> most]

\* findKeys() after the candidates.
ChosenKey(best, line) ==
  IF Sufficient(best.known, line) THEN best.key
  ELSE IF FindByDictionary(line).known > best.known THEN FindByDictionary(line).key
  ELSE best.key
-----------------------------------------------------------------------------
NoBest == [key |-> NoKey, known |-> 0]

AffineStart(how, key, lines) ==
  /\ mode = how
  /\ userKey = key
  /\ file = lines
  /\ cipher = << >>
  /\ phase = "encrypt"
  /\ guesses = << >>
  /\ bestKey = NoBest
  /\ trial = NewCrypto /\ crypto = NewCrypto
  /\ output = << >>

AffineInit ==
  \E how \in {"decrypt", "analyse"}, key \in UserKeys, lines \in Files :
    AffineStart(how, key, lines)

\* main(), -e, once for each line.
EncryptFile ==
  /\ phase = "encrypt"
  /\ \E inverse \in Inverses(userKey.a) :
       IF inverse = -1 THEN phase' = "invalid key" /\ UNCHANGED cipher
       ELSE /\ phase' = mode
            /\ cipher' = [l \in DOMAIN file |-> Encrypt(file[l], userKey)]
  /\ UNCHANGED <<mode, userKey, file, guesses, bestKey, trial, crypto, output>>

IsNext(l) == l \in DOMAIN cipher /\ Len(output) = l - 1

Printed(text, key) == output' = Append(output, [text |-> text, key |-> key])

\* main(), -d.
DecryptLine(l) ==
  /\ phase = "decrypt" /\ IsNext(l)
  /\ \E inverse \in Inverses(userKey.a) :
       IF inverse = -1 THEN phase' = "invalid key" /\ UNCHANGED output
       ELSE /\ UNCHANGED phase
            /\ LET object == MakeDecryptTable(InitCrypto(NewCrypto, userKey, inverse))
               IN  Printed(Decrypted(object, cipher[l]), userKey)
  /\ UNCHANGED <<mode, userKey, file, cipher, guesses, bestKey, trial, crypto>>

\* findCandidateKeys() looks for the inverses of differences of letters, half of
\* which are negative: any list of keys may come of it.
FindCandidateKeys(l, list) ==
  /\ phase = "analyse" /\ IsNext(l)
  /\ phase' = "guess"
  /\ guesses' = list
  /\ bestKey' = NoBest
  /\ trial' = NewCrypto
  /\ UNCHANGED <<mode, userKey, file, cipher, crypto, output>>

TryCandidate(l) ==
  /\ phase = "guess" /\ IsNext(l) /\ guesses # << >>
  /\ guesses' = Tail(guesses)
  /\ LET key    == Head(guesses)
         object == MakeDecryptTable(InitCrypto(trial, key, Table[key.a + 1]))
         known  == Known(Decrypted(object, cipher[l]))
     IN  /\ trial' = object
         /\ bestKey' = IF known > bestKey.known THEN [key |-> key, known |-> known]
                       ELSE bestKey
  /\ UNCHANGED <<mode, userKey, file, cipher, phase, crypto, output>>

\* A line in which no key shows a known word has the key 0, 0, and init() throws.
PrintLine(l) ==
  /\ phase = "guess" /\ IsNext(l) /\ guesses = << >>
  /\ LET key    == ChosenKey(bestKey, cipher[l])
         object == MakeDecryptTable(InitCrypto(crypto, key, Table[key.a + 1]))
     IN  IF object.inverse = -1 THEN phase' = "invalid key" /\ UNCHANGED <<crypto, output>>
         ELSE /\ phase' = "analyse"
              /\ crypto' = object
              /\ Printed(Decrypted(object, cipher[l]), key)
  /\ UNCHANGED <<mode, userKey, file, cipher, guesses, bestKey, trial>>

AffineNext ==
  \/ EncryptFile
  \/ \E l \in 1 .. Len(file) :
       \/ DecryptLine(l)
       \/ \E list \in Guesses : FindCandidateKeys(l, list)
       \/ TryCandidate(l)
       \/ PrintLine(l)

AffineSpec == AffineInit /\ [][AffineNext]_affineVars
-----------------------------------------------------------------------------
\* With the key it was encrypted with, a line is restored.  The analysis prints
\* what its key makes of the line, and there is a word in five known in it, or
\* no key finds more: no line is decrypted with the table of another one's key.
LinesRestored ==
  \A l \in DOMAIN output :
    LET text == output[l].text
        key  == output[l].key
    IN  /\ mode = "decrypt" /\ userKey.a >= 0 => text = file[l]
        /\ mode = "analyse" =>
             /\ Encrypt(text, key) = cipher[l]
             /\ \/ Sufficient(Known(text), text)
                \/ \A k \in AllKeys : Known(With(k, cipher[l])) <= Known(text)
=============================================================================
