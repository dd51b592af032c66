SPECIFICATION Spec
CONSTANTS
  MessageLen = 3
  MaxIterations = 2
  UserKeys <- MCUserKeys
  Files <- MCFiles
  KnownWords <- MCKnownWords
  Guesses <- MCGuesses
  Outside <- MCOutside
INVARIANTS CodeWordsDecoded LinesRestored
CHECK_DEADLOCK FALSE
