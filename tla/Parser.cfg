SPECIFICATION Spec
CONSTANTS
  Vocabularies <- MCVocabularies
INVARIANTS
  ParsesAsC
  AllOperandsUsed
  CrashesWhereKnown
