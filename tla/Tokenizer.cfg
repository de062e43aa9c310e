SPECIFICATION Spec
CONSTANTS
  Files <- MCFiles
  Letters <- MCLetters
  Capacity = 1
  Junk = "junk"
  Keywords <- MCKeywords
  IntMax = 31
  LongMax = 127
INVARIANTS
  TypeOK
  ScansAsC
  AcceptsAsC
  PlacesKept
  LiteralArrives
PROPERTY
  Terminates
