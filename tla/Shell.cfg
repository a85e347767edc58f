CONSTANTS
  Symbol <- MCSymbol
  Lines <- MCLines
  File <- MCFile
  Dirs <- MCDirs
  SixLetters <- MCSixLetters
  Entries = 10
  MaxRest = 6
  MaxWords = 6
  MaxPath = 5
SPECIFICATION Spec
INVARIANTS ArgvIsWords LsOpensPwd ScriptLineByLine
PROPERTIES CdResolves
CHECK_DEADLOCK FALSE
