SPECIFICATION Spec
CONSTANTS
  NSlots = 2
  Sources = {"A", "B"}
  Targets = {"D", "E"}
  Codes = {"c1", "c2", "c3", "c4"}
  Script <- Scripts
  CodeNames <- NamesOf
  CodeSigs <- SigsOf
  FnCode <- MethodsOf
  Builds <- Programs
  HashName <- HashOfName
  HashSig <- HashOfSig
  HashCode <- HashOfCode
  NoCode = NoCode
  NoArchive = NoArchive
  WorkBound = 4
  MaxHeld = 1
  MaxSegs = 4
INVARIANTS TypeOK OneEntryEach CopiesBounded SameMeaning Storable MethodsKept
PROPERTIES CopyEnds RefinesRegistry
CHECK_DEADLOCK FALSE
