SPECIFICATION Spec
CONSTANTS
  Names = {"", "word", "_rels", "document", "styles", "core", "con", "else", "[Content_Types].xml"}
  PartPool <- MCPartPool
  PackagePool <- MCPackagePool
  PartRelPool <- MCPartRelPool
  MainOptions <- MCMainOptions
  MaxParts = 3
  MaxRels = 2
  MaxAltered = 4
  MaxEntries = 5
  BadBases = {"con"}
  XmlBases = {"document", "styles", "core", "con", "[Content_Types].xml"}
INVARIANTS
  TypeOK
  BuiltIsWhole
  
  
  ReferencesMeanWhatWasDeclared
CHECK_DEADLOCK FALSE
