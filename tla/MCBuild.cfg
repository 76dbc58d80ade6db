SPECIFICATION Spec
CONSTANTS
  MaxPrims = 5
  MaxPrimOps = 3
INVARIANTS
 NamesFinal
 LayersWhole
 MapsLead
 SheetsKept
PROPERTIES
 PromisesKept
 ConfigMerged
 ModulesCarried
 ShrunkDoesSame
CHECK_DEADLOCK FALSE
