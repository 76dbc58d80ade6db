SPECIFICATION Spec
CONSTANTS
 Requests = {"r1", "r2"}
 JsonpNames = {"n1", "n2"}
 Options <- Settled
 MaxActs = 4
INVARIANTS
 ModulesLoad
 RequestsSound
 PageSound
 PluginsAtRest
PROPERTY PageMovesOn
CHECK_DEADLOCK FALSE
