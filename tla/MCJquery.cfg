SPECIFICATION Spec
CONSTANTS
 f1 = f1
 f2 = f2
INVARIANTS
 ListsServed
 QueuesServed
 EventsServed
 NodesKept
 ValuesTrue
 SelectorsAgree
 PlacesAgree
 DataAgree
CHECK_DEADLOCK FALSE
