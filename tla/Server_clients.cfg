SPECIFICATION FairSpec
CONSTANTS
  Socket = {a, b}
  Skipper = {sk}
  Operator = {op}
  Stranger = {st}
  Nobody = Nobody
  MaxPlayerEntries = 1
INVARIANTS
  SignalsAuthorized
  
  LogComplete
PROPERTIES
  ClosingIsRemoved
CHECK_DEADLOCK FALSE
