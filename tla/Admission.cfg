SPECIFICATION EndpointSpec
CONSTANTS
  Keys <- AllKeys
  Values <- AllValues
  Calls <- SomeCalls
  Null = Null
INVARIANTS
  DecodingExact
  ServedCallsAreGood
  RefusalsAreTrue
  StrangersLearnNothing
