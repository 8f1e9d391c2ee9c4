SPECIFICATION Spec
CONSTANTS
  TypeOf <- MCTypeOf
  Joined <- MCJoined
INVARIANTS QueryMeansFilter AggregateMeansRequest PagesPartition JoinMeansLookup QueryMeansRequest 
CHECK_DEADLOCK FALSE
