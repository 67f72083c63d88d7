\* Three requests: one can wait behind two others, and a run can outlive its
\* handler while the next request's job is in the pool.  One model call and the
\* builder's repair; no symmetry, for the liveness of the stop.
CONSTANTS
  Requests = {r1, r2, r3}
  NoRequest = NoRequest
  Timeout = 1
  RepairTimeout = 1
  MaxModelCalls = 1
SPECIFICATION FairSpec
INVARIANTS
  SemaphoreSafe
  OrphansAreCancelled
  AtMostOneLateCall
  ServiceOutlivesRuns
  BoundedWait
PROPERTIES
  NoAbandonedStart
  ImplementsContract
  StopCompletes
