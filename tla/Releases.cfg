\* Two processes side by side and five tools started on what one run of the
\* chain has left, or on nothing; a second revision of the corpus.
CONSTANTS
  b1 = b1
  b2 = b2
  Builders = {b1, b2}
  Tools <- AllTools
  MaxRevision = 1
  MaxJobs = 5
  Nothing = Nothing
SYMMETRY Symmetry
SPECIFICATION Spec
INVARIANTS
  LineageResolves
  ServedTogether
  BaselineOfOneLineage
  NeverMixed
  NothingLeftOut
