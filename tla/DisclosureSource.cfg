CONSTANTS
  NumFilings = 4
  Corrections = {2, 3, 4}
  Report <- Reports
  NoDocument = {3}
  MaxDocuments = 1
  MaxNewDownloads = 1
  MaxWithdrawn = 1
SPECIFICATION Spec
INVARIANTS
  SourceTypeOK
  LineageFollowsObservation
  OneLatestPerChain
  HistoryAnswersLinks
PROPERTIES
  LinksPersist
