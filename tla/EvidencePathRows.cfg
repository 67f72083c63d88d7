\* One call, which reads a page that ends inside a table.
SPECIFICATION Spec
CONSTANTS
  MaxChunkChars = 12
  LastCell = 2
  Tiers <- MCTiers
  MaxEventChars = 34
  MinFrameChars = 2
  CitationChars = 2
  NoteChars = 2
  Limit = 9
  FilingChars = 1
  MaxChars = 16
  SearchChars = 5
  FrameChars = 2
  MaxResultChars = 46
  NoCompany = NoCompany
  NoCall = NoCall
  NoAnswer = NoAnswer
  NoResult = NoResult
  NoPack = NoPack
  Releases = {r1, r2}
  Calls <- MCCalls
  Sections <- MCSections
  EventLists <- MCEventLists
  FilingCounts <- MCFilingCounts
  MaxCalls = 1
  MaxPassageChars = 10
  MaxContextChars = 33
  MaxPassages = 4
  MaxPassagesPerSource = 2
  Overlap = 1
  HeaderChars = 2
  SeparatorChars = 1
INVARIANTS OnlyWholeRows
CHECK_DEADLOCK FALSE
