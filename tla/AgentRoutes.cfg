\* Three subjects, so that a question can be answered in part and a loop leave
\* one of two companies out; a budget of six calls, of which a sector's ranking
\* can use all.
CONSTANTS
  a = a
  b = b
  c = c
  s1 = s1
  s2 = s2
  s3 = s3
  Plain = {a, b}
  Corrections = {c}
  Names <- CorrectionNames
  Subjects = {s1, s2, s3}
  About <- FilingSubjects
  NoSubject = NoSubject
  Reads = {r1}
  Lookups = {l1}
  NoCall = NoCall
  MaxToolCalls = 6
  MaxModelCalls = 1
  MaxTurn = 1
  MaxCompanies = 2
SPECIFICATION FairRoutesSpec
INVARIANTS
  CalculationsHaveRoom
  AnswersCoverTheQuestion
PROPERTIES
  ImplementsAgentRun
  RoutesEnd
