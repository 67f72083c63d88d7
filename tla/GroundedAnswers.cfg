\* The builder with every draft, introduction and repair of a small evidence.
SPECIFICATION Spec
CONSTANTS
  Questions <- MCQuestions
  Runs <- MCRuns
  Leads <- MCLeads
  Repairs <- MCRepairs
  Latin = {"XBRL"}
  Failure = Failure
  MaxSize = 9
  Overlapping = {{"annual", "corrected annual"}}
  AnySection = {"any"}
INVARIANTS
  NumbersAreCited
  LockedFactsSurvive
  CorrectionsShown
PROPERTY OneModelCall
