\* A number and the receipt cited for it.
SPECIFICATION Spec
CONSTANTS
  Questions <- MCQuestions
  Runs <- MCRuns
  Leads <- MCLeads
  Repairs <- MCRepairs
  Latin = {"XBRL"}
  Failure = Failure
  MaxSize = 9
  Overlapping = {{"annual", "corrected annual"}}
  AnySection = {"any"}
INVARIANT NumbersAreOfTheirReceipt
