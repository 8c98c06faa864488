CONSTANTS
  Jobs <- PassJobs
SPECIFICATION Spec
INVARIANTS
  TypeOK
  BracketsAgree
  ExpressionsEnd
  CountsForStarts
  SpecialLabelsInRange
  OutputReadsBack
  ReferencesMeetLabels
PROPERTIES
  SavedWithoutErrors
  ExpandsAsDocumented
  Terminates
