CONSTANTS
  Jobs <- FalseJobs
SPECIFICATION Spec
PROPERTIES
  ExpandsAsDocumented
