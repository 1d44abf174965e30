\* The skew of the rows is within the margin.
SPECIFICATION Spec
CONSTANTS
  MaxTime = 3  Skew = 2  MaxEvents = 3  MaxRows = 4
  Limit = 2  CsvPage = 2  CsvLimit = 3  Margin = 2  Span = 2
INVARIANTS Complete NoRepeat
PROPERTIES Descends
