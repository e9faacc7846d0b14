SPECIFICATION FairSpec
CONSTANTS
  MaxRows = 1
  MaxChanges = 0
  ColumnSets <- SomeColumns
PROPERTY RunSelectReturns
