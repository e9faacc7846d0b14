SPECIFICATION FairSpec
CONSTANTS
  MaxRows = 2
  MaxChanges = 1
  ColumnSets <- SomeColumns
INVARIANTS TypeOK ResultWhole 
PROPERTY ToolCallEnds
