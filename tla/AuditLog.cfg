CONSTANTS
  MaxLines = 3
  RetentionSecs = 1
  LegacyLines = 1
  MaxEvents = 7
  MaxSeconds = 3
SPECIFICATION Spec
INVARIANTS
  TypeOK
  VerdictIsRight
  
