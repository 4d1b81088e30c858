SPECIFICATION ReaderSpec
CONSTANTS
  NUM_OF_GRADE_COMPONENTS = 2
  Weight <- MCWeight
  Grades <- MCGrades
  MinStudents = 1
  MaxStudents = 3
  LastRowEnds = TRUE
  MayFail = TRUE
INVARIANTS
  GradesAreRight
