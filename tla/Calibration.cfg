CONSTANTS
  Processes = {p, q}
  CalibrationSize = 2
  Bugs = {1}
  Files = {first, second}
  Default = first
  Absent = Absent
  Unfinished = Unfinished
SPECIFICATION CalSpec
INVARIANTS
  CalibrationEarned
CHECK_DEADLOCK FALSE
SYMMETRY Interchangeable
