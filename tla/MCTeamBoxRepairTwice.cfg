\* A build that does not reload team_box_stats repairs it again.
SPECIFICATION Spec
CONSTANTS
  none = none
  None <- none
  Season <- MCSeason
  Count <- MCCount
PROPERTY SecondRunWritesTheSame
