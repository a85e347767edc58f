CONSTANTS
  Fan = 4
  Frames = 14
  UserPages <- MCUserPages
  Found <- MCFound
SPECIFICATION Spec
PROPERTIES SpaceRefinement
CHECK_DEADLOCK FALSE
