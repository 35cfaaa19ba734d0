SPECIFICATION Spec
CONSTANTS
  N = 4
  Data = {0, 1}
  Zero = 0
  Inputs <- MCInputs
  Requests = {0, 1, 2, 4}
  Careful = FALSE
PROPERTY RollBackIsHonest
