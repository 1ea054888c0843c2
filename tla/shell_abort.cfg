SPECIFICATION Spec
CONSTANTS
  MaxCmds = 3
  MaxTokens = 2
  Jobs = {1, 2}
  None = None
INVARIANTS NeverAborts
