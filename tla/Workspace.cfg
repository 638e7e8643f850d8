SPECIFICATION Spec
CONSTANTS
  MAX_WORKSPACE_FILES = 5
  MaxFiles = 12
INVARIANTS
  WorkspaceInv
