CONSTANTS
  None = None

SPECIFICATION Spec

INVARIANT MigrationsMirrorInitDb
