SPECIFICATION Spec
CONSTANTS
  Blocks = 2
  a = a
  b = b
  Contents = {a, b}
  SerialSize = 4
  default_environment <- const_default
PROPERTIES BackupKept SaveIsAtomic SavedIsStored
