CONSTANTS
  alice = alice
  vault = vault
  other = other
  none = none
  Users = {alice}
  Targets = {vault, other}
  NoTarget = none
  Contents <- MCContents
  Offsets = {0}
  Checks <- MCChecks
  MaxStackSize = 2
SPECIFICATION StackSpec
INVARIANT
  StackTypeOK
PROPERTIES
  GuardSpec
  OwnChangesChecked
