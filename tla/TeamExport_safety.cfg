SPECIFICATION Spec
CONSTANTS
  alice = alice
  bob = bob
  laptop = laptop
  desktop = desktop
  bobs = bobs
  key1 = key1
  key2 = key2
  key3 = key3
  User = {alice, bob}
  Pusher = {laptop, desktop, bobs}
  UserOf <- MCUserOf
  KeyOf <- MCKeyOf
  Keyring <- MCKeyring
  NoKey = NoKey
  SpendAt <- MCSpendAt
  MaxTime = 1
  MaxPushes = 3
  MaxFiles = 2
INVARIANTS TypeOK MergeIsCurrent RollupCountsEachOnce
PROPERTY PublishedIsKept
CHECK_DEADLOCK FALSE
