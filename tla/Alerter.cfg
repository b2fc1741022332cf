CONSTANTS
  guest = guest
  disk = disk
  Keys <- MCKeys
  Held <- MCHeld
  Hold <- MCHold
  Cooldown <- MCCooldown
  HoldTime = 2
  GuestCooldown = 1
  DiskCooldown = 3
  MaxAge = 3
  NProviders = 2
  MaxLag = 2
  AgeCap = 8
SPECIFICATION FairSpec
INVARIANTS
  TypeOK
  ReportedInTime
PROPERTIES
  RepeatsAreSpaced
  OkRestartsTheHold
  KeepsPromise
  BadIsReported
