CONSTANTS
  guest = guest
  disk = disk
  Keys <- MCKeys
  Held <- MCHeld
  Hold <- MCHold
  Cooldown <- MCCooldown
  HoldTime = 2
  GuestCooldown = 2
  DiskCooldown = 3
  MaxAge = 3
  NProviders = 1
  MaxLag = 2
  AgeCap = 6
SPECIFICATION Spec

PROPERTIES
  AbsenceRestartsTheHold
