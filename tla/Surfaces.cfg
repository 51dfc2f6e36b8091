SPECIFICATION MCSpec
CONSTANTS
  Outputs = {edp, hdmi}
  Primary = edp
  NoOutput = nowhere
  MaxPosted = 2
  MaxUsed = 2
  Monitors = {ma, mb}
  Wallpapers = {pa, pb}
  Covers = {pa}
  NoPicture = nopicture
  MaxHosts = 3
  MaxAddresses = 2
  MaxEvents = 1
  MaxTracks = 2
INVARIANTS
  TypesOK
  OverlaysAgree
  MonitorsAreServed
PROPERTIES
  OnlyEndedAreRemoved
