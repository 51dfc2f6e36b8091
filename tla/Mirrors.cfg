SPECIFICATION MCSpec
CONSTANTS
  home = home
  cafe = cafe
  AccessPoints = {home, cafe}
  Ssid <- SsidOf
  Secured = {home}
  Wired = wired
  NoConnection = noconnection
  MaxChanges = 2
  ka = ka
  kb = kb
  kc = kc
  TrayKeys = {ka, kb, kc}
  TrayService <- ServiceOf
  MaxMessages = 2
  MenuItems = {ma, mb}
  MenuOutput = out
  NoOutput = nowhere
  MaxMenus = 3
  Players = {pa, pb}
  NoPlayer = nobody
  Tracks = {t1}
  Controllable = {pa}
  MaxSignals = 2
  MaxInterest = 1
  Unreliable = {pb}
  HttpCovers = {ca}
  LocalCovers = {cb, cc}
  CacheBudget = 1
  MaxAsked = 4
  a1 = a1
  a2 = a2
  Adapters <- AdaptersListed
  Devices = {d1}
  NoTarget = nothing
INVARIANTS
  TypesOK
  NetworkIsTold
  TrayIsTrue
  MediaIsTrue
  BluetoothFollowsTheUser
