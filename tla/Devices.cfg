SPECIFICATION MCSpec
CONSTANTS
  stick = stick
  disk = disk
  home = home
  Drives = {stick, disk}
  Volumes = {home}
  Discs = {disk}
  DriveOf <- DriveOfEach
  MaxErrors = 2
  Inhibitors = {i1}
  MaxEvents = 2
  MaxObjects = 3
  MaxCookies = 2
  Percents = {5, 15, 60}
  Warning = 20
  Critical = 10
  MaxBatterySignals = 2
  Preferred = upower
  Legacy = hadess
  Profiles = {balanced, saver}
  NoDaemon = nodaemon
  MaxProfileSignals = 3
  MaxBrightness = 120
  Requests = {0, 1, 51, 99, 100}
  Keys = {0, 7, 120}
  MaxBrightnessCalls = 2
  Streams = {s1, s2}
  AudioApps = {player, web}
  AudioVolumes = {10}
  NoRequest = norequest
  MaxCommands = 2
  Layouts = {english, german}
  NoLayout = nolayout
  Garbled = garbled
  ChunkPieces = 3
  MaxLines = 2
  MaxStops = 2
  Windows = {wa, wb, wc}
  MaxWorkspaces = 6
  MaxSnapshots = 4
INVARIANTS
  TypesOK
  DaemonsAreMirrored
  PowerIsFollowed
PROPERTIES
  NothingMovesUnasked
