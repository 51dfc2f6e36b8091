SPECIFICATION OsdSpec
CONSTANTS
  Channels = {brightness, layout}
  Suppressible = {brightness}
  Steady = {brightness}
  Values = {v1, v2}
  OsdOutputs = {edp, hdmi}
  OsdPrimary = edp
  NoOutput = nowhere
  Unknown = unknown
  MaxOsdPosted = 2
INVARIANTS
  OsdTypeOK
  OsdIsTimed
PROPERTIES
  OsdComesAndGoes
