CONSTANTS
  d1 = d1
  d2 = d2
  p1 = p1
  NoDevice = NoDevice
  Procs = {p1}
  Devices = {d1, d2}
  Full = 2
  MaxFaults = 2
  DesktopHosts <- Desktops
  XrHosts <- Headsets
SPECIFICATION Spec
INVARIANTS ChildrenFirst AllReleased TargetsFit SetUpSafe CacheWhole
