CONSTANTS
  MaxFramesInFlight = 2
  MaxSwapchains = 8
  MaxMultiviewViews = 2
  NViews = 2
  Images = {i1, i2, i3}
  UsesImageAvailableSemaphore = TRUE
  MultiviewModes = {FALSE}
  Outcomes <- DesktopOutcomes
SPECIFICATION FramesSpec
INVARIANTS TypeOK SlotFree FenceOwned DrawTargetsLive
PROPERTY CallReturns
CHECK_DEADLOCK FALSE
