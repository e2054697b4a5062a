CONSTANTS
  MaxFramesInFlight = 2
  MaxSwapchains = 8
  MaxMultiviewViews = 2
  NViews = 1
  Images = {i1, i2}
  UsesImageAvailableSemaphore = TRUE
  MultiviewModes = {FALSE}
  Outcomes <- DesktopOutcomes
SPECIFICATION Spec
INVARIANT UploadsOrdered
CHECK_DEADLOCK FALSE
