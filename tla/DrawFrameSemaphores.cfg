CONSTANTS
  MaxFramesInFlight = 2
  MaxSwapchains = 8
  MaxMultiviewViews = 2
  NViews = 1
  Images = {i1, i2, i3}
  UsesImageAvailableSemaphore = TRUE
  MultiviewModes = {FALSE}
  Outcomes <- DesktopNoSuboptimal
SPECIFICATION Spec
INVARIANT RenderSemaphoreFree
CHECK_DEADLOCK FALSE
