CONSTANTS
  NViews = 2
  MultiviewModes = {TRUE, FALSE}
  Loop = "example"
  Failing = {"waitFrame", "beginFrame", "locate", "acquire", "wait", "submit", "release", "end", "beginSession", "endSession", "create"}
SPECIFICATION FairSpec
INVARIANTS SessionAgrees FrameOrder LayersComplete
PROPERTIES CloseObserved ReadyAnswered StopAnswered
CHECK_DEADLOCK FALSE
