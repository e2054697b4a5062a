CONSTANTS
  Keys = {"W"}
  XrButtons = {"A"}
  MaxQueued = 2
  MaxCaptured = 3
  MaxPlain = 2
  MaxRays = 2
SPECIFICATION Spec
INVARIANTS ApplicationKnows DeliveredOnce OneRay
