CONSTANTS
  Materials = {m1, m2}
  Shaders = {s1, s2}
  EngineShaders = {s1}
  Textures = {t1}
  Handles = {h1}
  MaterialCount = 4
  SamplersPerSet = 4
  MaxVersion = 3
  MaxBatches = 1
  NoShader = NoShader
  NoMaterial = NoMaterial
  NoObject = NoObject
  Meshes = Meshes
  ProviderTextures = ProviderTextures
SPECIFICATION FairSpec
INVARIANTS TransfersLive PoolExact BoundCurrent NothingLeft
PROPERTY EditsShown
CHECK_DEADLOCK FALSE
