CONSTANTS
  Types <- OneOfEach
  Startup <- AudioMap
  Graphics <- ShaderImage
  AssetMax = 9
  WriteMax = 2
SPECIFICATION AssetsFairSpec
INVARIANTS AssetsTypeOK UpToDate GraphicsReady
PROPERTY ChangesArrive
CHECK_DEADLOCK FALSE
