CONSTANTS
    Blocks <- MCBlocks
    blockids <- MCBlockids
    RequestedBlock = 113
    Undefined = Undefined
    MaxLoadBuf = 2
    ResponsesCanFail = FALSE
    ByteBase = 256
    Channels = 4
    NoFeature = NoFeature
    NoHit = NoHit
    NoMesh = NoMesh
    ReloadCtorOutcomes = {"throws", "returns"}
    MeshUnions <- MCMeshUnions
SPECIFICATION Spec
INVARIANT NativeObjectsReleased
