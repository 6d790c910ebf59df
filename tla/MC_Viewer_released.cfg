CONSTANTS
    Blocks <- MCBlocks
    blockids <- MCBlockids
    RequestedBlock = 113
    Undefined = Undefined
    MaxLoadBuf = 2
    ResponsesCanFail = FALSE
    ByteBase = 256
    Channels = 4
    NoFeature = NoFeature
    NoHit = NoHit
    NoMesh = NoMesh
    ReloadCtorOutcomes = {"returns"}
    MeshUnions <- MCMeshUnions
\* The constructor of reloadOdrMap is taken to accept its five arguments,
\* so the only deleted objects are those the clear_map teardown leaves.
SPECIFICATION Spec
INVARIANT NoReleasedObjectUsed
