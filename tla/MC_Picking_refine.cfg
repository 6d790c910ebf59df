CONSTANTS
    ByteBase = 256
    Channels = 4
    NoFeature = NoFeature
    NoHit = NoHit
    MeshUnions <- MeshUnionsSomeObjects
SPECIFICATION Spec
PROPERTY PickingImplementsHighlight
