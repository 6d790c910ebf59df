CONSTANTS
    ByteBase = 256
    Channels = 4
    NoFeature = NoFeature
    NoHit = NoHit
    MeshUnions <- MeshUnionsWithObjects
SPECIFICATION Spec
INVARIANT TypeOK
INVARIANT HighlightMatchesIntersected
PROPERTY PickSelectsFeatureUnderCursor
