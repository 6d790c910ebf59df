CONSTANTS
    ByteBase = 256
    Channels = 4
    DepBlocks <- MCDepBlocks
    MaxDeps = 3
SPECIFICATION Spec
INVARIANT CodecRoundTrip
INVARIANT BlockidsExtendedByDependencies
