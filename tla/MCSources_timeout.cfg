SPECIFICATION FairSpec
PROPERTY TimeoutBoundsCollection
