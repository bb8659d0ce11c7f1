CONSTANTS
    Regions <- MCRegions
    PageSizes = {1, 2, 4}
    Counts = {1, 2}
    NoFrame = NoFrame
SPECIFICATION Spec
INVARIANTS TypeOK OwnedOnce RangesPlaced HintExact FailsOnlyWhenFull
