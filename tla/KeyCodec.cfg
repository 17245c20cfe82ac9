\* Big-endian keys order outputs by coordinates.
CONSTANTS
    Base <- MCBase
    MaxHeight <- MCMaxHeight
    MaxIndex <- MCMaxIndex

SPECIFICATION Spec

INVARIANT KeyOrderMatchesCoordOrder
