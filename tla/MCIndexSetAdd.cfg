SPECIFICATION Spec
CONSTANTS
    Names = {x}
    MAX = 7
    Ranges <- MCRanges
    KeptRanges <- MCRanges
PROPERTIES
    AddRangeAdds
