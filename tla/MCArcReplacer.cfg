SPECIFICATION HSpec
CONSTANTS
    Frames = {f1, f2, f3}
    SmallFrames = {f1, f2}
    Pages = {p1, p2, p3, p4, p5}
    AccessTypes = {"Lookup", "Scan"}
    None = None
SYMMETRY Symmetry
INVARIANTS
    DirectoryConsistent
    BoundsWithoutScans
PROPERTIES
    EvictsLeastRecent
    ImplementsReplacer
