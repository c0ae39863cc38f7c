\* Two syncs of a file and a submodule git tracks or might, and a file that it
\* ignores.
CONSTANTS
    Syncs = {p1, p2, p3, p4}
    Encoders = {p1}
    CodePaths = {f, g}
    ExtraPaths = {x}
    Submodules = {g}
    Ids = {i1, i2, i3}
    Gone = Gone
    Elsewhere = Elsewhere
    None = None
    MaxEdits = 2
    MaxAdds = 1
SPECIFICATION Spec
CONSTRAINT OneAfterTheOther
SYMMETRY Symmetry
CHECK_DEADLOCK FALSE
INVARIANTS
    TypeOK
    EncodedWasOnDisk
    ResolvedIdIsStable
