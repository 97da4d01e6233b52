SPECIFICATION DataSpec
CONSTANTS
    open = open
    gated = gated
    Corpora = {open, gated}
    Models = {base}
    Hub = {open, base}
    Parts = {f1, f2}
    Scripts <- MCScripts
    Runs = {"vqa", "caption"}
    RequiredBy <- Needed
    None = None
    MaxCommands = 2
    MaxReleases = 1
    MaxSent = 3
SYMMETRY FilesAlike
INVARIANTS
    LockedIsWhole
    VerdictsTell
CHECK_DEADLOCK FALSE
