SPECIFICATION Spec
CONSTANTS
    MAX_UPLOAD_FILES = 2
    MAX_IMAGES = 2
    MAX_UPLOAD_BYTES = 3
    MAX_TOTAL_UPLOAD_BYTES = 4
    MIN_AOI_PX = 4
    None = None
    Picks <- Chosen
    Drags <- Dragged
    AUTO_PROBE_BYTES = 2
    MaxChanges = 2
    Overlays = {1, 2}
    MaxRuns = 2
    MaxSteps = 1
INVARIANTS
    OneRunOnPage
    ToldIsStored
    LayerAgrees
    BoardPlaysOut
PROPERTIES
    RunEnds
CHECK_DEADLOCK FALSE
