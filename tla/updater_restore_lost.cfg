SPECIFICATION Spec
CHECK_DEADLOCK FALSE
CONSTANTS
    Modes = {"manual", "handoff"}
    InstallModes = {"portable"}
    PackageKinds = {"hangs"}
    MaxFaults = 0
    MaxKills = 0
    MaxStarts = 1
INVARIANTS
    InstallStateProven
