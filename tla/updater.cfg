SPECIFICATION Spec
CHECK_DEADLOCK FALSE
CONSTANTS
    Modes = {"manual", "handoff"}
    InstallModes = {"portable", "msi"}
    PackageKinds = {"good", "noexe", "mismatch", "hangs", "unlaunchable"}
    MaxFaults = 2
    MaxKills = 1
    MaxStarts = 2
INVARIANTS
    InstallStateTruthful
    SomeTreeWhole
    OneCallInFlight
