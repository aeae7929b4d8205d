\* One user setting besides an invalid one; requests may outlast Shutdown.
SPECIFICATION Spec
CONSTANTS
    UserSettings = {s1}
    Fingerprints = {f1, f2}
    RequestLimit = 3
    ShutdownTimeout = 2
INVARIANTS
    SettingsKept
    OneFingerprint
    CutOnlyLong
PROPERTIES
    FingerprintedFileKept
    SignalStops
    Recovers
