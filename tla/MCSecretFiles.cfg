SPECIFICATION Spec
CONSTANTS
    r1 = r1
    r2 = r2
    r3 = r3
    r4 = r4
    v = v
    w = w
    Runs = {r1, r2, r3, r4}
    Inputs <- MCInputs
    SecretDir <- MCSecretDir
    DirOf <- MCDirOf
    Existing <- MCExisting
    Fields <- MCFields
    User = User
    None = None
    IoMayFail = TRUE
    MayBeKilled = TRUE
INVARIANTS
    TypeOK
    NoPartialCopies
    UserFilesStay
    AnnouncedCopiesStay
CHECK_DEADLOCK FALSE
