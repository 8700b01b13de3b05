SPECIFICATION Spec
CONSTANTS
    r1 = r1
    r2 = r2
    r3 = r3
    r4 = r4
    v = v
    w = w
    Runs = {r1}
    Inputs <- TwiceInputs
    SecretDir <- MCSecretDir
    DirOf <- MCDirOf
    Existing <- MCExisting
    Fields <- MCFields
    User = User
    None = None
    IoMayFail = FALSE
    MayBeKilled = FALSE
INVARIANTS
    CopiesStay
CHECK_DEADLOCK FALSE
