SPECIFICATION HandlersSpec
CONSTANTS
    create = create  supplement = supplement  account = account  stray = stray
    ann = ann  bob = bob  annMail = annMail  bobMail = bobMail  grant1 = grant1  grant2 = grant2  None = None
    Persons = {ann, bob}  EmailOf <- MCEmailOf  Grants = {grant1, grant2}  BaseOf <- SameBase
    Allocs = {"a1", "a2"}  Users = {"u1", "u2"}  PI = "u1"
    MaxAttempts = 3  MaxCrashes = 0
    Loads <- GrantLoads  StatusLoads <- NoTours
INVARIANTS GrantsNotExceeded
CHECK_DEADLOCK FALSE
