SPECIFICATION HandlersSpec
CONSTANTS
    create = create  supplement = supplement  account = account  stray = stray
    ann = ann  bob = bob  annMail = annMail  bobMail = bobMail  grant1 = grant1  grant2 = grant2  None = None
    Persons = {ann, bob}  EmailOf <- MCEmailOf  Grants = {grant1, grant2}  BaseOf <- SameBase
    Allocs = {"a1", "a2"}  Users = {"u1", "u2"}  PI = "u1"
    MaxAttempts = 2  MaxCrashes = 1
    Loads <- MCLoads  StatusLoads <- MCTours
INVARIANTS   GrantsCovered
PROPERTY CommitFindsApplied
\* Every packet settled and every user created: nothing is left to do.
CHECK_DEADLOCK FALSE
