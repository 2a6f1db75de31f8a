SPECIFICATION FairSpec
CONSTANTS
    ana = ana
    bob = bob
    ana1 = ana1
    bob1 = bob1
    ana2 = ana2
    Users = {ana, bob}
    Tokens = {ana1, ana2, bob1}
    Owner <- MCOwner
    Callers = {c1, c2}
    Main = main
    Nobody = nobody
    Garbled = garbled
    MaxUploads = 2
    MaxFaults = 1
INVARIANTS
    OneUser
    LoginSaved
    CredentialKept
PROPERTIES
    DeadRefused
    LoginRecovers
