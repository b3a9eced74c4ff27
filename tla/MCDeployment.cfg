CONSTANTS
    Families <- AllFamilies
    MaxFaults = 1
    Provisioned = {"afm", "apm", "asm", "avr", "cgnat", "gtm", "pem"}
SPECIFICATION Spec
INVARIANTS
    OrderIsAccepted
    Converges
    Idempotent
    NothingIsForgotten
    FailureRestores
PROPERTIES
    FirstPassKeeps
