CONSTANTS
    Families <- TwoPools
    MaxFaults = 0
    Provisioned = {"afm", "apm", "asm", "avr", "cgnat", "gtm", "pem"}
SPECIFICATION Spec
INVARIANT PoolsHaveMembers
