CONSTANTS
    NumSuts = 2
    Hardware <- MCHardware
    MISSING = MISSING
    BOOT_POLLS = 1
    MaxCalls = 3
SPECIFICATION Spec
\* A test run makes MaxCalls calls and ends.
CHECK_DEADLOCK FALSE
INVARIANTS
    TypeOK
    AllocationSound
PROPERTIES
    StartTerminates
