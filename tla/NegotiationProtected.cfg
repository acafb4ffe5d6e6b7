\* One offer and its response: nothing need be lost, repeated or late.
SPECIFICATION Spec
CONSTANTS
    MaxCalls = 2
INVARIANTS ProtectionAccepts
CHECK_DEADLOCK FALSE
