\* Every kind of value, carried over seven hops.
SPECIFICATION WireSpec
CONSTANTS
    Value <- MCValue
    MaxHops = 7
    Beyond = Beyond
    None = None
INVARIANTS WireTypeOK ExactInEra DriftIsBounded
PROPERTY DriftSettles
