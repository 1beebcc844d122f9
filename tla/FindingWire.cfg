\* What is dumped of every kind of stamp.
SPECIFICATION WireSpec
CONSTANTS
    Value <- MCValue
    MaxHops = 1
    Beyond = Beyond
    None = None
INVARIANT WireCountsMilliseconds
