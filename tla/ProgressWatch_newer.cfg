\* The documented claim that recv returns a newer value.
SPECIFICATION StreamSpec
CONSTANTS
    Receiver = {r1, r2}
    First = r1
    MaxPercent = 2
INVARIANT RecvReturnsNewer
