\* A receiver and its clone over four possible values.
SPECIFICATION FairStreamSpec
CONSTANTS
    Receiver = {r1, r2}
    First = r1
    MaxPercent = 3
INVARIANT StreamTypeOK
INVARIANT NeverGoesBack
INVARIANT LastValueReceived
PROPERTY StreamEnds
