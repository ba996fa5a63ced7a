\* One file name in two directories, one PID used twice, words of three values (0, one
\* PID and the sentinel), so that a batch of three is too large to count.
SPECIFICATION Spec
CONSTANTS
    Word = 3
    Dir = {d1, d2}
    Name = {n1}
    Bad = bad
    None = None
    Platform = {"windows", "other"}
    CreationTime <- Times
    Pid = 1
    Code <- Codes
    MaxItems = 3
    MaxFilters = 2
SYMMETRY Symmetry
INVARIANT SuccessIsWholeBatch
INVARIANT IdentityIsOfItsProcess
INVARIANT FiltersRoundTrip
INVARIANT CausesSurvive
