\* The documented claim that RmEndSession is called once.
SPECIFICATION Spec
CONSTANTS
    Session = {s1}
    Thread = {c1}
    Slot = {k1}
    None = None
    MaxTries = 2
INVARIANT EndSessionCalledOnce
