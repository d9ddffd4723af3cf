\* Two tabs of one browser and two messages alive at once; seven tokens, for
\* at most five are in use when middleware and handler draw two; every route,
\* header, error and answer; numbers on both sides of zero and everything a
\* flag can be.  A process that has read its settings, or refused them, does
\* nothing more here.
CONSTANTS
    Tabs = {t1, t2}
    Tokens = {1, 2, 3, 4, 5, 6, 7}
    Notes = {n1, n2}
    Unset = Unset
    Garbage = Garbage
    Numbers <- AroundZero
SPECIFICATION WebSpec
SYMMETRY TabsAndNotes
CHECK_DEADLOCK FALSE
INVARIANTS
    WebTypeOK
    RefusedOnlyIfReplaced
    ShownTwiceOnlyIfShared
    LostOnlyIfSwallowed
    FailureNotSuccess
    OneBody
    RunningSettingsUsable
