SPECIFICATION Spec

CONSTANTS
    o1 = o1
    o2 = o2
    a = a
    t1 = t1
    t2 = t2
    Tabs = {t1, t2}
    Options = {o1, o2}
    Labels = {a}
    MaxTag = 2
    Junk = Junk
    None = None
    StartRows <- MCRows
    StartDefaults <- MCDefaults
    MaxChanges = 2
    MaxSaves = 2

SYMMETRY Symmetry

PROPERTY UntouchedOverridesSurvive
 
PROPERTY UntouchedDefaultsSurvive

\* Changes and saves are bounded.
CHECK_DEADLOCK FALSE
