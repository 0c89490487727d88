\* One phone, two renewals under way at once, of which it waits for one.
CONSTANTS
    None = None
    Login = t1
    Tokens = {t1, t2, t3, t4, t5}
    Requests = {r1, r2}
SPECIFICATION Spec
SYMMETRY Symmetry
INVARIANT NotCutForNothing
PROPERTY RevokedIsOver
