CONSTANTS
    Conns = {a, b}
    Mails = {m1, m2}
    None = None
SYMMETRY Symmetry
SPECIFICATION Spec
INVARIANTS OwnMail DirectionKept FormPosition
PROPERTIES ImplementsLifecycle
