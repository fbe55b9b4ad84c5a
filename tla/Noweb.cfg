CONSTANTS
    Conns = {s, i, p}
    Smtp = {s}
    Imap = {i}
    Pop3 = {p}
    Mails = {m1, m2}
    None = None
SYMMETRY Symmetry
SPECIFICATION Spec
INVARIANTS OwnMail
PROPERTIES LifecycleKept
