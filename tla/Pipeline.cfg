CONSTANTS
    Mails = {m1, m2, m3}
    None = None
    MonitorCap = 1
    LogCap = 1
SPECIFICATION FairSpec
INVARIANTS OnePlace
PROPERTIES ImplementsLifecycle MailsReturn
