\* The program may stop: all mails settled and Stop not called, or a crash.
CONSTANTS
    n1 = n1  n2 = n2  w1 = w1  w2 = w2
    NoMail = NoMail
    Notices = {n1, n2}
    Workers = {w1, w2}
    QueueSize = 1
    MaxRetries = 2
SPECIFICATION Spec
INVARIANTS
    EmailTypeOK
    MailInOnePlace
    GracefulStop
    DeliveriesBounded
PROPERTIES
    EveryMailSettles
CHECK_DEADLOCK FALSE
