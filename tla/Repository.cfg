SPECIFICATION FairSpec
CONSTANTS
    t1 = t1
    t2 = t2
    calc = calc
    test = test
    Threads = {t1, t2}
    Half = 8
    Instances <- MCInstances
    ThreadSafe <- MCThreadSafe
    Registrations <- MCRegistrations
    Methods <- MCMethods
    Docs <- MCDocs
    MaxServices = 2
    MaxMessages = 3
INVARIANTS
    TypeOK
    MutexDiscipline
    InstanceExclusive
    RequestsAnswered
    ReadsBack
    InfoIsCurrent
PROPERTIES
    ImplementsProvider
    CallsReturn
