SPECIFICATION Spec
CONSTANTS
    t1 = t1
    t2 = t2
    calc = calc
    test = test
    Threads = {t1, t2}
    Half = 8
    Instances <- MCInstances
    ThreadSafe <- MCThreadSafe
    Registrations <- MCRegistrations
    Methods <- MCMethods
    Docs <- MCDocs
    MaxServices = 3
    MaxMessages = 1
INVARIANT ReturnsResponse
