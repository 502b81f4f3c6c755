\* Two pages, a queue of two pictures, three states of the sessions.
SPECIFICATION Spec
CONSTANTS
    Clients = {c1, c2}
    CLIENT_QUEUE_DEPTH = 2
    MaxVersion = 3
INVARIANTS
    TypeOK
    NoSilentGap
    QueuesInOrder
    RegisteredAreServed
PROPERTIES
    PagesBecomeCurrent
