SPECIFICATION Spec
CONSTANTS
    u1 = u1
    u2 = u2
    t1 = t1
    t2 = t2
    User <- MCUser
    Tab <- MCTab
    UserOf <- MCUserOf
    MaxFigures = 1
    MaxDeclarations = 2
INVARIANT
    OneSubmitted
