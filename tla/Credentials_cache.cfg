SPECIFICATION CredentialsSpec
CONSTANTS
    s1 = s1
    s2 = s2
    h1 = h1
    b1 = b1
    Human = h1
    Robot = b1
    Logins = {1}
    Keys = {2, 3}
    Tokens = {4, 5}
    CacheSize = 2
    Calls = {s1, s2}
SYMMETRY CallSymmetry
INVARIANTS
    CredentialsTypeOK
    CacheIndexed
    
    OneRobotToken
    
