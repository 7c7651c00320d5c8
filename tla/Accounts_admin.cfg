SPECIFICATION Spec
CONSTANTS
    h1 = h1
    h2 = h2
    b1 = b1
    s1 = s1
    s2 = s2
    Humans = {h1, h2}
    Robots = {b1}
    Builtin = {"admin"}
    Custom = {"ops"}
    CapSets <- StarOrPlain
    Slots = {s1, s2}
SYMMETRY Symmetry
INVARIANTS
    TypeOK
    RobotNeverManages
    LockoutExplained
