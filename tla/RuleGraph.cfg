SPECIFICATION GraphSpec
CONSTANTS
    n1 = n1
    n2 = n2
    n3 = n3
    Nodes <- ThreeNodes
INVARIANT SoundRulesRunWhole
PROPERTY Ends
CHECK_DEADLOCK FALSE
