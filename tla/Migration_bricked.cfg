CONSTANTS
    Openers = {o1, o2}
    Latest = 9
    Alters = {4, 5}
    Builds = {9}
SPECIFICATION Spec
INVARIANT Reopenable
