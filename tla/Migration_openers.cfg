CONSTANTS
    Openers = {o1, o2, o3}
    Latest = 9
    Alters = {4, 5}
    Builds = {3, 4, 9}
SPECIFICATION Spec
SYMMETRY OpenerSymmetry
INVARIANTS VersionIsApplied OpenIsMigrated ReopenableIfApart
PROPERTY VersionGrows
