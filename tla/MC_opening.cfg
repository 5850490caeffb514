CONSTANTS
    Openers = {o1, o2}
    Roles = {"sh", "board_constituent_sz", "board_stats"}
    N = 2
    MaxGen = 2
    Says = {"yes", "no"}
SPECIFICATION Spec
CONSTRAINT Explored
CHECK_DEADLOCK FALSE
SYMMETRY Symm
INVARIANTS EvidenceCoherent StandingIsProved
 
