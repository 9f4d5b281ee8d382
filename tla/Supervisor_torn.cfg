SPECIFICATION Spec
CONSTANTS
    Phases <- MCPhases
    Deps <- MCDeps
    Rank <- MCRank
    Tiers <- MCTiers
    NoGate = NoGate
    Mode = "secure"
    SecurePre = {"deployment"}
    SecurePost = {"proposal"}
    PhaseGates = {}
    ContractPresent = TRUE
    Units = 1
    MaxRetries = 1
    Overrides = {"stop", "rollback", "force-advance"}
    Faults = {"crash", "torn"}
    Editable = {"intake", "planning"}
INVARIANTS
    MemDurable
    PreGateEnforced
    ActivePauseSaved
