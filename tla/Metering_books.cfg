SPECIFICATION MeterSpec
CONSTANTS
    c1 = c1
    c2 = c2
    Absent = Absent
    Calls = {c1, c2}
    Models = {"gpt", "embed", "claude", "gemini", "routed", "own"}
    Registry = {"gpt", "embed", "claude", "gemini"}
    Embedders = {"embed"}
    ProviderOf <- ProviderTable
    Chain <- ChainTable
    Ceiling <- CeilingTable
    MaxCost = 2
    MaxEdits = 1
SYMMETRY Symmetry
CHECK_DEADLOCK FALSE
INVARIANTS RowsMatchCharges NoFreeAnswer DoneMeansComplete AlertsOnce SummaryWithinBooks
