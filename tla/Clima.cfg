CONSTANTS
    Here = Here
    City = {"Baku", "Sumqayit"}
    NoURL = {"Sumqayit"}
    What = {"Baku", "Sumqayit", "", Here}
    MaxAsked = 4
SPECIFICATION ClimaSpec
INVARIANT ClimaInv
CHECK_DEADLOCK FALSE
