CONSTANTS
    SECONDS = {59}
    MINUTES = {59}
    HOURS = {16, 23}
    DAYS = {28, 29, 30, 31}
    MONTHS = {1, 2, 4, 12}
    YEARS = {2024, 2100}
    REGISTER_B_MODES = {2, 6}
    MAX_UPDATES = 2
SPECIFICATION Spec
INVARIANT TypeOK ConsistentSnapshot LocalTimeCorrect
PROPERTY ReadRtcReturns
