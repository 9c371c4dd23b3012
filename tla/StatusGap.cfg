\* One coin and one delivery; the rows of a day's operations cannot be read.
CONSTANTS
    StatusCoins = {btc}
    Deliveries = {d1}
SPECIFICATION SpecPage
CHECK_DEADLOCK FALSE
INVARIANT GapKeepsFailure
