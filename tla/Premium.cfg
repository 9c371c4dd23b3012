\* Two processes handle updates of a user beside an expiry job.
CONSTANTS
    h1 = h1
    h2 = h2
    j1 = j1
    pay1 = pay1
    pay2 = pay2
    Handlers = {h1, h2}
    Jobs = {j1}
    Payments = {pay1}
    NoPayment = NoPayment
    Period = 2
    TrialPeriod = 1
    Days = 1
    Commands = 2
    End = 1
SPECIFICATION FairSpec
\* The clock is bounded.
CHECK_DEADLOCK FALSE
INVARIANTS
    ExpiryIsFinal
PROPERTIES
    PaymentsCredited
    TrialOnlyUnpaid
    EveryoneEnds
