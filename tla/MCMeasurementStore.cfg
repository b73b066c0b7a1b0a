SPECIFICATION Spec
CONSTANTS
    Registrations <- TwoProducers
    Batches <- TheirBatches
    Values <- TheirValues
    Divisor <- TheirDivisors
    Lowest <- MinusTwo
    Highest = 2
    MaxAge = 1
    MaxVersion = 3
    MaxTime = 2
INVARIANTS CoherentSnapshot FailFast RefusedForCause CountTellsNews
