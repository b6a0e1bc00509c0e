\* One address (no step reads or writes the limiter of another): a message
\* costs two ticks of refill, a burst is two messages and a half.
SPECIFICATION Spec
CONSTANTS
    IP = {a}
    Cost = 2
    Burst = 5
    BanLimit = 2
    BanDuration = 3
    MaxTime = 12
    Never = Never
INVARIANTS TypeOK WindowBound CleanSlate
PROPERTIES RejectedOnlyOverRate BanNotProlonged
