\* Periods of 0.5, 1.5 and 2 ms against print cycles of 0.3 and 1.4 ms:
\* the timer's send order against the actor's receive, with the conversion
\* of the period to whole milliseconds in between.
CONSTANTS
    Periods = {500, 1500, 2000}
    Cycles = {300, 1400}
    MaxSends = 5
SPECIFICATION Spec
INVARIANT PrintsDoNotPileUp
