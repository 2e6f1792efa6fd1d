\* Does a nil return of Stress mean that every put succeeded?
CONSTANTS
    MaxN <- MCMaxN
    StressNs <- MCStressNs
SPECIFICATION StressSpec
INVARIANT NilMeansAllPut
