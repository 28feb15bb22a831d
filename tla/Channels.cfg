\* Every operation, channel and destination; two attempts, which overlap, and
\* two commands or ticks of others, such as a tick that holds a schedule while
\* somebody cancels it.
SPECIFICATION Spec
CONSTANTS
    MaxAttempts = 2
    Others = {o1, o2}
    ClientKey = k1
    NoKey = NoKey
SYMMETRY OtherSymmetry
CHECK_DEADLOCK FALSE
INVARIANTS EffectOnce AnswersTruthful
