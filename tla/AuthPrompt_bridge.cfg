\* Two connections asking at once, up to two questions each.
SPECIFICATION AuthSpec
CONSTANTS
    p1 = p1
    p2 = p2
    p3 = p3
    Prompts <- MCPrompts
    None = None
    MaxBatch = 2
INVARIANTS
    AnswersAreOwn
    NoReplyLost
PROPERTIES
    ThreadReturns
\* every batch answered or given up
CHECK_DEADLOCK FALSE
