\* Two connections and an attentive user.
SPECIFICATION AttentiveSpec
CONSTANTS
    p1 = p1
    p2 = p2
    p3 = p3
    Prompts <- MCPrompts
    None = None
    MaxBatch = 2
PROPERTIES
    EveryBatchIsReplied
\* every batch answered or given up
CHECK_DEADLOCK FALSE
