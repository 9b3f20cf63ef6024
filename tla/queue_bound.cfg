\* Three generate requests share one queue of one slot and a deque of two
\* futures: the least that shows a slot handed to a waiter and put back too.  No conversation fails
\* and no chat request runs, so that every release is of a slot that was taken.
SPECIFICATION Spec
CONSTANTS
    c1 = c1
    c2 = c2
    c3 = c3
    c4 = c4
    g1 = g1
    g2 = g2
    g3 = g3
    Chat <- MCNoChat
    Generate <- MCThreeGenerate
    MaxConcurrent = 1
    MaxQueue = 2
    CanFail = FALSE
    CanDrop = FALSE
INVARIANTS
    AtMostMaxConcurrent
CHECK_DEADLOCK FALSE
