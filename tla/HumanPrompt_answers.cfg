SPECIFICATION FairPromptSpec
CONSTANTS
    Caller = {c1, c2}
    MaxPosts = 3
    MaxResets = 1
INVARIANTS PromptInv OnePendingAtFirst OwnAnswerAtFirst
PROPERTY PromptAnswered
CHECK_DEADLOCK FALSE
