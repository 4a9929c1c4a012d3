SPECIFICATION Spec
CONSTANTS
    Users = {u1, u2}
    Viewed = {u1}
    Viewer = Viewer
    Seeds = {s1, s2}
    concurrency = 1
    SignupBonusAmount = 2
    InitialBalance = 3
INVARIANTS OneBonusEach AnswersAreTrue OvershootNeedsOverlap
PROPERTIES EverySeedAnswered
CHECK_DEADLOCK FALSE
