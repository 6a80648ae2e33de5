CONSTANTS
    Call = {c1, c2}
    Drafts <- MCDrafts
    Start <- MCStart
SPECIFICATION OnboardingSpec
INVARIANT DecisionStands
INVARIANT LossNeedsUnwritable
PROPERTY FinishesOnboarding
CHECK_DEADLOCK FALSE
