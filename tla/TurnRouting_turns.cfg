\* Two turns of one customer in two processes while an admin edits a rule.
CONSTANTS
    w1 = w1  w2 = w2  r1 = r1
    Workers = {w1, w2}
    Texts = {"product", "order", "latin"}
    Keyword <- MCKeyword
    ModelIntents = {"product_inquiry", "return_policy"}
    Arabic = {"product", "order"}
    Numbered = {"order"}
    Threats = {"order"}
    Complaints = {"order"}
    Tier = "vip"
    Sentiment = 50
    Hours = {3, 12}
    Scores = {50, 70, 87}
    RuleIds = {r1}
    RuleBodies <- MCRuleBodies
    FirstRules <- MCFirstRules
    FirstSettings <- MCFirstSettings
    AutoThreshold = 85
    SoftThreshold = 60
    TextsKept = TRUE
    MaxTurns = 2
    MaxEdits = 1
    MaxExpiries = 1
SPECIFICATION Spec
SYMMETRY MCSymmetry
\* Turns are bounded: when they are used up nothing happens.
CHECK_DEADLOCK FALSE
INVARIANTS PausedEscalates NightCaution SplitNeedsCause
PROPERTIES InquiryKeepsStage OutagesAreAbsorbed
