CONSTANTS
    Handlers = {h1, h2, h3}
    Emails = {ann, bob}
    Tokens = {t1, t2, t3, t4}
    None = None
    MaxFaults = 1
SYMMETRY Symmetry
SPECIFICATION Spec
INVARIANTS
    ExchangedOnce
    OneLivePerSession
    AnswersHonest
    SessionsSurvive
