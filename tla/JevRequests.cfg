SPECIFICATION Spec
CONSTANTS
    c = c
    d = d
    NumQuestions = 4
    Candidates = {c, d}
    About <- MCAbout
    QuestionSize <- MCQuestionSize
    Ages <- MCAges
    CandidateSize = 2
    TextSize = 4
    ShortText = 1
    DisclosureSize = 1
    Limits <- MCLimits
    MaxStray = 1
INVARIANTS AnswersComplete AskedInContext RefusedOnlyIfUnfit
PROPERTIES PostedOnce
