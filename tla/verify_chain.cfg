SPECIFICATION LoopSpec
CONSTANTS
    NoHash = NoHash
    Inputs <- HonestAndTampered
    MaxLegacy = 2
    MaxChained = 4
INVARIANTS
    AnswerIsVerifies
    CountsEveryLine
    DetectsTampering
CHECK_DEADLOCK FALSE
