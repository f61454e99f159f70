SPECIFICATION Spec
CONSTANTS
    Words <- ThreeWords
    Custom <- LastIsCustom
    PromptPolicies <- SomePromptPolicies
    AnswerPolicies <- SomeAnswerPolicies
    Prompts <- SomePrompts
    Answers <- SomeAnswers
    Chunks <- SomeChunks
    MaxChunks = 3
INVARIANTS
    NothingLeaks
    RedactionExact
    StreamAgreesWithJSON
    EveryMatchRecorded
