SPECIFICATION Spec
CONSTANTS
    MaxInputs = 3
    GlitchBytes = 2
    JsonLength = 400
INVARIANTS
    WireFramed
    AnsweredOnce
    RestartAcknowledged
    AnswersMatch
PROPERTIES
    AcceptedIsAnswered
\* Nothing happens any more when MaxInputs is used up.
CHECK_DEADLOCK FALSE
