SPECIFICATION Spec
CONSTANTS
    QueueSize = 3
    Backlog = 4
    MaxCallbacks = 2
    UserOps <- RestoreOnly
    Buttons <- NoCancel
    Questions <- ErrorsAndConflicts
PROPERTIES AnswerMatchesQuestion AsksAndAnswers
