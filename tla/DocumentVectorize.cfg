SPECIFICATION AttemptSpec
CONSTANTS
    Strings <- StringsMC
    Requests <- RequestsMC
    Replies <- RepliesMC
    Contents <- ContentsMC
INVARIANTS
    AttemptVerdict
    NormalFormKept
    AnswersRequest
CHECK_DEADLOCK FALSE
