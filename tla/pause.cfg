SPECIFICATION Spec
CONSTANTS
  MaxRequests <- Requests
  MaxStops <- Stops
  Patient = TRUE
INVARIANTS NoLostWakeup
PROPERTIES PausedAnswerHolds AnswersNextStop Answered
