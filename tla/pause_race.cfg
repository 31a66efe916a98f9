SPECIFICATION Spec
CONSTANTS
  MaxRequests <- Requests
  MaxStops <- Stops
  Patient = FALSE
PROPERTY AnswersNextStop
