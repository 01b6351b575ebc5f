SPECIFICATION Spec
INVARIANTS OutcomeRecorded MetricsGrounded
PROPERTIES ClosedStaysClosed DueSettle ReturnsFollow
CONSTANTS
  Timer = timer
  Manual = {m1}
  MaxManual = 1
  Windows = {"initial", "t_plus_5m"}
  Rank <- MCRank
  Plans <- MCPlans
  Price <- MCPrice
  Formers <- MCFormers
  MaxVersion = 2
  MaxRequests = 1
  MaxAttempts = 2
  MaxTime = 1
  MaxFaults = 1
  None = None
