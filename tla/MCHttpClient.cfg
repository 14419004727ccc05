\* Two threads in two iterations of main(), two handles.
CONSTANTS
  s1 = s1
  s2 = s2
  h1 = h1
  h2 = h2
  None = None
  Senders = {s1, s2}
  Handles = {h1, h2}
  Batches <- MCBatches
  Messages <- MCMessages
  Answers <- MCAnswers
SPECIFICATION FairSpec
INVARIANTS TypeOK OneOpenSocket RequestSurvives AnswerSurvives StatusMeansAnswered
PROPERTY EverySenderReturns
CHECK_DEADLOCK FALSE
