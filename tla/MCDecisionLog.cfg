SPECIFICATION FairSpec
CONSTANTS
  Topics = {t1, t2}
  Conns = {c1, c2}
  NoTopic = NoTopic
  MaxDecisions = 4
  MaxVersion = 5
INVARIANTS
  ChainsAreForward
  AnswersStayTrue
PROPERTIES
  CallsEnd
  ImplementsChain
CHECK_DEADLOCK FALSE
