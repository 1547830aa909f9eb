SPECIFICATION FairInfoSpec
CONSTANTS
  Worker = {w1, w2, w3}
  Nobody = Nobody
INVARIANTS
  InfoInv
  AnswersHaveMembers
PROPERTIES
  FirstExtractionWins
  ImplementsCell
  EventuallyCached
  PendingAnswered
