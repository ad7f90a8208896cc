\* Cancellation and disconnects; early terminal events in one sequence.
CONSTANTS
  auto = auto
  manual = manual
  Sequence <- TwoSequences
  Manual <- OneManual
  Steps = 2
  Early <- OneAuto
  Cancels = TRUE
  Drops = TRUE
SPECIFICATION FairSpec
INVARIANTS
  TypeOK
  StepsInOrder
  PauseRespected
  EventsConsumed
PROPERTIES
  SequenceEnds
  LostWaitEnds
  LifeSpec
