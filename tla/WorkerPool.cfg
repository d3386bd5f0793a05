\* Three requests, so that two abandoned ones can fill the queue and hold the
\* only slot while the third is refused; one of them is for an unknown source.
CONSTANTS
  Jobs = {j1, j2, j3}
  UnknownSource = {j3}
  Workers = {w1, w2}
  SemaphoreSize = 1
  QueueSize = 1
  NoJob = NoJob
SPECIFICATION FairSpec
INVARIANTS HeldOnce NoLostJob SlotAccounting StuckOnlyIfAbandoned
PROPERTIES ImplementsPromise ImplementsQueue PatientConsoleServed PatientSlotsReturn
