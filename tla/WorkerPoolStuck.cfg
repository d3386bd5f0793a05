CONSTANTS
  Jobs = {j1, j2}
  UnknownSource = {}
  Workers = {w1, w2}
  SemaphoreSize = 1
  QueueSize = 1
  NoJob = NoJob
SPECIFICATION TimedSpec
PROPERTY SlotsReturn
