\* The index's TTL is the shorter one, as cachesConfig.yml has it, and by one tick, so
\* that indexing within a tick is prompt and any slower is not.
CONSTANTS
  Queries = {q1, q2}
  Vacancies = {v1, v2}
  Workers = {w1, w2}
  SearchTTL = 2
  IndexTTL = 1
  None = None
  k1 = k1
  k2 = k2
  k3 = k3
  NumShards = 2
  TTLs = {0, 1}
  Adders = {a1}
  Deleters = {d1}
  CleanUpInterval = 1
  MaxTime = 2
  Absent = Absent
  NoKey = NoKey
SPECIFICATION MCSpec
SYMMETRY Symmetry
INVARIANTS SearchOutlivesIndex IndexIsFresh DeleteRemovesKey CleanUpRemovesExpired
PROPERTIES ShowsTheVacancy LiveEntriesStay
