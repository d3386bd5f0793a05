CONSTANTS
  Queries = {q1}
  Vacancies = {v1, v2}
  Workers = {w1, w2}
  SearchTTL = 2
  IndexTTL = 1
  None = None
SPECIFICATION Spec
PROPERTY DetailsReused
