\* Two memories, two texts and two models, a pass that embeds and a process that
\* searches, with the history of the rows.
SPECIFICATION HistorySpec
CONSTANTS
  Memories = {m1, m2}
  Texts = {t1, t2}
  Models = {x1, x2}
  Embedders = {e1}
  Processes = {p1}
  None = None
  MaxStamp = 3
SYMMETRY Alike
CHECK_DEADLOCK FALSE
INVARIANTS VectorIsOfText ResidentIsCurrent RankingExact RankingRegular
