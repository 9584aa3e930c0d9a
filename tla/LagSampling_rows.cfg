CONSTANTS
  g1 = g1
  t1 = t1
  t2 = t2
  Groups = {g1}
  Topics = {t1, t2}
  Producer = producer
  NoSeries = noSeries
  BATCH_SIZE = 1
  Retain = 1
  MaxOffset <- MCMaxOffset
  MaxPass = 2
  MaxDay = 1
SPECIFICATION Spec
INVARIANTS LagBracketed DifferencesChain StoredTwiceOnlyInDoubt
PROPERTIES PassStoresAll
