CONSTANTS
  g1 = g1
  t1 = t1
  Groups = {g1}
  Topics = {t1}
  Producer = producer
  NoSeries = noSeries
  BATCH_SIZE = 1
  Retain = 1
  MaxOffset <- MCMaxOffset
  MaxPass = 1
  MaxDay = 1
  Threshold = 0
SPECIFICATION AlarmSpec
PROPERTIES CancelMeansCaughtUp
