CONSTANTS
  Days = {1, 2}
  Chosen <- MCChosen
  Opening <- MCOpening
  Modules = {m1, m2}
  Topics = {t1, t2}
  Ids = {1}
  NoTopic = NoTopic
  ScreenShows = {"capacity", "realrate", "logsize"}
  MaxUpdates = 1
  MaxSent = 2
SPECIFICATION Spec
PROPERTY ChartsConverge
