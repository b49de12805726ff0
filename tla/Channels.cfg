SPECIFICATION FairSpec
CONSTANTS
  s1 = s1
  s2 = s2
  y1 = y1
  y2 = y2
  Session = {s1, s2}
  Symbol = {y1, y2}
  Wants <- OneAndBoth
  Attempts = 2
  Fanout = Fanout
  Nobody = Nobody
INVARIANTS
  ChannelsInv
  NoOrphanChannel
PROPERTIES
  RequestAnswered
  ReconnectRestores
