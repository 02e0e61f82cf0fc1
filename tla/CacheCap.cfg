CONSTANTS
  r1 = r1  r2 = r2  r3 = r3  r4 = r4  ka = ka  kb = kb
  t1 = t1  t2 = t2  d1 = d1  d2 = d2  d3 = d3  pr = pr  pw = pw
  h1 = h1  h2 = h2  h3 = h3  h4 = h4  h5 = h5
  Lines <- MCLines
  RingCap = 2
  InboxCap = 1
  SendCap = 1
  MaxConnects = 2
  MaxLogFaults = 1
  Request = {r1, r2, r3, r4}
  Key = {ka, kb}
  KeyOf <- MCKeyOf
  SizeOf <- MCSizeOf
  MaxBytes = 3
  NoAnswer = NoAnswer
  Ticket = {t1, t2}
  Dial = {d1, d2, d3}
  TicketOf <- MCTicketOf
  Path = {pr, pw}
  WritePath = {pw}
  Hit = {h1, h2, h3, h4, h5}
  Route <- MCRoute
  Subject <- MCSubject
  Burst = 1
  MaxGen = 3
  Configs <- MCConfigs
  g1 = g1  g2 = g2
  Log = {g1, g2}
  NoLog = NoLog
  Slot = {s1, s2, s3}
  NoSlot = NoSlot
  MaxEmitted <- MCEmitted
  MaxShown = 2
  MaxViewFaults = 2
SPECIFICATION MCCacheSpec
INVARIANTS ResidentCapped
CHECK_DEADLOCK FALSE
