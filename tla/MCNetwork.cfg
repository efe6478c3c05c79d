CONSTANTS
  a = a
  b = b
  c = c
  r = r
  s = s
  MaxReqTime = 1
  MaxCacheTime = 2
  AgeMod = 3
  Broadcast = broadcast
  Garbage = garbage
  AddrBits = 4
  Direct = direct
  Host <- MCHost
  Gateway <- MCGateway
  Link <- MCLink
  Bounced = 2
  Ip <- MCIp
  NextHop <- MCNextHop
  Table <- MCTable
  Traffic <- MCTraffic
  TickMs = 1
  MaxSent = 2
SPECIFICATION FairSpec
CHECK_DEADLOCK FALSE
INVARIANTS RoutedRight AtMostOnce
PROPERTIES Delivered ComesToRest
