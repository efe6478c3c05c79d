CONSTANTS
  MaxReqTime = 2
  MaxCacheTime = 3
  AgeMod = 5
  Broadcast = broadcast
  Garbage = garbage
  Ip = {ip0, ip1}
  Mac = {mac0, mac1}
  OwnIp = ip0
  OwnMac = mac0
  Datagram = {d1}
  TickMs = {1, 2}
  MaxQueue = 1
SPECIFICATION ArpSpec
INVARIANTS
  MapsAgree
  CacheFresh
PROPERTY
  RequestsSpaced
