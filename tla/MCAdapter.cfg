CONSTANTS
  p = p
  q = q
  r = r
  MaxReqTime = 1
  MaxCacheTime = 2
  AgeMod = 3
  Broadcast <- MCBroadcast
  Garbage = garbage
  NoSegment = nosegment
  NoPeer = nopeer
  Kind = {"udp", "tun", "tap"}
  Peer = {p, q, r}
  PeerAddress <- MCPeerAddress
  Local <- MCLocal
  LocalMac <- MCLocalMac
  RouterMac <- MCRouterMac
  RouterIp <- MCRouterIp
  Segments <- MCSegments
  Replies <- MCReplies
  Deltas = {4, 255}
  MaxPacket = 60
  TickMs = 1
SPECIFICATION Spec
INVARIANTS OnlyWhatWasSent OnePeer HandsUp
PROPERTY RepliesReachThePeer
