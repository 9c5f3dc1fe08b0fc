SPECIFICATION ReqSpec
CONSTANTS
  Kind = {"LOGIN", "PLAYLIST_LOAD"}
  MaxPosts = 3
  TornPost = TRUE
INVARIANTS
  WalkerIsLive
  NoLostWakeup
  NoLostNotification
  RequestInv
PROPERTIES
  DeliveryPromised
