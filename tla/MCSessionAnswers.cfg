SPECIFICATION SessionSpec
CONSTANTS
  Kind = {"CACHE_PERIODIC", "LOGIN", "LOGOUT", "USER", "PC_LOAD", "PLAYLIST_LOAD",
          "BROWSE_PLAYLIST_TRACKS", "PC_PLAYLIST_ADD", "PLAYLIST_RENAME", "ARTISTBROWSE", "PLAYER_KEY",
          "PLAYER_SUBSTREAM"}
  AppKind = {"LOGIN", "LOGOUT", "ARTISTBROWSE", "PLAYER_KEY", "PLAYER_SUBSTREAM"}
  MaxPosts = 4
  TornPost = FALSE
  Owner <- Requests
  WireSize = 8
  MaxSince = 8
  MaxChannels = 2
  NumPlaylists = 1
  Batches = {1}
  MaxErrors = 1
INVARIANTS
  OwnersAreParked
  SessionInv
  CacheNeverReturns
