SPECIFICATION SessionFairSpec
CONSTANTS
  Kind = {"CACHE_PERIODIC", "LOGIN", "LOGOUT", "USER", "PC_LOAD", "PLAYLIST_LOAD",
          "BROWSE_PLAYLIST_TRACKS", "PC_PLAYLIST_ADD", "PLAYLIST_RENAME", "TOPLISTBROWSE", "PLAY_TOKEN_LOST", "NOTIFY"}
  AppKind = {"LOGIN", "LOGOUT", "TOPLISTBROWSE"}
  MaxPosts = 4
  TornPost = FALSE
  Owner <- Requests
  WireSize = 8
  MaxSince = 8
  MaxChannels = 1
  NumPlaylists = 1
  Batches = {1}
  MaxErrors = 0
PROPERTY LogoutIsProcessed
