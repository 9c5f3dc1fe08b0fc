SPECIFICATION SessionSpec
CONSTANTS
  Kind = {"CACHE_PERIODIC", "LOGIN", "LOGOUT", "USER", "PC_LOAD", "PLAYLIST_LOAD",
          "BROWSE_PLAYLIST_TRACKS", "PC_PLAYLIST_ADD", "PLAYLIST_RENAME"}
  AppKind = {"LOGIN", "LOGOUT"}
  MaxPosts = 5
  TornPost = FALSE
  Owner <- Requests
  WireSize = 8
  MaxSince = 8
  MaxChannels = 2
  NumPlaylists = 1
  Batches = {0, 1}
  MaxErrors = 0
INVARIANTS
  AnswersFindTheirChannel
  LoggedOutIsQuiet
  LoginIsDriven
  FirstConnectionIsSound
PROPERTIES
  ChannelSpec
