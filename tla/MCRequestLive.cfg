SPECIFICATION ReqFairSpec
CONSTANTS
  Kind = {"LOGIN", "PLAYLIST_LOAD"}
  MaxPosts = 2
  TornPost = FALSE
PROPERTIES
  ResultsAreDelivered
  RequestsAreTried
