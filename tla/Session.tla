------------------------------- MODULE Session -------------------------------
(***************************************************************************)
(* The session: what the networking thread does with the requests of       *)
(* module Request over the channels of module Channel, while the           *)
(* connection to the server comes and goes.                                *)
(*                                                                         *)
(* Every action of this module is a step of Request, of Channel, or of     *)
(* both at once: iothread.c decides which, from the type of the request    *)
(* and the state of the connection.  The owner of a channel is the request *)
(* whose callback context its private pointer leads to.                    *)
(*                                                                         *)
(* The server is the environment.  It answers the queries of the current   *)
(* connection in any order, with any result, or not at all.                *)
(***************************************************************************)
EXTENDS Request, Channel, Sequences

CONSTANTS AppKind,      \* the requests that the application posts
          MaxChannels,  \* process_request() starts no request above this: 16
          NumPlaylists, \* playlists that an answer for the container may list
          Batches,      \* numbers of batches a browse request may need
          MaxErrors     \* bound on the channel errors that the server signals

(* The requests that browse_process() handles.                             *)
Browse == {"ALBUMBROWSE", "ARTISTBROWSE", "BROWSE_ALBUM", "BROWSE_ARTIST",
           "BROWSE_PLAYLIST_TRACKS", "BROWSE_TRACK"}

(* The requests that one query answers.                                    *)
Query == {"SEARCH", "TOPLISTBROWSE", "IMAGE", "USER"}

(* The requests of the player that open a channel, and those that do not.  *)
Stream == {"PLAYER_KEY", "PLAYER_SUBSTREAM"}
Token == {"PLAY_TOKEN_ACQUIRE", "PLAY_TOKEN_LOST"}

(* The results that packets announce.                                      *)
Announced == {"NOTIFY", "PLAYLIST_STATE_CHANGED"}

(* The results that the callbacks of playlists post for the application.   *)
Told == {"PC_PLAYLIST_ADD", "PLAYLIST_RENAME"}

(* The requests that change playlists, which are not in this module.       *)
Elsewhere == {"PLAYLIST_CHANGE", "PC_PLAYLIST_REMOVE", "PC_PLAYLIST_MOVE", "PC_PLAYLIST_CHANGE"}

ASSUME SessionAssumption ==
  /\ Owner = Node
  /\ {"CACHE_PERIODIC", "LOGIN", "LOGOUT", "USER", "PC_LOAD", "PLAYLIST_LOAD",
      "BROWSE_PLAYLIST_TRACKS"} \union Told \subseteq Kind
  /\ Kind \intersect Elsewhere = {}
  /\ MaxSince <= WireSize  \* every id that is handed out fits in a packet
  /\ AppKind \subseteq Kind \ (Announced \union Told)
  /\ MaxChannels \in Nat \ {0}
  /\ NumPlaylists \in Nat
  /\ Batches \subseteq Nat /\ Batches # {}
  /\ MaxErrors \in Nat

VARIABLES conn,        \* session->connectionstate
          login,       \* session->login: the request that created it, or 0
          contexts,    \* the login contexts that are allocated, by request
          overwritten, \* history: contexts that session->login was moved from
          user,        \* session->user: garbage at first, set, or none
          greeting,    \* what handle_packet() has still to do for CMD_WELCOME
          playlists,   \* playlistcontainer->num_playlists
          asked,       \* queries of this connection that the server may answer
          output,      \* req->output: none, NULL, or an object
          left,        \* batches that a browse request has still to fetch
          unparsed,    \* history: requests whose answer could not be parsed
          running,     \* the callback that is posting requests: [req, posts]
          errors       \* number of channel errors so far

loginVars == <<login, contexts, overwritten>>
tallyVars == <<playlists, unparsed, errors>>
sessVars == <<conn, loginVars, user, greeting, asked, output, left, running, tallyVars>>
allVars == <<reqVars, chanVars, sessVars>>

NoCallback == [req |-> 0, posts |-> <<>>]

(* What a handler that is under way has still to post.                     *)
Reserved == Len(running.posts) + (IF greeting = "container" THEN 1 ELSE 0)
-----------------------------------------------------------------------------
(* sp_session_init() allocates session->user and leaves it uninitialised.  *)
SessionInit ==
  /\ ReqInit
  /\ ChannelInit
  /\ conn = "LOGGED_OUT"
  /\ login = 0
  /\ contexts = {}
  /\ overwritten = {}
  /\ user = "garbage"
  /\ greeting = "none"
  /\ playlists = 0
  /\ asked = {}
  /\ output = [n \in Node |-> "none"]
  /\ left = [n \in Node |-> 0]
  /\ unparsed = {}
  /\ running = NoCallback
  /\ errors = 0

(* The application's calls, each of which posts one request, and what the  *)
(* player thread posts while a track is played; the first post is made by  *)
(* sp_session_init().  sp_session_login() sets session->user from the main *)
(* thread.                                                                 *)
AppPosts(t) ==
  /\ posted + Reserved < MaxPosts
  /\ MainPost(t)
  /\ IF posted = 0 THEN t = "CACHE_PERIODIC" ELSE t \in AppKind
  /\ user' = IF t = "LOGIN" THEN "set" ELSE user
  /\ \E b \in Batches :
       left' = [left EXCEPT ![posted + 1] =
                  CASE t \in {"BROWSE_TRACK", "BROWSE_PLAYLIST_TRACKS"} -> b
                    [] t \in Browse -> 1
                    [] OTHER -> 0]
  /\ UNCHANGED <<chanVars, conn, loginVars, greeting, asked, output, running, tallyVars>>

(* The types for which sp_session_process_events() follows req->output.    *)
Dereferenced == {"PC_PLAYLIST_ADD", "PLAYLIST_RENAME", "PLAYLIST_LOAD", "ALBUMBROWSE",
                 "ARTISTBROWSE", "TOPLISTBROWSE", "SEARCH", "IMAGE"}
FollowsNull == fetched # 0 /\ kind[fetched] \in Dereferenced /\ output[fetched] = "null"

AppWakes == MainWake /\ UNCHANGED <<chanVars, sessVars>>
AppFetches == MainFetch /\ UNCHANGED <<chanVars, sessVars>>
AppDelivers == ~FollowsNull /\ MainDeliver /\ UNCHANGED <<chanVars, sessVars>>
AppCrashes == FollowsNull /\ Die /\ UNCHANGED <<chanVars, sessVars>>
-----------------------------------------------------------------------------
(* The loop of iothread() around the handlers.                             *)
Cleanup == IoCleanup /\ UNCHANGED <<chanVars, sessVars>>
StartWalk == IoStart /\ UNCHANGED <<chanVars, sessVars>>
Skip == IoSkip /\ UNCHANGED <<chanVars, sessVars>>
EndOfWalk ==
  /\ IoEndOfWalk
  /\ ipc' = IF conn = "LOGGED_IN" THEN "packets" ELSE "idle"
  /\ UNCHANGED <<chanVars, sessVars>>
Idle == IoIdle /\ UNCHANGED <<chanVars, sessVars>>
TimePasses(n) == Expire(n) /\ UNCHANGED <<chanVars, sessVars>>

(* Slip: logins and logouts wait for a login as well.                      *)
OfflineAlways(n) == conn # "LOGGED_IN"

(* The conditions at the top of process_request().                         *)
Offline(n) == conn # "LOGGED_IN" /\ kind[n] \notin {"LOGIN", "LOGOUT"}
TooMany(n) == ~Offline(n) /\ state[n] = "NEW" /\ num_channels >= MaxChannels
Dispatched(types) ==
  /\ AtNode /\ Ready(walker)
  /\ ~Offline(walker) /\ ~TooMany(walker)
  /\ kind[walker] \in types

(* A new request waits 10 seconds for a login, or 100 ms for a channel.    *)
Postpone ==
  /\ AtNode /\ state[walker] = "NEW"
  /\ Offline(walker) \/ TooMany(walker)
  /\ Keep("NEW", "later")
  /\ UNCHANGED <<chanVars, sessVars>>

(* A running request that becomes due while not logged in fails, with NULL *)
(* for its output.                                                         *)
FailOffline ==
  /\ AtNode /\ state[walker] = "RUNNING"
  /\ Offline(walker)
  /\ Return({}, {})
  /\ output' = [output EXCEPT ![walker] = "null"]
  /\ UNCHANGED <<chanVars, conn, loginVars, user, greeting, asked, left, running, tallyVars>>

(* s->login = login_create(): a context that is still there is lost.       *)
Overwrite == overwritten' = overwritten \union ({login} \ {0})

(* process_login_request() with login_process() still under way: a new     *)
(* request creates a context, one that is running finds the context that   *)
(* is there, its own or another one's.                                     *)
LoginContinues ==
  /\ Dispatched({"LOGIN"})
  /\ Keep("RUNNING", "due")
  /\ IF state[walker] = "NEW"
     THEN /\ login' = walker
          /\ contexts' = contexts \union {walker}
          /\ Overwrite
     ELSE login # 0 /\ UNCHANGED loginVars
  /\ UNCHANGED <<chanVars, conn, user, greeting, asked, output, left, running, tallyVars>>

(* login_release() and session->login = NULL.                              *)
ReleaseLogin ==
  /\ contexts' = contexts \ {login}
  /\ login' = 0
  /\ UNCHANGED overwritten

(* login_process() returns 1: the keys and the socket are those of a new   *)
(* connection, on which nothing has been asked yet.                        *)
LoginSucceeds ==
  /\ Dispatched({"LOGIN"})
  /\ state[walker] = "RUNNING" /\ login # 0
  /\ Return({}, {})
  /\ ReleaseLogin
  /\ conn' = "LOGGED_IN"
  /\ greeting' = "user"
  /\ asked' = {}
  /\ output' = [output EXCEPT ![walker] = "null"]
  /\ UNCHANGED <<chanVars, user, left, running, tallyVars>>

(* Slip: the login context is not released.                                *)
LoginFailsHolding ==
  /\ Dispatched({"LOGIN"})
  /\ Return({}, {})
  /\ output' = [output EXCEPT ![walker] = "null"]
  /\ UNCHANGED <<chanVars, conn, loginVars, user, greeting, asked, left, running, tallyVars>>

(* login_create() or login_process() fails, or a logout has taken the      *)
(* login context away.                                                     *)
LoginFails ==
  /\ Dispatched({"LOGIN"})
  /\ Return({}, {})
  /\ IF state[walker] = "NEW"
     THEN Overwrite /\ login' = 0 /\ contexts' = contexts
     ELSE ReleaseLogin
  /\ output' = [output EXCEPT ![walker] = "null"]
  /\ UNCHANGED <<chanVars, conn, user, greeting, asked, left, running, tallyVars>>

(* What the callback of a failed channel does to the request's time:       *)
(* artist browsing goes on at once, everything else is tried again later.  *)
Again(n) == IF kind[n] = "ARTISTBROWSE" THEN "due" ELSE "later"
Served(n) == IF kind[n] \in Browse THEN left[n] - 1 ELSE left[n]

(* The requests that wait for a channel; the player's do not.              *)
Waiting == {n \in Owners : kind[n] \notin Stream}

(* Slips: the channels are not failed; they are freed without being        *)
(* unregistered; the socket is left open.                                  *)
LogoutForgets(table, queries) ==
  /\ Dispatched({"LOGOUT"})
  /\ Return({}, {})
  /\ channels' = table
  /\ asked' = queries
  /\ ReleaseLogin
  /\ user' = "none"
  /\ conn' = "LOGGED_OUT"
  /\ greeting' = "none"
  /\ output' = [output EXCEPT ![walker] = "null"]
  /\ UNCHANGED <<next_channel_id, num_channels, heard, since, left, running, tallyVars>>
LogoutKeepsChannels == LogoutForgets(channels, {})
LogoutLeaksCount == LogoutForgets({}, {})
LogoutKeepsSocket == LogoutForgets({}, asked)

(* process_logout_request(): the login is cancelled, the identity and the  *)
(* socket are dropped and every channel is failed.                         *)
Logout ==
  /\ Dispatched({"LOGOUT"})
  /\ Return({n \in Waiting : Again(n) = "later"}, {n \in Waiting : Again(n) = "due"})
  /\ FailAndUnregisterAll
  /\ left' = [n \in Node |-> IF n \in Waiting /\ Again(n) = "due" THEN Served(n) ELSE left[n]]
  /\ ReleaseLogin
  /\ user' = "none"
  /\ conn' = "LOGGED_OUT"
  /\ greeting' = "none"
  /\ asked' = {}
  /\ output' = [output EXCEPT ![walker] = "null"]
  /\ UNCHANGED <<running, tallyVars>>

(* A logout before any login: session->user is garbage, which              *)
(* user_release() follows and may or may not survive.                      *)
LogoutCrashes ==
  /\ Dispatched({"LOGOUT"})
  /\ user = "garbage"
  /\ Die
  /\ UNCHANGED <<chanVars, sessVars>>

(* Slip: the request is marked as running.                                 *)
CacheProcessRuns ==
  /\ Dispatched({"CACHE_PERIODIC"})
  /\ Keep("RUNNING", "later")
  /\ UNCHANGED <<chanVars, sessVars>>

(* cache_process(): the request stays new, to run again in five minutes.   *)
CacheProcess ==
  /\ Dispatched({"CACHE_PERIODIC"})
  /\ Keep("NEW", "later")
  /\ UNCHANGED <<chanVars, sessVars>>

(* A command: register a channel, write the packet, wait for the answer.   *)
SendCommand ==
  /\ Keep("RUNNING", "never")
  /\ Register(walker, "HEADER")
  /\ asked' = asked \union {[id |-> next_channel_id, req |-> walker]}
  /\ UNCHANGED <<conn, loginVars, user, greeting, output, left, running, tallyVars>>

(* Slips: the timeout is not moved out of the way before the command is    *)
(* written; a request that is done is sent once more.                      *)
SendUnparked ==
  /\ Keep("RUNNING", "due")
  /\ Register(walker, "HEADER")
  /\ asked' = asked \union {[id |-> next_channel_id, req |-> walker]}
  /\ UNCHANGED <<conn, loginVars, user, greeting, output, left, running, tallyVars>>
QueryUnparked == Dispatched(Query) /\ SendUnparked
BrowseOnceMore == Dispatched(Browse) /\ SendCommand

(* Slip: the channel is registered but the packet never written.           *)
PlaylistUnsent ==
  /\ Dispatched({"PC_LOAD", "PLAYLIST_LOAD"})
  /\ Keep("RUNNING", "never")
  /\ Register(walker, "HEADER")
  /\ UNCHANGED sessVars

(* search_process_request(), toplistbrowse_process_request(),              *)
(* osfy_image_process_request() and user_process_request() do the same.    *)
QueryProcess == Dispatched(Query) /\ SendCommand
PlaylistProcess == Dispatched({"PC_LOAD", "PLAYLIST_LOAD"}) /\ SendCommand
BrowseProcess == Dispatched(Browse) /\ left[walker] > 0 /\ SendCommand

(* browse_send_generic_request() once everything is browsed.               *)
BrowseReturns ==
  /\ Dispatched(Browse) /\ left[walker] = 0
  /\ Return({}, {})
  /\ output' = [output EXCEPT ![walker] =
                  IF kind[walker] \in {"ALBUMBROWSE", "ARTISTBROWSE", "BROWSE_PLAYLIST_TRACKS"}
                  THEN "object" ELSE "null"]
  /\ UNCHANGED <<chanVars, conn, loginVars, user, greeting, asked, left, running, tallyVars>>

(* player_process_request(): the command is written and the request        *)
(* returns at once.  Its channel stays open; the callback works for the    *)
(* player and knows nothing of the request.                                *)
PlayerReturns ==
  /\ Return({}, {})
  /\ output' = [output EXCEPT ![walker] = "null"]
  /\ UNCHANGED <<conn, loginVars, user, greeting, left, running, tallyVars>>

PlayerProcess ==
  /\ Dispatched(Stream)
  /\ PlayerReturns
  /\ Register(walker, IF kind[walker] = "PLAYER_KEY" THEN "DATA" ELSE "HEADER")
  /\ asked' = asked \union {[id |-> next_channel_id, req |-> walker]}

(* packet_write() fails for one of them, which the request returns as an   *)
(* error.  cmd_getsubstreams() unregisters its channel again, cmd_aeskey() *)
(* leaves it behind.                                                       *)
PlayerWriteFails ==
  /\ Dispatched(Stream)
  /\ PlayerReturns
  /\ IF kind[walker] = "PLAYER_KEY" THEN Register(walker, "DATA") ELSE Withdraw(walker)
  /\ UNCHANGED asked

(* The play token is asked for, or was lost to another client.             *)
TokenProcess ==
  /\ Dispatched(Token)
  /\ PlayerReturns
  /\ UNCHANGED <<chanVars, asked>>

(* packet_write() fails: iothread() calls exit(1).                         *)
WriteFails ==
  /\ Dispatched(Query \union {"PC_LOAD", "PLAYLIST_LOAD", "PLAY_TOKEN_ACQUIRE"}
                  \union {t \in Browse : left[walker] > 0})
  /\ Die
  /\ UNCHANGED <<chanVars, sessVars>>
-----------------------------------------------------------------------------
(* packet_read_and_process() on the answers of the server.                 *)
Packets ==
  /\ ipc = "packets" /\ conn = "LOGGED_IN"
  /\ running = NoCallback /\ greeting # "container"

(* The packet that ends a channel.  An error without a payload ends it     *)
(* like an empty packet does, whatever was received before.                *)
End(a) == \E error \in BOOLEAN : ProcessLast(a.id, error, TRUE)

(* Headers and data are buffered by the callbacks.                         *)
ChannelData(a) ==
  /\ Packets
  /\ ProcessHeader(a.id, TRUE) \/ ProcessData(a.id)
  /\ UNCHANGED <<reqVars, sessVars>>

(* CHANNEL_ERROR in every callback of a request: have it tried again.      *)
ChannelError(a) ==
  /\ Packets /\ errors < MaxErrors /\ kind[a.req] \notin Stream
  /\ ProcessLast(a.id, TRUE, FALSE)
  /\ \E ch \in channel_by_id(a.id) :
       /\ IoPacketRetries(ch.owner, Again(ch.owner))
       /\ left' = [left EXCEPT ![ch.owner] = IF Again(ch.owner) = "due" THEN Served(ch.owner) ELSE @]
  /\ asked' = asked \ {a}
  /\ errors' = errors + 1
  /\ UNCHANGED <<conn, loginVars, user, greeting, output, running, playlists, unparsed>>

(* CHANNEL_END in search_callback(), toplistbrowse_callback() and          *)
(* osfy_image_callback(): the request returns whether or not its answer    *)
(* could be parsed.  user_callback() returns it only if it could.          *)
ObjectEnd(a) ==
  /\ Packets
  /\ End(a)
  /\ \E ch \in channel_by_id(a.id) :
       /\ kind[ch.owner] \in Query
       /\ IoPacketReturns(ch.owner)
       /\ output' = [output EXCEPT ![ch.owner] = "object"]
  /\ asked' = asked \ {a}
  /\ UNCHANGED <<conn, loginVars, user, greeting, left, running, tallyVars>>

(* CHANNEL_END in user_callback() with an answer that cannot be parsed: it *)
(* is dropped and that is all.  The parsers of the playlists never fail.   *)
UnparsableEnd(a) ==
  /\ Packets
  /\ End(a)
  /\ \E ch \in channel_by_id(a.id) :
       /\ kind[ch.owner] = "USER"
       /\ unparsed' = unparsed \union {ch.owner}
  /\ asked' = asked \ {a}
  /\ UNCHANGED <<reqVars, conn, loginVars, user, greeting, output, left, running, playlists, errors>>

(* CHANNEL_END in browse_generic_callback(): on to the next batch.         *)
BrowseEnd(a) ==
  /\ Packets
  /\ End(a)
  /\ \E ch \in channel_by_id(a.id) :
       /\ kind[ch.owner] \in Browse
       /\ IoPacketRetries(ch.owner, "due")
       /\ left' = [left EXCEPT ![ch.owner] = Served(ch.owner)]
  /\ asked' = asked \ {a}
  /\ UNCHANGED <<conn, loginVars, user, greeting, output, running, tallyVars>>

(* What playlistcontainer_callback() posts: a result for each playlist that *)
(* the answer lists, and a request for each one of the container, those of *)
(* earlier answers included.                                               *)
ContainerPosts(new) ==
  [i \in 1 .. new + playlists + new |-> IF i <= new THEN "PC_PLAYLIST_ADD" ELSE "PLAYLIST_LOAD"]

(* What playlist_callback() posts: a result if the answer names the        *)
(* playlist, a request if the owner's details are still to be asked for,   *)
(* and one for the tracks.                                                 *)
PlaylistLists ==
  LET tracks == "BROWSE_PLAYLIST_TRACKS" IN
  {<<tracks>>, <<"USER", tracks>>, <<"PLAYLIST_RENAME", tracks>>,
   <<"PLAYLIST_RENAME", "USER", tracks>>}

(* CHANNEL_END in either: first the posts, ...                             *)
PlaylistEnd(a) ==
  /\ Packets
  /\ \E ch \in channel_by_id(a.id), new \in 0 .. NumPlaylists :
       /\ \/ /\ kind[ch.owner] = "PC_LOAD"
             /\ playlists' = playlists + new
             /\ running' = [req |-> ch.owner, posts |-> ContainerPosts(new)]
          \/ /\ kind[ch.owner] = "PLAYLIST_LOAD"
             /\ playlists' = playlists
             /\ running' \in [req : {ch.owner}, posts : PlaylistLists]
       /\ posted + Len(running'.posts) <= MaxPosts
  /\ UNCHANGED <<reqVars, chanVars, conn, loginVars, user, greeting, asked, output, left, unparsed, errors>>

PlaylistPosts ==
  /\ running.posts # <<>>
  /\ LET k == Head(running.posts) IN
     /\ IF k \in Told THEN IoPostsResult(k) ELSE IoPosts(k)
     /\ output' = [output EXCEPT ![posted + 1] = IF k \in Told THEN "object" ELSE "none"]
     /\ \E b \in Batches :
          left' = [left EXCEPT ![posted + 1] = IF k = "BROWSE_PLAYLIST_TRACKS" THEN b ELSE 0]
  /\ running' = [running EXCEPT !.posts = Tail(@)]
  /\ UNCHANGED <<chanVars, conn, loginVars, user, greeting, asked, tallyVars>>

(* ... then return the result; the channel is unregistered after that.     *)
PlaylistReturns ==
  /\ running # NoCallback /\ running.posts = <<>>
  /\ \E a \in asked :
       /\ a.req = running.req
       /\ End(a)
       /\ asked' = asked \ {a}
  /\ IoPacketReturns(running.req)
  /\ output' = [output EXCEPT ![running.req] = "object"]
  /\ running' = NoCallback
  /\ UNCHANGED <<conn, loginVars, user, greeting, left, tallyVars>>

(* The end of a channel of the player, with an error or not.               *)
StreamEnd(a) ==
  /\ Packets /\ kind[a.req] \in Stream
  /\ End(a) \/ ProcessLast(a.id, TRUE, FALSE)
  /\ asked' = asked \ {a}
  /\ UNCHANGED <<reqVars, conn, loginVars, user, greeting, output, left, running, tallyVars>>

(* CMD_AESKEY, or CMD_KEYFAILED, on which handle_packet() asserts.         *)
KeyArrives(a) ==
  /\ Packets /\ kind[a.req] = "PLAYER_KEY"
  /\ AesKey(a.id)
  /\ asked' = asked \ {a}
  /\ UNCHANGED <<reqVars, conn, loginVars, user, greeting, output, left, running, tallyVars>>
KeyFailed(a) ==
  /\ Packets /\ kind[a.req] = "PLAYER_KEY"
  /\ Die
  /\ UNCHANGED <<chanVars, sessVars>>

(* handle_notify() and handle_playlist_state_changed() post a result, and  *)
(* CMD_TOKENLOST a request.                                                *)
Announces(k) ==
  /\ Packets
  /\ IoPostsResult(k)
  /\ output' = [output EXCEPT ![posted + 1] = "object"]
  /\ UNCHANGED <<chanVars, conn, loginVars, user, greeting, asked, left, running, tallyVars>>
TokenLost ==
  /\ Packets /\ "PLAY_TOKEN_LOST" \in Kind
  /\ IoPosts("PLAY_TOKEN_LOST")
  /\ UNCHANGED <<chanVars, sessVars>>

(* CMD_WELCOME: look the user up unless that was done before, then load    *)
(* the playlist container.  It follows session->user.                      *)
WelcomeUser ==
  /\ Packets /\ greeting = "user" /\ user = "set"
  /\ posted + 2 <= MaxPosts
  /\ \/ IoPosts("USER")
     \/ UNCHANGED reqVars
  /\ greeting' = "container"
  /\ UNCHANGED <<chanVars, conn, loginVars, user, asked, output, left, running, tallyVars>>

WelcomeContainer ==
  /\ ipc = "packets" /\ greeting = "container"
  /\ IoPosts("PC_LOAD")
  /\ greeting' = "none"
  /\ UNCHANGED <<chanVars, conn, loginVars, user, asked, output, left, running, tallyVars>>

WelcomeCrashes ==
  /\ Packets /\ greeting = "user" /\ user # "set"
  /\ Die
  /\ UNCHANGED <<chanVars, sessVars>>

(* The connection is lost: the socket is closed and a logout is announced  *)
(* to the application.  The channels stay as they are.                     *)
Disconnect ==
  /\ Packets
  /\ IoPostsResult("LOGOUT")
  /\ conn' = "DISCONNECTED"
  /\ greeting' = "none"
  /\ asked' = {}
  /\ output' = [output EXCEPT ![posted + 1] = "null"]
  /\ UNCHANGED <<chanVars, loginVars, user, left, running, tallyVars>>

PacketsDone ==
  /\ IoPacketsDone /\ running = NoCallback /\ greeting # "container"
  /\ UNCHANGED <<chanVars, sessVars>>

Stopped == Dead /\ UNCHANGED <<chanVars, sessVars>>

Application == AppWakes \/ AppFetches \/ AppDelivers \/ AppCrashes
Handlers ==
  \/ Postpone \/ FailOffline \/ LoginContinues \/ LoginSucceeds \/ LoginFails
  \/ Logout \/ LogoutCrashes
  \/ CacheProcess \/ QueryProcess \/ PlaylistProcess \/ BrowseProcess \/ BrowseReturns \/ WriteFails
  \/ PlayerProcess \/ PlayerWriteFails \/ TokenProcess
IoThread ==
  \/ Cleanup \/ StartWalk \/ Skip \/ EndOfWalk \/ Idle \/ PacketsDone
  \/ Handlers
  \/ PlaylistPosts \/ PlaylistReturns \/ WelcomeContainer
Server ==
  \/ \E a \in asked : \/ ChannelData(a) \/ ChannelError(a) \/ ObjectEnd(a)
                      \/ UnparsableEnd(a) \/ BrowseEnd(a) \/ PlaylistEnd(a)
                      \/ StreamEnd(a) \/ KeyArrives(a) \/ KeyFailed(a)
  \/ \E k \in Kind \intersect Announced : Announces(k)
  \/ TokenLost
  \/ WelcomeUser \/ WelcomeCrashes \/ Disconnect

SessionNext ==
  \/ Alive /\ (Application \/ IoThread \/ Server)
  \/ Alive /\ \E t \in Kind : AppPosts(t)
  \/ Alive /\ \E n \in Node : TimePasses(n)
  \/ Stopped

SessionSpec == SessionInit /\ [][SessionNext]_allVars

(* Both threads run and time passes; nothing is assumed of the server, nor *)
(* of when the application posts its requests.                             *)
SessionFairSpec ==
  /\ SessionSpec
  /\ WF_allVars(Alive /\ Application)
  /\ WF_allVars(Alive /\ IoThread)
  /\ \A n \in Node : WF_allVars(Alive /\ TimePasses(n))
-----------------------------------------------------------------------------
(* What the callbacks of playlists may post.                               *)
Posts == Told \union {"PLAYLIST_LOAD", "BROWSE_PLAYLIST_TRACKS", "USER"}

(* The session's own variables have their types; no browse request is      *)
(* served more batches than it asked for.                                  *)
SessionTypeOK ==
  /\ conn \in {"LOGGED_OUT", "LOGGED_IN", "DISCONNECTED"}
  /\ login \in Node \union {0}
  /\ contexts \subseteq Node
  /\ overwritten \subseteq Node
  /\ user \in {"garbage", "set", "none"}
  /\ greeting \in {"none", "user", "container"}
  /\ playlists \in Nat
  /\ asked \in SUBSET [id : Nat, req : Node]
  /\ output \in [Node -> {"none", "null", "object"}]
  /\ left \in [Node -> Nat]
  /\ unparsed \subseteq Node
  /\ running \in [req : Node \union {0}, posts : Seq(Posts)]
  /\ errors \in 0 .. MaxErrors

(* The request behind an open channel is running and parked at INT_MAX:    *)
(* it cannot be processed, failed, returned or freed before its channel    *)
(* is closed, so that no callback writes to a request that is gone.  The   *)
(* player's requests have returned by then and send nothing again.         *)
OwnersAreParked ==
  \A ch \in channels :
     IF kind[ch.owner] \in Stream
     THEN state[ch.owner] \in {"RETURNED", "PROCESSED", "freed"}
     ELSE state[ch.owner] = "RUNNING" /\ timer[ch.owner] = "never"

(* An answer of the server always finds the channel of the very query that *)
(* it answers, across reuse of ids, retries, logouts and reconnections.    *)
AnswersFindTheirChannel ==
  \A a \in asked : \E ch \in channels :
     /\ ch.id = a.id /\ ch.owner = a.req
     /\ \A other \in channels : other.id = a.id => other = ch

(* Once logged out no query is outstanding and no channel is left over.    *)
LoggedOutIsQuiet == conn = "LOGGED_OUT" => channels = {} /\ asked = {}

(* session->login always is the context of a login request that is still   *)
(* running, so that somebody drives it and releases it.  Any other context *)
(* is lost, and only the login_create() of a second request loses one:     *)
(* failures, successes and logouts, of which two may meet over one         *)
(* context, leave none behind, and a single login never does.              *)
Posted(t) == {n \in Node : state[n] # "absent" /\ kind[n] = t}
LoginIsDriven ==
  /\ login # 0 => /\ login \in contexts \ overwritten
                  /\ kind[login] = "LOGIN" /\ state[login] = "RUNNING"
  /\ contexts \subseteq {login} \union overwritten
  /\ (\A m, n \in Posted("LOGIN") : m = n) => overwritten = {}

(* A context that is lost is that of a login request that has begun.       *)
OverwrittenBegan ==
  \A n \in overwritten : kind[n] = "LOGIN" /\ state[n] \notin {"absent", "NEW"}

(* A request that is parked, out of reach of the walk, has an open channel *)
(* whose callback brings it back, unless its answer could not be parsed:   *)
(* then it is stranded for good.                                           *)
Parked(n) == state[n] = "RUNNING" /\ timer[n] = "never"
ParkedHasChannel == \A n \in Node : Parked(n) => n \in Owners \union unparsed

(* Until the first logout, lost connection or second login the connection  *)
(* has its user, and each parked request waits for a query that the server *)
(* may still answer, whatever was retried, failed or posted by callbacks   *)
(* in the meantime.  The one exception is the user whose details could not *)
(* be parsed.                                                              *)
OneLogin == Posted("LOGOUT") = {} /\ \A m, n \in Posted("LOGIN") : m = n
FirstConnectionIsSound ==
  conn = "LOGGED_IN" /\ OneLogin =>
    /\ user = "set"
    /\ \A n \in Node : Parked(n) => n \in unparsed \/ \E a \in asked : a.req = n

(* REQ_TYPE_CACHE_PERIODIC: "Never returns."  It would be failed like any  *)
(* running request when the session goes offline if it ever left NEW.      *)
CacheNeverReturns ==
  \A n \in Node : kind[n] = "CACHE_PERIODIC" => state[n] \in {"absent", "NEW"}

(* Only requests that ask the server something own channels, and a browse  *)
(* request that waits for a batch has one to wait for.                     *)
OwnersAsk ==
  \A ch \in channels :
     /\ kind[ch.owner] \in Query \union Browse \union Stream \union {"PC_LOAD", "PLAYLIST_LOAD"}
     /\ kind[ch.owner] \in Browse => left[ch.owner] > 0

(* What holds until the first connection ends: a login that was posted has *)
(* set the user, the connection is that of a login that has returned, and  *)
(* each channel but the player's can still be answered.                    *)
Answerable(ch) == kind[ch.owner] \in Stream \/ \E a \in asked : a.id = ch.id /\ a.req = ch.owner
FirstLoginHolds ==
  OneLogin =>
    /\ conn # "DISCONNECTED"
    /\ Posted("LOGIN") # {} => user = "set"
    /\ conn = "LOGGED_IN" => /\ \E n \in Posted("LOGIN") : state[n] \notin Active
                             /\ \A ch \in channels : Answerable(ch)

(* The inductive invariant of the session.  The requests, the channels and *)
(* the session's own state hold each other up: a channel's owner is parked *)
(* because every query is answered on its own channel, and the answer      *)
(* finds that channel because its owner is parked.                         *)
SessionInv ==
  /\ RequestInv
  /\ ChannelInv
  /\ SessionTypeOK
  /\ since <= MaxSince
  /\ OwnersAreParked
  /\ OwnersAsk
  /\ AnswersFindTheirChannel
  /\ LoggedOutIsQuiet
  /\ LoginIsDriven
  /\ OverwrittenBegan
  /\ CacheNeverReturns
  /\ FirstLoginHolds
  /\ ParkedHasChannel

(* A logout that is posted is carried out if the number of open channels   *)
(* stays below what process_request() allows from some time on, however    *)
(* often it was postponed at the limit until then.  The condition leaves   *)
(* out one thing, channels that stay at the limit for good: the logout     *)
(* that would close them then waits for them.                              *)
LogoutIsProcessed ==
  <>[](num_channels < MaxChannels) =>
    \A n \in Node : kind[n] = "LOGOUT" /\ state[n] = "NEW" ~> (state[n] # "NEW" \/ ~Alive)
-----------------------------------------------------------------------------
(* What the code says of itself and does not keep.                         *)

(* "Also used to run search complete callback in the context of the main   *)
(* thread." (request.h): the result must be there to run it on.            *)
CallbackHasItsObject == ~FollowsNull
=============================================================================
