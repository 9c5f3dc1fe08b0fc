------------------------------- MODULE Request -------------------------------
(***************************************************************************)
(* The request scoreboard: request.c, the loop of iothread.c that works on *)
(* it, and sp_session_process_events(), which delivers its results.        *)
(*                                                                         *)
(* Two threads share the list session->requests.  The main thread posts    *)
(* requests, fetches returned ones, runs the application's callback and    *)
(* marks them processed.  The networking thread (iothread) frees the       *)
(* processed ones, walks the list WITHOUT the mutex and lets the handlers  *)
(* run, return or postpone each request, then reads packets, or sleeps     *)
(* when the list is empty.                                                 *)
(*                                                                         *)
(* A request is appended at the tail and unlinked in place, so the list is *)
(* always in the order of posting: a node is named by its number in that   *)
(* order and the list is the set Live of the nodes that are linked.  What  *)
(* the handlers of iothread.c decide is left open here; module Session     *)
(* fixes it.                                                               *)
(***************************************************************************)
EXTENDS Naturals

CONSTANTS Kind,      \* the request types in use
          MaxPosts,  \* bound on the number of requests ever posted
          TornPost   \* whether the walk can fall between the malloc() and the
                     \* initialisation of a node that is being posted

(* request_type                                                            *)
ReqType == {"LOGIN", "LOGOUT", "NOTIFY", "PC_LOAD", "PC_PLAYLIST_ADD",
            "PC_PLAYLIST_REMOVE", "PC_PLAYLIST_MOVE", "PC_PLAYLIST_CHANGE",
            "PLAYLIST_LOAD", "PLAYLIST_RENAME", "PLAYLIST_CHANGE",
            "PLAYLIST_STATE_CHANGED", "BROWSE_PLAYLIST_TRACKS", "BROWSE_TRACK",
            "BROWSE_ALBUM", "BROWSE_ARTIST", "SEARCH", "TOPLISTBROWSE", "USER",
            "IMAGE", "ALBUMBROWSE", "ARTISTBROWSE", "PLAYER_KEY",
            "PLAYER_SUBSTREAM", "PLAY_TOKEN_ACQUIRE", "PLAY_TOKEN_LOST",
            "CACHE_PERIODIC"}

(* The types that request_notify_main_thread() wakes the main thread for.  *)
Notified == {"LOGIN", "LOGOUT", "PLAY_TOKEN_LOST", "NOTIFY", "IMAGE", "USER",
             "PC_PLAYLIST_ADD", "PC_PLAYLIST_REMOVE", "PC_PLAYLIST_MOVE",
             "PLAYLIST_RENAME", "PLAYLIST_STATE_CHANGED", "PC_LOAD",
             "ALBUMBROWSE", "ARTISTBROWSE", "BROWSE_ALBUM", "BROWSE_ARTIST",
             "BROWSE_TRACK", "SEARCH"}

ASSUME RequestAssumption ==
  /\ MaxPosts \in Nat
  /\ Kind \subseteq ReqType /\ Kind # {}
  /\ TornPost \in BOOLEAN

VARIABLES posted,    \* nodes linked so far
          state,     \* req->state of each node; RAW is malloc()ed memory
          kind,      \* req->type
          timer,     \* req->next_timeout: due, later, or never (INT_MAX)
          mutex,     \* session->request_mutex: its owner
          mpc,       \* the main thread is asleep or in process_events()
          fetched,   \* its local variable request, 0 for NULL
          ipc,       \* the networking thread's place in its loop
          walker,    \* its local variable req, 0 for NULL
          notified,  \* notify_main_thread() was called and not yet heeded
          delivered  \* history: how often each result was delivered

mainVars == <<mpc, fetched, delivered>>
ioVars == <<ipc, walker>>
reqVars == <<posted, state, kind, timer, mutex, mpc, fetched, ipc, walker, notified, delivered>>

Node == 1 .. MaxPosts
Timer == {"due", "later", "never"}
Active == {"NEW", "RUNNING"}
Linked == {"RAW", "NEW", "RUNNING", "RETURNED", "PROCESSED"}
Live == {n \in Node : state[n] \in Linked}

(* The head of the list if after is 0, else the next pointer of a node.    *)
IsNext(after, n) ==
  IF \E m \in Live : m > after
  THEN n \in Live /\ n > after /\ \A m \in Live : m > after => n <= m
  ELSE n = 0
Follow(after) == \E n \in Node \union {0} : IsNext(after, n) /\ walker' = n
-----------------------------------------------------------------------------
(* request_post() and request_post_result() under the mutex.               *)
Link(k, st) ==
  /\ posted < MaxPosts
  /\ posted' = posted + 1
  /\ state' = [state EXCEPT ![posted + 1] = st]
  /\ kind' = [kind EXCEPT ![posted + 1] = k]
  /\ timer' = [timer EXCEPT ![posted + 1] = "due"]

(* Slip: the condition is not signalled.                                   *)
SignalDropped == ipc' = ipc

(* pthread_cond_signal(&session->idle_wakeup)                              *)
Signal == ipc' = IF ipc = "waiting" THEN "cleanup" ELSE ipc

(* Slip: the notification is dropped.                                      *)
NotifyDropped(k) == notified' = notified

(* request_notify_main_thread(), still under the mutex.                    *)
Notify(k) == notified' = (notified \/ k \in Notified)

Returns(n) ==
  /\ state' = [state EXCEPT ![n] = "RETURNED"]
  /\ Notify(kind[n])
-----------------------------------------------------------------------------
ReqInit ==
  /\ posted = 0
  /\ state = [n \in Node |-> "absent"]
  /\ kind = [n \in Node |-> CHOOSE k \in Kind : TRUE]
  /\ timer = [n \in Node |-> "due"]
  /\ mutex = "free"
  /\ mpc = "asleep"
  /\ fetched = 0
  /\ ipc = "cleanup"
  /\ walker = 0
  /\ notified = FALSE
  /\ delivered = [n \in Node |-> 0]

(* request_post() by the main thread, from the application's own code or   *)
(* from a callback, when no step of the walk falls inside of it.           *)
MainPost(k) ==
  /\ ~TornPost /\ mutex = "free"
  /\ Link(k, "NEW")
  /\ Signal
  /\ UNCHANGED <<mutex, mainVars, walker, notified>>

(* request_post(), first half: lock the mutex, malloc() and link.          *)
MainLink(k) ==
  /\ TornPost /\ mutex = "free"
  /\ mutex' = "main"
  /\ Link(k, "RAW")
  /\ UNCHANGED <<mainVars, ioVars, notified>>

(* request_post(), second half: fill in the fields, signal and unlock.     *)
MainFill ==
  /\ mutex = "main"
  /\ state' = [state EXCEPT ![posted] = "NEW"]
  /\ Signal
  /\ mutex' = "free"
  /\ UNCHANGED <<posted, kind, timer, mainVars, walker, notified>>

(* The application's loop calls sp_session_process_events() once it was    *)
(* notified, or after the time the previous call told it to sleep.         *)
MainWake ==
  /\ mutex # "main"
  /\ mpc = "asleep"
  /\ mpc' = "events"
  /\ notified' = FALSE
  /\ UNCHANGED <<posted, state, kind, timer, mutex, fetched, delivered, ioVars>>

(* Slip: requests that are still running are fetched as well.              *)
MainFetchAny ==
  /\ mutex = "free" /\ mpc = "events" /\ fetched = 0
  /\ fetched' \in {n \in Node : state[n] \in {"RUNNING", "RETURNED"}}
  /\ UNCHANGED <<posted, state, kind, timer, mutex, mpc, delivered, ioVars, notified>>

(* request_fetch_next_result(): the first returned request of the list; if *)
(* there is none, process_events() returns and the application sleeps.     *)
MainFetch ==
  /\ mutex = "free" /\ mpc = "events" /\ fetched = 0
  /\ LET returned == {n \in Node : state[n] = "RETURNED"} IN
     \/ /\ fetched' \in {n \in returned : \A m \in returned : n <= m}
        /\ mpc' = mpc
     \/ /\ returned = {}
        /\ mpc' = "asleep"
        /\ fetched' = 0
  /\ UNCHANGED <<posted, state, kind, timer, mutex, delivered, ioVars, notified>>

(* Slip: the request is not marked.                                        *)
MainDeliverUnmarked ==
  /\ mutex = "free" /\ fetched # 0
  /\ fetched' = 0
  /\ UNCHANGED <<posted, state, kind, timer, mutex, mpc, delivered, ioVars, notified>>

(* The callback has run; request_mark_processed().                         *)
MainDeliver ==
  /\ mutex = "free" /\ fetched # 0
  /\ state' = [state EXCEPT ![fetched] = "PROCESSED"]
  /\ delivered' = [delivered EXCEPT ![fetched] = @ + 1]
  /\ fetched' = 0
  /\ UNCHANGED <<posted, kind, timer, mutex, mpc, ioVars, notified>>
-----------------------------------------------------------------------------
(* Slips: results are freed before they are processed; requests are freed  *)
(* in the middle of the walk.                                              *)
IoCleanupReturned ==
  /\ ipc = "cleanup" /\ mutex = "free"
  /\ state' = [n \in Node |-> IF state[n] \in {"RETURNED", "PROCESSED"} THEN "freed" ELSE state[n]]
  /\ ipc' = "start"
  /\ UNCHANGED <<posted, kind, timer, mutex, mainVars, walker, notified>>
IoCleanupAnytime ==
  /\ ipc \in {"cleanup", "walk"} /\ mutex = "free"
  /\ state' = [n \in Node |-> IF state[n] = "PROCESSED" THEN "freed" ELSE state[n]]
  /\ ipc' = IF ipc = "cleanup" THEN "start" ELSE ipc
  /\ UNCHANGED <<posted, kind, timer, mutex, mainVars, walker, notified>>

(* request_cleanup(): unlink and free every processed request.             *)
IoCleanup ==
  /\ ipc = "cleanup" /\ mutex = "free"
  /\ state' = [n \in Node |-> IF state[n] = "PROCESSED" THEN "freed" ELSE state[n]]
  /\ ipc' = "start"
  /\ UNCHANGED <<posted, kind, timer, mutex, mainVars, walker, notified>>

(* for(req = s->requests; ...: the walk begins, without the mutex.         *)
IoStart ==
  /\ ipc = "start"
  /\ Follow(0)
  /\ ipc' = "walk"
  /\ UNCHANGED <<posted, state, kind, timer, mutex, mainVars, notified>>

AtNode == ipc = "walk" /\ walker # 0
Ready(n) == state[n] \in Active /\ timer[n] = "due"

(* Nothing to do for this request, or not yet.                             *)
IoSkip ==
  /\ AtNode
  /\ state[walker] # "RAW" /\ ~Ready(walker)
  /\ Follow(walker)
  /\ UNCHANGED <<posted, state, kind, timer, mutex, mainVars, ipc, notified>>

(* process_request() postpones the request, or a handler sends its command *)
(* and waits for the channel, or lets itself be called again (login).      *)
Keep(st, t) ==
  /\ AtNode /\ Ready(walker)
  /\ st \in {state[walker], "RUNNING"}
  /\ t # "later" => st = "RUNNING"
  /\ state' = [state EXCEPT ![walker] = st]
  /\ timer' = [timer EXCEPT ![walker] = t]
  /\ Follow(walker)
  /\ UNCHANGED <<posted, kind, mutex, mainVars, ipc, notified>>
IoKeep == \E st \in Active, t \in Timer : Keep(st, t)

(* A handler calls request_set_result(); that of the logout fails the      *)
(* channels first, whose callbacks have requests tried again.              *)
Return(later, due) ==
  /\ AtNode /\ Ready(walker) /\ mutex = "free"
  /\ Returns(walker)
  /\ \A n \in later \union due : timer[n] = "never"
  /\ timer' = [n \in Node |-> IF n \in later THEN "later"
                             ELSE IF n \in due THEN "due" ELSE timer[n]]
  /\ Follow(walker)
  /\ UNCHANGED <<posted, kind, mutex, mainVars, ipc>>
IoReturn ==
  LET parked == {n \in Node : timer[n] = "never"} IN
  \E later \in SUBSET parked : \E due \in SUBSET (parked \ later) : Return(later, due)

(* The walk has stepped on a node that is linked but not initialised: it   *)
(* reads whatever the memory held.  Either that looks like the end of the  *)
(* list or the thread follows a wild pointer or acts on a made up request. *)
IoReadRaw ==
  /\ AtNode /\ state[walker] = "RAW"
  /\ \/ walker' = 0 /\ ipc' = ipc
     \/ walker' = walker /\ ipc' = "astray"
  /\ UNCHANGED <<posted, state, kind, timer, mutex, mainVars, notified>>

(* After the walk: packets if logged in, else see whether to sleep.        *)
IoEndOfWalk ==
  /\ ipc = "walk" /\ walker = 0
  /\ ipc' \in {"packets", "idle"}
  /\ UNCHANGED <<posted, state, kind, timer, mutex, mainVars, walker, notified>>

(* A channel callback returns the request that waits for the channel.      *)
IoPacketReturns(n) ==
  /\ ipc = "packets" /\ mutex = "free"
  /\ state[n] = "RUNNING" /\ timer[n] = "never"
  /\ Returns(n)
  /\ UNCHANGED <<posted, kind, timer, mutex, mainVars, ioVars>>

(* A channel callback has the request tried again, at once or later.       *)
IoPacketRetries(n, t) ==
  /\ ipc = "packets"
  /\ state[n] = "RUNNING" /\ timer[n] = "never"
  /\ timer' = [timer EXCEPT ![n] = t]
  /\ UNCHANGED <<posted, state, kind, mutex, mainVars, ioVars, notified>>

(* A packet handler or a callback posts a request.                         *)
IoPosts(k) ==
  /\ ipc = "packets" /\ mutex = "free"
  /\ Link(k, "NEW")
  /\ UNCHANGED <<mutex, mainVars, ioVars, notified>>

(* A packet handler posts a result: request_post_result().                 *)
IoPostsResult(k) ==
  /\ ipc = "packets" /\ mutex = "free"
  /\ Link(k, "RETURNED")
  /\ Notify(k)
  /\ UNCHANGED <<mutex, mainVars, ioVars>>

IoPacketsDone ==
  /\ ipc = "packets"
  /\ ipc' = "cleanup"
  /\ UNCHANGED <<posted, state, kind, timer, mutex, mainVars, walker, notified>>

(* Not logged in: pthread_cond_wait() if the list is empty.                *)
IoIdle ==
  /\ ipc = "idle" /\ mutex = "free"
  /\ ipc' = IF Live = {} THEN "waiting" ELSE "cleanup"
  /\ UNCHANGED <<posted, state, kind, timer, mutex, mainVars, walker, notified>>

(* Time passes a request's next_timeout.                                   *)
Expire(n) ==
  /\ timer[n] = "later"
  /\ timer' = [timer EXCEPT ![n] = "due"]
  /\ UNCHANGED <<posted, state, kind, mutex, mainVars, ioVars, notified>>

(* The process exits: exit(1) in iothread() after a failed request, or a   *)
(* crash.                                                                  *)
Die ==
  /\ ipc' = "dead"
  /\ UNCHANGED <<posted, state, kind, timer, mutex, mainVars, walker, notified>>

Alive == ipc # "dead"
Dead == ~Alive /\ UNCHANGED reqVars

Main == Alive /\ (MainFill \/ MainWake \/ MainFetch \/ MainDeliver)
Io == \/ IoCleanup \/ IoStart \/ IoSkip \/ IoKeep \/ IoReturn \/ IoReadRaw
      \/ IoEndOfWalk \/ IoPacketsDone \/ IoIdle

ReqNext ==
  \/ Main
  \/ Io
  \/ Alive /\ \E k \in Kind : MainPost(k) \/ MainLink(k) \/ IoPosts(k) \/ IoPostsResult(k)
  \/ Alive /\ \E n \in Node : \/ IoPacketReturns(n)
                             \/ IoPacketRetries(n, "due") \/ IoPacketRetries(n, "later")
                             \/ Expire(n)
  \/ Alive /\ Die
  \/ Dead

ReqSpec == ReqInit /\ [][ReqNext]_reqVars

(* Both threads are scheduled, the application goes on calling             *)
(* sp_session_process_events() when the time it was given is over, and     *)
(* time passes.  Nothing is assumed of when requests are posted or of what *)
(* the server answers.                                                     *)
ReqFairSpec ==
  /\ ReqSpec
  /\ WF_reqVars(Main)
  /\ WF_reqVars(Io)
  /\ \A n \in Node : WF_reqVars(Expire(n))
-----------------------------------------------------------------------------
(* The variables hold the values that request.h declares, and every node   *)
(* named by a thread is a node.                                            *)
ReqTypeOK ==
  /\ posted \in 0 .. MaxPosts
  /\ state \in [Node -> {"absent", "freed"} \union Linked]
  /\ kind \in [Node -> Kind]
  /\ timer \in [Node -> Timer]
  /\ mutex \in {"free", "main"}
  /\ mpc \in {"asleep", "events"}
  /\ fetched \in Node \union {0}
  /\ ipc \in {"cleanup", "start", "walk", "astray", "packets", "idle", "waiting", "dead"}
  /\ walker \in Node \union {0}
  /\ notified \in BOOLEAN
  /\ delivered \in [Node -> Nat]

(* The unlocked walk of iothread() never stands on a node that was freed,  *)
(* although the main thread marks requests processed under its feet.       *)
WalkerIsLive == walker # 0 => walker \in Live

(* The request that sp_session_process_events() works on outside of the    *)
(* mutex is neither freed nor touched by the networking thread.            *)
FetchedIsReturned == fetched # 0 => state[fetched] = "RETURNED"

(* Every result is delivered to the application once before the request is *)
(* freed, and never a second time.                                         *)
DeliveredOnce ==
  \A n \in Node : delivered[n] = IF state[n] \in {"PROCESSED", "freed"} THEN 1 ELSE 0

(* pthread_cond_wait() in iothread() does not miss the signal of           *)
(* request_post(): while it waits the list is empty, or a post is underway *)
(* whose signal is still to come.                                          *)
NoLostWakeup == ipc = "waiting" => (Live = {} \/ mutex = "main")

(* A main thread that sleeps on a result of a type that is announced has a *)
(* notification to wake it: none is swallowed by the process_events() that *)
(* was running when the result came in.                                    *)
NoLostNotification ==
  mpc = "asleep" /\ (\E n \in Node : state[n] = "RETURNED" /\ kind[n] \in Notified)
    => notified

(* Memory that is linked but not initialised is the node being posted.     *)
RawIsBeingPosted ==
  /\ \A n \in Node : state[n] = "RAW" => mutex = "main" /\ n = posted
  /\ mutex = "main" => posted \in Node /\ state[posted] = "RAW"

(* The walk holds no pointer into the list while requests are freed.       *)
WalkIsOver == ipc \notin {"walk", "astray", "dead"} => walker = 0

(* A request is fetched only within process_events().                      *)
FetchedInEvents == fetched # 0 => mpc = "events"

(* Nodes are linked in the order of posting.                               *)
LinkedInOrder == \A n \in Node : state[n] = "absent" <=> n > posted

(* The inductive invariant behind the properties above.                    *)
RequestInv ==
  /\ ReqTypeOK
  /\ WalkerIsLive
  /\ WalkIsOver
  /\ FetchedIsReturned
  /\ FetchedInEvents
  /\ DeliveredOnce
  /\ NoLostWakeup
  /\ NoLostNotification
  /\ RawIsBeingPosted
  /\ LinkedInOrder

(* What a request's state is in the terms of module Delivery.              *)
LifeStage(st) ==
  CASE st = "absent" -> "unposted"
    [] st \in {"RAW", "NEW", "RUNNING"} -> "pending"
    [] st = "RETURNED" -> "answered"
    [] st = "PROCESSED" -> "delivered"
    [] st = "freed" -> "gone"
Promise == INSTANCE Delivery WITH
             Id <- Node, life <- [n \in Node |-> LifeStage(state[n])], hand <- fetched

(* The scoreboard implements the abstract specification: seen from the     *)
(* application it takes requests in order, hands over the oldest answer    *)
(* that there is, each one once and one at a time, and frees nothing that  *)
(* was not delivered, whatever the unlocked walk does meanwhile.           *)
DeliveryPromised == Promise!DeliverySpec

(* Unless the process dies, every result reaches the application and its   *)
(* request is freed, also those that nobody notifies the main thread of.   *)
ResultsAreDelivered ==
  \A n \in Node : state[n] = "RETURNED" ~> (state[n] = "freed" \/ ~Alive)

(* Every posted request is looked at by the networking thread, even if it  *)
(* slept when the request was posted.                                      *)
RequestsAreTried ==
  \A n \in Node : state[n] = "NEW" ~> ((AtNode /\ walker = n) \/ ~Alive)
=============================================================================
