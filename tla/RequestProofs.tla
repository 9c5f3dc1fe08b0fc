---------------------------- MODULE RequestProofs ----------------------------
(***************************************************************************)
(* Proofs about Request, for every set of request types, every number of   *)
(* requests, and posts that are torn or not.                               *)
(***************************************************************************)
EXTENDS Request, TLAPS

(* The empty list of sp_session_init().                                    *)
LEMMA ReqInitInv == ReqInit => RequestInv
<1> SUFFICES ASSUME ReqInit PROVE RequestInv
  OBVIOUS
<1>1. Node \in SUBSET Nat /\ 0 \notin Node
  BY RequestAssumption DEF Node
<1> DEFINE anyKind == CHOOSE k \in Kind : TRUE
<1>2. anyKind \in Kind /\ kind = [n \in Node |-> anyKind]
  BY RequestAssumption DEF ReqInit
<1>3. ReqTypeOK
  <2> HIDE DEF anyKind
  <2>1. kind \in [Node -> Kind]
    BY <1>2
  <2>2. posted \in 0..MaxPosts
    BY RequestAssumption DEF ReqInit
  <2>3. QED
    BY <2>1, <2>2 DEF ReqInit, ReqTypeOK, Timer
<1>4. Live = {}
  BY DEF ReqInit, Live, Linked
<1>5. WalkerIsLive /\ WalkIsOver /\ FetchedIsReturned /\ FetchedInEvents
  BY DEF ReqInit, WalkerIsLive, WalkIsOver, FetchedIsReturned, FetchedInEvents
<1>6. DeliveredOnce /\ NoLostWakeup /\ NoLostNotification
  BY <1>4 DEF ReqInit, DeliveredOnce, NoLostWakeup, NoLostNotification
<1>7. RawIsBeingPosted /\ LinkedInOrder
  BY <1>1 DEF ReqInit, RawIsBeingPosted, LinkedInOrder, Node
<1>8. QED
  BY <1>3, <1>5, <1>6, <1>7 DEF RequestInv

(* request_post() in one step.                                             *)
LEMMA MainPostInv ==
  ASSUME RequestInv, NEW k \in Kind, MainPost(k)
  PROVE  RequestInv'
<1> USE RequestAssumption DEF RequestInv, ReqTypeOK, Node, Live, Linked, mainVars, ioVars,
         MainPost, Link, Signal
<1>1. ReqTypeOK'
  BY DEF Timer
<1>2. WalkerIsLive'
  BY DEF WalkerIsLive
<1>3. WalkIsOver'
  BY DEF WalkIsOver
<1>4. FetchedIsReturned'
  BY DEF FetchedIsReturned, LinkedInOrder
<1>5. DeliveredOnce'
  BY DEF DeliveredOnce, LinkedInOrder
<1>6. NoLostWakeup'
  BY DEF NoLostWakeup
<1>7. NoLostNotification'
  BY DEF NoLostNotification
<1>8. RawIsBeingPosted'
  BY DEF RawIsBeingPosted
<1>9. LinkedInOrder'
  BY DEF LinkedInOrder
<1>10. FetchedInEvents'
  BY DEF FetchedInEvents
<1>11. QED
  BY <1>1, <1>2, <1>3, <1>4, <1>5, <1>6, <1>7, <1>8, <1>9, <1>10

(* request_post() up to the link: the new node is the last one.            *)
LEMMA MainLinkInv ==
  ASSUME RequestInv, NEW k \in Kind, MainLink(k)
  PROVE  RequestInv'
<1> USE RequestAssumption DEF RequestInv, ReqTypeOK, Node, Live, Linked, mainVars, ioVars,
         MainLink, Link
<1>1. ReqTypeOK'
  BY DEF Timer
<1>2. WalkerIsLive'
  BY DEF WalkerIsLive
<1>3. FetchedIsReturned'
  BY DEF FetchedIsReturned, LinkedInOrder
<1>4. DeliveredOnce'
  BY DEF DeliveredOnce, LinkedInOrder
<1>5. NoLostWakeup'
  BY DEF NoLostWakeup
<1>6. NoLostNotification'
  BY DEF NoLostNotification
<1>7. RawIsBeingPosted'
  BY DEF RawIsBeingPosted
<1>8. LinkedInOrder'
  BY DEF LinkedInOrder
<1>9. WalkIsOver' /\ FetchedInEvents'
  BY DEF WalkIsOver, FetchedInEvents
<1>10. QED
  BY <1>1, <1>2, <1>3, <1>4, <1>5, <1>6, <1>7, <1>8, <1>9

(* The rest of request_post().                                             *)
LEMMA MainFillInv ==
  ASSUME RequestInv, MainFill
  PROVE  RequestInv'
<1> USE RequestAssumption DEF RequestInv, ReqTypeOK, Node, Live, Linked, mainVars, ioVars,
         MainFill, Signal
<1>1. ReqTypeOK'
  BY DEF Timer
<1>2. WalkerIsLive'
  BY DEF WalkerIsLive
<1>3. WalkIsOver'
  BY DEF WalkIsOver
<1>4. FetchedIsReturned'
  BY DEF FetchedIsReturned, RawIsBeingPosted
<1>5. DeliveredOnce'
  BY DEF DeliveredOnce, RawIsBeingPosted
<1>6. NoLostWakeup'
  BY DEF NoLostWakeup
<1>7. NoLostNotification'
  BY DEF NoLostNotification
<1>8. RawIsBeingPosted'
  BY DEF RawIsBeingPosted
<1>9. LinkedInOrder'
  BY DEF LinkedInOrder
<1>10. FetchedInEvents'
  BY DEF FetchedInEvents
<1>11. QED
  BY <1>1, <1>2, <1>3, <1>4, <1>5, <1>6, <1>7, <1>8, <1>9, <1>10

(* The application calls process_events(); a notification is heeded.       *)
LEMMA MainWakeInv ==
  ASSUME RequestInv, MainWake
  PROVE  RequestInv'
<1> USE RequestAssumption DEF RequestInv, ReqTypeOK, Node, Live, Linked, mainVars, ioVars,
         MainWake
<1>1. ReqTypeOK'
  BY DEF Timer
<1>2. FetchedInEvents'
  BY DEF FetchedInEvents
<1>3. NoLostNotification'
  BY DEF NoLostNotification
<1>4. /\ WalkerIsLive' /\ WalkIsOver' /\ FetchedIsReturned'
      /\ DeliveredOnce' /\ NoLostWakeup' /\ RawIsBeingPosted'
      /\ LinkedInOrder'
  BY DEF WalkerIsLive, WalkIsOver, FetchedIsReturned, DeliveredOnce, NoLostWakeup,
         RawIsBeingPosted, LinkedInOrder
<1>5. QED
  BY <1>1, <1>2, <1>3, <1>4

(* request_fetch_next_result(): the main thread sleeps on no result.       *)
LEMMA MainFetchInv ==
  ASSUME RequestInv, MainFetch
  PROVE  RequestInv'
<1> USE RequestAssumption DEF RequestInv, ReqTypeOK, Node, Live, Linked, mainVars, ioVars,
         MainFetch
<1>1. ReqTypeOK'
  BY DEF Timer
<1>2. FetchedIsReturned'
  BY DEF FetchedIsReturned
<1>3. FetchedInEvents'
  BY DEF FetchedInEvents
<1>4. NoLostNotification'
  BY DEF NoLostNotification
<1>5. /\ WalkerIsLive' /\ WalkIsOver' /\ DeliveredOnce' /\ NoLostWakeup'
      /\ RawIsBeingPosted' /\ LinkedInOrder'
  BY DEF WalkerIsLive, WalkIsOver, DeliveredOnce, NoLostWakeup, RawIsBeingPosted,
         LinkedInOrder
<1>6. QED
  BY <1>1, <1>2, <1>3, <1>4, <1>5

(* request_mark_processed() after the callback.                            *)
LEMMA MainDeliverInv ==
  ASSUME RequestInv, MainDeliver
  PROVE  RequestInv'
<1> USE RequestAssumption DEF RequestInv, ReqTypeOK, Node, Live, Linked, mainVars, ioVars,
         MainDeliver
<1>1. ReqTypeOK'
  BY DEF Timer
<1>2. WalkerIsLive'
  BY DEF WalkerIsLive
<1>3. FetchedIsReturned'
  BY DEF FetchedIsReturned
<1>4. FetchedInEvents'
  BY DEF FetchedInEvents
<1>5. DeliveredOnce'
  BY DEF DeliveredOnce, FetchedIsReturned
<1>6. NoLostWakeup'
  BY DEF NoLostWakeup, FetchedIsReturned
<1>7. NoLostNotification'
  BY DEF NoLostNotification
<1>8. RawIsBeingPosted'
  BY DEF RawIsBeingPosted
<1>9. LinkedInOrder'
  BY DEF LinkedInOrder, FetchedIsReturned
<1>10. WalkIsOver'
  BY DEF WalkIsOver
<1>11. QED
  BY <1>1, <1>2, <1>3, <1>4, <1>5, <1>6, <1>7, <1>8, <1>9, <1>10

(* request_cleanup(): the walk is over, so nothing under it is freed.      *)
LEMMA IoCleanupInv ==
  ASSUME RequestInv, IoCleanup
  PROVE  RequestInv'
<1> USE RequestAssumption DEF RequestInv, ReqTypeOK, Node, Live, Linked, mainVars, ioVars,
         IoCleanup
<1>1. ReqTypeOK'
  BY DEF Timer
<1>2. WalkerIsLive'
  BY DEF WalkerIsLive, WalkIsOver
<1>3. WalkIsOver'
  BY DEF WalkIsOver
<1>4. FetchedIsReturned'
  BY DEF FetchedIsReturned
<1>5. DeliveredOnce'
  BY DEF DeliveredOnce
<1>6. NoLostWakeup'
  BY DEF NoLostWakeup
<1>7. NoLostNotification'
  BY DEF NoLostNotification
<1>8. RawIsBeingPosted'
  BY DEF RawIsBeingPosted
<1>9. LinkedInOrder'
  BY DEF LinkedInOrder
<1>10. FetchedInEvents'
  BY DEF FetchedInEvents
<1>11. QED
  BY <1>1, <1>2, <1>3, <1>4, <1>5, <1>6, <1>7, <1>8, <1>9, <1>10

(* The head of the list.                                                   *)
LEMMA IoStartInv ==
  ASSUME RequestInv, IoStart
  PROVE  RequestInv'
<1> USE RequestAssumption DEF RequestInv, ReqTypeOK, Node, Live, Linked, mainVars, ioVars,
         IoStart, Follow, IsNext
<1>1. ReqTypeOK'
  BY DEF Timer
<1>2. WalkerIsLive'
  BY DEF WalkerIsLive
<1>3. WalkIsOver'
  BY DEF WalkIsOver
<1>4. NoLostWakeup'
  BY DEF NoLostWakeup
<1>5. /\ FetchedIsReturned' /\ FetchedInEvents' /\ DeliveredOnce'
      /\ NoLostNotification' /\ RawIsBeingPosted' /\ LinkedInOrder'
  BY DEF FetchedIsReturned, FetchedInEvents, DeliveredOnce, NoLostNotification,
         RawIsBeingPosted, LinkedInOrder
<1>6. QED
  BY <1>1, <1>2, <1>3, <1>4, <1>5

(* The walk passes a request by.                                           *)
LEMMA IoSkipInv ==
  ASSUME RequestInv, IoSkip
  PROVE  RequestInv'
<1> USE RequestAssumption DEF RequestInv, ReqTypeOK, Node, Live, Linked, mainVars, ioVars,
         IoSkip, AtNode, Follow, IsNext
<1>1. ReqTypeOK'
  BY DEF Timer
<1>2. WalkerIsLive'
  BY DEF WalkerIsLive
<1>3. WalkIsOver'
  BY DEF WalkIsOver
<1>4. /\ FetchedIsReturned' /\ FetchedInEvents' /\ DeliveredOnce'
      /\ NoLostWakeup' /\ NoLostNotification' /\ RawIsBeingPosted'
      /\ LinkedInOrder'
  BY DEF FetchedIsReturned, FetchedInEvents, DeliveredOnce, NoLostWakeup,
         NoLostNotification, RawIsBeingPosted, LinkedInOrder
<1>5. QED
  BY <1>1, <1>2, <1>3, <1>4

(* The walk leaves a request for later.                                    *)
LEMMA KeepInv ==
  ASSUME RequestInv, NEW st \in Active, NEW t \in Timer, Keep(st, t)
  PROVE  RequestInv'
<1> USE RequestAssumption DEF RequestInv, ReqTypeOK, Node, Live, Linked, mainVars, ioVars,
         Keep, AtNode, Ready, Follow, IsNext, Active
<1>1. ReqTypeOK'
  BY DEF Timer
<1>2. WalkerIsLive'
  BY DEF WalkerIsLive
<1>3. WalkIsOver'
  BY DEF WalkIsOver
<1>4. FetchedIsReturned'
  BY DEF FetchedIsReturned
<1>5. DeliveredOnce'
  BY DEF DeliveredOnce
<1>6. NoLostWakeup'
  BY DEF NoLostWakeup
<1>7. NoLostNotification'
  BY DEF NoLostNotification
<1>8. RawIsBeingPosted'
  BY DEF RawIsBeingPosted
<1>9. LinkedInOrder'
  BY DEF LinkedInOrder
<1>10. FetchedInEvents'
  BY DEF FetchedInEvents
<1>11. QED
  BY <1>1, <1>2, <1>3, <1>4, <1>5, <1>6, <1>7, <1>8, <1>9, <1>10

(* A handler returns a request.                                            *)
LEMMA ReturnInv ==
  ASSUME RequestInv, NEW later \in SUBSET Node, NEW due \in SUBSET Node,
         Return(later, due)
  PROVE  RequestInv'
<1> USE RequestAssumption DEF RequestInv, ReqTypeOK, Node, Live, Linked, mainVars, ioVars,
         Return, AtNode, Ready, Returns, Notify, Follow, IsNext, Active
<1>1. ReqTypeOK'
  BY DEF Timer
<1>2. WalkerIsLive'
  BY DEF WalkerIsLive
<1>3. WalkIsOver'
  BY DEF WalkIsOver
<1>4. FetchedIsReturned'
  BY DEF FetchedIsReturned
<1>5. DeliveredOnce'
  BY DEF DeliveredOnce
<1>6. NoLostWakeup'
  BY DEF NoLostWakeup
<1>7. NoLostNotification'
  BY DEF NoLostNotification
<1>8. RawIsBeingPosted'
  BY DEF RawIsBeingPosted
<1>9. LinkedInOrder'
  BY DEF LinkedInOrder
<1>10. FetchedInEvents'
  BY DEF FetchedInEvents
<1>11. QED
  BY <1>1, <1>2, <1>3, <1>4, <1>5, <1>6, <1>7, <1>8, <1>9, <1>10

(* The walk reads a node that is not initialised.                          *)
LEMMA IoReadRawInv ==
  ASSUME RequestInv, IoReadRaw
  PROVE  RequestInv'
<1> USE RequestAssumption DEF RequestInv, ReqTypeOK, Node, Live, Linked, mainVars, ioVars,
         IoReadRaw, AtNode
<1>1. ReqTypeOK'
  BY DEF Timer
<1>2. WalkerIsLive'
  BY DEF WalkerIsLive
<1>3. WalkIsOver'
  BY DEF WalkIsOver
<1>4. NoLostWakeup'
  BY DEF NoLostWakeup
<1>5. /\ FetchedIsReturned' /\ FetchedInEvents' /\ DeliveredOnce'
      /\ NoLostNotification' /\ RawIsBeingPosted' /\ LinkedInOrder'
  BY DEF FetchedIsReturned, FetchedInEvents, DeliveredOnce, NoLostNotification,
         RawIsBeingPosted, LinkedInOrder
<1>6. QED
  BY <1>1, <1>2, <1>3, <1>4, <1>5

(* A channel callback returns its request.                                 *)
LEMMA IoPacketReturnsInv ==
  ASSUME RequestInv, NEW n \in Node, IoPacketReturns(n)
  PROVE  RequestInv'
<1> USE RequestAssumption DEF RequestInv, ReqTypeOK, Node, Live, Linked, mainVars, ioVars,
         IoPacketReturns, Returns, Notify
<1>1. ReqTypeOK'
  BY DEF Timer
<1>2. WalkerIsLive'
  BY DEF WalkerIsLive
<1>3. FetchedIsReturned'
  BY DEF FetchedIsReturned
<1>4. DeliveredOnce'
  BY DEF DeliveredOnce
<1>5. NoLostWakeup'
  BY DEF NoLostWakeup
<1>6. NoLostNotification'
  BY DEF NoLostNotification
<1>7. RawIsBeingPosted'
  BY DEF RawIsBeingPosted
<1>8. LinkedInOrder'
  BY DEF LinkedInOrder
<1>9. WalkIsOver' /\ FetchedInEvents'
  BY DEF WalkIsOver, FetchedInEvents
<1>10. QED
  BY <1>1, <1>2, <1>3, <1>4, <1>5, <1>6, <1>7, <1>8, <1>9

(* A packet handler posts a request.                                       *)
LEMMA IoPostsInv ==
  ASSUME RequestInv, NEW k \in Kind, IoPosts(k)
  PROVE  RequestInv'
<1> USE RequestAssumption DEF RequestInv, ReqTypeOK, Node, Live, Linked, mainVars, ioVars,
         IoPosts, Link
<1>1. ReqTypeOK'
  BY DEF Timer
<1>2. WalkerIsLive'
  BY DEF WalkerIsLive
<1>3. FetchedIsReturned'
  BY DEF FetchedIsReturned, LinkedInOrder
<1>4. DeliveredOnce'
  BY DEF DeliveredOnce, LinkedInOrder
<1>5. NoLostWakeup'
  BY DEF NoLostWakeup
<1>6. NoLostNotification'
  BY DEF NoLostNotification
<1>7. RawIsBeingPosted'
  BY DEF RawIsBeingPosted
<1>8. LinkedInOrder'
  BY DEF LinkedInOrder
<1>9. WalkIsOver' /\ FetchedInEvents'
  BY DEF WalkIsOver, FetchedInEvents
<1>10. QED
  BY <1>1, <1>2, <1>3, <1>4, <1>5, <1>6, <1>7, <1>8, <1>9

(* A packet handler posts a result.                                        *)
LEMMA IoPostsResultInv ==
  ASSUME RequestInv, NEW k \in Kind, IoPostsResult(k)
  PROVE  RequestInv'
<1> USE RequestAssumption DEF RequestInv, ReqTypeOK, Node, Live, Linked, mainVars, ioVars,
         IoPostsResult, Link, Notify
<1>1. ReqTypeOK'
  BY DEF Timer
<1>2. WalkerIsLive'
  BY DEF WalkerIsLive
<1>3. FetchedIsReturned'
  BY DEF FetchedIsReturned
<1>4. DeliveredOnce'
  BY DEF DeliveredOnce, LinkedInOrder
<1>5. NoLostWakeup'
  BY DEF NoLostWakeup
<1>6. NoLostNotification'
  BY DEF NoLostNotification
<1>7. RawIsBeingPosted'
  BY DEF RawIsBeingPosted
<1>8. LinkedInOrder'
  BY DEF LinkedInOrder
<1>9. WalkIsOver' /\ FetchedInEvents'
  BY DEF WalkIsOver, FetchedInEvents
<1>10. QED
  BY <1>1, <1>2, <1>3, <1>4, <1>5, <1>6, <1>7, <1>8, <1>9

(* The steps that move a thread or a timer and nothing else.               *)
LEMMA OtherStepsInv ==
  ASSUME RequestInv,
         \/ IoEndOfWalk \/ IoPacketsDone \/ IoIdle \/ Die
         \/ \E n \in Node : Expire(n)
         \/ \E n \in Node, t \in Timer : IoPacketRetries(n, t)
         \/ UNCHANGED reqVars
  PROVE  RequestInv'
<1> USE DEF RequestInv, mainVars, ioVars, reqVars
<1>1. /\ UNCHANGED <<posted, state, kind, mutex, mpc, fetched, walker, notified, delivered>>
      /\ timer' \in [Node -> Timer]
      /\ \/ ipc' = ipc
         \/ /\ ipc' \in {"packets", "idle", "cleanup", "dead"}
            /\ walker = 0 \/ ipc' = "dead"
         \/ ipc' = "waiting" /\ Live = {} /\ walker = 0
  BY DEF IoEndOfWalk, IoPacketsDone, IoIdle, Die, Expire, IoPacketRetries, ReqTypeOK, Timer,
         WalkIsOver
<1>2. ReqTypeOK' /\ WalkerIsLive' /\ WalkIsOver'
  BY <1>1 DEF ReqTypeOK, WalkerIsLive, WalkIsOver, Live
<1>3. NoLostWakeup'
  BY <1>1 DEF NoLostWakeup, Live
<1>4. FetchedIsReturned' /\ FetchedInEvents' /\ DeliveredOnce'
  BY <1>1 DEF FetchedIsReturned, FetchedInEvents, DeliveredOnce
<1>5. NoLostNotification' /\ RawIsBeingPosted' /\ LinkedInOrder'
  BY <1>1 DEF NoLostNotification, RawIsBeingPosted, LinkedInOrder
<1>6. QED
  BY <1>2, <1>3, <1>4, <1>5

(* Every step of either thread keeps the invariant.                        *)
LEMMA ReqNextInv == RequestInv /\ [ReqNext]_reqVars => RequestInv'
<1> SUFFICES ASSUME RequestInv, [ReqNext]_reqVars PROVE RequestInv'
  OBVIOUS
<1>1. CASE Main
  BY <1>1, MainFillInv, MainWakeInv, MainFetchInv, MainDeliverInv DEF Main
<1>2. CASE Io
  <2>1. CASE IoKeep
    BY <2>1, KeepInv DEF IoKeep
  <2>2. CASE IoReturn
    <3>1. PICK later \in SUBSET Node, due \in SUBSET Node : Return(later, due)
      BY <2>2 DEF IoReturn
    <3>2. QED
      BY <3>1, ReturnInv
  <2>3. QED
    BY <1>2, <2>1, <2>2, IoCleanupInv, IoStartInv, IoSkipInv, IoReadRawInv,
       OtherStepsInv DEF Io
<1>3. ASSUME NEW k \in Kind, MainPost(k) \/ MainLink(k) \/ IoPosts(k) \/ IoPostsResult(k)
      PROVE  RequestInv'
  BY <1>3, MainPostInv, MainLinkInv, IoPostsInv, IoPostsResultInv
<1>4. ASSUME NEW n \in Node,
             \/ IoPacketReturns(n)
             \/ IoPacketRetries(n, "due") \/ IoPacketRetries(n, "later")
             \/ Expire(n)
      PROVE  RequestInv'
  <2>1. "due" \in Timer /\ "later" \in Timer
    BY DEF Timer
  <2>2. QED
    BY <1>4, <2>1, IoPacketReturnsInv, OtherStepsInv
<1>5. CASE Die \/ Dead \/ UNCHANGED reqVars
  BY <1>5, OtherStepsInv DEF Dead
<1>6. QED
  BY <1>1, <1>2, <1>3, <1>4, <1>5 DEF ReqNext

(* The inductive invariant holds of every behaviour of the two threads.    *)
THEOREM RequestInvariant == ReqSpec => []RequestInv
  BY ReqInitInv, ReqNextInv, PTL DEF ReqSpec

(* The list and both threads keep their types.                             *)
THEOREM RequestTypeCorrect == ReqSpec => []ReqTypeOK
<1>1. RequestInv => ReqTypeOK
  BY DEF RequestInv
<1>2. QED
  BY <1>1, RequestInvariant, PTL

(* The walk without the mutex never stands on a request that was freed.    *)
THEOREM RequestWalkerLive == ReqSpec => []WalkerIsLive
<1>1. RequestInv => WalkerIsLive
  BY DEF RequestInv
<1>2. QED
  BY <1>1, RequestInvariant, PTL

(* The request that the main thread works on is left alone.                *)
THEOREM RequestFetchedReturned == ReqSpec => []FetchedIsReturned
<1>1. RequestInv => FetchedIsReturned
  BY DEF RequestInv
<1>2. QED
  BY <1>1, RequestInvariant, PTL

(* Every result is delivered once, before its request is freed.            *)
THEOREM RequestDeliveredOnce == ReqSpec => []DeliveredOnce
<1>1. RequestInv => DeliveredOnce
  BY DEF RequestInv
<1>2. QED
  BY <1>1, RequestInvariant, PTL

(* The networking thread does not sleep through a post.                    *)
THEOREM RequestNoLostWakeup == ReqSpec => []NoLostWakeup
<1>1. RequestInv => NoLostWakeup
  BY DEF RequestInv
<1>2. QED
  BY <1>1, RequestInvariant, PTL

(* The main thread is not left asleep on a result that is announced.       *)
THEOREM RequestNoLostNotification == ReqSpec => []NoLostNotification
<1>1. RequestInv => NoLostNotification
  BY DEF RequestInv
<1>2. QED
  BY <1>1, RequestInvariant, PTL
=============================================================================
