--------------------------- MODULE DeliveryProofs ---------------------------
(***************************************************************************)
(* Request implements Delivery, for every set of request types and every   *)
(* number of requests: the empty scoreboard maps to the initial state, and *)
(* every step of either thread to a step of Delivery or to none.           *)
(***************************************************************************)
EXTENDS RequestProofs

(* A step that leaves every request as far as it was, and the main thread  *)
(* with the request that it had, is invisible.                             *)
LEMMA Invisible ==
  ASSUME \A n \in Node : LifeStage(state'[n]) = LifeStage(state[n]), UNCHANGED fetched
  PROVE  UNCHANGED Promise!promiseVars
  BY DEF Promise!promiseVars

(* What happens to the image when one request changes its state.           *)
LEMMA OneStage ==
  ASSUME ReqTypeOK, NEW n \in Node, NEW s, state' = [state EXCEPT ![n] = s]
  PROVE  [m \in Node |-> LifeStage(state[m])]'
           = [[m \in Node |-> LifeStage(state[m])] EXCEPT ![n] = LifeStage(s)]
  BY DEF ReqTypeOK

(* request_post() and request_post_result() post the next request.         *)
LEMMA LinkPosts ==
  ASSUME RequestInv, NEW k \in Kind, NEW s \in {"RAW", "NEW", "RETURNED"},
         Link(k, s), UNCHANGED fetched
  PROVE  Promise!DeliveryNext
<1> DEFINE p == posted + 1
<1>1. p \in Node /\ posted \in Nat
  BY RequestAssumption DEF RequestInv, ReqTypeOK, Link, Node
<1>2. LifeStage(state[p]) = "unposted"
  BY <1>1 DEF RequestInv, LinkedInOrder, LifeStage, Node
<1>3. \A m \in Node : m < p => LifeStage(state[m]) # "unposted"
  <2> SUFFICES ASSUME NEW m \in Node, m < p PROVE LifeStage(state[m]) # "unposted"
    OBVIOUS
  <2>1. state[m] \in {"freed"} \union Linked
    BY <1>1 DEF RequestInv, LinkedInOrder, ReqTypeOK, Node
  <2>2. QED
    BY <2>1 DEF LifeStage, Linked
<1>4. LifeStage(s) \in {"pending", "answered"}
  BY DEF LifeStage
<1>5. Promise!Post(p, LifeStage(s))
  BY <1>1, <1>2, <1>3, OneStage DEF Promise!Post, Link, RequestInv
<1>6. QED
  BY <1>1, <1>4, <1>5 DEF Promise!DeliveryNext

(* request_set_result() answers a request that was pending.                *)
LEMMA ReturnsAnswers ==
  ASSUME RequestInv, NEW n \in Node, state[n] \in Active,
         state' = [state EXCEPT ![n] = "RETURNED"], UNCHANGED fetched
  PROVE  Promise!DeliveryNext
<1>1. LifeStage(state[n]) = "pending" /\ LifeStage("RETURNED") = "answered"
  BY DEF LifeStage, Active
<1>2. Promise!Answer(n)
  BY <1>1, OneStage DEF Promise!Answer, RequestInv
<1>3. QED
  BY <1>2 DEF Promise!DeliveryNext

(* request_fetch_next_result() takes the oldest answer.                    *)
LEMMA MainFetchTakes ==
  ASSUME RequestInv, MainFetch
  PROVE  Promise!DeliveryNext \/ UNCHANGED Promise!promiseVars
<1>1. CASE fetched' = fetched
  BY <1>1, Invisible DEF MainFetch
<1>2. CASE fetched' # fetched
  <2> DEFINE n == fetched'
  <2>1. n \in Node /\ state[n] = "RETURNED" /\ \A m \in Node : state[m] = "RETURNED" => n <= m
    BY <1>2 DEF MainFetch
  <2>2. \A m \in Node : LifeStage(state[m]) = "answered" <=> state[m] = "RETURNED"
    BY DEF LifeStage, RequestInv, ReqTypeOK, Linked
  <2>3. Promise!Take(n)
    BY <2>1, <2>2 DEF Promise!Take, MainFetch
  <2>4. QED
    BY <2>1, <2>3 DEF Promise!DeliveryNext
<1>3. QED
  BY <1>1, <1>2

(* The callback and request_mark_processed() deliver what is in hand.      *)
LEMMA MainDeliverDelivers ==
  ASSUME RequestInv, MainDeliver
  PROVE  Promise!DeliveryNext
<1>1. fetched \in Node /\ state[fetched] = "RETURNED"
  BY DEF MainDeliver, RequestInv, ReqTypeOK, FetchedIsReturned
<1>2. LifeStage("RETURNED") = "answered" /\ LifeStage("PROCESSED") = "delivered"
  BY DEF LifeStage
<1>3. Promise!Deliver(fetched)
  BY <1>1, <1>2, OneStage DEF Promise!Deliver, MainDeliver, RequestInv
<1>4. QED
  BY <1>1, <1>3 DEF Promise!DeliveryNext

(* request_cleanup() discards what was delivered.                          *)
LEMMA IoCleanupDiscards ==
  ASSUME RequestInv, IoCleanup
  PROVE  Promise!DeliveryNext
<1>1. \A n \in Node : LifeStage(state'[n]) = IF LifeStage(state[n]) = "delivered" THEN "gone"
                                         ELSE LifeStage(state[n])
  BY DEF IoCleanup, LifeStage, RequestInv, ReqTypeOK, Linked
<1>2. Promise!Discard
  BY <1>1 DEF Promise!Discard, IoCleanup, mainVars
<1>3. QED
  BY <1>2 DEF Promise!DeliveryNext

(* Every step of Request is a step of Delivery or none.                    *)
LEMMA ReqNextDelivers ==
  ASSUME RequestInv, [ReqNext]_reqVars
  PROVE  [Promise!DeliveryNext]_(Promise!promiseVars)
<1>1. CASE MainFill
  <2>1. \A n \in Node : LifeStage(state'[n]) = LifeStage(state[n])
    BY <1>1 DEF MainFill, LifeStage, RequestInv, ReqTypeOK, RawIsBeingPosted
  <2>2. QED
    BY <1>1, <2>1, Invisible DEF MainFill, mainVars
<1>2. CASE IoKeep
  <2>1. \A n \in Node : LifeStage(state'[n]) = LifeStage(state[n])
    BY <1>2 DEF IoKeep, Keep, AtNode, Ready, Active, LifeStage, RequestInv, ReqTypeOK
  <2>2. QED
    BY <1>2, <2>1, Invisible DEF IoKeep, Keep, mainVars
<1>3. CASE IoReturn
  <2>1. walker \in Node /\ state[walker] \in Active
    BY <1>3 DEF IoReturn, Return, AtNode, Ready, RequestInv, ReqTypeOK
  <2>2. QED
    BY <1>3, <2>1, ReturnsAnswers DEF IoReturn, Return, Returns, mainVars
<1>4. ASSUME NEW n \in Node, IoPacketReturns(n)
      PROVE  Promise!DeliveryNext
  BY <1>4, ReturnsAnswers DEF IoPacketReturns, Returns, Active, mainVars
<1>5. ASSUME NEW k \in Kind, MainPost(k) \/ MainLink(k) \/ IoPosts(k) \/ IoPostsResult(k)
      PROVE  Promise!DeliveryNext
  BY <1>5, LinkPosts DEF MainPost, MainLink, IoPosts, IoPostsResult, mainVars
<1>6. CASE UNCHANGED <<state, fetched>>
  BY <1>6, Invisible
<1>7. CASE Main
  BY <1>1, <1>6, <1>7, MainFetchTakes, MainDeliverDelivers DEF Main, MainWake
<1>8. CASE Io
  BY <1>2, <1>3, <1>6, <1>8, IoCleanupDiscards
     DEF Io, IoStart, IoSkip, IoReadRaw, IoEndOfWalk, IoPacketsDone, IoIdle, mainVars
<1>9. ASSUME NEW n \in Node,
             IoPacketRetries(n, "due") \/ IoPacketRetries(n, "later") \/ Expire(n)
      PROVE  UNCHANGED <<state, fetched>>
  BY <1>9 DEF IoPacketRetries, Expire, mainVars
<1>10. CASE Die \/ Dead \/ UNCHANGED reqVars
  BY <1>6, <1>10 DEF Die, Dead, reqVars, mainVars
<1>11. QED
  BY <1>4, <1>5, <1>6, <1>7, <1>8, <1>9, <1>10 DEF ReqNext

(* The scoreboard that the two threads share keeps the promise of module   *)
(* Delivery in every behaviour.                                            *)
THEOREM RequestKeepsPromise == ReqSpec => DeliveryPromised
<1>1. ReqInit => Promise!DeliveryInit
  <2>1. LifeStage("absent") = "unposted"
    BY DEF LifeStage
  <2>2. QED
    BY <2>1 DEF ReqInit, Promise!DeliveryInit
<1>2. RequestInv /\ [ReqNext]_reqVars => [Promise!DeliveryNext]_(Promise!promiseVars)
  BY ReqNextDelivers
<1>3. QED
  BY <1>1, <1>2, RequestInvariant, PTL DEF ReqSpec, DeliveryPromised, Promise!DeliverySpec
=============================================================================
