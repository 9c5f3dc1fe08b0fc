---------------------------- MODULE SessionProofs ----------------------------
(***************************************************************************)
(* Proofs about Session, for every mix of request types, every number of   *)
(* requests, playlists, batches and errors, and every limit on channels.   *)
(*                                                                         *)
(* Every step of the session is a step of Request and a step of Channel,   *)
(* or leaves the one or the other alone, so that their invariants hold of  *)
(* the session as well; what ties the two together is proved here.         *)
(***************************************************************************)
EXTENDS Session, ChannelProofs, DeliveryProofs, SequenceTheorems

Settled == {"RETURNED", "PROCESSED", "freed"}

(* The types of the parts that the lemmas below need.                      *)
LEMMA SessionFacts ==
  ASSUME SessionInv
  PROVE  /\ Owner = Node /\ Node \subseteq Nat /\ 0 \notin Node
         /\ \A ch \in channels : /\ ch.id \in 0 .. WireSize - 1
                                 /\ ch.owner \in Node /\ ch.state \in OpenState
         /\ Waiting \subseteq Node /\ Owners \subseteq Node
<1>1. Owner = Node /\ Node \subseteq Nat /\ 0 \notin Node
  BY SessionAssumption, RequestAssumption DEF Node
<1>2. ASSUME NEW ch \in channels
      PROVE  ch.id \in 0 .. WireSize - 1 /\ ch.owner \in Node /\ ch.state \in OpenState
  <2>1. ch \in Chan /\ since \in Nat
    BY DEF SessionInv, ChannelInv, ChannelTypeOK
  <2>2. ch.id \in Nat /\ ch.owner \in Node /\ ch.state \in OpenState
    BY <1>1, <2>1 DEF Chan
  <2>3. ch.id < since /\ since <= MaxSince
    BY DEF SessionInv, ChannelInv, IdsCreepSlowly
  <2>4. MaxSince \in Nat /\ WireSize \in Nat /\ MaxSince <= WireSize
    BY SessionAssumption, ChannelAssumption
  <2>5. QED
    BY <2>1, <2>2, <2>3, <2>4
<1>3. QED
  BY <1>1, <1>2 DEF Waiting, Owners

(* A request at which the walk may work owns no channel.                   *)
LEMMA ReadyOwnsNothing ==
  ASSUME SessionInv, AtNode, Ready(walker)
  PROVE  walker \in Node \ Owners
<1>1. walker \in Node
  BY DEF SessionInv, RequestInv, ReqTypeOK, AtNode
<1>2. ASSUME NEW ch \in channels, ch.owner = walker PROVE FALSE
  BY <1>2 DEF SessionInv, OwnersAreParked, Ready, Active
<1>3. QED
  BY <1>1, <1>2 DEF Owners

(* What process_request() and its handlers do to the scoreboard.           *)
LEMMA HandlersAreRequestSteps ==
  ASSUME SessionInv, Alive, Handlers
  PROVE  ReqNext
<1> USE DEF Timer, Active
<1>1. CASE \E st \in Active, t \in Timer : Keep(st, t)
  BY <1>1 DEF IoKeep, Io, ReqNext
<1>2. CASE \E later, due : Return(later, due) /\ later \in SUBSET Node
                         /\ due \in SUBSET Node /\ later \intersect due = {}
  <2>1. PICK later, due : /\ Return(later, due) /\ later \in SUBSET Node
                          /\ due \in SUBSET Node /\ later \intersect due = {}
    BY <1>2
  <2> DEFINE parked == {n \in Node : timer[n] = "never"}
  <2>2. later \in SUBSET parked /\ due \in SUBSET (parked \ later)
    BY <2>1 DEF Return
  <2>3. IoReturn
    BY <2>1, <2>2 DEF IoReturn
  <2>4. QED
    BY <2>3 DEF Io, ReqNext
<1>3. CASE Die
  BY <1>3 DEF ReqNext
<1>4. CASE Logout
  <2>1. Waiting \subseteq Node
    BY SessionFacts
  <2>2. QED
    BY <1>2, <1>4, <2>1 DEF Logout
<1>5. Return({}, {}) => ReqNext
  BY <1>2
<1>6. CASE LoginSucceeds \/ LoginFails \/ FailOffline \/ BrowseReturns \/ PlayerProcess
             \/ PlayerWriteFails \/ TokenProcess
  BY <1>5, <1>6 DEF LoginSucceeds, LoginFails, FailOffline, BrowseReturns, PlayerProcess,
       PlayerWriteFails, TokenProcess, PlayerReturns
<1>7. CASE Postpone \/ LoginContinues \/ CacheProcess \/ QueryProcess \/ PlaylistProcess
             \/ BrowseProcess
  BY <1>1, <1>7 DEF Postpone, LoginContinues, CacheProcess, QueryProcess, PlaylistProcess,
       BrowseProcess, SendCommand
<1>8. CASE WriteFails \/ LogoutCrashes
  BY <1>3, <1>8 DEF WriteFails, LogoutCrashes
<1>9. QED
  BY <1>4, <1>6, <1>7, <1>8 DEF Handlers

(* What the handlers of packets do to it.                                  *)
LEMMA AnswersAreRequestSteps ==
  ASSUME SessionInv, Alive, NEW a \in asked,
         \/ ChannelData(a) \/ ChannelError(a) \/ ObjectEnd(a) \/ UnparsableEnd(a)
         \/ BrowseEnd(a) \/ PlaylistEnd(a) \/ StreamEnd(a) \/ KeyArrives(a) \/ KeyFailed(a)
  PROVE  [ReqNext]_reqVars
<1>1. \A ch \in channels : ch.owner \in Node
  BY SessionFacts
<1>2. CASE ChannelError(a)
  <2>1. PICK ch \in channels : IoPacketRetries(ch.owner, Again(ch.owner))
    BY <1>2 DEF ChannelError, channel_by_id
  <2>2. Again(ch.owner) \in {"due", "later"}
    BY DEF Again
  <2>3. QED
    BY <1>1, <2>1, <2>2 DEF ReqNext
<1>3. CASE ObjectEnd(a)
  BY <1>1, <1>3 DEF ObjectEnd, channel_by_id, ReqNext
<1>4. CASE BrowseEnd(a)
  BY <1>1, <1>4 DEF BrowseEnd, channel_by_id, ReqNext
<1>5. CASE KeyFailed(a)
  BY <1>5 DEF KeyFailed, ReqNext
<1>6. CASE ChannelData(a) \/ UnparsableEnd(a) \/ PlaylistEnd(a) \/ StreamEnd(a) \/ KeyArrives(a)
  BY <1>6 DEF ChannelData, UnparsableEnd, PlaylistEnd, StreamEnd, KeyArrives
<1>7. QED
  BY <1>2, <1>3, <1>4, <1>5, <1>6

(* The request that the callback of a playlist posts next.                 *)
LEMMA PostsAreKinds ==
  ASSUME SessionTypeOK, running.posts # <<>>
  PROVE  Head(running.posts) \in Kind \ {"LOGIN", "LOGOUT", "CACHE_PERIODIC"}
<1>1. running.posts \in Seq(Posts)
  BY DEF SessionTypeOK
<1>2. Head(running.posts) \in Posts
  BY <1>1, HeadTailProperties
<1>3. QED
  BY <1>2, SessionAssumption DEF Posts, Told

(* Every step of the session is one that the scoreboard allows.            *)
LEMMA SessionRequestStep ==
  ASSUME SessionInv, [SessionNext]_allVars
  PROVE  [ReqNext]_reqVars
<1>1. CASE UNCHANGED allVars \/ Stopped
  BY <1>1 DEF allVars, Stopped, Dead
<1>2. CASE Alive /\ Application
  BY <1>2 DEF Application, AppWakes, AppFetches, AppDelivers, AppCrashes, Main, ReqNext
<1>3. CASE Alive /\ IoThread
  <2>1. CASE Handlers
    BY <1>3, <2>1, HandlersAreRequestSteps
  <2>2. CASE Cleanup \/ StartWalk \/ Skip \/ EndOfWalk \/ Idle \/ PacketsDone
    BY <2>2 DEF Cleanup, StartWalk, Skip, EndOfWalk, Idle, PacketsDone, Io, ReqNext
  <2>3. CASE PlaylistPosts
    BY <1>3, <2>3, PostsAreKinds DEF PlaylistPosts, ReqNext, SessionInv
  <2>4. CASE PlaylistReturns
    <3>1. running.req \in Node
      BY <2>4 DEF PlaylistReturns, SessionInv, SessionTypeOK
    <3>2. QED
      BY <1>3, <2>4, <3>1 DEF PlaylistReturns, ReqNext
  <2>5. CASE WelcomeContainer
    BY <1>3, <2>5, SessionAssumption DEF WelcomeContainer, ReqNext
  <2>6. QED
    BY <1>3, <2>1, <2>2, <2>3, <2>4, <2>5 DEF IoThread
<1>4. CASE Alive /\ Server
  <2>1. CASE \E a \in asked : \/ ChannelData(a) \/ ChannelError(a) \/ ObjectEnd(a)
                             \/ UnparsableEnd(a) \/ BrowseEnd(a) \/ PlaylistEnd(a)
                             \/ StreamEnd(a) \/ KeyArrives(a) \/ KeyFailed(a)
    BY <1>4, <2>1, AnswersAreRequestSteps
  <2>2. CASE \E k \in Kind \intersect Announced : Announces(k)
    BY <1>4, <2>2 DEF Announces, ReqNext
  <2>3. CASE TokenLost \/ WelcomeUser \/ WelcomeCrashes \/ Disconnect
    BY <1>4, <2>3, SessionAssumption
       DEF TokenLost, WelcomeUser, WelcomeCrashes, Disconnect, ReqNext
  <2>4. QED
    BY <1>4, <2>1, <2>2, <2>3 DEF Server
<1>5. CASE Alive /\ \E t \in Kind : AppPosts(t)
  BY <1>5 DEF AppPosts, ReqNext
<1>6. CASE Alive /\ \E n \in Node : TimePasses(n)
  BY <1>6 DEF TimePasses, ReqNext
<1>7. QED
  BY <1>1, <1>2, <1>3, <1>4, <1>5, <1>6 DEF SessionNext

(* The channel that a handler registers belongs to a request that has none.*)
LEMMA RegisterIsChannelStep ==
  ASSUME SessionInv, AtNode, Ready(walker), NEW st \in OpenState, Register(walker, st)
  PROVE  ChannelNext /\ since' <= MaxSince
<1>1. walker \in Owner \ Owners
  BY ReadyOwnsNothing, SessionFacts
<1>2. since' <= MaxSince
  BY ChannelAssumption DEF Register, SessionInv, ChannelInv, ChannelTypeOK
<1>3. QED
  BY <1>1, <1>2 DEF ChannelNext

(* An answer of the server carries an id that a packet can hold.           *)
LEMMA AnswerIsChannelStep ==
  ASSUME SessionInv, NEW a \in asked,
         \/ ProcessData(a.id) \/ AesKey(a.id)
         \/ \E zero \in BOOLEAN : ProcessHeader(a.id, zero)
         \/ \E error, empty \in BOOLEAN : ProcessLast(a.id, error, empty)
  PROVE  ChannelNext /\ since' <= MaxSince
<1>1. a.id \in 0 .. WireSize - 1
  <2>1. PICK ch \in channels : ch.id = a.id
    BY DEF SessionInv, AnswersFindTheirChannel
  <2>2. QED
    BY <2>1, SessionFacts
<1>2. since' <= MaxSince
  BY ChannelAssumption DEF ProcessData, AesKey, ProcessHeader, ProcessLast, Unregister, SessionInv
<1>3. QED
  BY <1>1, <1>2 DEF ChannelNext

(* Every step of the session is one that the channel table allows, and the *)
(* ids stay within the bound that keeps them addressable.                  *)
LEMMA SessionChannelStep ==
  ASSUME SessionInv, [SessionNext]_allVars
  PROVE  [ChannelNext]_chanVars /\ since' <= MaxSince
<1>1. CASE UNCHANGED chanVars
  BY <1>1 DEF chanVars, SessionInv
<1>2. CASE UNCHANGED allVars \/ Stopped
  BY <1>1, <1>2 DEF allVars, Stopped
<1>3. CASE Application
  BY <1>1, <1>3 DEF Application, AppWakes, AppFetches, AppDelivers, AppCrashes
<1>4. CASE Handlers
  <2>1. CASE QueryProcess \/ PlaylistProcess \/ BrowseProcess
    BY <2>1, RegisterIsChannelStep
       DEF QueryProcess, PlaylistProcess, BrowseProcess, SendCommand, Dispatched, OpenState
  <2>2. CASE PlayerProcess \/ PlayerWriteFails
    <3>1. CASE \E st \in OpenState : Register(walker, st)
      BY <2>2, <3>1, RegisterIsChannelStep DEF PlayerProcess, PlayerWriteFails, Dispatched
    <3>2. CASE Withdraw(walker)
      <4>1. walker \in Owner \ Owners
        BY <2>2, ReadyOwnsNothing, SessionFacts DEF PlayerProcess, PlayerWriteFails, Dispatched
      <4>2. QED
        BY <3>2, <4>1 DEF ChannelNext, Withdraw, SessionInv
    <3>3. QED
      BY <2>2, <3>1, <3>2 DEF PlayerProcess, PlayerWriteFails, OpenState
  <2>3. CASE Logout
    <3>1. FailAndUnregisterAll
      BY <2>3 DEF Logout
    <3>2. since' <= MaxSince
      BY <3>1, ChannelAssumption DEF FailAndUnregisterAll
    <3>3. QED
      BY <3>1, <3>2 DEF ChannelNext
  <2>4. CASE \/ Postpone \/ FailOffline \/ LoginContinues \/ LoginSucceeds \/ LoginFails
             \/ LogoutCrashes \/ CacheProcess \/ BrowseReturns \/ WriteFails \/ TokenProcess
    BY <1>1, <2>4 DEF Postpone, FailOffline, LoginContinues, LoginSucceeds, LoginFails,
         LogoutCrashes, CacheProcess, BrowseReturns, WriteFails, TokenProcess
  <2>5. QED
    BY <1>4, <2>1, <2>2, <2>3, <2>4 DEF Handlers
<1>5. CASE IoThread
  <2>1. CASE Cleanup \/ StartWalk \/ Skip \/ EndOfWalk \/ Idle \/ PacketsDone \/ PlaylistPosts
               \/ WelcomeContainer
    BY <1>1, <2>1 DEF Cleanup, StartWalk, Skip, EndOfWalk, Idle, PacketsDone, PlaylistPosts,
         WelcomeContainer
  <2>2. CASE PlaylistReturns
    BY <2>2, AnswerIsChannelStep DEF PlaylistReturns, End
  <2>3. QED
    BY <1>4, <1>5, <2>1, <2>2 DEF IoThread
<1>6. CASE Server
  <2>1. ASSUME NEW a \in asked,
               \/ ChannelData(a) \/ ChannelError(a) \/ ObjectEnd(a) \/ UnparsableEnd(a)
               \/ BrowseEnd(a) \/ StreamEnd(a) \/ KeyArrives(a)
        PROVE  [ChannelNext]_chanVars /\ since' <= MaxSince
    BY <2>1, AnswerIsChannelStep DEF ChannelData, ChannelError, ObjectEnd, UnparsableEnd,
         BrowseEnd, StreamEnd, KeyArrives, End
  <2>2. ASSUME NEW a \in asked, PlaylistEnd(a) \/ KeyFailed(a)
        PROVE  [ChannelNext]_chanVars /\ since' <= MaxSince
    BY <1>1, <2>2 DEF PlaylistEnd, KeyFailed
  <2>3. CASE \E k \in Kind \intersect Announced : Announces(k)
    BY <1>1, <2>3 DEF Announces
  <2>4. CASE TokenLost \/ WelcomeUser \/ WelcomeCrashes \/ Disconnect
    BY <1>1, <2>4 DEF TokenLost, WelcomeUser, WelcomeCrashes, Disconnect
  <2>5. QED
    BY <1>6, <2>1, <2>2, <2>3, <2>4 DEF Server
<1>7. CASE \E t \in Kind : AppPosts(t)
  BY <1>1, <1>7 DEF AppPosts
<1>8. CASE \E n \in Node : TimePasses(n)
  BY <1>1, <1>8 DEF TimePasses
<1>9. QED
  BY <1>2, <1>3, <1>5, <1>6, <1>7, <1>8 DEF SessionNext

-----------------------------------------------------------------------------
(* A request that a step leaves alone: it may be delivered or freed, and   *)
(* time may pass for it, and that is all.                                  *)
Steady(n) ==
  /\ kind'[n] = kind[n]
  /\ state'[n] = state[n] \/ {state[n], state'[n]} \subseteq Settled
  /\ timer'[n] = "never" <=> timer[n] = "never"
SteadyBut(T) == \A n \in Node \ T : Steady(n)

(* Parked(n) of the next state, whatever becomes of n.                     *)
ParkedNext(n) == state'[n] = "RUNNING" /\ timer'[n] = "never"

(* The steps that leave every request alone.                               *)
LEMMA QuietSteps ==
  ASSUME RequestInv,
         \/ MainWake \/ MainFetch \/ MainDeliver \/ IoCleanup \/ IoStart \/ IoSkip
         \/ IoEndOfWalk \/ IoIdle \/ IoPacketsDone \/ Die \/ UNCHANGED reqVars
         \/ \E n \in Node : Expire(n)
  PROVE  SteadyBut({})
<1> USE DEF SteadyBut, Steady, Settled, RequestInv, ReqTypeOK, mainVars
<1>1. CASE MainWake \/ MainFetch
  BY <1>1 DEF MainWake, MainFetch
<1>2. CASE MainDeliver
  BY <1>2 DEF MainDeliver, FetchedIsReturned
<1>3. CASE IoCleanup
  BY <1>3 DEF IoCleanup
<1>4. CASE IoStart \/ IoSkip \/ IoEndOfWalk \/ IoIdle \/ IoPacketsDone \/ Die
  BY <1>4 DEF IoStart, IoSkip, IoEndOfWalk, IoIdle, IoPacketsDone, Die
<1>5. CASE UNCHANGED reqVars
  BY <1>5 DEF reqVars
<1>6. CASE \E n \in Node : Expire(n)
  BY <1>6 DEF Expire
<1>7. QED
  BY <1>1, <1>2, <1>3, <1>4, <1>5, <1>6

(* A request is posted, by the application or by a packet.                 *)
LEMMA LinkSteps ==
  ASSUME RequestInv, NEW k \in Kind, NEW st, Link(k, st)
  PROVE  /\ posted + 1 \in Node /\ state[posted + 1] = "absent"
         /\ state'[posted + 1] = st /\ kind'[posted + 1] = k
         /\ ~ParkedNext(posted + 1)
         /\ SteadyBut({posted + 1})
<1>1. posted + 1 \in Node /\ state[posted + 1] = "absent"
  BY RequestAssumption DEF RequestInv, ReqTypeOK, LinkedInOrder, Link, Node
<1>2. QED
  BY <1>1 DEF SteadyBut, Steady, Link, ParkedNext, RequestInv, ReqTypeOK

(* A handler postpones the request at which the walk is, or starts it.     *)
LEMMA KeepSteps ==
  ASSUME RequestInv, NEW st, NEW t, Keep(st, t)
  PROVE  /\ walker \in Node /\ state[walker] \in Active
         /\ state'[walker] = st /\ timer'[walker] = t /\ kind' = kind
         /\ SteadyBut({walker})
<1>1. walker \in Node
  BY DEF Keep, AtNode, RequestInv, ReqTypeOK
<1>2. QED
  BY <1>1 DEF Keep, Ready, SteadyBut, Steady, RequestInv, ReqTypeOK

(* A handler returns that request.                                         *)
LEMMA ReturnSteps ==
  ASSUME RequestInv, NEW later, NEW due, Return(later, due)
  PROVE  /\ walker \in Node /\ state[walker] \in Active
         /\ state'[walker] = "RETURNED" /\ kind' = kind
         /\ SteadyBut({walker} \union later \union due)
<1>1. walker \in Node
  BY DEF Return, AtNode, RequestInv, ReqTypeOK
<1>2. QED
  BY <1>1 DEF Return, Returns, Ready, SteadyBut, Steady, RequestInv, ReqTypeOK

(* The callback of a channel returns its request, or has it tried again.   *)
LEMMA PacketSteps ==
  ASSUME RequestInv, NEW n \in Node,
         IoPacketReturns(n) \/ \E t \in {"due", "later"} : IoPacketRetries(n, t)
  PROVE  /\ state'[n] \in {"RUNNING", "RETURNED"} /\ kind' = kind
         /\ ~ParkedNext(n)
         /\ SteadyBut({n})
  BY DEF IoPacketReturns, IoPacketRetries, Returns, ParkedNext, SteadyBut, Steady, RequestInv, ReqTypeOK
-----------------------------------------------------------------------------
(* The open channels, as the queries that they wait for.                   *)
Pairs == {[id |-> ch.id, req |-> ch.owner] : ch \in channels}

(* A request that may own a channel.                                       *)
Asks(n) ==
  /\ kind[n] \in Query \union Browse \union Stream \union {"PC_LOAD", "PLAYLIST_LOAD"}
  /\ kind[n] \in Browse => left[n] > 0
  /\ IF kind[n] \in Stream THEN state[n] \in Settled
     ELSE state[n] = "RUNNING" /\ timer[n] = "never"

(* The properties of the table, in these words.                            *)
TableSays ==
  /\ OwnersAreParked /\ OwnersAsk <=> \A p \in Pairs : Asks(p.req)
  /\ AnswersFindTheirChannel <=> asked \subseteq Pairs
  /\ channels = {} <=> Pairs = {}
  /\ (\A ch \in channels : Answerable(ch))
       <=> \A p \in Pairs : kind[p.req] \in Stream \/ p \in asked
  /\ \A n : n \in Owners <=> \E p \in Pairs : p.req = n
LEMMA TableInPairs == ChannelInv /\ SessionTypeOK => TableSays
<1> SUFFICES ASSUME ChannelInv, SessionTypeOK PROVE TableSays
  OBVIOUS
<1>1. OwnersAreParked /\ OwnersAsk <=> \A p \in Pairs : Asks(p.req)
  <2>1. (\A p \in Pairs : Asks(p.req)) <=> \A ch \in channels : Asks(ch.owner)
    <3>1. \A p \in Pairs : \E ch \in channels : p.req = ch.owner
      BY DEF Pairs
    <3>2. ASSUME NEW ch \in channels PROVE \E p \in Pairs : p.req = ch.owner
      <4>1. [id |-> ch.id, req |-> ch.owner] \in Pairs
        BY DEF Pairs
      <4>2. QED
        BY <4>1
    <3>3. QED
      BY <3>1, <3>2, Zenon
  <2>2. QED
    BY <2>1 DEF OwnersAreParked, OwnersAsk, Asks, Settled
<1>2. AnswersFindTheirChannel <=> asked \subseteq Pairs
  <2>1. ASSUME NEW a \in asked
        PROVE  a \in Pairs <=> \E ch \in channels : ch.id = a.id /\ ch.owner = a.req
    <3>1. a = [id |-> a.id, req |-> a.req]
      BY DEF SessionTypeOK
    <3>2. QED
      BY <3>1 DEF Pairs
  <2>2. QED
    BY <2>1 DEF AnswersFindTheirChannel, ChannelInv, UniqueIds
<1>3. channels = {} <=> Pairs = {}
  BY DEF Pairs
<1>4. ASSUME NEW ch \in channels
      PROVE  (\E a \in asked : a.id = ch.id /\ a.req = ch.owner)
               <=> [id |-> ch.id, req |-> ch.owner] \in asked
  <2>1. \A a \in asked : a = [id |-> a.id, req |-> a.req]
    BY DEF SessionTypeOK
  <2>2. QED
    BY <2>1
<1>5. (\A ch \in channels : Answerable(ch))
        <=> \A p \in Pairs : kind[p.req] \in Stream \/ p \in asked
  <2> DEFINE P(p) == kind[p.req] \in Stream \/ p \in asked
  <2>1. (\A p \in Pairs : P(p)) <=> \A ch \in channels : P([id |-> ch.id, req |-> ch.owner])
    BY DEF Pairs
  <2>2. QED
    BY <1>4, <2>1 DEF Answerable
<1>6. ASSUME NEW n PROVE n \in Owners <=> \E p \in Pairs : p.req = n
  <2>1. n \in Owners <=> \E ch \in channels : ch.owner = n
    BY DEF Owners
  <2>2. \A ch \in channels : [id |-> ch.id, req |-> ch.owner].req = ch.owner
    OBVIOUS
  <2>3. QED
    BY <2>1, <2>2 DEF Pairs
<1>7. QED
  BY <1>1, <1>2, <1>3, <1>5, <1>6 DEF TableSays

(* The same of the next state.                                             *)
LEMMA TableInPairsNext == (ChannelInv /\ SessionTypeOK => TableSays)'
  BY TableInPairs, PTL
-----------------------------------------------------------------------------
(* A step may post a request or change the state of one, but takes no      *)
(* request back; the periodic one stays new.                               *)
Forward(n) ==
  /\ state'[n] # "absent"
  /\ state[n] # "absent" => kind'[n] = kind[n]
  /\ kind'[n] = "CACHE_PERIODIC" => state'[n] = "NEW"

(* Whatever was posted stays posted, with its type.                        *)
LEMMA PostedStays ==
  ASSUME SessionInv, NEW T \in SUBSET Node, SteadyBut(T), \A n \in T : Forward(n)
  PROVE  /\ \A t : Posted(t) \subseteq Posted(t)'
         /\ \A t : \A n \in Posted(t)' : n \in Posted(t) \/ n \in T
         /\ OneLogin' => OneLogin
         /\ CacheNeverReturns'
<1>1. ASSUME NEW n \in Node
      PROVE  /\ state[n] # "absent" => state'[n] # "absent" /\ kind'[n] = kind[n]
             /\ n \notin T => (state'[n] = "absent" <=> state[n] = "absent")
             /\ n \notin T => kind'[n] = kind[n]
  BY DEF SteadyBut, Steady, Settled, Forward
<1>2. \A t : Posted(t) \subseteq Posted(t)'
  BY <1>1 DEF Posted
<1>3. \A t : \A n \in Posted(t)' : n \in Posted(t) \/ n \in T
  BY <1>1 DEF Posted
<1>4. OneLogin' => OneLogin
  BY <1>2 DEF OneLogin
<1>5. CacheNeverReturns'
  BY <1>1 DEF CacheNeverReturns, SessionInv, SteadyBut, Steady, Settled, Forward
<1>6. QED
  BY <1>2, <1>3, <1>4, <1>5

(* What the invariant says of the open channels.                           *)
LEMMA TableNow ==
  ASSUME SessionInv
  PROVE  /\ \A p \in Pairs : Asks(p.req) /\ p.req \in Node
         /\ asked \subseteq Pairs
         /\ conn = "LOGGED_OUT" => Pairs = {}
         /\ conn = "LOGGED_IN" /\ OneLogin
              => \A p \in Pairs : kind[p.req] \in Stream \/ p \in asked
         /\ \A n \in Node : Parked(n) => n \in unparsed \/ \E p \in Pairs : p.req = n
  BY TableInPairs, SessionFacts
     DEF TableSays, SessionInv, LoggedOutIsQuiet, FirstLoginHolds, ParkedHasChannel, Pairs

(* A step keeps the channels and their owners together if it leaves the    *)
(* owners of the open channels alone, and the channels that are open are   *)
(* those that were, less the ones answered, or are well founded.           *)
LEMMA TableStep ==
  ASSUME SessionInv, ChannelInv', SessionTypeOK',
         NEW T \in SUBSET Node, SteadyBut(T),
         \A n \in Node \ T : left'[n] = left[n],
         \A p \in Pairs' : (p \in Pairs /\ p.req \notin T) \/ Asks(p.req)',
         asked' \subseteq Pairs'
  PROVE  OwnersAreParked' /\ OwnersAsk' /\ AnswersFindTheirChannel'
<1>1. ASSUME NEW n \in Node \ T, Asks(n) PROVE Asks(n)'
  BY <1>1 DEF Asks, SteadyBut, Steady, Settled
<1>2. \A p \in Pairs' : Asks(p.req)'
  BY <1>1, TableNow
<1>3. QED
  BY <1>2, TableInPairsNext DEF TableSays

(* A step strands nobody if the channels of the requests that it leaves    *)
(* alone stay, and those it does not leave alone have one if they need it. *)
LEMMA ParkedStep ==
  ASSUME SessionInv, ChannelInv', SessionTypeOK',
         NEW T \in SUBSET Node, SteadyBut(T), unparsed \subseteq unparsed',
         \A p \in Pairs : p.req \notin T => p \in Pairs',
         \A n \in T : ParkedNext(n) => n \in unparsed' \/ \E p \in Pairs' : p.req = n
  PROVE  ParkedHasChannel'
<1>1. ASSUME NEW n \in Node \ T, ParkedNext(n)
      PROVE  n \in unparsed' \/ \E p \in Pairs' : p.req = n
  <2>1. Parked(n)
    BY <1>1 DEF Parked, ParkedNext, SteadyBut, Steady, Settled
  <2>2. n \in unparsed \/ \E p \in Pairs : p.req = n
    BY <2>1, TableNow
  <2>3. QED
    BY <2>2
<1>2. \A n \in Node : ParkedNext(n) => n \in unparsed' \/ \E p \in Pairs' : p.req = n
  BY <1>1
<1>3. \A n : n \in Owners' <=> \E p \in Pairs' : p.req = n
  BY TableInPairsNext DEF TableSays
<1>4. QED
  BY <1>2, <1>3 DEF ParkedHasChannel, Parked, ParkedNext

(* Login contexts are left alone, and so are their requests.               *)
LEMMA LoginKept ==
  ASSUME SessionInv, UNCHANGED loginVars,
         NEW T \in SUBSET Node, SteadyBut(T), \A n \in T : Forward(n) /\ state[n] = "absent"
  PROVE  LoginIsDriven' /\ OverwrittenBegan'
<1>1. Posted("LOGIN") \subseteq Posted("LOGIN")'
  BY PostedStays
<1>2. \A n \in overwritten : kind'[n] = "LOGIN" /\ state'[n] \notin {"absent", "NEW"}
  BY DEF SessionInv, SessionTypeOK, OverwrittenBegan, SteadyBut, Steady, Settled
<1>3. login # 0 => kind'[login] = "LOGIN" /\ state'[login] = "RUNNING"
  BY DEF SessionInv, SessionTypeOK, LoginIsDriven, SteadyBut, Steady, Settled
<1>4. QED
  BY <1>1, <1>2, <1>3 DEF LoginIsDriven, OverwrittenBegan, SessionInv, loginVars

(* The steps that neither log in nor out.                                  *)
LEMMA OrdinaryStep ==
  ASSUME SessionInv, RequestInv', ChannelInv', SessionTypeOK', since' <= MaxSince,
         UNCHANGED <<conn, loginVars, user>>,
         NEW T \in SUBSET Node, SteadyBut(T), unparsed \subseteq unparsed',
         \A p \in Pairs : p.req \notin T => p \in Pairs',
         \A n \in T : ParkedNext(n) => n \in unparsed' \/ \E p \in Pairs' : p.req = n,
         \A n \in T : Forward(n) /\ kind'[n] \notin {"LOGIN", "LOGOUT"},
         \A n \in Node \ T : left'[n] = left[n],
         \A p \in Pairs' : \/ p \in Pairs /\ p.req \notin T
                           \/ Asks(p.req)' /\ (kind'[p.req] \in Stream \/ p \in asked'),
         asked \intersect Pairs' \subseteq asked', asked' \subseteq Pairs',
         conn = "LOGGED_OUT" => Pairs' \subseteq Pairs
  PROVE  SessionInv'
<1>1. /\ asked \subseteq Pairs
      /\ conn = "LOGGED_OUT" => Pairs = {}
      /\ conn = "LOGGED_IN" /\ OneLogin
           => \A p \in Pairs : p.req \in Node /\ (kind[p.req] \in Stream \/ p \in asked)
  BY TableNow
<1>3. OwnersAreParked' /\ OwnersAsk' /\ AnswersFindTheirChannel'
  BY TableStep
<1>4. LoggedOutIsQuiet'
  BY <1>1, TableInPairsNext DEF TableSays, LoggedOutIsQuiet
<1>5. OneLogin' => OneLogin
  BY PostedStays
<1>6. ASSUME conn = "LOGGED_IN", OneLogin PROVE \A ch \in channels' : Answerable(ch)'
  <2>1. SUFFICES \A p \in Pairs' : kind'[p.req] \in Stream \/ p \in asked'
    BY TableInPairsNext DEF TableSays
  <2>2. ASSUME NEW p \in Pairs', p \in Pairs, p.req \notin T
        PROVE  kind'[p.req] \in Stream \/ p \in asked'
    BY <1>1, <1>6, <2>2 DEF SteadyBut, Steady
  <2>3. QED
    BY <2>2
<1>7. LoginIsDriven' /\ OverwrittenBegan'
  <2>1. Posted("LOGIN") \subseteq Posted("LOGIN")'
    BY PostedStays
  <2>2. login # 0 => login \in Node \ T
    BY DEF Forward, SessionInv, SessionTypeOK, LoginIsDriven
  <2>3. login # 0 => kind'[login] = "LOGIN" /\ state'[login] = "RUNNING"
    BY <2>2 DEF SessionInv, LoginIsDriven, SteadyBut, Steady, Settled
  <2>4. \A n \in overwritten : kind'[n] = "LOGIN" /\ state'[n] \notin {"absent", "NEW"}
    BY DEF SessionInv, SessionTypeOK, OverwrittenBegan, SteadyBut, Steady, Settled, Forward
  <2>5. QED
    BY <2>1, <2>3, <2>4 DEF LoginIsDriven, OverwrittenBegan, SessionInv, loginVars
<1>8. FirstLoginHolds'
  <2>1. Posted("LOGIN")' = Posted("LOGIN")
    BY PostedStays DEF Posted
  <2>2. ASSUME NEW n \in Posted("LOGIN"), state[n] \notin Active PROVE state'[n] \notin Active
    <3>1. n \in Node \ T
      BY <2>1, <2>2 DEF Posted
    <3>2. QED
      BY <2>2, <3>1 DEF SteadyBut, Steady, Settled, Active
  <2>3. QED
    BY <1>5, <1>6, <2>1, <2>2 DEF FirstLoginHolds, SessionInv
<1>9. CacheNeverReturns'
  BY PostedStays
<1>10. ParkedHasChannel'
  BY ParkedStep
<1>11. QED
  BY <1>3, <1>4, <1>7, <1>8, <1>9, <1>10 DEF SessionInv

-----------------------------------------------------------------------------
(* A channel's callback serves a browse request no batch that it did not   *)
(* ask for.                                                                *)
LEMMA ServedOnce ==
  ASSUME SessionInv, NEW n \in Owners
  PROVE  n \in Node /\ Served(n) \in Nat
<1>1. PICK ch \in channels : ch.owner = n
  BY DEF Owners
<1>2. n \in Node /\ left[n] \in Nat
  BY <1>1, SessionFacts DEF SessionInv, SessionTypeOK
<1>3. kind[n] \in Browse => left[n] > 0
  BY <1>1 DEF SessionInv, OwnersAsk
<1>4. QED
  BY <1>2, <1>3 DEF Served

(* Handlers keep the types.                                                *)
LEMMA HandlersType == ASSUME SessionInv, Handlers PROVE SessionTypeOK'
<1>1. walker \in Node \union {0} /\ next_channel_id \in Nat /\ 0 \notin Node
  BY SessionFacts DEF SessionInv, RequestInv, ReqTypeOK, ChannelInv, ChannelTypeOK
<1> USE DEF SessionInv, SessionTypeOK, sessVars
<1> USE DEF loginVars, tallyVars
<1>2. CASE Postpone \/ CacheProcess \/ WriteFails \/ LogoutCrashes
  BY <1>2 DEF Postpone, CacheProcess, WriteFails, LogoutCrashes
<1>3. CASE FailOffline \/ LoginContinues \/ LoginSucceeds \/ LoginFails
  <2>1. CASE FailOffline
    BY <2>1 DEF FailOffline
  <2>2. CASE LoginContinues
    <3>1. walker \in Node
      BY <1>1, <2>2 DEF LoginContinues, Dispatched, AtNode
    <3>2. /\ login' \in Node \union {0} /\ contexts' \subseteq Node
          /\ overwritten' \subseteq Node
      BY <2>2, <3>1 DEF LoginContinues, Overwrite
    <3>3. QED
      BY <2>2, <3>2 DEF LoginContinues
  <2>3. CASE LoginSucceeds \/ LoginFails
    <3>1. login' = 0 /\ contexts' \subseteq Node /\ overwritten' \subseteq Node
      BY <2>3 DEF LoginSucceeds, LoginFails, ReleaseLogin, Overwrite
    <3>2. QED
      BY <2>3, <3>1 DEF LoginSucceeds, LoginFails
  <2>4. QED
    BY <1>3, <2>1, <2>2, <2>3
<1>4. CASE QueryProcess \/ PlaylistProcess \/ BrowseProcess
  <2>1. SendCommand /\ walker # 0
    BY <1>4 DEF QueryProcess, PlaylistProcess, BrowseProcess, Dispatched, AtNode
  <2>2. [id |-> next_channel_id, req |-> walker] \in [id : Nat, req : Node]
    BY <1>1, <2>1
  <2>3. QED
    BY <2>1, <2>2 DEF SendCommand
<1>5. CASE BrowseReturns
  BY <1>5 DEF BrowseReturns
<1>6. CASE PlayerProcess
  <2>1. walker # 0
    BY <1>6 DEF PlayerProcess, Dispatched, AtNode
  <2>2. [id |-> next_channel_id, req |-> walker] \in [id : Nat, req : Node]
    BY <1>1, <2>1
  <2>3. QED
    BY <1>6, <2>2 DEF PlayerProcess, PlayerReturns
<1>7. CASE PlayerWriteFails \/ TokenProcess
  BY <1>7 DEF PlayerWriteFails, TokenProcess, PlayerReturns
<1>8. CASE Logout
  <2>1. \A n \in Waiting : Served(n) \in Nat
    BY ServedOnce DEF Waiting
  <2>2. left' \in [Node -> Nat]
    BY <1>8, <2>1 DEF Logout
  <2>3. login' = 0 /\ contexts' \subseteq Node /\ overwritten' \subseteq Node
    BY <1>8 DEF Logout, ReleaseLogin
  <2>4. QED
    BY <1>8, <2>2, <2>3 DEF Logout
<1>9. QED
  BY <1>2, <1>3, <1>4, <1>5, <1>6, <1>7, <1>8 DEF Handlers

(* What the callbacks of playlists post.                                   *)
LEMMA PostsAreLists ==
  ASSUME playlists \in Nat, NEW new \in Nat
  PROVE  ContainerPosts(new) \in Seq(Posts) /\ PlaylistLists \subseteq Seq(Posts)
<1>1. ContainerPosts(new) \in Seq(Posts)
  <2>1. ContainerPosts(new) \in [1 .. new + playlists + new -> Posts]
    BY DEF ContainerPosts, Posts, Told
  <2>2. new + playlists + new \in Nat
    OBVIOUS
  <2>3. QED
    BY <2>1, <2>2, SeqDef
<1>2. PlaylistLists \subseteq Seq(Posts)
  BY DEF PlaylistLists, Posts, Told
<1>3. QED
  BY <1>1, <1>2

(* Packets keep the types.                                                 *)
LEMMA ServerType == ASSUME SessionInv, Server PROVE SessionTypeOK'
<1> USE DEF SessionInv, SessionTypeOK, sessVars, loginVars, tallyVars
<1>1. \A ch \in channels : ch.owner \in Node /\ Served(ch.owner) \in Nat
  BY ServedOnce DEF Owners
<1>2. ASSUME NEW a \in asked,
             \/ ChannelData(a) \/ UnparsableEnd(a) \/ StreamEnd(a) \/ KeyArrives(a) \/ KeyFailed(a)
      PROVE  SessionTypeOK'
  BY <1>1, <1>2 DEF ChannelData, UnparsableEnd, StreamEnd, KeyArrives, KeyFailed, channel_by_id
<1>3. ASSUME NEW a \in asked, ChannelError(a) PROVE SessionTypeOK'
  <2>1. left' \in [Node -> Nat]
    BY <1>1, <1>3 DEF ChannelError, channel_by_id
  <2>2. errors' \in 0 .. MaxErrors
    BY <1>3, SessionAssumption DEF ChannelError
  <2>3. QED
    BY <1>3, <2>1, <2>2 DEF ChannelError
<1>4. ASSUME NEW a \in asked, ObjectEnd(a) PROVE SessionTypeOK'
  BY <1>4 DEF ObjectEnd
<1>5. ASSUME NEW a \in asked, BrowseEnd(a) PROVE SessionTypeOK'
  <2>1. left' \in [Node -> Nat]
    BY <1>1, <1>5 DEF BrowseEnd, channel_by_id
  <2>2. QED
    BY <1>5, <2>1 DEF BrowseEnd
<1>6. ASSUME NEW a \in asked, PlaylistEnd(a) PROVE SessionTypeOK'
  <2>1. PICK ch \in channels, new \in 0 .. NumPlaylists :
          \/ playlists' = playlists + new /\ running' = [req |-> ch.owner, posts |-> ContainerPosts(new)]
          \/ playlists' = playlists /\ running' \in [req : {ch.owner}, posts : PlaylistLists]
    BY <1>6 DEF PlaylistEnd, channel_by_id
  <2>2. new \in Nat /\ playlists \in Nat
    BY SessionAssumption
  <2>3. ContainerPosts(new) \in Seq(Posts) /\ PlaylistLists \subseteq Seq(Posts)
    BY <2>2, PostsAreLists
  <2>4. running' \in [req : Node \union {0}, posts : Seq(Posts)] /\ playlists' \in Nat
    BY <1>1, <2>1, <2>2, <2>3
  <2>5. QED
    BY <1>6, <2>4 DEF PlaylistEnd
<1>7. CASE \E k \in Kind \intersect Announced : Announces(k)
  BY <1>7 DEF Announces
<1>8. CASE TokenLost \/ WelcomeUser \/ WelcomeCrashes \/ Disconnect
  BY <1>8 DEF TokenLost, WelcomeUser, WelcomeCrashes, Disconnect
<1>9. QED
  BY <1>2, <1>3, <1>4, <1>5, <1>6, <1>7, <1>8 DEF Server

(* The session keeps its types; left is never decremented below zero.      *)
LEMMA SessionTypeStep == ASSUME SessionInv, [SessionNext]_allVars PROVE SessionTypeOK'
<1> USE DEF SessionInv, SessionTypeOK, sessVars, loginVars, tallyVars
<1>1. CASE UNCHANGED allVars \/ Stopped
  BY <1>1 DEF allVars, Stopped
<1>2. CASE Application
  BY <1>2 DEF Application, AppWakes, AppFetches, AppDelivers, AppCrashes
<1>3. CASE IoThread
  <2>1. CASE Cleanup \/ StartWalk \/ Skip \/ EndOfWalk \/ Idle \/ PacketsDone \/ WelcomeContainer
    BY <2>1 DEF Cleanup, StartWalk, Skip, EndOfWalk, Idle, PacketsDone, WelcomeContainer
  <2>2. CASE PlaylistPosts
    <3>1. running' \in [req : Node \union {0}, posts : Seq(Posts)]
      <4>1. Tail(running.posts) \in Seq(Posts)
        BY <2>2, HeadTailProperties DEF PlaylistPosts
      <4>2. QED
        BY <2>2, <4>1 DEF PlaylistPosts
    <3>2. left' \in [Node -> Nat]
      <4>1. PICK v \in Batches \union {0} : left' = [left EXCEPT ![posted + 1] = v]
        BY <2>2 DEF PlaylistPosts
      <4>2. v \in Nat
        BY SessionAssumption
      <4>3. QED
        BY <4>1, <4>2
    <3>3. QED
      BY <2>2, <3>1, <3>2 DEF PlaylistPosts
  <2>3. CASE PlaylistReturns
    BY <2>3 DEF PlaylistReturns, NoCallback
  <2>4. QED
    BY <1>3, <2>1, <2>2, <2>3, HandlersType DEF IoThread
<1>4. CASE \E t \in Kind : AppPosts(t)
  <2>1. left' \in [Node -> Nat]
    <3>1. PICK t \in Kind, b \in Batches :
            left' = [left EXCEPT ![posted + 1] =
                       CASE t \in {"BROWSE_TRACK", "BROWSE_PLAYLIST_TRACKS"} -> b
                         [] t \in Browse -> 1
                         [] OTHER -> 0]
      BY <1>4 DEF AppPosts
    <3> DEFINE v == CASE t \in {"BROWSE_TRACK", "BROWSE_PLAYLIST_TRACKS"} -> b
                      [] t \in Browse -> 1
                      [] OTHER -> 0
    <3>2. v \in Nat
      BY SessionAssumption
    <3>3. left' = [left EXCEPT ![posted + 1] = v]
      BY <3>1
    <3> HIDE DEF v
    <3>4. QED
      BY <3>2, <3>3
  <2>2. user' \in {"garbage", "set", "none"}
    BY <1>4 DEF AppPosts
  <2>3. QED
    BY <1>4, <2>1, <2>2 DEF AppPosts
<1>5. CASE \E n \in Node : TimePasses(n)
  BY <1>5 DEF TimePasses
<1>6. QED
  BY <1>1, <1>2, <1>3, <1>4, <1>5, ServerType DEF SessionNext

-----------------------------------------------------------------------------
(* What every step keeps, by the lemmas above.                             *)
Grounded == RequestInv' /\ ChannelInv' /\ SessionTypeOK' /\ since' <= MaxSince
LEMMA SessionGrounded == ASSUME SessionInv, [SessionNext]_allVars PROVE Grounded
<1>1. RequestInv' /\ ChannelInv'
  BY SessionRequestStep, SessionChannelStep, ReqNextInv, ChannelNextInv DEF SessionInv
<1>2. QED
  BY <1>1, SessionTypeStep, SessionChannelStep DEF Grounded

(* Steps that touch neither the channels nor the requests.                 *)
LEMMA QuietInv ==
  ASSUME SessionInv, Grounded, SteadyBut({}), Pairs' = Pairs,
         UNCHANGED <<conn, loginVars, user, left, asked, unparsed>>
  PROVE  SessionInv'
<1>1. asked \subseteq Pairs
  BY TableNow
<1> DEFINE T == {}
<1>2. T \in SUBSET Node /\ SteadyBut(T)
  OBVIOUS
<1>3. QED
  BY <1>1, <1>2, OrdinaryStep DEF Grounded

(* Steps that post a request or return the one that the walk is at, which  *)
(* owns no channel.                                                        *)
LEMMA BesideTableInv ==
  ASSUME SessionInv, Grounded, UNCHANGED <<conn, loginVars, user, asked, unparsed>>, Pairs' = Pairs,
         NEW n \in Node \ Owners, SteadyBut({n}), Forward(n), kind'[n] \notin {"LOGIN", "LOGOUT"},
         ~ParkedNext(n),
         \A m \in Node \ {n} : left'[m] = left[m]
  PROVE  SessionInv'
<1>1. asked \subseteq Pairs
  BY TableNow
<1>3. \A p \in Pairs : p.req # n
  BY DEF Pairs, Owners
<1> DEFINE T == {n}
<1>4. /\ T \in SUBSET Node /\ SteadyBut(T)
      /\ \A m \in T : Forward(m) /\ kind'[m] \notin {"LOGIN", "LOGOUT"}
      /\ \A m \in Node \ T : left'[m] = left[m]
      /\ \A p \in Pairs : p.req \notin T
      /\ \A m \in T : ~ParkedNext(m)
  BY <1>3
<1> HIDE DEF T
<1>5. QED
  BY <1>1, <1>4, OrdinaryStep DEF Grounded

(* A request that is not posted yet owns no channel.                       *)
LEMMA AbsentOwnsNothing ==
  ASSUME SessionInv, NEW n \in Node, state[n] = "absent"
  PROVE  n \in Node \ Owners
<1>1. ASSUME NEW ch \in channels, ch.owner = n PROVE FALSE
  BY <1>1 DEF SessionInv, OwnersAreParked
<1>2. QED
  BY <1>1 DEF Owners

(* A request is posted that is neither a login nor a logout.               *)
LEMMA PostInv ==
  ASSUME SessionInv, Grounded, UNCHANGED <<conn, loginVars, user, asked, unparsed, chanVars>>,
         NEW k \in Kind \ {"LOGIN", "LOGOUT"}, NEW st \in {"NEW", "RETURNED"}, Link(k, st),
         k = "CACHE_PERIODIC" => st = "NEW",
         \A m \in Node \ {posted + 1} : left'[m] = left[m]
  PROVE  SessionInv'
<1> DEFINE n == posted + 1
<1>1. /\ n \in Node /\ state[n] = "absent" /\ state'[n] = st /\ kind'[n] = k
      /\ SteadyBut({n}) /\ ~ParkedNext(n)
  BY LinkSteps DEF SessionInv
<1> HIDE DEF n
<1>2. n \in Node \ Owners
  BY <1>1, AbsentOwnsNothing
<1>3. Forward(n) /\ kind'[n] \notin {"LOGIN", "LOGOUT"}
  BY <1>1 DEF Forward
<1>4. (\A m \in Node \ {n} : left'[m] = left[m]) /\ Pairs' = Pairs
  BY DEF n, Pairs, chanVars
<1>5. QED
  BY <1>1, <1>2, <1>3, <1>4, BesideTableInv

(* A handler returns a request that is neither, nor the periodic one.      *)
LEMMA ReturnedInv ==
  ASSUME SessionInv, Grounded, UNCHANGED <<conn, loginVars, user, asked, left, unparsed>>,
         Pairs' = Pairs, Return({}, {}), kind[walker] \notin {"LOGIN", "LOGOUT", "CACHE_PERIODIC"}
  PROVE  SessionInv'
<1>1. /\ walker \in Node /\ state[walker] \in Active
      /\ state'[walker] = "RETURNED" /\ kind' = kind
      /\ SteadyBut({walker} \union {} \union {})
  BY ReturnSteps DEF SessionInv
<1>2. SteadyBut({walker})
  BY <1>1 DEF SteadyBut
<1>3. walker \in Node \ Owners
  BY ReadyOwnsNothing DEF Return
<1>4. Forward(walker) /\ ~ParkedNext(walker)
  BY <1>1 DEF Forward, ParkedNext
<1>5. QED
  BY <1>1, <1>2, <1>3, <1>4, BesideTableInv

(* A handler opens a channel for the request that the walk is at: one that *)
(* waits for the answer from now on, or one of the player's that returns.  *)
LEMMA RegisteredInv ==
  ASSUME SessionInv, Grounded, UNCHANGED <<conn, loginVars, user, left, unparsed>>, conn = "LOGGED_IN",
         NEW n \in Node \ Owners, NEW st, Register(n, st), SteadyBut({n}),
         Asks(n)', kind' = kind, state'[n] # "absent",
         \/ asked' = asked \union {[id |-> next_channel_id, req |-> n]}
         \/ asked' = asked /\ kind[n] \in Stream
  PROVE  SessionInv'
<1> DEFINE new == [id |-> next_channel_id, req |-> n]
<1>1. n \in Node \ Owners
  OBVIOUS
<1>2. Pairs' = Pairs \union {new}
  <2>1. channels' = channels \union {[id |-> next_channel_id, state |-> st, owner |-> n]}
    BY DEF Register
  <2> DEFINE c == [id |-> next_channel_id, state |-> st, owner |-> n]
  <2>2. c.id = next_channel_id /\ c.owner = n /\ channels' = channels \union {c}
    BY <2>1
  <2> HIDE DEF c
  <2>3. QED
    BY <2>2 DEF Pairs
<1>3. \A p \in Pairs : p.req # n
  BY <1>1 DEF Pairs, Owners
<1>4. asked \subseteq Pairs
  BY TableNow
<1>5. kind[n] \in Query \union Browse \union Stream \union {"PC_LOAD", "PLAYLIST_LOAD"}
  BY DEF Asks
<1>6. Forward(n) /\ kind'[n] \notin {"LOGIN", "LOGOUT"}
  BY <1>5 DEF Forward, Query, Browse, Stream
<1>7. new.req = n
  OBVIOUS
<1>8. asked' = asked \union {new} \/ (asked' = asked /\ kind[n] \in Stream)
  OBVIOUS
<1> HIDE DEF new
<1> DEFINE T == {n}
<1>9. /\ T \in SUBSET Node /\ SteadyBut(T)
      /\ \A m \in T : Forward(m) /\ kind'[m] \notin {"LOGIN", "LOGOUT"}
      /\ \A p \in Pairs : p.req \notin T
      /\ \A m \in T : \E p \in Pairs' : p.req = m
  BY <1>1, <1>2, <1>3, <1>6, <1>7
<1> HIDE DEF T
<1>10. ASSUME NEW p \in Pairs'
       PROVE  \/ p \in Pairs /\ p.req \notin T
              \/ Asks(p.req)' /\ (kind'[p.req] \in Stream \/ p \in asked')
  <2>1. CASE p \in Pairs
    BY <1>9, <2>1
  <2>2. CASE p = new
    BY <1>7, <1>8, <2>2
  <2>3. QED
    BY <1>2, <2>1, <2>2
<1>11. asked \intersect Pairs' \subseteq asked' /\ asked' \subseteq Pairs'
  BY <1>2, <1>4, <1>8
<1>12. Pairs \subseteq Pairs'
  BY <1>2
<1>13. QED
  BY <1>9, <1>10, <1>11, <1>12, OrdinaryStep DEF Grounded

(* The channel that an answer ends is that of the query it answers.        *)
LEMMA AnswerEndsItsChannel ==
  ASSUME SessionInv, NEW a \in asked, NEW ch \in channel_by_id(a.id), channels' = channels \ {ch}
  PROVE  /\ ch \in channels /\ ch.owner = a.req /\ a.req \in Node /\ Asks(a.req)
         /\ Pairs' = Pairs \ {a}
         /\ \A p \in Pairs' : p.req # a.req
<1>1. ch \in channels /\ ch.id = a.id /\ ch.owner = a.req
  BY DEF channel_by_id, SessionInv, AnswersFindTheirChannel
<1>2. a = [id |-> ch.id, req |-> ch.owner]
  BY <1>1 DEF SessionInv, SessionTypeOK
<1>3. a \in Pairs
  BY <1>1, <1>2 DEF Pairs
<1>4. a.req \in Node /\ Asks(a.req)
  BY <1>3, TableNow
<1>5. \A c \in channels : c.id = a.id \/ c.owner = a.req => c = ch
  BY <1>1 DEF SessionInv, ChannelInv, UniqueIds, OneChannelPerOwner
<1>6. \A p \in Pairs' : p.req # a.req /\ p \in Pairs
  BY <1>1, <1>5 DEF Pairs
<1>7. ASSUME NEW p \in Pairs, p # a PROVE p \in Pairs'
  <2>1. PICK c \in channels : p = [id |-> c.id, req |-> c.owner]
    BY DEF Pairs
  <2>2. c # ch
    BY <1>2, <1>7, <2>1
  <2>3. QED
    BY <2>1, <2>2 DEF Pairs
<1>8. Pairs' = Pairs \ {a}
  BY <1>6, <1>7
<1>9. QED
  BY <1>1, <1>4, <1>6, <1>8

(* An answer ends its channel, and its callback may return the request or  *)
(* have it tried again.                                                    *)
LEMMA ClosedInv ==
  ASSUME SessionInv, Grounded, UNCHANGED <<conn, loginVars, user>>, unparsed \subseteq unparsed',
         NEW a \in asked, asked' = asked \ {a},
         NEW ch \in channel_by_id(a.id), channels' = channels \ {ch},
         SteadyBut({ch.owner}), kind' = kind, state'[ch.owner] # "absent",
         ParkedNext(ch.owner) => ch.owner \in unparsed',
         \A m \in Node \ {ch.owner} : left'[m] = left[m]
  PROVE  SessionInv'
<1>1. /\ ch \in channels /\ ch.owner = a.req /\ a.req \in Node /\ Asks(a.req)
      /\ Pairs' = Pairs \ {a}
      /\ \A p \in Pairs' : p.req # a.req
  BY AnswerEndsItsChannel
<1>2. Forward(a.req) /\ kind'[a.req] \notin {"LOGIN", "LOGOUT"}
  BY <1>1 DEF Forward, Asks, Query, Browse, Stream
<1>3. asked \subseteq Pairs
  BY TableNow
<1> DEFINE T == {a.req}
<1>4. /\ T \in SUBSET Node /\ SteadyBut(T)
      /\ \A n \in T : Forward(n) /\ kind'[n] \notin {"LOGIN", "LOGOUT"}
      /\ \A n \in Node \ T : left'[n] = left[n]
      /\ \A p \in Pairs' : p \in Pairs /\ p.req \notin T
      /\ \A n \in T : ParkedNext(n) => n \in unparsed'
      /\ \A p \in Pairs : p.req \notin T => p \in Pairs'
  BY <1>1, <1>2
<1> HIDE DEF T
<1>5. /\ asked \intersect Pairs' \subseteq asked' /\ asked' \subseteq Pairs'
      /\ Pairs' \subseteq Pairs
  BY <1>1, <1>3
<1>6. QED
  BY <1>4, <1>5, OrdinaryStep DEF Grounded

(* Headers and data leave the channel to its owner.                        *)
LEMMA ChannelDataInv ==
  ASSUME SessionInv, Grounded, NEW a \in asked, ChannelData(a)
  PROVE  SessionInv'
<1>1. PICK ch \in channels, st \in {"HEADER", "DATA"} :
        \/ channels' = (channels \ {ch}) \union {[ch EXCEPT !.state = st]}
        \/ channels' = channels
  BY DEF ChannelData, ProcessHeader, ProcessData, channel_by_id
<1>2. Pairs' = Pairs
  <2>1. CASE channels' = channels
    BY <2>1 DEF Pairs
  <2>2. CASE channels' = (channels \ {ch}) \union {[ch EXCEPT !.state = st]}
    <3>1. ch \in Chan
      BY DEF SessionInv, ChannelInv, ChannelTypeOK
    <3> DEFINE new == [ch EXCEPT !.state = st]
    <3>2. new.id = ch.id /\ new.owner = ch.owner
      BY <3>1 DEF Chan
    <3>3. channels' = (channels \ {ch}) \union {new}
      BY <2>2
    <3> HIDE DEF new
    <3>4. Pairs' \subseteq Pairs
      BY <3>2, <3>3 DEF Pairs
    <3>5. Pairs \subseteq Pairs'
      BY <3>2, <3>3 DEF Pairs
    <3>6. QED
      BY <3>4, <3>5
  <2>3. QED
    BY <1>1, <2>1, <2>2
<1>3. SteadyBut({})
  BY QuietSteps DEF SessionInv, ChannelData
<1>4. QED
  BY <1>2, <1>3, QuietInv DEF ChannelData, sessVars, tallyVars

-----------------------------------------------------------------------------
(* The networking thread and the main thread go about their loops.         *)
LEMMA LoopsInv ==
  ASSUME SessionInv, Grounded,
         \/ Application \/ Stopped \/ UNCHANGED allVars \/ \E n \in Node : TimePasses(n)
         \/ Cleanup \/ StartWalk \/ Skip \/ EndOfWalk \/ Idle \/ PacketsDone
         \/ WriteFails \/ LogoutCrashes \/ WelcomeCrashes \/ \E a \in asked : KeyFailed(a)
  PROVE  SessionInv'
<1>1. UNCHANGED <<chanVars, sessVars>>
  BY DEF Application, AppWakes, AppFetches, AppDelivers, AppCrashes, Stopped, allVars, TimePasses,
       Cleanup, StartWalk, Skip, EndOfWalk, Idle, PacketsDone, WriteFails, LogoutCrashes,
       WelcomeCrashes, KeyFailed
<1>2. \/ MainWake \/ MainFetch \/ MainDeliver \/ IoCleanup \/ IoStart \/ IoSkip
      \/ IoEndOfWalk \/ IoIdle \/ IoPacketsDone \/ Die \/ UNCHANGED reqVars
      \/ \E n \in Node : Expire(n)
  BY DEF Application, AppWakes, AppFetches, AppDelivers, AppCrashes, Stopped, Dead, allVars,
       TimePasses, Cleanup, StartWalk, Skip, EndOfWalk, Idle, PacketsDone, WriteFails, LogoutCrashes,
       WelcomeCrashes, KeyFailed
<1>3. SteadyBut({})
  BY <1>2, QuietSteps DEF SessionInv
<1>4. Pairs' = Pairs
  BY <1>1 DEF Pairs, chanVars
<1>5. QED
  BY <1>1, <1>3, <1>4, QuietInv DEF sessVars, tallyVars

(* A new request is postponed, or stays to be run again.                   *)
LEMMA StaysNewInv ==
  ASSUME SessionInv, Grounded, Postpone \/ CacheProcess
  PROVE  SessionInv'
<1>1. Keep("NEW", "later") /\ state[walker] = "NEW" /\ UNCHANGED <<chanVars, sessVars>>
  <2>1. CASE Postpone
    BY <2>1 DEF Postpone
  <2>2. CASE CacheProcess
    <3>1. walker \in Node /\ state[walker] \in Active /\ kind[walker] = "CACHE_PERIODIC"
      BY <2>2, KeepSteps DEF CacheProcess, Dispatched, SessionInv
    <3>2. QED
      BY <2>2, <3>1 DEF CacheProcess, SessionInv, CacheNeverReturns, Active
  <2>3. QED
    BY <2>1, <2>2
<1>2. SteadyBut({})
  <2>1. /\ walker \in Node /\ SteadyBut({walker}) /\ kind' = kind
        /\ state'[walker] = "NEW" /\ timer'[walker] = "later"
    BY <1>1, KeepSteps DEF SessionInv
  <2>2. timer[walker] = "due"
    BY <1>1 DEF Keep, Ready
  <2>3. QED
    BY <1>1, <2>1, <2>2 DEF SteadyBut, Steady
<1>3. Pairs' = Pairs
  BY <1>1 DEF Pairs, chanVars
<1>4. QED
  BY <1>1, <1>2, <1>3, QuietInv DEF sessVars, tallyVars

(* Requests that return without a channel.                                 *)
LEMMA PlainReturnsInv ==
  ASSUME SessionInv, Grounded,
         \/ FailOffline \/ BrowseReturns \/ TokenProcess
         \/ PlayerWriteFails /\ kind[walker] # "PLAYER_KEY"
  PROVE  SessionInv'
<1>1. /\ Return({}, {}) /\ UNCHANGED <<conn, loginVars, user, asked, left, unparsed>>
      /\ Pairs' = Pairs
  <2>1. channels' = channels
    BY DEF FailOffline, BrowseReturns, TokenProcess, PlayerWriteFails, Withdraw, chanVars
  <2>2. QED
    BY <2>1 DEF FailOffline, BrowseReturns, TokenProcess, PlayerWriteFails, PlayerReturns, Pairs,
         tallyVars
<1>2. kind[walker] \notin {"LOGIN", "LOGOUT", "CACHE_PERIODIC"}
  <2>1. CASE FailOffline
    <3>1. walker \in Node /\ state[walker] = "RUNNING"
      BY <2>1, <1>1, ReturnSteps DEF FailOffline, SessionInv
    <3>2. kind[walker] # "CACHE_PERIODIC"
      BY <3>1 DEF SessionInv, CacheNeverReturns
    <3>3. QED
      BY <2>1, <3>2 DEF FailOffline, Offline
  <2>2. CASE ~FailOffline
    BY <2>2 DEF BrowseReturns, TokenProcess, PlayerWriteFails, Dispatched, Browse, Token, Stream
  <2>3. QED
    BY <2>1, <2>2
<1>3. QED
  BY <1>1, <1>2, ReturnedInv

(* Requests that are posted by the application, by a callback or a packet, *)
(* apart from logins and logouts.                                          *)
LEMMA PostsInv ==
  ASSUME SessionInv, Grounded,
         \/ \E t \in Kind \ {"LOGIN", "LOGOUT"} : AppPosts(t)
         \/ \E k \in Kind \intersect Announced : Announces(k)
         \/ TokenLost \/ WelcomeUser \/ WelcomeContainer \/ PlaylistPosts
  PROVE  SessionInv'
<1> USE DEF SessionInv, SessionTypeOK, sessVars, tallyVars
<1>1. CASE \E t \in Kind \ {"LOGIN", "LOGOUT"} : AppPosts(t)
  <2>1. PICK t \in Kind \ {"LOGIN", "LOGOUT"} : AppPosts(t)
    BY <1>1
  <2>2. Link(t, "NEW") /\ UNCHANGED <<conn, loginVars, asked, unparsed, chanVars>> /\ user' = user
    BY <2>1 DEF AppPosts, MainPost
  <2>3. \A m \in Node \ {posted + 1} : left'[m] = left[m]
    BY <2>1 DEF AppPosts
  <2>4. QED
    BY <2>2, <2>3, PostInv
<1>2. CASE \E k \in Kind \intersect Announced : Announces(k)
  BY <1>2, PostInv DEF Announces, Announced, IoPostsResult
<1>3. CASE TokenLost
  BY <1>3, PostInv DEF TokenLost, IoPosts
<1>4. CASE WelcomeUser
  <2>1. CASE IoPosts("USER")
    BY <1>4, <2>1, PostInv, SessionAssumption DEF WelcomeUser, IoPosts
  <2>2. CASE UNCHANGED reqVars
    <3>1. SteadyBut({}) /\ Pairs' = Pairs
      BY <1>4, <2>2, QuietSteps DEF WelcomeUser, Pairs, chanVars
    <3>2. QED
      BY <1>4, <3>1, QuietInv DEF WelcomeUser
  <2>3. QED
    BY <1>4, <2>1, <2>2 DEF WelcomeUser
<1>5. CASE WelcomeContainer
  BY <1>5, PostInv, SessionAssumption DEF WelcomeContainer, IoPosts
<1>6. CASE PlaylistPosts
  <2> DEFINE k == Head(running.posts)
  <2>1. k \in Kind \ {"LOGIN", "LOGOUT", "CACHE_PERIODIC"}
    BY <1>6, PostsAreKinds DEF PlaylistPosts
  <2>2. PICK st \in {"NEW", "RETURNED"} : Link(k, st)
    BY <1>6 DEF PlaylistPosts, IoPosts, IoPostsResult
  <2> HIDE DEF k
  <2>3. \A m \in Node \ {posted + 1} : left'[m] = left[m]
    BY <1>6 DEF PlaylistPosts
  <2>4. UNCHANGED <<conn, loginVars, user, asked, unparsed, chanVars>>
    BY <1>6 DEF PlaylistPosts
  <2>5. QED
    BY <2>1, <2>2, <2>3, <2>4, PostInv
<1>7. QED
  BY <1>1, <1>2, <1>3, <1>4, <1>5, <1>6

(* A command is sent, and its request parked until the answer.             *)
LEMMA SendsInv ==
  ASSUME SessionInv, Grounded,
         QueryProcess \/ PlaylistProcess \/ BrowseProcess
  PROVE  SessionInv'
<1>1. /\ SendCommand /\ Ready(walker) /\ AtNode /\ ~Offline(walker)
      /\ kind[walker] \in Query \union Browse \union {"PC_LOAD", "PLAYLIST_LOAD"}
      /\ kind[walker] \in Browse => left[walker] > 0
  BY DEF QueryProcess, PlaylistProcess, BrowseProcess, Dispatched, Query, Browse
<1>2. conn = "LOGGED_IN"
  BY <1>1 DEF Offline, Query, Browse
<1>3. PICK n \in Node \ Owners : n = walker
  BY <1>1, ReadyOwnsNothing
<1>4. /\ SteadyBut({n}) /\ kind' = kind
      /\ state'[n] = "RUNNING" /\ timer'[n] = "never"
  BY <1>1, <1>3, KeepSteps DEF SendCommand, SessionInv
<1>5. Asks(n)'
  BY <1>1, <1>3, <1>4 DEF Asks, SendCommand, Query, Browse, Stream
<1>6. QED
  BY <1>1, <1>2, <1>3, <1>4, <1>5, RegisteredInv DEF SendCommand, tallyVars

(* A request of the player returns and leaves its channel open.            *)
LEMMA PlayerOpensInv ==
  ASSUME SessionInv, Grounded,
         PlayerProcess \/ (PlayerWriteFails /\ kind[walker] = "PLAYER_KEY")
  PROVE  SessionInv'
<1>1. /\ PlayerReturns /\ Ready(walker) /\ AtNode /\ ~Offline(walker) /\ kind[walker] \in Stream
      /\ \E st : Register(walker, st)
      /\ \/ asked' = asked \union {[id |-> next_channel_id, req |-> walker]}
         \/ asked' = asked /\ kind[walker] \in Stream
  BY DEF PlayerProcess, PlayerWriteFails, Dispatched
<1>2. conn = "LOGGED_IN"
  BY <1>1 DEF Offline, Stream
<1>3. PICK n \in Node \ Owners : n = walker
  BY <1>1, ReadyOwnsNothing
<1>4. SteadyBut({n}) /\ kind' = kind /\ state'[n] = "RETURNED"
  <2>1. /\ SteadyBut({walker} \union {} \union {}) /\ kind' = kind
        /\ state'[walker] = "RETURNED"
    BY <1>1, ReturnSteps DEF PlayerReturns, SessionInv
  <2>2. QED
    BY <1>3, <2>1 DEF SteadyBut
<1>5. Asks(n)'
  BY <1>1, <1>3, <1>4 DEF Asks, Settled, Stream, Browse
<1>6. PICK st : Register(n, st)
  BY <1>1, <1>3
<1>7. QED
  BY <1>1, <1>2, <1>3, <1>4, <1>5, <1>6, RegisteredInv DEF PlayerReturns, tallyVars

(* The ends of channels, one by one: what the callback does to the request *)
(* of the channel that ends, and to no other.                              *)
LEMMA EndsInv ==
  ASSUME SessionInv, Grounded, NEW a \in asked,
         \/ ChannelError(a) \/ ObjectEnd(a) \/ UnparsableEnd(a) \/ BrowseEnd(a)
         \/ StreamEnd(a) \/ KeyArrives(a)
         \/ PlaylistReturns /\ a.req = running.req /\ End(a) /\ asked' = asked \ {a}
  PROVE  SessionInv'
<1>1. ASSUME NEW c \in channel_by_id(a.id), NEW d \in channel_by_id(a.id)
      PROVE  c = d /\ c.owner = a.req /\ c.owner \in Node /\ state[c.owner] # "absent"
  <2>1. c \in channels /\ c = d /\ c.owner = a.req
    BY DEF channel_by_id, SessionInv, AnswersFindTheirChannel
  <2>2. QED
    BY <2>1, SessionFacts DEF SessionInv, OwnersAreParked
<1>2. PICK ch \in channel_by_id(a.id) : channels' = channels \ {ch}
  BY DEF ChannelError, ObjectEnd, UnparsableEnd, BrowseEnd, StreamEnd, KeyArrives, End,
       ProcessLast, AesKey, Unregister
<1>3. ch.owner \in Node /\ ch.owner = a.req /\ state[ch.owner] # "absent"
  BY <1>1
<1>4. /\ UNCHANGED <<conn, loginVars, user>> /\ asked' = asked \ {a}
      /\ unparsed \subseteq unparsed'
  BY DEF ChannelError, ObjectEnd, UnparsableEnd, BrowseEnd, StreamEnd, KeyArrives, PlaylistReturns,
     tallyVars
<1>5. \A m \in Node \ {ch.owner} : left'[m] = left[m]
  BY <1>1 DEF ChannelError, ObjectEnd, UnparsableEnd, BrowseEnd, StreamEnd, KeyArrives,
       PlaylistReturns, SessionInv, SessionTypeOK
<1>6. \/ UNCHANGED reqVars /\ (ch.owner \in unparsed' \/ kind[ch.owner] \in Stream)
      \/ IoPacketReturns(ch.owner)
      \/ \E t \in {"due", "later"} : IoPacketRetries(ch.owner, t)
  <2>1. CASE UnparsableEnd(a)
    BY <1>1, <2>1 DEF UnparsableEnd
  <2>2. CASE StreamEnd(a) \/ KeyArrives(a)
    BY <1>3, <2>2 DEF StreamEnd, KeyArrives, Stream
  <2>3. CASE ~(UnparsableEnd(a) \/ StreamEnd(a) \/ KeyArrives(a))
    BY <1>1, <1>3, <2>3 DEF ChannelError, ObjectEnd, BrowseEnd, PlaylistReturns, Again
  <2>4. QED
    BY <2>1, <2>2, <2>3
<1>7. /\ SteadyBut({ch.owner}) /\ kind' = kind /\ state'[ch.owner] # "absent"
      /\ ParkedNext(ch.owner) => ch.owner \in unparsed'
  <2>1. CASE UNCHANGED reqVars /\ (ch.owner \in unparsed' \/ kind[ch.owner] \in Stream)
    <3>1. kind[ch.owner] \in Stream => ~Parked(ch.owner)
      BY <1>2 DEF channel_by_id, Parked, SessionInv, OwnersAreParked
    <3>2. QED
      BY <1>3, <2>1, <3>1 DEF SteadyBut, Steady, reqVars, Parked, ParkedNext
  <2>2. CASE IoPacketReturns(ch.owner) \/ \E t \in {"due", "later"} : IoPacketRetries(ch.owner, t)
    BY <1>3, <2>2, PacketSteps DEF SessionInv
  <2>3. QED
    BY <1>6, <2>1, <2>2
<1>8. QED
  BY <1>2, <1>4, <1>5, <1>7, ClosedInv

(* The callback of a playlist begins.                                      *)
LEMMA PlaylistEndInv ==
  ASSUME SessionInv, Grounded, NEW a \in asked, PlaylistEnd(a)
  PROVE  SessionInv'
<1>1. SteadyBut({}) /\ Pairs' = Pairs
  BY QuietSteps DEF PlaylistEnd, Pairs, chanVars, SessionInv
<1>2. QED
  BY <1>1, QuietInv DEF PlaylistEnd

-----------------------------------------------------------------------------
(* The channels, when a step leaves them and their owners alone.           *)
LEMMA TableKept ==
  ASSUME SessionInv, Grounded, UNCHANGED <<chanVars, left>>,
         NEW T \in SUBSET (Node \ Owners), SteadyBut(T), asked' \subseteq asked
  PROVE  /\ OwnersAreParked' /\ OwnersAsk' /\ AnswersFindTheirChannel'
         /\ Pairs' = Pairs
<1>1. Pairs' = Pairs /\ \A p \in Pairs : p.req \notin T
  BY DEF Pairs, Owners, chanVars
<1>2. asked' \subseteq Pairs' /\ T \in SUBSET Node
  BY <1>1, TableNow
<1>3. QED
  BY <1>1, <1>2, TableStep DEF Grounded

(* sp_session_login() posts a login and sets the user.                     *)
LEMMA PostLoginInv ==
  ASSUME SessionInv, Grounded, AppPosts("LOGIN")
  PROVE  SessionInv'
<1> DEFINE n == posted + 1
<1>1. /\ n \in Node /\ state[n] = "absent" /\ state'[n] = "NEW" /\ kind'[n] = "LOGIN"
      /\ SteadyBut({n}) /\ ~ParkedNext(n)
  BY LinkSteps, SessionAssumption DEF SessionInv, AppPosts, MainPost
<1>2. /\ UNCHANGED <<chanVars, conn, loginVars, asked, unparsed>> /\ user' = "set"
      /\ \A m \in Node \ {n} : left'[m] = left[m]
  BY DEF AppPosts, SessionInv, SessionTypeOK, tallyVars
<1> HIDE DEF n
<1> DEFINE T == {n}
<1>3. /\ T \in SUBSET Node /\ SteadyBut(T)
      /\ \A m \in T : Forward(m) /\ state[m] = "absent" /\ ~ParkedNext(m)
      /\ \A m \in Node \ T : left'[m] = left[m]
  BY <1>1, <1>2 DEF Forward
<1>4. Pairs' = Pairs /\ \A p \in Pairs : p.req \notin T
  BY <1>1, <1>2, AbsentOwnsNothing DEF Pairs, Owners, chanVars
<1>5. n \in Posted("LOGIN")' /\ n \notin Posted("LOGIN")
  BY <1>1 DEF Posted
<1> HIDE DEF T
<1>6. /\ OneLogin' => OneLogin
      /\ CacheNeverReturns'
      /\ Posted("LOGIN") \subseteq Posted("LOGIN")'
  BY <1>3, PostedStays
<1>7. OneLogin' => Posted("LOGIN") = {}
  BY <1>5, <1>6 DEF OneLogin
<1>8. OneLogin' => conn # "LOGGED_IN" /\ conn # "DISCONNECTED"
  BY <1>6, <1>7 DEF SessionInv, FirstLoginHolds
<1>9. OwnersAreParked' /\ OwnersAsk' /\ AnswersFindTheirChannel'
  BY <1>2, <1>3, <1>4, TableNow, TableStep DEF Grounded
<1>10. LoggedOutIsQuiet' /\ FirstLoginHolds'
  BY <1>2, <1>8 DEF SessionInv, LoggedOutIsQuiet, FirstLoginHolds, chanVars
<1>11. LoginIsDriven' /\ OverwrittenBegan'
  BY <1>2, <1>3, LoginKept
<1>12. ParkedHasChannel'
  BY <1>2, <1>3, <1>4, ParkedStep DEF Grounded
<1>13. QED
  BY <1>6, <1>9, <1>10, <1>11, <1>12 DEF Grounded, SessionInv

(* Once a logout is posted nothing more is said of the first connection.   *)
LEMMA NoFirstConnection ==
  ASSUME NEW n \in Node, state'[n] # "absent", kind'[n] = "LOGOUT"
  PROVE  FirstLoginHolds'
<1>1. n \in Posted("LOGOUT")'
  BY DEF Posted
<1>2. QED
  BY <1>1 DEF FirstLoginHolds, OneLogin

(* A logout is posted, by the application or because the connection broke. *)
LEMMA PostLogoutInv ==
  ASSUME SessionInv, Grounded, AppPosts("LOGOUT") \/ Disconnect
  PROVE  SessionInv'
<1> DEFINE n == posted + 1
<1>1. /\ n \in Node /\ state[n] = "absent" /\ state'[n] # "absent" /\ kind'[n] = "LOGOUT"
      /\ SteadyBut({n}) /\ ~ParkedNext(n)
  <2>1. PICK st \in {"NEW", "RETURNED"} : Link("LOGOUT", st)
    BY DEF AppPosts, MainPost, Disconnect, IoPostsResult
  <2>2. QED
    BY <2>1, LinkSteps, SessionAssumption DEF SessionInv
<1>2. /\ UNCHANGED <<chanVars, loginVars, unparsed>> /\ asked' \subseteq asked
      /\ conn' = conn \/ conn' = "DISCONNECTED"
      /\ \A m \in Node \ {n} : left'[m] = left[m]
  BY DEF AppPosts, Disconnect, SessionInv, SessionTypeOK, tallyVars
<1> HIDE DEF n
<1> DEFINE T == {n}
<1>3. /\ T \in SUBSET Node /\ SteadyBut(T)
      /\ \A m \in T : Forward(m) /\ state[m] = "absent" /\ ~ParkedNext(m)
      /\ \A m \in Node \ T : left'[m] = left[m]
  BY <1>1, <1>2 DEF Forward
<1>4. Pairs' = Pairs /\ \A p \in Pairs : p.req \notin T
  BY <1>1, <1>2, AbsentOwnsNothing DEF Pairs, Owners, chanVars
<1> HIDE DEF T
<1>5. CacheNeverReturns'
  BY <1>3, PostedStays
<1>6. OwnersAreParked' /\ OwnersAsk' /\ AnswersFindTheirChannel'
  BY <1>2, <1>3, <1>4, TableNow, TableStep DEF Grounded
<1>7. LoggedOutIsQuiet'
  BY <1>2 DEF SessionInv, LoggedOutIsQuiet, chanVars
<1>8. FirstLoginHolds'
  BY <1>1, NoFirstConnection
<1>9. LoginIsDriven' /\ OverwrittenBegan'
  BY <1>2, <1>3, LoginKept
<1>10. ParkedHasChannel'
  BY <1>2, <1>3, <1>4, ParkedStep DEF Grounded
<1>11. QED
  BY <1>5, <1>6, <1>7, <1>8, <1>9, <1>10 DEF Grounded, SessionInv

(* What the login requests do to the contexts: a new one may take the      *)
(* place of another request's, and whoever is done releases what is there. *)
LEMMA LoginsDrive ==
  ASSUME SessionInv, LoginContinues \/ LoginSucceeds \/ LoginFails,
         walker \in Node, kind[walker] = "LOGIN", state[walker] \in Active, kind' = kind,
         SteadyBut({walker}), LoginContinues => state'[walker] = "RUNNING",
         LoginSucceeds \/ LoginFails => state'[walker] = "RETURNED",
         Posted("LOGIN") = Posted("LOGIN")'
  PROVE  LoginIsDriven' /\ OverwrittenBegan'
<1>1. /\ login # 0 => /\ login \in Node /\ login \in contexts \ overwritten
                      /\ kind[login] = "LOGIN" /\ state[login] = "RUNNING"
      /\ contexts \subseteq {login} \union overwritten /\ contexts \subseteq Node
      /\ \A n \in overwritten : n \in Node /\ kind[n] = "LOGIN" /\ state[n] \notin {"absent", "NEW"}
      /\ (\A m, n \in Posted("LOGIN") : m = n) => overwritten = {}
      /\ 0 \notin Node
  BY SessionFacts DEF SessionInv, SessionTypeOK, LoginIsDriven, OverwrittenBegan
<1>2. state'[walker] \notin {"absent", "NEW"}
  BY DEF Active
<1>3. /\ \A n \in overwritten : state'[n] \notin {"absent", "NEW"}
      /\ login # 0 => state'[login] \notin {"absent", "NEW"}
      /\ login # 0 /\ login # walker => state'[login] = "RUNNING"
  BY <1>1, <1>2 DEF SteadyBut, Steady, Settled
<1>4. CASE LoginContinues /\ state[walker] # "NEW"
  <2>1. login # 0 /\ UNCHANGED loginVars /\ state'[login] = "RUNNING"
    BY <1>3, <1>4 DEF LoginContinues
  <2>2. QED
    BY <1>1, <1>3, <2>1 DEF LoginIsDriven, OverwrittenBegan, loginVars
<1>5. CASE state[walker] = "NEW" /\ (LoginContinues \/ LoginFails)
  <2>1. overwritten' = overwritten \union ({login} \ {0})
    BY <1>5 DEF LoginContinues, LoginFails, Overwrite
  <2>2. \/ login' = walker /\ contexts' = contexts \union {walker} /\ state'[walker] = "RUNNING"
        \/ login' = 0 /\ contexts' = contexts
    BY <1>5 DEF LoginContinues, LoginFails
  <2>3. OverwrittenBegan'
    BY <1>1, <1>3, <2>1 DEF OverwrittenBegan
  <2>4. (\A m, n \in Posted("LOGIN")' : m = n) => overwritten' = {}
    <3>1. walker \in Posted("LOGIN") /\ (login # 0 => login \in Posted("LOGIN") /\ login # walker)
      BY <1>1, <1>5 DEF Posted
    <3>2. QED
      BY <1>1, <2>1, <3>1
  <2>5. walker \notin overwritten' /\ walker # 0
    BY <1>1, <1>5, <2>1
  <2>6. contexts' \subseteq {login'} \union overwritten'
    BY <1>1, <2>1, <2>2
  <2>7. QED
    BY <2>2, <2>3, <2>4, <2>5, <2>6 DEF LoginIsDriven
<1>6. CASE state[walker] # "NEW" /\ (LoginSucceeds \/ LoginFails)
  <2>1. login' = 0 /\ contexts' = contexts \ {login} /\ overwritten' = overwritten
    BY <1>6 DEF LoginSucceeds, LoginFails, ReleaseLogin
  <2>2. QED
    BY <1>1, <1>3, <2>1 DEF LoginIsDriven, OverwrittenBegan
<1>7. LoginSucceeds => state[walker] # "NEW"
  BY DEF LoginSucceeds
<1>8. QED
  BY <1>4, <1>5, <1>6, <1>7

(* login_process() goes on, or ends either way.                            *)
LEMMA LoginsInv ==
  ASSUME SessionInv, Grounded, LoginContinues \/ LoginSucceeds \/ LoginFails
  PROVE  SessionInv'
<1>1. /\ walker \in Node \ Owners /\ kind[walker] = "LOGIN" /\ state[walker] \in Active
      /\ SteadyBut({walker}) /\ kind' = kind
      /\ LoginContinues => state'[walker] = "RUNNING"
      /\ LoginSucceeds \/ LoginFails => state'[walker] = "RETURNED"
      /\ ~ParkedNext(walker)
  <2>1. walker \in Node \ Owners /\ kind[walker] = "LOGIN" /\ state[walker] \in Active
    BY ReadyOwnsNothing DEF LoginContinues, LoginSucceeds, LoginFails, Dispatched, Ready
  <2>2. LoginContinues => /\ SteadyBut({walker}) /\ kind' = kind
                          /\ state'[walker] = "RUNNING" /\ timer'[walker] = "due"
    BY <2>1, KeepSteps DEF LoginContinues, SessionInv
  <2>3. ASSUME LoginSucceeds \/ LoginFails
        PROVE  SteadyBut({walker}) /\ kind' = kind /\ state'[walker] = "RETURNED"
    <3>1. /\ SteadyBut({walker} \union {} \union {}) /\ kind' = kind
          /\ state'[walker] = "RETURNED"
      BY <2>3, ReturnSteps DEF LoginSucceeds, LoginFails, SessionInv
    <3>2. QED
      BY <2>1, <3>1 DEF SteadyBut
  <2>4. QED
    BY <2>1, <2>2, <2>3 DEF ParkedNext
<1>2. /\ UNCHANGED <<chanVars, left, user, unparsed>>
      /\ asked' = asked \/ asked' = {}
      /\ conn' = conn \/ LoginSucceeds
  BY DEF LoginContinues, LoginSucceeds, LoginFails, tallyVars
<1> DEFINE T == {walker}
<1>3. /\ T \in SUBSET (Node \ Owners) /\ T \in SUBSET Node /\ SteadyBut(T)
      /\ \A n \in T : Forward(n) /\ ~ParkedNext(n)
  BY <1>1 DEF Forward
<1> HIDE DEF T
<1>4. /\ OneLogin' => OneLogin
      /\ CacheNeverReturns'
      /\ Posted("LOGIN") = Posted("LOGIN")'
  <2>1. walker \in Posted("LOGIN")
    BY <1>1 DEF Posted, Active
  <2>2. QED
    BY <1>3, <2>1, PostedStays DEF T
<1>5. /\ OwnersAreParked' /\ OwnersAsk' /\ AnswersFindTheirChannel'
      /\ Pairs' = Pairs
  BY <1>2, <1>3, TableKept
<1>6. walker \in Posted("LOGIN")
  BY <1>1 DEF Posted, Active
<1>7. OneLogin /\ LoginSucceeds => conn = "LOGGED_OUT"
  <2>1. SUFFICES ASSUME OneLogin PROVE conn = "LOGGED_OUT"
    OBVIOUS
  <2>2. \A n \in Posted("LOGIN") : state[n] \in Active
    BY <1>1, <1>6, <2>1 DEF OneLogin
  <2>3. QED
    BY <2>1, <2>2 DEF SessionInv, FirstLoginHolds, SessionTypeOK
<1>8. LoggedOutIsQuiet'
  BY <1>2 DEF SessionInv, LoggedOutIsQuiet, chanVars, LoginSucceeds
<1>9. LoginIsDriven' /\ OverwrittenBegan'
  BY <1>1, <1>2, <1>4, LoginsDrive
<1>10. FirstLoginHolds'
  <2>1. SUFFICES ASSUME OneLogin
                 PROVE  /\ conn' # "DISCONNECTED"
                        /\ user = "set"
                        /\ conn' = "LOGGED_IN" => \E n \in Posted("LOGIN") : state'[n] \notin Active
                        /\ conn' = "LOGGED_IN"
                             => \A p \in Pairs' : kind'[p.req] \in Stream \/ p \in asked'
    BY <1>2, <1>4, TableInPairsNext DEF TableSays, FirstLoginHolds, Grounded
  <2>2. user = "set" /\ conn # "DISCONNECTED"
    BY <1>6, <2>1 DEF SessionInv, FirstLoginHolds
  <2>3. CASE LoginContinues
    <3>1. conn' = conn /\ \A n \in Posted("LOGIN") : state[n] \in Active
      BY <1>1, <1>6, <2>1, <2>3 DEF LoginContinues, OneLogin
    <3>2. conn # "LOGGED_IN"
      BY <2>1, <3>1 DEF SessionInv, FirstLoginHolds
    <3>3. QED
      BY <2>2, <3>1, <3>2
  <2>4. CASE LoginSucceeds
    <3>1. Pairs' = {}
      BY <1>5, <1>7, <2>1, <2>4, TableNow
    <3>2. QED
      BY <1>1, <1>6, <2>2, <2>4, <3>1 DEF LoginSucceeds, Active
  <2>5. CASE LoginFails
    <3>1. asked' = asked /\ conn' = conn
      BY <2>5 DEF LoginFails
    <3>2. conn' = "LOGGED_IN" => \A p \in Pairs' : kind'[p.req] \in Stream \/ p \in asked'
      BY <1>1, <1>5, <2>1, <3>1, TableNow
    <3>3. QED
      BY <1>1, <1>6, <2>2, <2>5, <3>1, <3>2 DEF Active
  <2>6. QED
    BY <2>3, <2>4, <2>5
<1>11. ParkedHasChannel'
  BY <1>2, <1>3, <1>5, ParkedStep DEF Grounded
<1>12. QED
  BY <1>4, <1>5, <1>8, <1>9, <1>10, <1>11 DEF Grounded, SessionInv

(* process_logout_request(): no channel is left, and none of the requests  *)
(* that waited for one is lost.                                            *)
LEMMA LogoutInv ==
  ASSUME SessionInv, Grounded, Logout
  PROVE  SessionInv'
<1> DEFINE later == {n \in Waiting : Again(n) = "later"}
           due == {n \in Waiting : Again(n) = "due"}
           T == {walker} \union later \union due
<1>1. /\ walker \in Node \ Owners /\ kind[walker] = "LOGOUT"
      /\ state'[walker] = "RETURNED" /\ kind' = kind /\ SteadyBut(T)
      /\ state' = [state EXCEPT ![walker] = "RETURNED"]
  <2>1. Return(later, due) /\ Ready(walker) /\ AtNode /\ kind[walker] = "LOGOUT"
    BY DEF Logout, Dispatched
  <2> HIDE DEF later, due
  <2>2. QED
    BY <2>1, ReturnSteps, ReadyOwnsNothing DEF SessionInv, Return, Returns
<1>2. \A n \in Waiting : n \in Owners /\ n \in Node /\ state[n] = "RUNNING"
                       /\ kind[n] # "CACHE_PERIODIC"
  BY SessionFacts DEF Waiting, Owners, SessionInv, OwnersAreParked, OwnersAsk, Query, Browse, Stream
<1>3. T \in SUBSET Node /\ \A n \in T : Forward(n)
  BY <1>1, <1>2 DEF Forward, SessionInv, RequestInv, ReqTypeOK
<1> HIDE DEF T
<1>4. CacheNeverReturns'
  BY <1>1, <1>3, PostedStays
<1>5. channels' = {} /\ asked' = {} /\ ReleaseLogin /\ unparsed' = unparsed
  BY DEF Logout, FailAndUnregisterAll, tallyVars
<1>6. OwnersAreParked' /\ OwnersAsk' /\ AnswersFindTheirChannel' /\ LoggedOutIsQuiet'
  BY <1>5 DEF OwnersAreParked, OwnersAsk, AnswersFindTheirChannel, LoggedOutIsQuiet
<1>7. FirstLoginHolds'
  BY <1>1, NoFirstConnection
<1>8. LoginIsDriven' /\ OverwrittenBegan'
  <2>1. Posted("LOGIN") \subseteq Posted("LOGIN")'
    BY <1>1, <1>3, PostedStays
  <2>2. \A n \in overwritten : n \in Node /\ kind'[n] = "LOGIN" /\ state'[n] \notin {"absent", "NEW"}
    BY <1>1 DEF SessionInv, SessionTypeOK, OverwrittenBegan, RequestInv, ReqTypeOK
  <2>3. QED
    BY <1>5, <2>1, <2>2 DEF LoginIsDriven, OverwrittenBegan, SessionInv, ReleaseLogin
<1>9. ParkedHasChannel'
  <2>1. SUFFICES ASSUME NEW n \in Node, ParkedNext(n) PROVE n \in unparsed
    BY <1>5 DEF ParkedHasChannel, Parked, ParkedNext
  <2>2. n \notin T
    <3>1. walker # n
      BY <1>1, <2>1 DEF ParkedNext
    <3>2. timer' = [m \in Node |-> IF m \in later THEN "later"
                                    ELSE IF m \in due THEN "due" ELSE timer[m]]
      BY DEF Logout, Return
    <3>3. n \notin later /\ n \notin due
      <4> HIDE DEF later, due
      <4>1. QED
        BY <2>1, <3>2 DEF ParkedNext
    <3>4. QED
      BY <3>1, <3>3 DEF T
  <2>3. Parked(n)
    BY <1>1, <2>1, <2>2 DEF Parked, ParkedNext, SteadyBut, Steady, Settled
  <2>4. n \notin Waiting
    BY <2>2 DEF T, Again
  <2>5. n \notin Owners
    BY <2>3, <2>4 DEF Waiting, Owners, Parked, SessionInv, OwnersAreParked
  <2>6. QED
    BY <2>3, <2>5 DEF SessionInv, ParkedHasChannel
<1>10. QED
  BY <1>4, <1>6, <1>7, <1>8, <1>9 DEF Grounded, SessionInv

-----------------------------------------------------------------------------
(* sp_session_init() leaves neither requests nor channels.                 *)
LEMMA SessionInitInv == SessionInit => SessionInv
<1> SUFFICES ASSUME SessionInit PROVE SessionInv
  OBVIOUS
<1>1. RequestInv /\ ChannelInv
  BY ReqInitInv, ChannelInitInv DEF SessionInit
<1>2. channels = {} /\ since <= MaxSince
  BY ChannelAssumption DEF SessionInit, ChannelInit
<1>3. \A n \in Node : state[n] = "absent"
  BY DEF SessionInit, ReqInit
<1>4. SessionTypeOK
  <2>1. errors \in 0 .. MaxErrors /\ running \in [req : Node \union {0}, posts : Seq(Posts)]
    BY SessionAssumption DEF SessionInit, NoCallback
  <2>2. left \in [Node -> Nat] /\ output \in [Node -> {"none", "null", "object"}] /\ asked = {}
    BY DEF SessionInit
  <2>3. QED
    BY <2>1, <2>2 DEF SessionInit, SessionTypeOK
<1>5. OwnersAreParked /\ OwnersAsk /\ AnswersFindTheirChannel /\ LoggedOutIsQuiet
  BY <1>2 DEF SessionInit, OwnersAreParked, OwnersAsk, AnswersFindTheirChannel, LoggedOutIsQuiet
<1>6. LoginIsDriven /\ OverwrittenBegan /\ CacheNeverReturns
  BY <1>3 DEF SessionInit, LoginIsDriven, OverwrittenBegan, CacheNeverReturns
<1>7. FirstLoginHolds /\ ParkedHasChannel
  BY <1>3 DEF SessionInit, FirstLoginHolds, ParkedHasChannel, Parked, Posted
<1>8. QED
  BY <1>1, <1>2, <1>4, <1>5, <1>6, <1>7 DEF SessionInv

(* Every step of either thread and of the server keeps the invariant.      *)
LEMMA SessionNextInv == SessionInv /\ [SessionNext]_allVars => SessionInv'
<1> SUFFICES ASSUME SessionInv, [SessionNext]_allVars PROVE SessionInv'
  OBVIOUS
<1>1. Grounded
  BY SessionGrounded
<1>2. CASE \/ UNCHANGED allVars \/ Stopped \/ Application \/ \E n \in Node : TimePasses(n)
  BY <1>1, <1>2, LoopsInv
<1>3. CASE Handlers
  <2>1. CASE Postpone \/ CacheProcess
    BY <1>1, <2>1, StaysNewInv
  <2>2. CASE \/ FailOffline \/ BrowseReturns \/ TokenProcess
             \/ PlayerWriteFails /\ kind[walker] # "PLAYER_KEY"
    BY <1>1, <2>2, PlainReturnsInv
  <2>3. CASE PlayerProcess \/ (PlayerWriteFails /\ kind[walker] = "PLAYER_KEY")
    BY <1>1, <2>3, PlayerOpensInv
  <2>4. CASE QueryProcess \/ PlaylistProcess \/ BrowseProcess
    BY <1>1, <2>4, SendsInv
  <2>5. CASE LoginContinues \/ LoginSucceeds \/ LoginFails
    BY <1>1, <2>5, LoginsInv
  <2>6. CASE Logout
    BY <1>1, <2>6, LogoutInv
  <2>7. CASE WriteFails \/ LogoutCrashes
    BY <1>1, <2>7, LoopsInv
  <2>8. QED
    BY <1>3, <2>1, <2>2, <2>3, <2>4, <2>5, <2>6, <2>7 DEF Handlers
<1>4. CASE IoThread
  <2>1. CASE Cleanup \/ StartWalk \/ Skip \/ EndOfWalk \/ Idle \/ PacketsDone
    BY <1>1, <2>1, LoopsInv
  <2>2. CASE PlaylistPosts \/ WelcomeContainer
    BY <1>1, <2>2, PostsInv
  <2>3. CASE PlaylistReturns
    <3>1. PICK a \in asked : a.req = running.req /\ End(a) /\ asked' = asked \ {a}
      BY <2>3 DEF PlaylistReturns
    <3>2. QED
      BY <1>1, <2>3, <3>1, EndsInv
  <2>4. QED
    BY <1>3, <1>4, <2>1, <2>2, <2>3 DEF IoThread
<1>5. CASE Server
  <2>1. ASSUME NEW a \in asked,
               \/ ChannelData(a) \/ ChannelError(a) \/ ObjectEnd(a) \/ UnparsableEnd(a)
               \/ BrowseEnd(a) \/ PlaylistEnd(a) \/ StreamEnd(a) \/ KeyArrives(a) \/ KeyFailed(a)
        PROVE  SessionInv'
    BY <1>1, <2>1, ChannelDataInv, EndsInv, PlaylistEndInv, LoopsInv
  <2>2. CASE (\E k \in Kind \intersect Announced : Announces(k)) \/ TokenLost \/ WelcomeUser
    BY <1>1, <2>2, PostsInv
  <2>3. CASE WelcomeCrashes
    BY <1>1, <2>3, LoopsInv
  <2>4. CASE Disconnect
    BY <1>1, <2>4, PostLogoutInv
  <2>5. QED
    BY <1>5, <2>1, <2>2, <2>3, <2>4 DEF Server
<1>6. ASSUME NEW t \in Kind, AppPosts(t) PROVE SessionInv'
  BY <1>1, <1>6, PostLoginInv, PostLogoutInv, PostsInv
<1>7. QED
  BY <1>2, <1>4, <1>5, <1>6 DEF SessionNext

(* The session keeps its invariant, for any number of requests, channels,  *)
(* logins, lost connections and answers, in any order.                     *)
THEOREM SessionInvariant == SessionSpec => []SessionInv
  BY SessionInitInv, SessionNextInv, PTL DEF SessionSpec

(* The session is an implementation of the scoreboard: what iothread.c     *)
(* decides is within what module Request leaves open, so that all that is  *)
(* proved of Request holds of the session.                                 *)
THEOREM SessionImplementsRequests == SessionSpec => ReqSpec
<1>1. SessionInit => ReqInit
  BY DEF SessionInit
<1>2. SessionInv /\ [SessionNext]_allVars => [ReqNext]_reqVars
  BY SessionRequestStep
<1>3. QED
  BY <1>1, <1>2, SessionInvariant, PTL DEF SessionSpec, ReqSpec

(* It is one of the channel table as well: no request asks for a second    *)
(* channel, and no answer carries an id that a packet cannot hold.         *)
THEOREM SessionImplementsChannels == SessionSpec => ChannelSpec
<1>1. SessionInit => ChannelInit
  BY DEF SessionInit
<1>2. SessionInv /\ [SessionNext]_allVars => [ChannelNext]_chanVars
  BY SessionChannelStep
<1>3. QED
  BY <1>1, <1>2, SessionInvariant, PTL DEF SessionSpec, ChannelSpec

(* The whole session delivers what module Delivery promises.               *)
THEOREM SessionKeepsPromise == SessionSpec => DeliveryPromised
  BY SessionImplementsRequests, RequestKeepsPromise, PTL

(* No callback of a channel writes to a request that is gone.              *)
THEOREM SessionOwnersParked == SessionSpec => []OwnersAreParked
<1>1. SessionInv => OwnersAreParked
  BY DEF SessionInv
<1>2. QED
  BY <1>1, SessionInvariant, PTL

(* Every answer finds the channel of its own query.                        *)
THEOREM SessionAnswersFind == SessionSpec => []AnswersFindTheirChannel
<1>1. SessionInv => AnswersFindTheirChannel
  BY DEF SessionInv
<1>2. QED
  BY <1>1, SessionInvariant, PTL

(* A logout leaves no query and no channel behind.                         *)
THEOREM SessionLoggedOutQuiet == SessionSpec => []LoggedOutIsQuiet
<1>1. SessionInv => LoggedOutIsQuiet
  BY DEF SessionInv
<1>2. QED
  BY <1>1, SessionInvariant, PTL

(* The login context that the session knows is that of a request which is  *)
(* still running; the others are those that a second login overwrote, and  *)
(* without a second login there are none.                                  *)
THEOREM SessionLoginDriven == SessionSpec => []LoginIsDriven
<1>1. SessionInv => LoginIsDriven
  BY DEF SessionInv
<1>2. QED
  BY <1>1, SessionInvariant, PTL

(* A request out of reach of the walk has a channel that brings it back,   *)
(* or is the user whose details could not be parsed.                       *)
THEOREM SessionParkedHasChannel == SessionSpec => []ParkedHasChannel
<1>1. SessionInv => ParkedHasChannel
  BY DEF SessionInv
<1>2. QED
  BY <1>1, SessionInvariant, PTL

(* The periodic request of the cache never returns.                        *)
THEOREM SessionCacheStays == SessionSpec => []CacheNeverReturns
<1>1. SessionInv => CacheNeverReturns
  BY DEF SessionInv
<1>2. QED
  BY <1>1, SessionInvariant, PTL

(* Until a logout, a lost connection or a second login the connection has  *)
(* its user, and each parked request waits for a query that can still be   *)
(* answered, unless its answer came and could not be parsed.               *)
THEOREM SessionFirstConnection == SessionSpec => []FirstConnectionIsSound
<1>1. SessionInv => FirstConnectionIsSound
  <2>1. SUFFICES ASSUME SessionInv, conn = "LOGGED_IN", OneLogin
                 PROVE  /\ user = "set"
                        /\ \A n \in Node : Parked(n) => n \in unparsed \/ \E a \in asked : a.req = n
    BY DEF FirstConnectionIsSound
  <2>2. user = "set" /\ \A ch \in channels : Answerable(ch)
    BY <2>1 DEF SessionInv, FirstLoginHolds
  <2>3. ASSUME NEW n \in Node, Parked(n), n \notin unparsed
        PROVE  \E a \in asked : a.req = n
    <3>1. PICK ch \in channels : ch.owner = n
      BY <2>1, <2>3 DEF SessionInv, ParkedHasChannel, Owners
    <3>2. kind[n] \notin Stream
      BY <2>1, <2>3, <3>1 DEF SessionInv, OwnersAreParked, Parked
    <3>3. QED
      BY <2>2, <3>1, <3>2 DEF Answerable
  <2>4. QED
    BY <2>2, <2>3
<1>2. QED
  BY <1>1, SessionInvariant, PTL
=============================================================================
