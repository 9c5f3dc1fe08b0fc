---------------------------- MODULE ChannelProofs ----------------------------
(***************************************************************************)
(* Proofs about Channel, for every set of owners, every width of the id    *)
(* field and every bound.                                                  *)
(***************************************************************************)
EXTENDS Channel, FiniteSetTheorems, TLAPS

(* The empty table of sp_session_init() satisfies the invariant.           *)
LEMMA ChannelInitInv == ChannelInit => ChannelInv
<1> SUFFICES ASSUME ChannelInit PROVE ChannelInv
  OBVIOUS
<1>1. ChannelTypeOK
  BY DEF ChannelInit, ChannelTypeOK, Stage
<1>2. CountIsExact
  BY FS_EmptySet DEF ChannelInit, CountIsExact
<1>3. UniqueIds /\ NextIdIsFree /\ ZeroIsHeldOrNext /\ IdsCreepSlowly /\ OneChannelPerOwner
  BY DEF ChannelInit, UniqueIds, NextIdIsFree, ZeroIsHeldOrNext, IdsCreepSlowly,
         OneChannelPerOwner, Ids
<1>4. OpenUntilToldOrWithdrawn /\ DataFollowsHeader
  BY DEF ChannelInit, OpenUntilToldOrWithdrawn, DataFollowsHeader, Owners, OpenState
<1>5. QED
  BY <1>1, <1>2, <1>3, <1>4 DEF ChannelInv

(* channel_register() on an owner that waits for no channel.               *)
LEMMA RegisterInv ==
  ASSUME ChannelInv, NEW o \in Owner \ Owners, NEW state \in OpenState,
         Register(o, state)
  PROVE  ChannelInv'
<1> DEFINE ch == [id |-> next_channel_id, state |-> state, owner |-> o]
           S == {next_channel_id + 1} \union {i + 1 : i \in Ids}
<1>1. /\ ch \in Chan
      /\ ch \notin channels
      /\ channels' = channels \union {ch}
      /\ ch.id = next_channel_id
      /\ ch.owner = o
  BY DEF ChannelInv, ChannelTypeOK, NextIdIsFree, Ids, Register, Chan
<1>2. /\ next_channel_id' \in S
      /\ \A m \in S : m <= next_channel_id'
  BY DEF Register, Greatest
<1>3. /\ next_channel_id' \in Nat
      /\ next_channel_id' > next_channel_id
      /\ \A c \in channels : next_channel_id' > c.id
      /\ next_channel_id' <= since + 1
  <2>1. \A c \in channels : c.id \in Nat /\ c.id + 1 \in S
    BY DEF ChannelInv, ChannelTypeOK, Chan, Ids
  <2>2. \A s \in S : s \in Nat /\ s <= since + 1
    BY DEF ChannelInv, ChannelTypeOK, Chan, Ids, IdsCreepSlowly
  <2>3. next_channel_id + 1 \in S /\ next_channel_id \in Nat
    BY DEF ChannelInv, ChannelTypeOK
  <2> HIDE DEF S
  <2>4. QED
    BY <1>2, <2>1, <2>2, <2>3
<1>4. ChannelTypeOK'
  BY <1>1, <1>3 DEF ChannelInv, ChannelTypeOK, Register, Stage
<1>5. UniqueIds'
  BY <1>1 DEF ChannelInv, UniqueIds, NextIdIsFree, Ids
<1>6. NextIdIsFree'
  BY <1>1, <1>3 DEF ChannelInv, ChannelTypeOK, NextIdIsFree, Ids, Chan
<1>7. CountIsExact'
  BY <1>1, FS_AddElement DEF ChannelInv, CountIsExact, Register
<1>8. ZeroIsHeldOrNext'
  BY <1>1 DEF ChannelInv, ZeroIsHeldOrNext, Ids
<1>9. IdsCreepSlowly'
  BY <1>1, <1>3 DEF ChannelInv, ChannelTypeOK, IdsCreepSlowly, Register, Chan
<1>10. OneChannelPerOwner'
  BY <1>1 DEF ChannelInv, OneChannelPerOwner, Owners
<1>11. OpenUntilToldOrWithdrawn'
  <2>1. Owners' = Owners \union {o}
    BY <1>1 DEF Owners
  <2>2. heard' = [heard EXCEPT ![o] = "open"]
    BY DEF Register
  <2>3. QED
    BY <2>1, <2>2 DEF ChannelInv, ChannelTypeOK, OpenUntilToldOrWithdrawn, OpenState
<1>12. DataFollowsHeader'
  BY <1>1 DEF ChannelInv, ChannelTypeOK, Chan, DataFollowsHeader, Register
<1>13. QED
  BY <1>4, <1>5, <1>6, <1>7, <1>8, <1>9, <1>10, <1>11, <1>12 DEF ChannelInv

(* A command that could not be written leaves the table as it was.         *)
LEMMA WithdrawInv ==
  ASSUME ChannelInv, NEW o \in Owner \ Owners, Withdraw(o)
  PROVE  ChannelInv'
<1>1. /\ heard' = [heard EXCEPT ![o] = "withdrawn"]
      /\ UNCHANGED <<channels, next_channel_id, num_channels, since>>
  BY DEF Withdraw
<1>2. Ids' = Ids /\ Owners' = Owners
  BY <1>1 DEF Ids, Owners
<1>3. ChannelTypeOK'
  BY <1>1 DEF ChannelInv, ChannelTypeOK, Stage
<1>4. OpenUntilToldOrWithdrawn'
  BY <1>1, <1>2 DEF ChannelInv, ChannelTypeOK, OpenUntilToldOrWithdrawn, OpenState
<1>5. DataFollowsHeader'
  BY <1>1 DEF ChannelInv, ChannelTypeOK, DataFollowsHeader, Chan
<1>6. /\ UniqueIds' /\ NextIdIsFree' /\ CountIsExact' /\ ZeroIsHeldOrNext'
      /\ IdsCreepSlowly' /\ OneChannelPerOwner'
  BY <1>1, <1>2 DEF ChannelInv, UniqueIds, NextIdIsFree, CountIsExact, ZeroIsHeldOrNext,
                    IdsCreepSlowly, OneChannelPerOwner
<1>7. QED
  BY <1>3, <1>4, <1>5, <1>6 DEF ChannelInv

(* channel_unregister() after the closing callback.                        *)
LEMMA UnregisterInv ==
  ASSUME ChannelInv, NEW ch \in channels, NEW stage \in Closing,
         Callback(ch, stage), Unregister(ch)
  PROVE  ChannelInv'
<1>1. /\ ch \in Chan
      /\ ch.id \in Nat
      /\ ch.owner \in Owner
      /\ next_channel_id \in Nat
      /\ since \in Nat
  BY DEF ChannelInv, ChannelTypeOK, Chan
<1>2. channels' = channels \ {ch}
  BY DEF Unregister
<1>3. /\ next_channel_id' \in Nat
      /\ next_channel_id' <= ch.id
      /\ next_channel_id' <= next_channel_id
      /\ next_channel_id' \in {ch.id, next_channel_id}
  BY <1>1 DEF Unregister
<1>4. CountIsExact'
  BY <1>2, FS_RemoveElement DEF ChannelInv, CountIsExact, Unregister
<1>5. num_channels' \in Nat
  BY <1>4, FS_CardinalityType DEF CountIsExact
<1>6. ChannelTypeOK'
  BY <1>1, <1>2, <1>3, <1>5
     DEF ChannelInv, ChannelTypeOK, Unregister, Callback, Stage
<1>7. UniqueIds' /\ OneChannelPerOwner'
  BY <1>2 DEF ChannelInv, UniqueIds, OneChannelPerOwner
<1>8. NextIdIsFree'
  BY <1>2, <1>3 DEF ChannelInv, NextIdIsFree, UniqueIds, Ids
<1>9. ZeroIsHeldOrNext'
  BY <1>1, <1>2, <1>3 DEF ChannelInv, ZeroIsHeldOrNext, Ids
<1>10. IdsCreepSlowly'
  <2>1. CASE channels = {ch}
    <3>1. next_channel_id = 0 \/ ch.id = 0
      BY <2>1 DEF ChannelInv, ZeroIsHeldOrNext, Ids
    <3>2. next_channel_id' = 0
      BY <1>1, <1>3, <3>1
    <3>3. channels' = {} /\ since' = 0
      BY <1>2, <2>1 DEF Unregister
    <3>4. QED
      BY <3>2, <3>3 DEF IdsCreepSlowly
  <2>2. CASE channels # {ch}
    <3>1. since' = since /\ channels' # {}
      BY <1>2, <2>2 DEF Unregister
    <3>2. next_channel_id <= since /\ \A c \in channels : c.id < since
      BY DEF ChannelInv, IdsCreepSlowly
    <3>3. QED
      BY <1>1, <1>2, <1>3, <3>1, <3>2 DEF IdsCreepSlowly
  <2>3. QED
    BY <2>1, <2>2
<1>11. OpenUntilToldOrWithdrawn'
  <2>1. Owners' = Owners \ {ch.owner}
    BY <1>2 DEF ChannelInv, OneChannelPerOwner, Owners
  <2>2. heard' = [heard EXCEPT ![ch.owner] = stage]
    BY DEF Callback
  <2>3. stage \notin {"open"} \union OpenState
    BY DEF Closing, OpenState
  <2>4. QED
    BY <1>1, <2>1, <2>2, <2>3 DEF ChannelInv, ChannelTypeOK, OpenUntilToldOrWithdrawn
<1>12. DataFollowsHeader'
  BY <1>1, <1>2 DEF ChannelInv, ChannelTypeOK, Chan, DataFollowsHeader, Callback, Closing
<1>13. QED
  BY <1>4, <1>6, <1>7, <1>8, <1>9, <1>10, <1>11, <1>12 DEF ChannelInv

(* A packet that does not close its channel.                               *)
LEMMA ProcessInv ==
  ASSUME ChannelInv, NEW w \in Nat,
         ProcessData(w) \/ \E zero \in BOOLEAN : ProcessHeader(w, zero)
  PROVE  ChannelInv'
<1>1. PICK ch \in channels, st \in OpenState, stage \in OpenState :
         /\ channels' = (channels \ {ch}) \union {[ch EXCEPT !.state = st]}
         /\ Callback(ch, stage) \/ heard' = heard
         /\ stage = "DATA" \/ ch.state = "DATA" => st = "DATA"
         /\ UNCHANGED <<next_channel_id, num_channels, since>>
  <2>1. CASE ProcessData(w)
    <3>1. PICK ch \in channels : /\ ch.state = "DATA"
                                 /\ Callback(ch, "DATA")
                                 /\ UNCHANGED <<channels, next_channel_id, num_channels, since>>
      BY <2>1 DEF ProcessData, channel_by_id
    <3>2. [ch EXCEPT !.state = "DATA"] = ch
      BY <3>1 DEF ChannelInv, ChannelTypeOK, Chan
    <3>3. QED
      BY <3>1, <3>2 DEF OpenState
  <2>2. CASE \E zero \in BOOLEAN : ProcessHeader(w, zero)
    BY <2>2 DEF ProcessHeader, channel_by_id, OpenState
  <2>3. QED
    BY <2>1, <2>2
<1> DEFINE new == [ch EXCEPT !.state = st]
<1>2. /\ ch \in Chan /\ new \in Chan
      /\ new.id = ch.id /\ new.owner = ch.owner
      /\ ch.owner \in Owner
  BY DEF ChannelInv, ChannelTypeOK, Chan
<1>3. channels' = (channels \ {ch}) \union {new}
  BY <1>1
<1>4. UniqueIds /\ OneChannelPerOwner /\ new \notin channels \ {ch}
  BY <1>2 DEF ChannelInv, UniqueIds, OneChannelPerOwner
<1> HIDE DEF new
<1>5. Ids' = Ids /\ Owners' = Owners
  BY <1>2, <1>3 DEF Ids, Owners
<1>6. ChannelTypeOK'
  BY <1>1, <1>2, <1>3 DEF ChannelInv, ChannelTypeOK, Callback, Stage
<1>7. UniqueIds' /\ OneChannelPerOwner'
  BY <1>2, <1>3, <1>4 DEF UniqueIds, OneChannelPerOwner
<1>8. NextIdIsFree' /\ ZeroIsHeldOrNext'
  BY <1>1, <1>5 DEF ChannelInv, NextIdIsFree, ZeroIsHeldOrNext
<1>9. CountIsExact'
  <2>1. IsFiniteSet(channels) /\ num_channels = Cardinality(channels)
    BY DEF ChannelInv, CountIsExact
  <2>2. /\ IsFiniteSet(channels \ {ch})
        /\ Cardinality(channels \ {ch}) = Cardinality(channels) - 1
    BY <2>1, FS_RemoveElement
  <2>3. /\ IsFiniteSet(channels')
        /\ Cardinality(channels') = Cardinality(channels \ {ch}) + 1
    BY <1>3, <1>4, <2>2, FS_AddElement
  <2>4. Cardinality(channels) \in Nat
    BY <2>1, FS_CardinalityType
  <2>5. QED
    BY <1>1, <2>1, <2>2, <2>3, <2>4 DEF CountIsExact
<1>10. IdsCreepSlowly'
  BY <1>1, <1>2, <1>3 DEF ChannelInv, IdsCreepSlowly
<1>11. OpenUntilToldOrWithdrawn'
  BY <1>1, <1>2, <1>5 DEF ChannelInv, ChannelTypeOK, OpenUntilToldOrWithdrawn, Callback, Owners
<1>12. DataFollowsHeader'
  <2>1. new.state = st
    BY <1>2 DEF new, Chan
  <2>2. heard[ch.owner] = "DATA" => st = "DATA"
    BY <1>1 DEF ChannelInv, DataFollowsHeader
  <2>3. heard'[ch.owner] = "DATA" => st = "DATA"
    BY <1>1, <1>2, <2>2 DEF ChannelInv, ChannelTypeOK, Callback
  <2>4. \A c \in channels \ {ch} : c.owner # ch.owner /\ heard'[c.owner] = heard[c.owner]
    BY <1>1, <1>4 DEF ChannelInv, ChannelTypeOK, Chan, OneChannelPerOwner, Callback
  <2>5. QED
    BY <1>2, <1>3, <2>1, <2>3, <2>4 DEF ChannelInv, DataFollowsHeader
<1>13. QED
  BY <1>6, <1>7, <1>8, <1>9, <1>10, <1>11, <1>12 DEF ChannelInv

(* channel_fail_and_unregister_all(): id 0 was in use or next, so that the *)
(* lowest of all ids, the one that is next afterwards, is 0.               *)
LEMMA FailAllInv ==
  ASSUME ChannelInv, FailAndUnregisterAll
  PROVE  ChannelInv'
<1> DEFINE S == {next_channel_id} \union Ids
<1>1. S \in SUBSET Nat /\ 0 \in S
  BY DEF ChannelInv, ChannelTypeOK, ZeroIsHeldOrNext, Ids, Chan
<1>2. next_channel_id' \in S /\ \A m \in S : next_channel_id' <= m
  BY DEF FailAndUnregisterAll, Least
<1> HIDE DEF S
<1>3. next_channel_id' = 0
  BY <1>1, <1>2
<1>4. channels' = {} /\ since' = 0
  BY DEF FailAndUnregisterAll
<1>5. num_channels' = 0
  BY FS_CardinalityType DEF ChannelInv, CountIsExact, FailAndUnregisterAll
<1>6. CountIsExact'
  BY <1>4, <1>5, FS_EmptySet DEF CountIsExact
<1>7. heard' = [o \in Owner |-> IF o \in Owners THEN "ERROR" ELSE heard[o]]
  BY DEF FailAndUnregisterAll
<1>8. ChannelTypeOK'
  BY <1>3, <1>4, <1>5, <1>7 DEF ChannelInv, ChannelTypeOK, Stage, Closing
<1>9. OpenUntilToldOrWithdrawn' /\ DataFollowsHeader'
  BY <1>4, <1>7 DEF ChannelInv, ChannelTypeOK, OpenUntilToldOrWithdrawn, DataFollowsHeader, Owners, OpenState
<1>10. UniqueIds' /\ NextIdIsFree' /\ ZeroIsHeldOrNext' /\ IdsCreepSlowly' /\ OneChannelPerOwner'
  BY <1>3, <1>4 DEF UniqueIds, NextIdIsFree, ZeroIsHeldOrNext, IdsCreepSlowly,
                    OneChannelPerOwner, Ids
<1>11. QED
  BY <1>6, <1>8, <1>9, <1>10 DEF ChannelInv

(* Every step of the networking thread on the table keeps the invariant.   *)
LEMMA ChannelNextInv == ChannelInv /\ [ChannelNext]_chanVars => ChannelInv'
<1> SUFFICES ASSUME ChannelInv, [ChannelNext]_chanVars PROVE ChannelInv'
  OBVIOUS
<1>1. ASSUME NEW o \in Owner \ Owners, NEW state \in OpenState, Register(o, state)
      PROVE  ChannelInv'
  BY <1>1, RegisterInv
<1>2. ASSUME NEW w \in 0 .. WireSize - 1,
             ProcessData(w) \/ \E zero \in BOOLEAN : ProcessHeader(w, zero)
      PROVE  ChannelInv'
  <2>1. w \in Nat
    BY ChannelAssumption
  <2>2. QED
    BY <1>2, <2>1, ProcessInv
<1>3. ASSUME NEW w \in 0 .. WireSize - 1,
             AesKey(w) \/ \E error, empty \in BOOLEAN : ProcessLast(w, error, empty)
      PROVE  ChannelInv'
  <2>1. PICK ch \in channels, stage \in Closing : Callback(ch, stage) /\ Unregister(ch)
    BY <1>3 DEF AesKey, ProcessLast, channel_by_id, Closing
  <2>2. QED
    BY <2>1, UnregisterInv
<1>4. CASE FailAndUnregisterAll
  BY <1>4, FailAllInv
<1>5. ASSUME NEW o \in Owner \ Owners, Withdraw(o)
      PROVE  ChannelInv'
  BY <1>5, WithdrawInv
<1>6. CASE UNCHANGED chanVars
  BY <1>6 DEF chanVars, ChannelInv, ChannelTypeOK, UniqueIds, NextIdIsFree, CountIsExact,
              ZeroIsHeldOrNext, IdsCreepSlowly, OneChannelPerOwner, OpenUntilToldOrWithdrawn, DataFollowsHeader, Ids, Owners
<1>7. QED
  BY <1>1, <1>2, <1>3, <1>4, <1>5, <1>6 DEF ChannelNext

(* The inductive invariant holds of every behaviour of the channel table.  *)
THEOREM ChannelInvariant == ChannelSpec => []ChannelInv
  BY ChannelInitInv, ChannelNextInv, PTL DEF ChannelSpec

(* The table keeps its types.                                              *)
THEOREM ChannelTypeCorrect == ChannelSpec => []ChannelTypeOK
<1>1. ChannelInv => ChannelTypeOK
  BY DEF ChannelInv
<1>2. QED
  BY <1>1, ChannelInvariant, PTL

(* No two channels ever share an id, for any number of queries in flight.  *)
THEOREM ChannelIdsUnique == ChannelSpec => []UniqueIds
<1>1. ChannelInv => UniqueIds
  BY DEF ChannelInv
<1>2. QED
  BY <1>1, ChannelInvariant, PTL

(* num_channels is the length of the list.                                 *)
THEOREM ChannelCountExact == ChannelSpec => []CountIsExact
<1>1. ChannelInv => CountIsExact
  BY DEF ChannelInv
<1>2. QED
  BY <1>1, ChannelInvariant, PTL

(* The ids start from 0 again whenever the list has run empty.             *)
THEOREM ChannelIdsRestart == ChannelSpec => []IdsRestartWhenIdle
<1>1. ChannelInv => IdsRestartWhenIdle
  BY DEF ChannelInv, ZeroIsHeldOrNext, IdsRestartWhenIdle, Ids
<1>2. QED
  BY <1>1, ChannelInvariant, PTL

(* 2^16 registrations without an idle moment are needed before an open     *)
(* channel is out of reach of the packets that are meant for it.           *)
THEOREM ChannelsAddressable == ChannelSpec => []Addressable
<1>1. ChannelInv => Addressable
  <2> SUFFICES ASSUME ChannelInv, since <= WireSize, NEW ch \in channels
               PROVE  ch.id < WireSize
    BY DEF Addressable
  <2>1. ch.id \in Nat /\ since \in Nat /\ ch.id < since
    BY DEF ChannelInv, ChannelTypeOK, Chan, IdsCreepSlowly
  <2>2. QED
    BY <2>1, ChannelAssumption
<1>2. QED
  BY <1>1, ChannelInvariant, PTL

(* An owner waits exactly as long as its channel is open: the end of the   *)
(* channel is told, or the command has withdrawn it.                       *)
THEOREM ChannelOpenUntilToldOrWithdrawn == ChannelSpec => []OpenUntilToldOrWithdrawn
<1>1. ChannelInv => OpenUntilToldOrWithdrawn
  BY DEF ChannelInv
<1>2. QED
  BY <1>1, ChannelInvariant, PTL

(* The step of a callback: what an owner is told moves forward.            *)
LEMMA StagesStep ==
  ASSUME ChannelInv, [ChannelNext]_chanVars, NEW o \in Owner
  PROVE  /\ heard[o] = "DATA" => heard'[o] # "HEADER"
         /\ heard[o] \in Closing => heard'[o] \in {heard[o], "open", "withdrawn"}
         /\ heard[o] \in {"idle", "withdrawn"} => heard'[o] \in {heard[o], "open", "withdrawn"}
         /\ heard[o] \in {"open"} \union OpenState => heard'[o] # "withdrawn"
<1> DEFINE Waits == {"open"} \union OpenState
<1>1. /\ heard \in [Owner -> Stage]
      /\ \A ch \in channels : ch.owner \in Owner /\ heard[ch.owner] \in Waits
      /\ o \notin Owners => heard[o] \notin Waits
  BY DEF ChannelInv, ChannelTypeOK, Chan, OpenUntilToldOrWithdrawn, Owners
<1>2. ASSUME NEW p \in Owner \ Owners,
             Withdraw(p) \/ \E state \in OpenState : Register(p, state)
      PROVE  \/ heard'[o] \in {heard[o], "open"}
             \/ heard'[o] = "withdrawn" /\ heard[o] \notin Waits
  <2>1. CASE Withdraw(p)
    BY <1>1, <1>2, <2>1 DEF Withdraw, ChannelInv, OpenUntilToldOrWithdrawn
  <2>2. CASE \E state \in OpenState : Register(p, state)
    BY <1>1, <2>2 DEF Register
  <2>3. QED
    BY <1>2, <2>1, <2>2
<1>3. ASSUME NEW ch \in channels, NEW stage \in Stage \ {"withdrawn"}, Callback(ch, stage),
             heard[ch.owner] = "DATA" => stage # "HEADER"
      PROVE  /\ heard[o] = "DATA" => heard'[o] # "HEADER"
             /\ heard[o] \notin Waits => heard'[o] = heard[o]
             /\ heard'[o] \in {heard[o]} \union (Stage \ {"withdrawn"})
  BY <1>1, <1>3 DEF Callback
<1>4. ASSUME NEW w \in 0 .. WireSize - 1, NEW zero \in BOOLEAN, ProcessHeader(w, zero)
      PROVE  \/ heard' = heard
             \/ \E ch \in channels : heard[ch.owner] # "DATA" /\ Callback(ch, "HEADER")
  BY <1>4 DEF ProcessHeader, channel_by_id, ChannelInv, DataFollowsHeader
<1>5. ASSUME NEW w \in 0 .. WireSize - 1,
             \/ ProcessData(w) \/ AesKey(w)
             \/ \E error, empty \in BOOLEAN : ProcessLast(w, error, empty)
      PROVE  \E ch \in channels, stage \in Closing \union {"DATA"} : Callback(ch, stage)
  BY <1>5 DEF ProcessData, AesKey, ProcessLast, channel_by_id, Closing
<1>6. FailAndUnregisterAll =>
        heard'[o] = IF heard[o] \in Waits THEN "ERROR" ELSE heard[o]
  BY DEF FailAndUnregisterAll, ChannelInv, OpenUntilToldOrWithdrawn
<1>7. UNCHANGED chanVars => heard' = heard
  BY DEF chanVars
<1>8. /\ "HEADER" \in Stage \ {"withdrawn"}
      /\ \A stage \in Closing \union {"DATA"} : stage \in Stage \ {"withdrawn"} /\ stage # "HEADER"
      /\ \A stage \in Closing \union {"idle", "withdrawn"} : stage \notin Waits
      /\ "DATA" \in Waits /\ "HEADER" # "ERROR"
      /\ "withdrawn" \notin Waits /\ "ERROR" # "withdrawn" /\ "open" # "HEADER"
      /\ heard[o] \in Stage
  BY <1>1 DEF Closing, Stage, OpenState
<1> HIDE DEF Waits
<1>9. \/ heard'[o] \in {heard[o], "open"}
      \/ heard'[o] = "withdrawn" /\ heard[o] \notin Waits
      \/ /\ heard[o] = "DATA" => heard'[o] # "HEADER"
         /\ heard[o] \notin Waits => heard'[o] = heard[o]
         /\ heard'[o] \in {heard[o]} \union (Stage \ {"withdrawn"})
      \/ heard'[o] = "ERROR" /\ heard[o] \in Waits
  BY <1>2, <1>3, <1>4, <1>5, <1>6, <1>7, <1>8 DEF ChannelNext
<1>10. /\ heard[o] = "DATA" => heard'[o] # "HEADER"
       /\ heard[o] \notin Waits => heard'[o] \in {heard[o], "open", "withdrawn"}
       /\ heard[o] \in Waits => heard'[o] # "withdrawn"
  BY <1>8, <1>9
<1>11. QED
  BY <1>8, <1>10 DEF Waits

(* No callback is ever told of a header after data, or of anything after   *)
(* the close of its channel until the owner's next command.                *)
THEOREM ChannelStagesAdvance == ChannelSpec => StagesAdvance
<1>1. ChannelInv /\ [ChannelNext]_chanVars =>
        [\A o \in Owner :
           /\ heard[o] = "DATA" => heard'[o] # "HEADER"
           /\ heard[o] \in Closing => heard'[o] \in {heard[o], "open", "withdrawn"}
           /\ heard[o] \in {"idle", "withdrawn"} => heard'[o] \in {heard[o], "open", "withdrawn"}
           /\ heard[o] \in {"open"} \union OpenState => heard'[o] # "withdrawn"]_heard
  BY StagesStep
<1>2. QED
  BY <1>1, ChannelInvariant, PTL DEF ChannelSpec, StagesAdvance
=============================================================================
