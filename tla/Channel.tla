------------------------------- MODULE Channel -------------------------------
(***************************************************************************)
(* The channel table of channel.c: the multiplexing of several outstanding *)
(* queries over the one connection to the server.  A channel is registered *)
(* when a command is written (commands.c), its packets are dispatched by   *)
(* the 16 bit id that the packet carries, and it is unregistered by the    *)
(* packet that ends it, by an AES key, by a logout, or, without its        *)
(* callback, by the command itself when its packet could not be written.   *)
(*                                                                         *)
(* The linked list session->channels is abstracted to a set of records:    *)
(* its order is visible only when two channels have the same id, and       *)
(* UniqueIds shows that they never do.                                     *)
(*                                                                         *)
(* Only the networking thread runs this code.                              *)
(***************************************************************************)
EXTENDS Naturals, FiniteSets

CONSTANTS Owner,     \* what a channel's private pointer can point to
          WireSize,  \* number of ids a packet can carry: 2^16 in the code
          MaxSince   \* bound on the registrations without an idle moment

ASSUME ChannelAssumption == WireSize \in Nat \ {0} /\ MaxSince \in Nat

VARIABLES channels,        \* session->channels
          next_channel_id, \* session->next_channel_id
          num_channels,    \* session->num_channels
          heard,           \* what became of each owner's channel last
          since            \* history: registrations that stayed since the list was empty

chanVars == <<channels, next_channel_id, num_channels, heard, since>>

(* The states a channel can keep between two packets: CHANNEL_END and      *)
(* CHANNEL_ERROR last only for the callback that announces them.           *)
OpenState == {"HEADER", "DATA"}

(* What a callback announces when the channel goes away.  An AES key is    *)
(* announced in the DATA state and closes the channel all the same.        *)
Closing == {"END", "ERROR", "KEY"}

Stage == {"idle", "open", "withdrawn"} \union OpenState \union Closing

Ids == {ch.id : ch \in channels}
Owners == {ch.owner : ch \in channels}

Least(S) == {n \in S : \A m \in S : n <= m}
Greatest(S) == {n \in S : \A m \in S : m <= n}
-----------------------------------------------------------------------------
ChannelInit ==
  /\ channels = {}
  /\ next_channel_id = 0
  /\ num_channels = 0
  /\ heard = [o \in Owner |-> "idle"]
  /\ since = 0

(* Slips: the list is not walked; the walk skips one id too many.          *)
RegisterOverlaps(o, state) ==
  /\ since < MaxSince
  /\ next_channel_id' = next_channel_id + 1
  /\ channels' = channels \union {[id |-> next_channel_id, state |-> state, owner |-> o]}
  /\ num_channels' = num_channels + 1
  /\ heard' = [heard EXCEPT ![o] = "open"]
  /\ since' = since + 1
RegisterSkips(o, state) ==
  LET id == next_channel_id IN
  /\ since < MaxSince
  /\ next_channel_id' \in Greatest({id + 2} \union {i + 2 : i \in Ids})
  /\ channels' = channels \union {[id |-> id, state |-> state, owner |-> o]}
  /\ num_channels' = num_channels + 1
  /\ heard' = [heard EXCEPT ![o] = "open"]
  /\ since' = since + 1

(* channel_register(): take next_channel_id, and walk the list so that the *)
(* next one is above every id in use.  cmd_aeskey() forces the state to    *)
(* CHANNEL_DATA right after; every other command leaves CHANNEL_HEADER.    *)
Register(o, state) ==
  LET id == next_channel_id IN
  /\ since < MaxSince
  /\ next_channel_id' \in Greatest({id + 1} \union {i + 1 : i \in Ids})
  /\ channels' = channels \union {[id |-> id, state |-> state, owner |-> o]}
  /\ num_channels' = num_channels + 1
  /\ heard' = [heard EXCEPT ![o] = "open"]
  /\ since' = since + 1

(* Slip: the freed id is not handed out again.                             *)
UnregisterKeepsNext(ch) ==
  /\ channels' = channels \ {ch}
  /\ next_channel_id' = next_channel_id
  /\ num_channels' = num_channels - 1
  /\ since' = IF channels = {ch} THEN 0 ELSE since

(* channel_unregister(): the freed id becomes the next one if it is lower. *)
Unregister(ch) ==
  /\ channels' = channels \ {ch}
  /\ next_channel_id' = IF ch.id < next_channel_id THEN ch.id ELSE next_channel_id
  /\ num_channels' = num_channels - 1
  /\ since' = IF channels = {ch} THEN 0 ELSE since

(* cmd_getsubstreams() with a packet_write() that fails: the channel is    *)
(* registered and unregistered in the same breath, which puts its id back, *)
(* and the callback is not told.                                           *)
Withdraw(o) ==
  /\ heard' = [heard EXCEPT ![o] = "withdrawn"]
  /\ UNCHANGED <<channels, next_channel_id, num_channels, since>>

(* The lookup by an unsigned short: an id outside of it is never matched.  *)
channel_by_id(w) == {ch \in channels : ch.id = w}

Callback(ch, stage) == heard' = [heard EXCEPT ![ch.owner] = stage]

(* Slip: packets are taken for headers in any state.                       *)
ProcessHeaderAlways(w, zero) ==
  \E ch \in channel_by_id(w) :
    /\ Callback(ch, "HEADER")
    /\ channels' = (channels \ {ch})
                     \union {[ch EXCEPT !.state = IF zero THEN "DATA" ELSE "HEADER"]}
    /\ UNCHANGED <<next_channel_id, num_channels, since>>

(* channel_process() in the CHANNEL_HEADER state: one callback per header  *)
(* of the packet, if it has any, and CHANNEL_DATA once the header of size  *)
(* zero is met.  A packet cut short leaves the state alone.                *)
ProcessHeader(w, zero) ==
  \E ch \in channel_by_id(w) :
    /\ ch.state = "HEADER"
    /\ Callback(ch, "HEADER") \/ heard' = heard
    /\ channels' = (channels \ {ch})
                     \union {[ch EXCEPT !.state = IF zero THEN "DATA" ELSE "HEADER"]}
    /\ UNCHANGED <<next_channel_id, num_channels, since>>

(* channel_process() on a payload that is not empty, in CHANNEL_DATA.      *)
ProcessData(w) ==
  \E ch \in channel_by_id(w) :
    /\ ch.state = "DATA"
    /\ Callback(ch, "DATA")
    /\ UNCHANGED <<channels, next_channel_id, num_channels, since>>

(* channel_process() on the packet that closes the channel: an error from  *)
(* any state, an empty payload from CHANNEL_DATA.  An empty payload wins   *)
(* over the error flag: the state is set to CHANNEL_END last.              *)
ProcessLast(w, error, empty) ==
  \E ch \in channel_by_id(w) :
    /\ error \/ ch.state = "DATA"
    /\ error \/ empty
    /\ Callback(ch, IF empty THEN "END" ELSE "ERROR")
    /\ Unregister(ch)

(* Slip: the key leaves its channel open.                                  *)
AesKeyKeeps(w) ==
  \E ch \in channel_by_id(w) :
    /\ Callback(ch, "KEY")
    /\ UNCHANGED <<channels, next_channel_id, num_channels, since>>

(* handle_aeskey(): the callback gets the key, then the channel is closed. *)
AesKey(w) ==
  \E ch \in channel_by_id(w) :
    /\ Callback(ch, "KEY")
    /\ Unregister(ch)

(* Slip: the count of channels is left alone.                              *)
FailAllKeepsCount ==
  /\ channels' = {}
  /\ next_channel_id' \in Least({next_channel_id} \union Ids)
  /\ heard' = [o \in Owner |-> IF o \in Owners THEN "ERROR" ELSE heard[o]]
  /\ since' = 0
  /\ num_channels' = num_channels

(* channel_fail_and_unregister_all(): every owner is told of an error.     *)
FailAndUnregisterAll ==
  /\ channels' = {}
  /\ num_channels' = num_channels - Cardinality(channels)
  /\ next_channel_id' \in Least({next_channel_id} \union Ids)
  /\ heard' = [o \in Owner |-> IF o \in Owners THEN "ERROR" ELSE heard[o]]
  /\ since' = 0

ChannelNext ==
  \/ \E o \in Owner \ Owners, state \in OpenState : Register(o, state)
  \/ \E o \in Owner \ Owners : Withdraw(o)
  \/ \E w \in 0 .. WireSize - 1 :
       \/ \E zero \in BOOLEAN : ProcessHeader(w, zero)
       \/ ProcessData(w)
       \/ \E error, empty \in BOOLEAN : ProcessLast(w, error, empty)
       \/ AesKey(w)
  \/ FailAndUnregisterAll

ChannelSpec == ChannelInit /\ [][ChannelNext]_chanVars
-----------------------------------------------------------------------------
Chan == [id : Nat, state : OpenState, owner : Owner]

(* The table and its counters have the types that channel.h declares.      *)
ChannelTypeOK ==
  /\ channels \in SUBSET Chan
  /\ next_channel_id \in Nat
  /\ num_channels \in Nat
  /\ heard \in [Owner -> Stage]
  /\ since \in Nat

(* No two open channels share an id, so that channel_process() can never   *)
(* hand the packets of one query to another: the lowered next_channel_id   *)
(* of channel_unregister() and the walk of channel_register() agree.       *)
UniqueIds == \A a, b \in channels : a.id = b.id => a = b

(* The id that channel_register() will hand out next is free.              *)
NextIdIsFree == next_channel_id \notin Ids

(* num_channels, the number the limit of 16 in process_request() looks at, *)
(* is the length of the list whatever sequence of channels ended how.      *)
CountIsExact ==
  /\ IsFiniteSet(channels)
  /\ num_channels = Cardinality(channels)

(* Either id 0 is in use or it is the next to be handed out.               *)
ZeroIsHeldOrNext == next_channel_id = 0 \/ 0 \in Ids

(* Once no channel is open the ids start from 0 again, although            *)
(* channel_unregister() never looks at the channels that are left.         *)
IdsRestartWhenIdle == channels = {} => next_channel_id = 0

(* Holes below next_channel_id are not reused, so that ids creep upwards   *)
(* under a load that never lets the list run empty; an id stays below the  *)
(* number of registrations made since the list was last empty.             *)
IdsCreepSlowly ==
  /\ next_channel_id <= since
  /\ \A ch \in channels : ch.id < since
  /\ channels = {} => since = 0

(* Until 2^16 channels have been registered with never an idle moment, the *)
(* server can name each open channel in the 16 bits a packet has for it.   *)
Addressable == since <= WireSize => \A ch \in channels : ch.id < WireSize

(* Nobody waits for a callback that cannot come: an owner has a channel    *)
(* exactly as long as the last it heard of it is its opening, a header or  *)
(* data.  An owner without one has been told of the end, or its channel    *)
(* was withdrawn, unwritten and untold, by the command that opened it.     *)
OpenUntilToldOrWithdrawn ==
  \A o \in Owner : o \in Owners <=> heard[o] \in {"open"} \union OpenState

(* An owner waits for one channel at a time.                               *)
OneChannelPerOwner == \A a, b \in channels : a.owner = b.owner => a = b

(* An owner that was given data has a channel past its headers.            *)
DataFollowsHeader == \A ch \in channels : heard[ch.owner] = "DATA" => ch.state = "DATA"

(* What a callback is told never goes back: no header after data, nothing  *)
(* after the closing callback until the owner's next command, and a        *)
(* channel that can have been heard of is not withdrawn any more.          *)
StagesAdvance ==
  [][\A o \in Owner :
       /\ heard[o] = "DATA" => heard'[o] # "HEADER"
       /\ heard[o] \in Closing => heard'[o] \in {heard[o], "open", "withdrawn"}
       /\ heard[o] \in {"idle", "withdrawn"} => heard'[o] \in {heard[o], "open", "withdrawn"}
       /\ heard[o] \in {"open"} \union OpenState => heard'[o] # "withdrawn"]_heard

(* The inductive invariant behind the properties above: the next id is     *)
(* free, id 0 is in use or next, and ids grow no faster than the           *)
(* registrations, whatever packets the server sends.                       *)
ChannelInv ==
  /\ ChannelTypeOK
  /\ UniqueIds
  /\ NextIdIsFree
  /\ CountIsExact
  /\ ZeroIsHeldOrNext
  /\ IdsCreepSlowly
  /\ OneChannelPerOwner
  /\ OpenUntilToldOrWithdrawn
  /\ DataFollowsHeader
=============================================================================
