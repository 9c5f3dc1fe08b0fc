---------------------------- MODULE PlayerProofs ----------------------------
(***************************************************************************)
(* Proofs about Player, for any tracks, length of the file, number of      *)
(* calls by the application, calm or hasty, and whatever libvorbis does.   *)
(***************************************************************************)
EXTENDS Player, SequenceTheorems, FiniteSetTheorems, WellFoundedInduction, TLAPS

(* A set of naturals that has a member has a least one.                    *)
LEMMA Least ==
  ASSUME NEW T, T \subseteq Nat, T # {}
  PROVE  \E x \in T : \A y \in T : x <= y
<1>1. PICK x \in T : \A y \in T : ~(<<y, x>> \in OpToRel(<, Nat))
  BY NatLessThanWellFounded, WFMin
<1>2. ASSUME NEW y \in T PROVE x <= y
  <2>1. x \in Nat /\ y \in Nat
    OBVIOUS
  <2>2. ~(y < x)
    BY <1>1, <2>1 DEF OpToRel
  <2>3. QED
    BY <2>1, <2>2
<1>3. QED
  BY <1>2

(* player_push(): the new item is the last one.                            *)
LEMMA Pushed ==
  ASSUME items \in Seq(Entry), NEW x \in Entry, Push(x)
  PROVE  /\ items' \in Seq(Entry) /\ items' # <<>> /\ item_posted' = TRUE
         /\ Len(items) \in Nat /\ Len(items') = Len(items) + 1
         /\ \A i \in 1 .. Len(items) : items'[i] = items[i]
         /\ items'[Len(items')] = x
<1>1. items' = Append(items, x)
  BY DEF Push
<1>2. Len(items) \in Nat
  BY LenProperties
<1>3. items' \in Seq(Entry) /\ Len(items') = Len(items) + 1
      /\ (\A i \in 1 .. Len(items) : items'[i] = items[i])
      /\ items'[Len(items) + 1] = x
  BY <1>1, AppendProperties
<1>4. items' # <<>>
  BY <1>2, <1>3, EmptySeq
<1>5. QED
  BY <1>2, <1>3, <1>4 DEF Push

(* The switch of player_schedule() takes the first item.                   *)
LEMMA Took ==
  ASSUME items \in Seq(Entry), NEW type, Take(type)
  PROVE  /\ items' \in Seq(Entry) /\ items # <<>>
         /\ Len(items') \in Nat /\ Len(items) = Len(items') + 1
         /\ \A i \in 1 .. Len(items') : items'[i] = items[i + 1]
         /\ Head(items) = items[1] /\ items[1] \in Entry /\ items[1].type = type
<1>1. items # <<>> /\ items' = Tail(items) /\ Head(items).type = type
  BY DEF Take
<1>2. Len(items) \in Nat \ {0}
  BY <1>1, LenProperties, EmptySeq
<1>3. Tail(items) \in Seq(Entry) /\ Len(Tail(items)) = Len(items) - 1
      /\ \A i \in 1 .. Len(Tail(items)) : Tail(items)[i] = items[i + 1]
  BY <1>1, HeadTailProperties
<1>4. Head(items) = items[1] /\ Head(items) \in Entry
  BY <1>1, HeadTailProperties
<1>5. QED
  BY <1>1, <1>2, <1>3, <1>4

(* The innermost call into libvorbis, and what is left when it returns.    *)
LEMMA Stack ==
  ASSUME calls \in Seq(Call), calls # <<>>
  PROVE  /\ Len(calls) \in Nat \ {0} /\ Top \in Call
         /\ Pop \in Seq(Call) /\ Len(Pop) = Len(calls) - 1
         /\ \A i \in 1 .. Len(Pop) : Pop[i] = calls[i]
<1>1. Len(calls) \in Nat \ {0}
  BY LenProperties, EmptySeq
<1>2. \A i \in 1 .. Len(calls) : calls[i] \in Call
  BY ElementOfSeq
<1>3. Top \in Call
  BY <1>1, <1>2 DEF Top
<1> DEFINE n == Len(calls) - 1
<1>4. n \in Nat /\ n = Len(calls) - 1 /\ Pop = SubSeq(calls, 1, n)
  BY <1>1 DEF Pop
<1> HIDE DEF n
<1>5. Pop \in Seq(Call) /\ Len(Pop) = n /\ \A i \in 1 .. n : Pop[i] = calls[i]
  <2>1. \A i \in 1 .. n : calls[i] \in Call
    BY <1>1, <1>2, <1>4
  <2>2. /\ SubSeq(calls, 1, n) \in Seq(Call)
        /\ Len(SubSeq(calls, 1, n)) = IF 1 <= n THEN n - 1 + 1 ELSE 0
        /\ \A i \in 1 .. n - 1 + 1 : SubSeq(calls, 1, n)[i] = calls[1 + i - 1]
    BY <1>4, <2>1, SubSeqProperties
  <2>3. QED
    BY <1>4, <2>2
<1>6. QED
  BY <1>1, <1>3, <1>4, <1>5

(* A call on top of a stack.                                               *)
LEMMA Stacked ==
  ASSUME NEW s \in Seq(Call), NEW c \in Call
  PROVE  /\ Append(s, c) \in Seq(Call) /\ Append(s, c) # <<>>
         /\ Len(s) \in Nat /\ Len(Append(s, c)) = Len(s) + 1
         /\ \A i \in 1 .. Len(s) : Append(s, c)[i] = s[i]
         /\ Append(s, c)[Len(s) + 1] = c
<1>1. Len(s) \in Nat
  BY LenProperties
<1>2. Append(s, c) \in Seq(Call) /\ Len(Append(s, c)) = Len(s) + 1
      /\ (\A i \in 1 .. Len(s) : Append(s, c)[i] = s[i]) /\ Append(s, c)[Len(s) + 1] = c
  BY AppendProperties
<1>3. QED
  BY <1>1, <1>2, EmptySeq

(* There is always a decoder to allocate.                                  *)
LEMMA Allocates ==
  ASSUME calls \in Seq(Call), decoders \subseteq Nat \ {0}, IsFiniteSet(decoders)
  PROVE  Unused \in Nat \ {0} /\ Unused \notin Taken
<1> DEFINE n == Len(calls)
           used == {calls[i].vf : i \in 1 .. n}
           f == [i \in 1 .. n |-> calls[i].vf]
<1>1. n \in Nat
  BY LenProperties
<1>2. IsFiniteSet(1 .. n)
  BY <1>1, FS_Interval
<1>3. f \in Surjection(1 .. n, used)
  BY DEF Surjection
<1>4. IsFiniteSet(used)
  BY <1>2, <1>3, FS_Surjection
<1>5. IsFiniteSet(Taken)
  BY <1>4, FS_Union DEF Taken
<1> DEFINE m == Cardinality(Taken) + 1
<1>6. m \in Nat \ {0} /\ Cardinality(Taken) \in Nat
  BY <1>5, FS_CardinalityType
<1>7. \E d \in 1 .. m : d \notin Taken
  <2>1. SUFFICES ASSUME 1 .. m \subseteq Taken PROVE FALSE
    OBVIOUS
  <2>2. Cardinality(1 .. m) <= Cardinality(Taken)
    BY <1>5, <2>1, FS_Subset
  <2>3. Cardinality(1 .. m) = m
    BY <1>6, FS_Interval
  <2>4. QED
    BY <1>6, <2>2, <2>3
<1>8. QED
  BY <1>6, <1>7 DEF Unused

(* rbuf_length() ends within the file or right behind it.                  *)
LEMMA MissesWithin ==
  ASSUME reader \in 1 .. FileLen + 1
  PROVE  FirstMissing \in 1 .. FileLen + 1
<1>1. FileLen \in Nat
  BY PlayerAssumption
<1> DEFINE T == {p \in reader .. FileLen + 1 : ~IsPresent(p)}
<1>2. FileLen + 1 \in T
  BY <1>1 DEF IsPresent
<1>3. T \subseteq Nat
  BY <1>1
<1>4. PICK p \in T : \A q \in T : p <= q
  BY <1>2, <1>3, Least
<1>5. \A q \in reader .. p - 1 : IsPresent(q)
  <2>1. SUFFICES ASSUME NEW q \in reader .. p - 1, ~IsPresent(q) PROVE FALSE
    OBVIOUS
  <2>2. q \in T /\ q < p
    BY <1>1, <1>4, <2>1
  <2>3. QED
    BY <1>3, <1>4, <2>2
<1>6. FirstMissing \in reader .. FileLen + 1
  BY <1>4, <1>5 DEF FirstMissing
<1>7. QED
  BY <1>1, <1>6
-----------------------------------------------------------------------------
(* The type invariant in the groups that its proof takes one by one.       *)
Named(x) == x.type \in {"LOAD", "KEY"} => x.track # None
QueueTypes ==
  /\ items \in Seq(Entry) /\ item_posted \in BOOLEAN
  /\ \A i \in 1 .. Len(items) : Named(items[i])
CallTypes ==
  /\ mode \in {"wait", "drain", "library", "astray"}
  /\ calls \in Seq(Call) /\ (mode = "library" => calls # <<>>)
DecoderTypes ==
  /\ track \in MaybeTrack /\ key \in MaybeTrack
  /\ vf \in decoders \union {0} /\ decoders \subseteq Nat \ {0} /\ IsFiniteSet(decoders)
FlagTypes ==
  /\ is_loaded \in BOOLEAN /\ is_playing \in BOOLEAN /\ is_paused \in BOOLEAN
  /\ is_eof \in BOOLEAN /\ is_downloading \in BOOLEAN /\ rewound \in BOOLEAN
BufferTypes ==
  /\ ogg \in [1 .. FileLen -> [track : MaybeTrack, part : 0 .. FileLen]]
  /\ reader \in 1 .. FileLen + 1 /\ writer \in 1 .. FileLen + 1
  /\ pcm \in 0 .. PcmLimit
NetworkTypes ==
  /\ keyreq \in [Track -> Nat] /\ eofdue \in BOOLEAN
  /\ download \in [track : MaybeTrack, part : 0 .. FileLen + 1, left : 0 .. 2, at : Progress]
  /\ download.at = "none" <=> download = NoDownload
  /\ loading \in MaybeTrack /\ seeking \in BOOLEAN
  /\ commands \in 0 .. MaxCommands /\ hasty \in 0 .. MaxCommands
  /\ seeking => commands < MaxCommands

LEMMA Groups ==
  PlayerTypeOK <=> /\ QueueTypes /\ CallTypes /\ DecoderTypes /\ FlagTypes
                   /\ BufferTypes /\ NetworkTypes
BY DEF PlayerTypeOK, QueueTypes, CallTypes, DecoderTypes, FlagTypes, BufferTypes, NetworkTypes,
       Named

(* What becomes of the command of a download changes nothing else.         *)
Reported == SubstreamSent \/ SubstreamPostponed \/ SubstreamFails \/ ConnectionLost
LEMMA Reports ==
  ASSUME PlayerTypeOK, Reported
  PROVE  /\ UNCHANGED <<queue, mode, calls, decoder, flags, buffers, keyreq, eofdue, application>>
         /\ ~eofdue /\ Underway /\ download # NoDownload
         /\ download'.at \in {"sent", "postponed", "failed", "orphaned"}
         /\ download' = [download EXCEPT !.at = download'.at]
         /\ download'.track = download.track /\ download'.part = download.part
         /\ download'.left = download.left /\ download' # NoDownload
<1>1. PICK from \in SUBSET {"posted", "postponed", "sent"},
           to \in {"sent", "postponed", "failed", "orphaned"} : Requested(from, to)
  BY DEF Reported, SubstreamSent, SubstreamPostponed, SubstreamFails, ConnectionLost
<1>2. download \in [track : MaybeTrack, part : 0 .. FileLen + 1, left : 0 .. 2, at : Progress]
  BY DEF PlayerTypeOK
<1>3. /\ UNCHANGED <<queue, mode, calls, decoder, flags, buffers, keyreq, eofdue, application>>
      /\ ~eofdue /\ download.at \in {"posted", "postponed", "sent"}
      /\ download' = [download EXCEPT !.at = to]
  BY <1>1 DEF Requested
<1>4. /\ download'.at = to /\ download'.track = download.track /\ download'.part = download.part
      /\ download'.left = download.left
  BY <1>2, <1>3
<1>5. download # NoDownload /\ download' # NoDownload
  BY <1>3, <1>4 DEF NoDownload
<1>6. QED
  BY <1>3, <1>4, <1>5 DEF Underway

(* What a step does to the queue.                                          *)
LEMMA QueueSteps ==
  ASSUME PlayerTypeOK, PlayerNext
  PROVE  \/ UNCHANGED items /\ item_posted' \in {item_posted, FALSE}
         \/ \E x \in Entry : Push(x) /\ Named(x)
         \/ \E type \in ItemType : Take(type)
<1> DEFINE Goal == \/ UNCHANGED items /\ item_posted' \in {item_posted, FALSE}
                   \/ \E x \in Entry : Push(x) /\ Named(x)
                   \/ \E type \in ItemType : Take(type)
<1>1. \A type \in ItemType \ {"LOAD", "KEY"} :
        Item(type, None) \in Entry /\ Named(Item(type, None))
  BY PlayerAssumption DEF Entry, Item, Named, MaybeTrack
<1>2. \A type \in ItemType, t \in Track : Item(type, t) \in Entry /\ Named(Item(type, t))
  BY PlayerAssumption DEF Entry, Item, Named, MaybeTrack
<1>3. CASE Application
  <2>1. \/ \E type \in {"UNLOAD", "PLAY", "PAUSE", "SEEK"} : Push(Item(type, None))
        \/ UNCHANGED queue
    BY <1>3 DEF Application, AppLoad, AppUnload, AppPlay, AppSeek, AppSeeks, AppSeekRefused,
         AppSeekCrashes, Command
  <2>2. QED
    BY <1>1, <2>1 DEF ItemType, queue
<1>4. CASE AppLoads
  <2>1. loading \in Track
    BY <1>4 DEF AppLoads, PlayerTypeOK, MaybeTrack
  <2>2. QED
    BY <1>2, <1>4, <2>1 DEF AppLoads, ItemType
<1>5. CASE Network
  <2>1. ASSUME NEW t \in Track, KeyArrives(t) PROVE Goal
    BY <1>2, <2>1 DEF KeyArrives, ItemType, queue
  <2>2. ASSUME PartArrives PROVE Goal
    <3> DEFINE x == [type |-> "DATA", track |-> download.track, part |-> download.part]
    <3>1. download.track \in MaybeTrack /\ download.part \in 0 .. FileLen + 1
      BY DEF PlayerTypeOK
    <3>2. download.part \in 0 .. FileLen
      BY <2>2, <3>1, PlayerAssumption DEF PartArrives
    <3>3. x \in Entry /\ Named(x)
      BY <3>1, <3>2 DEF Entry, ItemType, Named
    <3>4. QED
      BY <2>2, <3>3 DEF PartArrives
  <2>3. DownloadEnds \/ EofArrives => Goal
    BY <1>1 DEF DownloadEnds, EofArrives, ItemType
  <2>4. Reported => Goal
    BY Reports DEF queue
  <2>5. QED
    BY <1>5, <2>1, <2>2, <2>3, <2>4 DEF Network, Reported
<1>6. CASE Wake \/ DeliverPcm \/ ScheduleReturns
  BY <1>6 DEF Wake, DeliverPcm, ScheduleReturns, queue
<1>7. CASE Process
  BY <1>7 DEF Process, ItemLoad, ItemUnload, ItemKey, ItemPlay, ItemPause, ItemEof, ItemSeek,
       ItemData, ItemDatalast, ItemType
<1>8. CASE Library
  <2>1. ASSUME NEW has \in BOOLEAN, DecodedLast(has) PROVE Goal
    BY <1>1, <2>1 DEF DecodedLast, ItemType
  <2>2. ASSUME NEW has \in BOOLEAN, OpenFails(has) \/ SeekReturns(has) PROVE Goal
    BY <2>2 DEF OpenFails, SeekReturns, queue
  <2>3. SeekWaits \/ Seeks \/ ReadRequests \/ ReadWaits \/ GoesAstray \/ Decoded \/ OpenGoesOn
          \/ Opened => Goal
    BY DEF SeekWaits, Seeks, ReadRequests, Substream, ReadWaits, GoesAstray, Decoded, OpenGoesOn,
         Opened, queue
  <2>4. QED
    BY <1>8, <2>1, <2>2, <2>3 DEF Library
<1>9. QED
  BY <1>3, <1>4, <1>5, <1>6, <1>7, <1>8 DEF PlayerNext, PlayerThread

LEMMA QueueTyped ==
  ASSUME PlayerTypeOK, PlayerNext
  PROVE  QueueTypes'
<1>1. QueueTypes
  BY Groups
<1>2. CASE UNCHANGED items /\ item_posted' \in {item_posted, FALSE}
  BY <1>1, <1>2 DEF QueueTypes, Named
<1>3. ASSUME NEW x \in Entry, Push(x), Named(x)
      PROVE  QueueTypes'
  <2>1. /\ items' \in Seq(Entry) /\ item_posted' = TRUE
        /\ Len(items) \in Nat /\ Len(items') = Len(items) + 1
        /\ \A i \in 1 .. Len(items) : items'[i] = items[i]
        /\ items'[Len(items')] = x
    BY <1>1, <1>3, Pushed DEF QueueTypes
  <2>2. \A i \in 1 .. Len(items') : Named(items'[i])
    <3>1. TAKE i \in 1 .. Len(items')
    <3>2. CASE i = Len(items')
      BY <1>3, <2>1, <3>2
    <3>3. CASE i # Len(items')
      <4>1. i \in 1 .. Len(items)
        BY <2>1, <3>1, <3>3
      <4>2. QED
        BY <1>1, <2>1, <4>1 DEF QueueTypes
    <3>4. QED
      BY <3>2, <3>3
  <2>3. QED
    BY <2>1, <2>2 DEF QueueTypes, Named
<1>4. ASSUME NEW type \in ItemType, Take(type)
      PROVE  QueueTypes'
  <2>1. /\ items' \in Seq(Entry) /\ Len(items') \in Nat /\ Len(items) = Len(items') + 1
        /\ \A i \in 1 .. Len(items') : items'[i] = items[i + 1]
    BY <1>1, <1>4, Took DEF QueueTypes
  <2>2. \A i \in 1 .. Len(items') : Named(items'[i])
    <3>1. TAKE i \in 1 .. Len(items')
    <3>2. i + 1 \in 1 .. Len(items)
      BY <2>1
    <3>3. Named(items[i + 1])
      BY <1>1, <3>2 DEF QueueTypes
    <3>4. QED
      BY <2>1, <3>3
  <2>3. QED
    BY <1>1, <1>4, <2>1, <2>2 DEF QueueTypes, Named, Take
<1>5. QED
  BY <1>2, <1>3, <1>4, QueueSteps

(* What a step does to the calls into libvorbis.                           *)
Opens(c) == c \in Call /\ calls' = Append(calls, c) /\ mode' = "library"
GoesOn(c) == c \in Call /\ c.fn = Top.fn /\ c.vf = Top.vf /\ calls' = Append(Pop, c)
DecodesOn == Decode(Pop, pcm') /\ Top.fn = "decode"
LEMMA CallSteps ==
  ASSUME PlayerTypeOK, PlayerNext
  PROVE  \/ /\ UNCHANGED calls /\ mode' \in {"wait", "drain", "library", "astray"}
            /\ mode' = "library" => mode = "library" \/ calls # <<>>
         \/ Opens(Frame("open", vf')) /\ ItemKey
         \/ Opens(Frame("seek", vf)) /\ ItemSeek /\ is_loaded
         \/ Opens(Frame("decode", vf)) /\ ScheduleReturns /\ calls = <<>>
         \/ /\ mode = "library" /\ mode' \in {"library", "wait"}
            /\ \E c \in Call : GoesOn(c) /\ (c.in = Top.in \/ Top.in = "seek" \/ Top.fn = "open")
         \/ Decoded /\ DecodesOn
         \/ /\ mode = "library" /\ calls' = Pop /\ mode' \in {"wait", "drain"}
            /\ \/ Opened
               \/ \E has \in BOOLEAN : DecodedLast(has) \/ OpenFails(has) \/ SeekReturns(has)
<1> DEFINE Same == /\ UNCHANGED calls /\ mode' \in {"wait", "drain", "library", "astray"}
                   /\ mode' = "library" => mode = "library" \/ calls # <<>>
           On == /\ mode = "library" /\ mode' \in {"library", "wait"}
                 /\ \E c \in Call : GoesOn(c) /\ (c.in = Top.in \/ Top.in = "seek" \/ Top.fn = "open")
           Back == /\ mode = "library" /\ calls' = Pop /\ mode' \in {"wait", "drain"}
                   /\ \/ Opened
                      \/ \E has \in BOOLEAN : DecodedLast(has) \/ OpenFails(has) \/ SeekReturns(has)
<1>1. /\ mode \in {"wait", "drain", "library", "astray"} /\ calls \in Seq(Call) /\ vf \in Nat
      /\ decoders \subseteq Nat \ {0} /\ IsFiniteSet(decoders)
  BY Groups DEF CallTypes, DecoderTypes
<1>2. mode = "library" => calls # <<>> /\ Top \in Call
  BY <1>1, Stack DEF PlayerTypeOK
<1>3. \A d \in Nat, fn \in {"decode", "open", "seek"} : Frame(fn, d) \in Call
  BY DEF Frame, Call
<1>4. Application \/ AppLoads \/ Network => Same
  BY <1>1 DEF Application, AppLoad, AppUnload, AppPlay, AppSeek, AppSeeks, AppSeekRefused,
       AppSeekCrashes, Command, AppLoads, Network,
       KeyArrives, Requested, SubstreamSent, SubstreamPostponed, SubstreamFails,
       ConnectionLost, PartArrives, DownloadEnds, EofArrives
<1>5. Wake \/ DeliverPcm => Same
  BY <1>1 DEF Wake, DeliverPcm
<1>6. ScheduleReturns => Same \/ (Opens(Frame("decode", vf)) /\ ScheduleReturns /\ calls = <<>>)
  BY <1>1, <1>3 DEF ScheduleReturns, Decode, Opens
<1>7. ItemKey => Opens(Frame("open", vf')) /\ ItemKey
  <2>1. Unused \in Nat
    BY <1>1, Allocates
  <2>2. QED
    BY <1>3, <2>1 DEF ItemKey, Opens
<1>8. ItemSeek => Same \/ (Opens(Frame("seek", vf)) /\ ItemSeek /\ is_loaded)
  BY <1>1, <1>3 DEF ItemSeek, Opens, Take
<1>9. ItemLoad \/ ItemUnload \/ ItemPlay \/ ItemPause \/ ItemEof \/ ItemData \/ ItemDatalast => Same
  BY <1>1 DEF ItemLoad, ItemUnload, ItemPlay, ItemPause, ItemEof, ItemData, ItemDatalast
<1>10. SeekWaits \/ ReadWaits \/ GoesAstray => Same
  BY <1>1 DEF SeekWaits, ReadWaits, GoesAstray
<1>11. Seeks => On
  <2>1. SUFFICES ASSUME Seeks PROVE On
    OBVIOUS
  <2>2. Top \in Call /\ Top.in = "seek" /\ mode = "library" /\ mode' = mode
    BY <1>2, <2>1 DEF Seeks, InCallback
  <2>3. GoesOn([Top EXCEPT !.in = "read"])
    BY <2>1, <2>2 DEF Seeks, GoesOn, Call
  <2>4. QED
    BY <2>2, <2>3 DEF GoesOn
<1>12. ReadRequests => On
  <2>1. SUFFICES ASSUME ReadRequests PROVE On
    OBVIOUS
  <2>2. mode = "library" /\ Top \in Call
    BY <1>2, <2>1 DEF ReadRequests, InCallback
  <2>3. [Top EXCEPT !.did = TRUE] \in Call /\ [Top EXCEPT !.did = TRUE].in = Top.in
    BY <2>2 DEF Call
  <2>4. GoesOn([Top EXCEPT !.did = TRUE])
    BY <2>1, <2>2, <2>3 DEF ReadRequests, Substream, GoesOn, Call
  <2>5. QED
    BY <2>1, <2>2, <2>3, <2>4 DEF ReadRequests, Substream
<1>13. OpenGoesOn => On
  <2>1. SUFFICES ASSUME OpenGoesOn PROVE On
    OBVIOUS
  <2>2. mode = "library" /\ Top \in Call /\ Top.fn = "open"
    BY <1>2, <2>1 DEF OpenGoesOn, ReadReturns, InCallback
  <2>3. [Top EXCEPT !.in = "seek", !.did = FALSE, !.seeks = @ + 1] \in Call
    <3>1. Top.vf \in Nat /\ Top.seeks + 1 \in Nat
      BY <2>2 DEF Call
    <3> DEFINE t == [Top EXCEPT !.in = "seek"]
               u == [t EXCEPT !.did = FALSE]
    <3>2. t \in Call /\ t.seeks = Top.seeks
      BY <2>2 DEF Call
    <3> HIDE DEF t
    <3>3. u \in Call /\ u.seeks = Top.seeks
      BY <3>2 DEF Call
    <3> HIDE DEF u
    <3>4. [u EXCEPT !.seeks = Top.seeks + 1] \in Call
      BY <3>1, <3>3 DEF Call
    <3>5. [Top EXCEPT !.in = "seek", !.did = FALSE, !.seeks = @ + 1]
            = [u EXCEPT !.seeks = Top.seeks + 1]
      BY DEF t, u
    <3>6. QED
      BY <3>4, <3>5
  <2>4. GoesOn([Top EXCEPT !.in = "seek", !.did = FALSE, !.seeks = @ + 1])
    BY <2>1, <2>2, <2>3 DEF OpenGoesOn, GoesOn, Call
  <2>5. QED
    BY <2>1, <2>2, <2>3, <2>4 DEF OpenGoesOn
<1>14. Decoded => Decoded /\ DecodesOn
  BY DEF Decoded, DecodesOn, ReadReturns
<1>15. Opened => Back
  BY DEF Opened, ReadReturns, InCallback
<1>16. ASSUME NEW has \in BOOLEAN, DecodedLast(has) \/ OpenFails(has) \/ SeekReturns(has)
       PROVE  Back
  BY <1>16 DEF DecodedLast, OpenFails, SeekReturns, ReadReturns, InCallback
<1>17. Library => Same \/ On \/ Back \/ (Decoded /\ DecodesOn)
  BY <1>10, <1>11, <1>12, <1>13, <1>14, <1>15, <1>16 DEF Library
<1>18. QED
  BY <1>4, <1>5, <1>6, <1>7, <1>8, <1>9, <1>17 DEF PlayerNext, PlayerThread, Process

LEMMA CallsTyped ==
  ASSUME PlayerTypeOK, PlayerNext
  PROVE  CallTypes'
<1>1. calls \in Seq(Call) /\ (mode = "library" => calls # <<>>)
  BY DEF PlayerTypeOK
<1>2. mode = "library" =>
        /\ Pop \in Seq(Call)
        /\ \A c \in Call : Append(Pop, c) \in Seq(Call) /\ Append(Pop, c) # <<>>
  BY <1>1, Stack, Stacked
<1>3. \A c : Opens(c) => CallTypes'
  BY <1>1, Stacked DEF Opens, CallTypes
<1>4. Decoded => Frame("decode", vf) \in Call /\ mode = "library"
  BY DEF Frame, Call, PlayerTypeOK, Decoded, ReadReturns, InCallback
<1>5. Decoded /\ DecodesOn => CallTypes'
  BY <1>2, <1>4 DEF DecodesOn, Decode, CallTypes
<1>6. QED
  BY <1>1, <1>2, <1>3, <1>5, CallSteps DEF GoesOn, CallTypes

LEMMA DecodersTyped ==
  ASSUME PlayerTypeOK, PlayerNext
  PROVE  DecoderTypes'
<1>1. DecoderTypes /\ QueueTypes /\ calls \in Seq(Call)
  BY Groups DEF CallTypes
<1>2. UNCHANGED decoder => DecoderTypes'
  BY <1>1 DEF decoder, DecoderTypes
<1>3. ASSUME NEW type, Take(type)
      PROVE  /\ Head(items).track \in MaybeTrack
             /\ type \in {"LOAD", "KEY"} => Head(items).track \in Track
  <2>1. Head(items) = items[1] /\ items[1] \in Entry /\ items[1].type = type /\ 1 \in 1 .. Len(items)
    BY <1>1, <1>3, Took DEF QueueTypes
  <2>2. Named(items[1])
    BY <1>1, <2>1 DEF QueueTypes
  <2>3. QED
    BY <2>1, <2>2 DEF Named, Entry, MaybeTrack
<1>4. ItemLoad => DecoderTypes'
  BY <1>1, <1>3 DEF ItemLoad, DecoderTypes
<1>5. ItemUnload => DecoderTypes'
  <2>1. SUFFICES ASSUME ItemUnload PROVE DecoderTypes'
    OBVIOUS
  <2>2. IsFiniteSet(decoders \ {vf})
    BY <1>1, FS_RemoveElement DEF DecoderTypes
  <2>3. QED
    BY <1>1, <2>1, <2>2 DEF ItemUnload, DecoderTypes, MaybeTrack
<1>6. ItemKey => DecoderTypes'
  <2>1. SUFFICES ASSUME ItemKey PROVE DecoderTypes'
    OBVIOUS
  <2>2. Unused \in Nat \ {0}
    BY <1>1, Allocates DEF DecoderTypes
  <2>3. vf' = Unused /\ decoders' = decoders \union {vf'} /\ track' = track
    BY <2>1 DEF ItemKey
  <2>4. IsFiniteSet(decoders \union {vf'})
    BY <1>1, FS_AddElement DEF DecoderTypes
  <2>5. key' \in MaybeTrack
    BY <1>3, <2>1 DEF ItemKey
  <2>6. QED
    BY <1>1, <2>2, <2>3, <2>4, <2>5 DEF DecoderTypes
<1>7. ASSUME NEW has \in BOOLEAN, OpenFails(has) PROVE DecoderTypes'
  <2>1. IsFiniteSet(decoders \ {vf})
    BY <1>1, FS_RemoveElement DEF DecoderTypes
  <2>2. QED
    BY <1>1, <1>7, <2>1 DEF OpenFails, DecoderTypes
<1>8. Application \/ AppLoads \/ Network => UNCHANGED decoder
  BY DEF Application, AppLoad, AppUnload, AppPlay, AppSeek, AppSeeks, AppSeekRefused,
       AppSeekCrashes, Command, AppLoads, Network,
     KeyArrives, Requested, SubstreamSent, SubstreamPostponed, SubstreamFails,
       ConnectionLost, PartArrives, DownloadEnds, EofArrives
<1>9. Wake \/ DeliverPcm \/ ScheduleReturns => UNCHANGED decoder
  BY DEF Wake, DeliverPcm, ScheduleReturns
<1>10. ItemPlay \/ ItemPause \/ ItemEof \/ ItemSeek \/ ItemData \/ ItemDatalast => UNCHANGED decoder
  BY DEF ItemPlay, ItemPause, ItemEof, ItemSeek, ItemData, ItemDatalast
<1>11. ASSUME NEW has \in BOOLEAN, DecodedLast(has) \/ SeekReturns(has) PROVE UNCHANGED decoder
  BY <1>11 DEF DecodedLast, SeekReturns
<1>12. SeekWaits \/ Seeks \/ ReadRequests \/ ReadWaits \/ GoesAstray \/ Decoded \/ OpenGoesOn \/ Opened
         => UNCHANGED decoder
  BY DEF SeekWaits, Seeks, ReadRequests, Substream, ReadWaits, GoesAstray, Decoded, OpenGoesOn, Opened
<1>13. QED
  BY <1>2, <1>4, <1>5, <1>6, <1>7, <1>8, <1>9, <1>10, <1>11, <1>12
     DEF PlayerNext, PlayerThread, Process, Library

LEMMA FlagsTyped ==
  ASSUME PlayerTypeOK, PlayerNext
  PROVE  FlagTypes'
<1>1. FlagTypes
  BY Groups
<1>2. UNCHANGED <<flags, is_downloading, rewound>> => FlagTypes'
  BY <1>1 DEF flags, FlagTypes
<1>3. Application \/ AppLoads \/ Network => UNCHANGED <<flags, is_downloading, rewound>>
  BY DEF Application, AppLoad, AppUnload, AppPlay, AppSeek, AppSeeks, AppSeekRefused,
       AppSeekCrashes, Command, AppLoads, Network,
     KeyArrives, Requested, SubstreamSent, SubstreamPostponed, SubstreamFails,
       ConnectionLost, PartArrives, DownloadEnds, EofArrives, buffers, rbuf
<1>4. Wake \/ ScheduleReturns => UNCHANGED <<flags, is_downloading, rewound>>
  BY DEF Wake, ScheduleReturns, buffers, rbuf
<1>5. DeliverPcm => FlagTypes'
  BY <1>1 DEF DeliverPcm, FlagTypes
<1>6. ItemLoad \/ ItemUnload => FlagTypes'
  BY <1>1 DEF ItemLoad, ItemUnload, FlagTypes
<1>7. ItemPlay \/ ItemPause \/ ItemEof => FlagTypes'
  BY <1>1 DEF ItemPlay, ItemPause, ItemEof, FlagTypes, buffers, rbuf
<1>8. ItemKey \/ ItemSeek \/ ItemData => UNCHANGED <<flags, is_downloading, rewound>>
  BY DEF ItemKey, ItemSeek, ItemData, buffers, rbuf
<1>9. ItemDatalast => FlagTypes'
  BY <1>1 DEF ItemDatalast, FlagTypes, flags, rbuf
<1>10. SeekWaits \/ ReadWaits \/ GoesAstray => UNCHANGED <<flags, is_downloading, rewound>>
  BY DEF SeekWaits, ReadWaits, GoesAstray, buffers, rbuf
<1>11. Seeks => FlagTypes'
  BY <1>1 DEF Seeks, FlagTypes
<1>12. ReadRequests => FlagTypes'
  BY <1>1 DEF ReadRequests, Substream, FlagTypes, flags
<1>13. Decoded \/ OpenGoesOn => UNCHANGED <<flags, is_downloading, rewound>>
  BY DEF Decoded, OpenGoesOn, ReadReturns
<1>14. Opened => FlagTypes'
  BY <1>1 DEF Opened, ReadReturns, FlagTypes
<1>15. ASSUME NEW has \in BOOLEAN, DecodedLast(has) \/ OpenFails(has) \/ SeekReturns(has)
       PROVE  UNCHANGED <<flags, is_downloading, rewound>>
  BY <1>15 DEF DecodedLast, OpenFails, SeekReturns, ReadReturns
<1>16. QED
  BY <1>2, <1>3, <1>4, <1>5, <1>6, <1>7, <1>8, <1>9, <1>10, <1>11, <1>12, <1>13, <1>14, <1>15
     DEF PlayerNext, PlayerThread, Process, Library

LEMMA Bounded ==
  ASSUME NEW a \in Nat, NEW b \in Nat, NEW m \in Nat, a + b <= m
  PROVE  b \in 0 .. m /\ a <= m
OBVIOUS

LEMMA NetworkTyped ==
  ASSUME PlayerTypeOK, PlayerNext
  PROVE  NetworkTypes'
<1>1. NetworkTypes /\ QueueTypes
  BY Groups
<1>2. MaxCommands \in Nat /\ None \in MaybeTrack /\ FileLen \in Nat
  BY PlayerAssumption DEF MaybeTrack
<1>3. UNCHANGED <<network, application>> => NetworkTypes'
  BY <1>1 DEF network, application, NetworkTypes, NoDownload
<1>4. Application => NetworkTypes'
  <2>1. /\ commands \in 0 .. MaxCommands /\ hasty \in 0 .. MaxCommands /\ loading \in MaybeTrack
        /\ seeking \in BOOLEAN /\ (seeking => commands < MaxCommands)
    BY <1>1 DEF NetworkTypes
  <2> DEFINE Goal == /\ commands' \in 0 .. MaxCommands /\ hasty' \in 0 .. MaxCommands
                     /\ loading' \in MaybeTrack /\ seeking' \in BOOLEAN
                     /\ seeking' => commands' < MaxCommands
  <2>2. ASSUME NEW item, Command(item), loading' \in MaybeTrack, UNCHANGED seeking,
               Turn \/ UNCHANGED hasty
        PROVE  Goal
    <3>1. ~seeking' /\ commands' \in 0 .. MaxCommands
      BY <1>2, <2>1, <2>2 DEF Command
    <3>2. ASSUME Turn PROVE hasty' \in 0 .. MaxCommands
      <4>1. hasty' \in {hasty, hasty + 1} /\ commands' + hasty' <= MaxCommands
        BY <3>2 DEF Turn
      <4>2. hasty' \in Nat /\ commands' \in Nat
        BY <2>1, <3>1, <4>1
      <4>3. QED
        BY <1>2, <4>1, <4>2, Bounded
    <3>3. QED
      BY <1>2, <2>1, <2>2, <3>1, <3>2
  <2>3. AppUnload \/ AppPlay("PLAY") \/ AppPlay("PAUSE") => Goal
    BY <2>1, <2>2 DEF AppUnload, AppPlay
  <2>4. ASSUME NEW t \in Track, AppLoad(t) PROVE Goal
    <3>1. t \in MaybeTrack
      BY DEF MaybeTrack
    <3>2. QED
      BY <2>2, <2>4, <3>1 DEF AppLoad
  <2>5. AppSeek => Goal
    <3>1. SUFFICES ASSUME AppSeek PROVE Goal
      OBVIOUS
    <3>2. /\ commands' = commands /\ loading' = loading /\ seeking' = TRUE
          /\ hasty' \in {hasty, hasty + 1} /\ commands + 1 + hasty' <= MaxCommands
      BY <3>1 DEF AppSeek
    <3>3. commands \in Nat /\ commands + 1 \in Nat /\ hasty' \in Nat
      BY <2>1, <3>2
    <3>4. hasty' \in 0 .. MaxCommands /\ commands + 1 <= MaxCommands
      BY <1>2, <3>2, <3>3, Bounded
    <3>5. commands < MaxCommands
      BY <1>2, <3>3, <3>4
    <3>6. QED
      BY <2>1, <3>2, <3>4, <3>5
  <2>6. AppSeeks => Goal
    <3>1. SUFFICES ASSUME AppSeeks PROVE Goal
      OBVIOUS
    <3>2. /\ commands < MaxCommands /\ commands' = commands + 1 /\ loading' = loading
          /\ seeking' = FALSE /\ hasty' \in {hasty, 1}
      BY <2>1, <3>1 DEF AppSeeks
    <3>3. commands' \in 0 .. MaxCommands /\ 1 \in 0 .. MaxCommands
      BY <1>2, <2>1, <3>2
    <3>4. hasty' \in 0 .. MaxCommands
      BY <2>1, <3>2, <3>3
    <3>5. QED
      BY <2>1, <3>2, <3>3, <3>4
  <2>7. AppSeekRefused \/ AppSeekCrashes => Goal
    BY <2>1 DEF AppSeekRefused, AppSeekCrashes, application
  <2>8. Application => UNCHANGED network
    BY DEF Application, AppLoad, AppUnload, AppPlay, AppSeek, AppSeeks, AppSeekRefused,
       AppSeekCrashes, Command
  <2>9. Application => Goal
    BY <2>3, <2>4, <2>5, <2>6, <2>7 DEF Application
  <2>10. QED
    BY <1>1, <2>8, <2>9 DEF NetworkTypes, network, NoDownload
<1>5. AppLoads => NetworkTypes'
  BY <1>1, <1>2 DEF AppLoads, NetworkTypes, network, NoDownload
<1>6. ASSUME NEW t \in Track, KeyArrives(t) PROVE NetworkTypes'
  <2>1. keyreq[t] - 1 \in Nat
    BY <1>1, <1>6 DEF KeyArrives, NetworkTypes
  <2>2. keyreq' \in [Track -> Nat]
    BY <1>1, <1>6, <2>1 DEF KeyArrives, NetworkTypes
  <2>3. QED
    BY <1>1, <1>6, <2>2 DEF KeyArrives, NetworkTypes, application
<1>7. PartArrives => NetworkTypes'
  <2>1. SUFFICES ASSUME PartArrives PROVE NetworkTypes'
    OBVIOUS
  <2>2. download.left - 1 \in 0 .. 2 /\ download.part + 1 \in 0 .. FileLen + 1
    BY <1>1, <1>2, <2>1 DEF PartArrives, NetworkTypes
  <2>3. /\ download' \in [track : MaybeTrack, part : 0 .. FileLen + 1, left : 0 .. 2, at : Progress]
        /\ download'.at = "sent"
    BY <1>1, <2>1, <2>2 DEF PartArrives, NetworkTypes
  <2>4. QED
    BY <1>1, <2>1, <2>3 DEF PartArrives, NetworkTypes, application, NoDownload
<1>8. DownloadEnds => NetworkTypes'
  <2>1. SUFFICES ASSUME DownloadEnds PROVE NetworkTypes'
    OBVIOUS
  <2>2. eofdue' \in BOOLEAN
    BY <2>1 DEF DownloadEnds
  <2>3. /\ NoDownload \in [track : MaybeTrack, part : 0 .. FileLen + 1, left : 0 .. 2, at : Progress]
        /\ NoDownload.at = "none" /\ NoDownload' = NoDownload
    BY <1>2 DEF NoDownload, Progress
  <2>4. QED
    BY <1>1, <2>1, <2>2, <2>3 DEF DownloadEnds, NetworkTypes, application
<1>9. EofArrives => NetworkTypes'
  <2>1. SUFFICES ASSUME EofArrives PROVE NetworkTypes'
    OBVIOUS
  <2>2. UNCHANGED <<keyreq, download, application>> /\ eofdue' = FALSE /\ NoDownload' = NoDownload
    BY <2>1 DEF EofArrives, NoDownload
  <2>3. QED
    BY <1>1, <2>2 DEF NetworkTypes, application
<1>10. Wake \/ DeliverPcm \/ ScheduleReturns => UNCHANGED <<network, application>>
  BY DEF Wake, DeliverPcm, ScheduleReturns
<1>11. ItemLoad => NetworkTypes'
  <2>1. SUFFICES ASSUME ItemLoad PROVE NetworkTypes'
    OBVIOUS
  <2>2. Take("LOAD")
    BY <2>1 DEF ItemLoad
  <2>3. items[1] \in Entry /\ items[1].type = "LOAD" /\ Head(items) = items[1] /\ 1 \in 1 .. Len(items)
    BY <1>1, <2>2, Took DEF QueueTypes
  <2>4. Head(items).track \in Track
    BY <1>1, <2>3 DEF QueueTypes, Named, Entry, MaybeTrack
  <2>5. keyreq' \in [Track -> Nat]
    BY <1>1, <2>1, <2>4 DEF ItemLoad, NetworkTypes
  <2>6. QED
    BY <1>1, <2>1, <2>5 DEF ItemLoad, Take, NetworkTypes, application, NoDownload
<1>12. ItemUnload \/ ItemKey \/ ItemPlay \/ ItemPause \/ ItemEof \/ ItemSeek \/ ItemData \/ ItemDatalast
         => UNCHANGED <<network, application>>
  BY DEF ItemUnload, ItemKey, ItemPlay, ItemPause, ItemEof, ItemSeek, ItemData, ItemDatalast, Take
<1>13. SeekWaits \/ Seeks \/ ReadWaits \/ GoesAstray \/ Decoded \/ OpenGoesOn \/ Opened
         => UNCHANGED <<network, application>>
  BY DEF SeekWaits, Seeks, ReadWaits, GoesAstray, Decoded, OpenGoesOn, Opened, ReadReturns
<1>14. ASSUME NEW has \in BOOLEAN, DecodedLast(has) \/ OpenFails(has) \/ SeekReturns(has)
       PROVE  UNCHANGED <<network, application>>
  BY <1>14 DEF DecodedLast, OpenFails, SeekReturns, ReadReturns
<1>15. ReadRequests => NetworkTypes'
  <2>1. SUFFICES ASSUME ReadRequests PROVE NetworkTypes'
    OBVIOUS
  <2>2. FirstMissing \in 0 .. FileLen + 1 /\ track \in MaybeTrack
    BY <1>2, MissesWithin DEF PlayerTypeOK
  <2>3. /\ download' \in [track : MaybeTrack, part : 0 .. FileLen + 1, left : 0 .. 2, at : Progress]
        /\ download'.at = "posted"
    BY <2>1, <2>2 DEF ReadRequests, Substream, Progress
  <2>4. QED
    BY <1>1, <2>1, <2>3 DEF ReadRequests, Substream, NetworkTypes, application, NoDownload
<1>16. Reported => NetworkTypes'
  <2>1. SUFFICES ASSUME Reported PROVE NetworkTypes'
    OBVIOUS
  <2>2. /\ UNCHANGED <<keyreq, eofdue, application>>
        /\ download'.at \in {"sent", "postponed", "failed", "orphaned"}
        /\ download' = [download EXCEPT !.at = download'.at] /\ download' # NoDownload
    BY <2>1, Reports
  <2>3. download' \in [track : MaybeTrack, part : 0 .. FileLen + 1, left : 0 .. 2, at : Progress]
    BY <1>1, <2>2 DEF NetworkTypes, Progress
  <2>4. NoDownload' = NoDownload
    BY DEF NoDownload
  <2>5. QED
    BY <1>1, <2>2, <2>3, <2>4 DEF NetworkTypes, application
<1>17. QED
  BY <1>16, <1>3, <1>4, <1>5, <1>6, <1>7, <1>8, <1>9, <1>10, <1>11, <1>12, <1>13, <1>14, <1>15
     DEF PlayerNext, PlayerThread, Network, Reported, Process, Library
-----------------------------------------------------------------------------
(* What a step does to the download.                                       *)
Plain == ItemType \ {"DATA", "DATALAST"}
PlainPush(x) ==
  x \in Entry /\ x.type \in Plain /\ Push(x) /\ UNCHANGED <<is_downloading, download, writer>>
PlainTake(type) ==
  type \in Plain /\ Take(type) /\ UNCHANGED <<is_downloading, download>> /\ writer' \in {writer, 1}
NoItem ==
  /\ UNCHANGED <<items, is_downloading, download>>
  /\ writer' \in {writer, 1} \/ ~is_downloading
LEMMA DownloadSteps ==
  ASSUME PlayerTypeOK, PlayerNext
  PROVE  \/ \E x : PlainPush(x)
         \/ \E type : PlainTake(type)
         \/ NoItem \/ Reported
         \/ PartArrives \/ DownloadEnds \/ ItemData \/ ItemDatalast \/ ReadRequests
<1> DEFINE Goal == \/ \E x : PlainPush(x)
                   \/ \E type : PlainTake(type)
                   \/ NoItem
<1>1. \A type \in ItemType, t \in MaybeTrack : Item(type, t) \in Entry /\ Item(type, t).type = type
  BY PlayerAssumption DEF Entry, Item
<1>2. None \in MaybeTrack /\ loading \in MaybeTrack
  BY DEF MaybeTrack, PlayerTypeOK
<1>3. Plain \subseteq ItemType /\ {"UNLOAD", "LOAD", "PLAY", "PAUSE", "SEEK", "KEY", "EOF"} = Plain
  BY DEF Plain, ItemType
<1>4. ASSUME NEW type \in Plain, NEW t \in MaybeTrack, Push(Item(type, t)),
             UNCHANGED <<is_downloading, download, writer>>
      PROVE  Goal
  <2>1. PlainPush(Item(type, t))
    BY <1>1, <1>3, <1>4 DEF PlainPush
  <2>2. QED
    BY <2>1
<1>5. Application => Goal
  <2>1. SUFFICES ASSUME Application PROVE Goal
    OBVIOUS
  <2>2. UNCHANGED <<is_downloading, download, writer>>
    BY <2>1 DEF Application, AppLoad, AppUnload, AppPlay, AppSeek, AppSeeks, AppSeekRefused,
       AppSeekCrashes, Command, network, buffers, rbuf
  <2>3. \/ \E type \in {"UNLOAD", "PLAY", "PAUSE", "SEEK"} : Push(Item(type, None))
        \/ UNCHANGED items
    BY <2>1 DEF Application, AppLoad, AppUnload, AppPlay, AppSeek, AppSeeks, AppSeekRefused,
         AppSeekCrashes, Command, queue
  <2>4. {"UNLOAD", "PLAY", "PAUSE", "SEEK"} \subseteq Plain
    BY <1>3
  <2>5. QED
    BY <1>2, <1>4, <2>2, <2>3, <2>4 DEF NoItem
<1>6. AppLoads => Goal
  <2>1. SUFFICES ASSUME AppLoads PROVE Goal
    OBVIOUS
  <2>2. UNCHANGED <<is_downloading, download, writer>> /\ Push(Item("LOAD", loading))
    BY <2>1 DEF AppLoads, network, buffers, rbuf
  <2>3. "LOAD" \in Plain
    BY <1>3
  <2>4. QED
    BY <1>2, <1>4, <2>2, <2>3
<1>7. ASSUME NEW t \in Track, KeyArrives(t) PROVE Goal
  <2>1. UNCHANGED <<is_downloading, download, writer>>
    BY <1>7 DEF KeyArrives, buffers, rbuf
  <2>2. CASE Push(Item("KEY", t))
    <3>1. "KEY" \in Plain /\ t \in MaybeTrack
      BY <1>3 DEF MaybeTrack
    <3>2. QED
      BY <1>4, <2>1, <2>2, <3>1
  <2>3. CASE UNCHANGED queue
    BY <2>1, <2>3 DEF NoItem, queue
  <2>4. QED
    BY <1>7, <2>2, <2>3 DEF KeyArrives
<1>8. EofArrives => Goal
  <2>1. SUFFICES ASSUME EofArrives PROVE Goal
    OBVIOUS
  <2>2. UNCHANGED <<is_downloading, download, writer>> /\ Push(Item("EOF", None))
    BY <2>1 DEF EofArrives, buffers, rbuf
  <2>3. "EOF" \in Plain
    BY <1>3
  <2>4. QED
    BY <1>2, <1>4, <2>2, <2>3
<1>9. ASSUME NEW has \in BOOLEAN, DecodedLast(has) PROVE Goal
  <2>1. UNCHANGED <<is_downloading, download, writer>> /\ Push(Item("EOF", None))
    BY <1>9 DEF DecodedLast, ReadReturns, network
  <2>2. "EOF" \in Plain
    BY <1>3
  <2>3. QED
    BY <1>2, <1>4, <2>1, <2>2
<1>10. Wake \/ DeliverPcm \/ ScheduleReturns => NoItem
  BY DEF Wake, DeliverPcm, ScheduleReturns, NoItem, queue, buffers, rbuf, network
<1>11. ItemLoad => PlainTake("LOAD")
  BY <1>3 DEF ItemLoad, PlainTake, Plain
<1>12. ItemUnload => PlainTake("UNLOAD")
  BY <1>3 DEF ItemUnload, PlainTake, Plain, network
<1>13. ItemKey => PlainTake("KEY")
  BY <1>3 DEF ItemKey, PlainTake, Plain, network, buffers, rbuf
<1>14. ItemPlay => PlainTake("PLAY")
  BY <1>3 DEF ItemPlay, PlainTake, Plain, network, buffers, rbuf
<1>15. ItemPause => PlainTake("PAUSE")
  BY <1>3 DEF ItemPause, PlainTake, Plain, network, buffers, rbuf
<1>16. ItemEof => PlainTake("EOF")
  BY <1>3 DEF ItemEof, PlainTake, Plain, network, buffers, rbuf
<1>17. ItemSeek => PlainTake("SEEK")
  BY <1>3 DEF ItemSeek, PlainTake, Plain, network, buffers, rbuf
<1>18. SeekWaits \/ Seeks \/ ReadWaits \/ GoesAstray \/ Decoded \/ OpenGoesOn \/ Opened => NoItem
  BY DEF SeekWaits, Seeks, ReadWaits, GoesAstray, Decoded, OpenGoesOn, Opened, ReadReturns, NoItem,
     queue, buffers, rbuf, network
<1>19. ASSUME NEW has \in BOOLEAN, OpenFails(has) \/ SeekReturns(has) PROVE NoItem
  BY <1>19 DEF OpenFails, SeekReturns, ReadReturns, NoItem, queue, network
<1>20. QED
  BY <1>5, <1>6, <1>7, <1>8, <1>9, <1>10, <1>11, <1>12, <1>13, <1>14, <1>15, <1>16, <1>17, <1>18,
     <1>19 DEF PlayerNext, PlayerThread, Network, Reported, Process, Library

(* One download, or one DATALAST.                                          *)
LEMMA PushOther ==
  ASSUME items \in Seq(Entry), NEW x \in Entry, Push(x)
  PROVE  /\ x.type # "DATALAST" => Datalasts' = Datalasts
         /\ x.type = "DATALAST" => Datalasts' = Datalasts \union {Len(items) + 1}
         /\ x.type # "DATA" => Datas' = Datas
         /\ x.type = "DATA" => Datas' = Datas \union {Len(items) + 1}
<1>1. /\ Len(items) \in Nat /\ Len(items') = Len(items) + 1
      /\ \A i \in 1 .. Len(items) : items'[i] = items[i]
      /\ items'[Len(items')] = x
  BY Pushed
<1>2. 1 .. Len(items') = (1 .. Len(items)) \union {Len(items) + 1}
  BY <1>1
<1>3. QED
  BY <1>1, <1>2 DEF Datalasts, Datas

LEMMA TakeOther ==
  ASSUME items \in Seq(Entry), NEW type, Take(type)
  PROVE  /\ \A i \in 1 .. Len(items') : /\ i \in Datalasts' <=> i + 1 \in Datalasts
                                        /\ i \in Datas' <=> i + 1 \in Datas
         /\ Datalasts \subseteq 1 .. Len(items) /\ Datalasts' \subseteq 1 .. Len(items')
         /\ Datas \subseteq 1 .. Len(items) /\ Datas' \subseteq 1 .. Len(items')
         /\ 1 \in Datalasts <=> type = "DATALAST"
         /\ 1 \in Datas <=> type = "DATA"
<1>1. /\ Len(items') \in Nat /\ Len(items) = Len(items') + 1
      /\ \A i \in 1 .. Len(items') : items'[i] = items[i + 1]
      /\ items[1].type = type
  BY Took
<1>2. \A i \in 1 .. Len(items') : i + 1 \in 1 .. Len(items)
  BY <1>1
<1>3. 1 \in 1 .. Len(items)
  BY <1>1
<1>4. \A i \in 1 .. Len(items') : items'[i].type = items[i + 1].type
  BY <1>1
<1>5. QED
  BY <1>1, <1>2, <1>3, <1>4 DEF Datalasts, Datas

(* is_downloading in terms of the substream alone, whatever has become of  *)
(* its command.                                                            *)
OneOrLast ==
  /\ is_downloading <=> (download # NoDownload \/ Datalasts # {})
  /\ download # NoDownload => Datalasts = {}
  /\ \A i, j \in Datalasts : i = j
LEMMA Substreams == PlayerTypeOK => (OneDownload <=> OneOrLast)
<1>1. SUFFICES ASSUME PlayerTypeOK PROVE OneDownload <=> OneOrLast
  OBVIOUS
<1>2. download.at \in Progress /\ (download.at = "none" <=> download = NoDownload)
  <2>1. NetworkTypes
    BY <1>1, Groups
  <2>2. QED
    BY <2>1 DEF NetworkTypes
<1>3. download # NoDownload <=> Underway \/ download.at = "failed"
  BY <1>2 DEF Underway, Progress
<1>4. QED
  BY <1>3 DEF OneDownload, OneOrLast



(* The download and its parts in the queue, at each of those steps.        *)
LEMMA PartsKept ==
  ASSUME PlayerTypeOK, OneOrLast, PartsInOrder, PlayerNext
  PROVE  OneOrLast' /\ PartsInOrder'
<1>1. /\ items \in Seq(Entry) /\ is_downloading \in BOOLEAN
      /\ writer \in 1 .. FileLen + 1 /\ reader \in 1 .. FileLen + 1 /\ FileLen \in Nat
      /\ download \in [track : MaybeTrack, part : 0 .. FileLen + 1, left : 0 .. 2, at : Progress]
  BY PlayerAssumption DEF PlayerTypeOK
<1>2. Len(items) \in Nat /\ Datas \subseteq 1 .. Len(items) /\ Datalasts \subseteq 1 .. Len(items)
  BY <1>1, LenProperties DEF Datas, Datalasts
<1>3. \A i \in 1 .. Len(items) : items[i].part \in 0 .. FileLen
  <2>1. \A i \in 1 .. Len(items) : items[i] \in Entry
    BY <1>1, ElementOfSeq
  <2>2. QED
    BY <2>1 DEF Entry
<1>4. \A i \in Datas : items[i].part \in 0 .. FileLen /\ i \in Nat
  BY <1>2, <1>3
<1>5. ASSUME NEW x, PlainPush(x)
      PROVE  OneOrLast' /\ PartsInOrder'
  <2>1. x \in Entry /\ x.type # "DATA" /\ x.type # "DATALAST" /\ Push(x)
        /\ UNCHANGED <<is_downloading, download, writer>>
    BY <1>5 DEF PlainPush, Plain
  <2>2. Datas' = Datas /\ Datalasts' = Datalasts
    BY <1>1, <2>1, PushOther
  <2>3. \A i \in Datas : items'[i] = items[i]
    BY <1>1, <1>2, <2>1, Pushed
  <2>4. OneOrLast'
    BY <2>1, <2>2 DEF OneOrLast
  <2>5. PartsInOrder'
    BY <2>1, <2>2, <2>3 DEF PartsInOrder
  <2>6. QED
    BY <2>4, <2>5
<1>6. ASSUME NEW type, Take(type), writer' \in {writer, 1}, UNCHANGED <<is_downloading, download>>,
             type \in Plain
      PROVE  OneOrLast' /\ PartsInOrder'
  <2>1. /\ 1 \notin Datalasts /\ 1 \notin Datas /\ Len(items') \in Nat /\ Len(items) = Len(items') + 1
        /\ Datalasts' \subseteq 1 .. Len(items') /\ Datas' \subseteq 1 .. Len(items')
    BY <1>1, <1>6, TakeOther, Took DEF Plain
  <2>2. \A i \in Datas' : i + 1 \in Datas /\ items'[i] = items[i + 1] /\ i \in Nat
    <3>1. \A i \in 1 .. Len(items') : items'[i] = items[i + 1]
      BY <1>1, <1>6, Took
    <3>2. \A i \in 1 .. Len(items') : i \in Datas' => i + 1 \in Datas
      BY <1>1, <1>6, TakeOther
    <3>3. QED
      BY <2>1, <3>1, <3>2
  <2>3. \A i \in Datalasts' : i + 1 \in Datalasts /\ i \in Nat
    BY <1>1, <1>6, <2>1, TakeOther
  <2>4. Datalasts # {} => Datalasts' # {}
    <3>1. SUFFICES ASSUME NEW i \in Datalasts PROVE Datalasts' # {}
      OBVIOUS
    <3>2. PICK j \in 1 .. Len(items') : i = j + 1
      <4>1. i \in 1 .. Len(items) /\ i # 1
        BY <1>2, <2>1
      <4>2. i - 1 \in 1 .. Len(items') /\ i = (i - 1) + 1
        BY <2>1, <4>1
      <4>3. QED
        BY <4>2
    <3>3. j \in Datalasts'
      BY <1>1, <1>6, <3>2, TakeOther
    <3>4. QED
      BY <3>3
  <2>5. OneOrLast'
    <3>1. \A i, j \in Datalasts' : i = j
      BY <2>3 DEF OneOrLast
    <3>2. Datalasts = {} => Datalasts' = {}
      BY <2>3
    <3>3. QED
      BY <1>6, <2>4, <3>1, <3>2 DEF OneOrLast
  <2>6. writer' \in Nat /\ writer' <= writer
    BY <1>1, <1>6
  <2>7. Datas' # {} => is_downloading'
    BY <1>6, <2>2 DEF PartsInOrder
  <2>8. \A i \in Datas', j \in Datalasts' : i < j
    <3>1. TAKE i \in Datas', j \in Datalasts'
    <3>2. i + 1 < j + 1 /\ i \in Nat /\ j \in Nat
      BY <2>2, <2>3 DEF PartsInOrder
    <3>3. QED
      BY <3>2
  <2>9. \A i, j \in Datas' : i < j => items'[i].part < items'[j].part
    <3>1. TAKE i, j \in Datas'
    <3>2. i \in Nat /\ j \in Nat /\ i + 1 \in Datas /\ j + 1 \in Datas
      BY <2>2
    <3>3. i < j => i + 1 < j + 1
      BY <3>2
    <3>4. QED
      BY <2>2, <3>2, <3>3 DEF PartsInOrder
  <2>10. \A i \in Datas' : writer' <= items'[i].part /\ items'[i].track # None
    <3>1. TAKE i \in Datas'
    <3>2. i + 1 \in Datas /\ items'[i] = items[i + 1]
      BY <2>2
    <3>3. writer <= items[i + 1].part /\ items[i + 1].track # None /\ items[i + 1].part \in 0 .. FileLen
      BY <1>4, <3>2 DEF PartsInOrder
    <3>4. QED
      BY <1>1, <2>6, <3>2, <3>3
  <2>11. download' # NoDownload' =>
           /\ download'.track # None /\ writer' <= download'.part
           /\ \A i \in Datas' : items'[i].part < download'.part
    <3>1. SUFFICES ASSUME download # NoDownload
          PROVE  /\ download.track # None /\ writer' <= download.part
                 /\ \A i \in Datas' : items'[i].part < download.part
      BY <1>6 DEF NoDownload
    <3>2. download.track # None /\ writer <= download.part /\ download.part \in Nat
      BY <1>1, <3>1 DEF PartsInOrder
    <3>3. writer' <= download.part
      BY <1>1, <2>6, <3>2
    <3>4. QED
      BY <2>2, <3>1, <3>2, <3>3 DEF PartsInOrder
  <2>12. PartsInOrder'
    BY <2>7, <2>8, <2>9, <2>10, <2>11 DEF PartsInOrder
  <2>13. QED
    BY <2>5, <2>12
<1>7. ASSUME NoItem
      PROVE  OneOrLast' /\ PartsInOrder'
  <2>1. Datas' = Datas /\ Datalasts' = Datalasts
    BY <1>7 DEF NoItem, Datas, Datalasts
  <2>2. OneOrLast'
    BY <1>7, <2>1 DEF NoItem, OneOrLast
  <2>3. CASE ~is_downloading
    <3>1. Datas = {} /\ download = NoDownload
      BY <2>3 DEF OneOrLast, PartsInOrder
    <3>2. PartsInOrder'
      BY <1>7, <2>1, <3>1 DEF NoItem, PartsInOrder, NoDownload
    <3>3. QED
      BY <2>2, <3>2
  <2>4. CASE writer' \in {writer, 1}
    <3>1. writer' \in Nat /\ writer' <= writer
      BY <1>1, <2>4
    <3>2. \A i \in Datas : writer' <= items[i].part
      <4>1. TAKE i \in Datas
      <4>2. writer <= items[i].part /\ items[i].part \in Nat
        BY <1>4 DEF PartsInOrder
      <4>3. QED
        BY <1>1, <3>1, <4>2
    <3>3. download # NoDownload => writer' <= download.part
      <4>1. download # NoDownload => writer <= download.part
        BY DEF PartsInOrder
      <4>2. download.part \in Nat
        BY <1>1
      <4>3. QED
        BY <1>1, <3>1, <4>1, <4>2
    <3>4. UNCHANGED <<items, is_downloading, download>>
      BY <1>7 DEF NoItem
    <3>5. PartsInOrder'
      BY <2>1, <3>2, <3>3, <3>4 DEF PartsInOrder, NoDownload
    <3>6. QED
      BY <2>2, <3>5
  <2>5. QED
    BY <1>7, <2>3, <2>4 DEF NoItem
<1>8. ASSUME PartArrives
      PROVE  OneOrLast' /\ PartsInOrder'
  <2> DEFINE x == [type |-> "DATA", track |-> download.track, part |-> download.part]
  <2>1. download # NoDownload /\ download.part <= FileLen
    BY <1>8 DEF PartArrives, NoDownload
  <2>2. x \in Entry /\ x.type = "DATA" /\ x.part = download.part /\ x.track = download.track
    BY <1>1, <2>1 DEF Entry, ItemType
  <2>3. Push(x) /\ UNCHANGED <<is_downloading, writer>>
    BY <1>8 DEF PartArrives, buffers, rbuf
  <2> HIDE DEF x
  <2>4. Datas' = Datas \union {Len(items) + 1} /\ Datalasts' = Datalasts
    BY <1>1, <2>2, <2>3, PushOther
  <2>5. items'[Len(items) + 1] = x /\ \A i \in Datas : items'[i] = items[i]
    BY <1>1, <1>2, <2>2, <2>3, Pushed
  <2>6. /\ download'.track = download.track /\ download'.part = download.part + 1
        /\ download.part \in Nat
    BY <1>1, <1>8 DEF PartArrives
  <2>7. download' # NoDownload'
    <3>1. download'.part # 0
      BY <2>6
    <3>2. QED
      BY <3>1 DEF NoDownload
  <2>8. is_downloading /\ Datalasts = {}
    BY <2>1 DEF OneOrLast
  <2>9. OneOrLast'
    BY <2>3, <2>4, <2>7, <2>8 DEF OneOrLast
  <2>10. /\ download.track # None /\ writer <= download.part
         /\ \A i \in Datas : items[i].part < download.part
    BY <2>1 DEF PartsInOrder
  <2>11. \A i, j \in Datas' : i < j => items'[i].part < items'[j].part
    <3>1. TAKE i, j \in Datas'
    <3>2. SUFFICES ASSUME i < j PROVE items'[i].part < items'[j].part
      OBVIOUS
    <3>3. i \in Datas
      BY <1>2, <2>4, <3>2
    <3>4. CASE j \in Datas
      BY <2>5, <3>2, <3>3, <3>4 DEF PartsInOrder
    <3>5. CASE j = Len(items) + 1
      BY <2>2, <2>5, <2>10, <3>3, <3>5
    <3>6. QED
      BY <2>4, <3>4, <3>5
  <2>12. \A i \in Datas' : writer' <= items'[i].part /\ items'[i].track # None
    <3>1. \A i \in Datas : writer <= items[i].part /\ items[i].track # None
      BY DEF PartsInOrder
    <3>2. QED
      BY <2>2, <2>3, <2>4, <2>5, <2>10, <3>1
  <2>13. writer' <= download'.part /\ \A i \in Datas' : items'[i].part < download'.part
    <3>1. writer' <= download'.part
      BY <1>1, <2>3, <2>6, <2>10
    <3>2. ASSUME NEW i \in Datas' PROVE items'[i].part < download'.part
      <4>1. CASE i = Len(items) + 1
        BY <2>2, <2>5, <2>6, <4>1
      <4>2. CASE i \in Datas
        <5>1. items'[i] = items[i] /\ items[i].part < download.part /\ items[i].part \in Nat
          BY <1>4, <2>5, <2>10, <4>2
        <5>2. QED
          BY <2>6, <5>1
      <4>3. QED
        BY <2>4, <4>1, <4>2
    <3>3. QED
      BY <3>1, <3>2
  <2>14. PartsInOrder'
    BY <2>3, <2>4, <2>6, <2>8, <2>10, <2>11, <2>12, <2>13 DEF PartsInOrder
  <2>15. QED
    BY <2>9, <2>14
<1>9. ASSUME DownloadEnds
      PROVE  OneOrLast' /\ PartsInOrder'
  <2> DEFINE x == Item("DATALAST", None)
  <2>1. x \in Entry /\ x.type = "DATALAST"
    BY <1>1 DEF Item, Entry, ItemType, MaybeTrack
  <2>2. Push(x) /\ UNCHANGED <<is_downloading, writer>> /\ download' = NoDownload /\ download # NoDownload
    BY <1>9 DEF DownloadEnds, NoDownload, buffers, rbuf
  <2> HIDE DEF x
  <2>3. Datas' = Datas /\ Datalasts' = Datalasts \union {Len(items) + 1}
    BY <1>1, <2>1, <2>2, PushOther
  <2>4. \A i \in Datas : items'[i] = items[i]
    BY <1>1, <1>2, <2>1, <2>2, Pushed
  <2>5. is_downloading /\ Datalasts = {}
    BY <2>2 DEF OneOrLast
  <2>6. NoDownload' = NoDownload
    BY DEF NoDownload
  <2>7. OneOrLast'
    BY <2>2, <2>3, <2>5, <2>6 DEF OneOrLast
  <2>8. \A i \in Datas', j \in Datalasts' : i < j
    BY <1>2, <2>3, <2>5
  <2>9. PartsInOrder'
    BY <2>2, <2>3, <2>4, <2>5, <2>6, <2>8 DEF PartsInOrder
  <2>10. QED
    BY <2>7, <2>9
<1>10. ASSUME ItemData
       PROVE  OneOrLast' /\ PartsInOrder'
  <2>1. Take("DATA") /\ writer' = writer + 1 /\ UNCHANGED <<is_downloading, download>>
    BY <1>10 DEF ItemData, network
  <2>2. /\ 1 \notin Datalasts /\ 1 \in Datas /\ Len(items') \in Nat /\ Len(items) = Len(items') + 1
        /\ Datalasts' \subseteq 1 .. Len(items') /\ Datas' \subseteq 1 .. Len(items')
    BY <1>1, <2>1, TakeOther, Took
  <2>3. \A i \in Datas' : i + 1 \in Datas /\ items'[i] = items[i + 1] /\ i \in Nat /\ 1 < i + 1
    BY <1>1, <2>1, <2>2, TakeOther, Took
  <2>4. \A i \in Datalasts' : i + 1 \in Datalasts /\ i \in Nat
    BY <1>1, <2>1, <2>2, TakeOther
  <2>5. Datalasts # {} => Datalasts' # {}
    <3>1. SUFFICES ASSUME NEW i \in Datalasts PROVE Datalasts' # {}
      OBVIOUS
    <3>2. PICK j \in 1 .. Len(items') : i = j + 1
      <4>1. i \in 1 .. Len(items) /\ i # 1
        BY <1>2, <2>2
      <4>2. i - 1 \in 1 .. Len(items') /\ i = (i - 1) + 1
        BY <2>2, <4>1
      <4>3. QED
        BY <4>2
    <3>3. j \in Datalasts'
      BY <1>1, <2>1, <3>2, TakeOther
    <3>4. QED
      BY <3>3
  <2>6. OneOrLast'
    <3>1. \A i, j \in Datalasts' : i = j
      BY <2>4 DEF OneOrLast
    <3>2. Datalasts = {} => Datalasts' = {}
      BY <2>4
    <3>3. QED
      BY <2>1, <2>5, <3>1, <3>2 DEF OneOrLast
  <2>7. Datas' # {} => is_downloading'
    BY <2>1, <2>3 DEF PartsInOrder
  <2>8. \A i \in Datas', j \in Datalasts' : i < j
    <3>1. TAKE i \in Datas', j \in Datalasts'
    <3>2. i + 1 < j + 1 /\ i \in Nat /\ j \in Nat
      BY <2>3, <2>4 DEF PartsInOrder
    <3>3. QED
      BY <3>2
  <2>9. \A i, j \in Datas' : i < j => items'[i].part < items'[j].part
    <3>1. TAKE i, j \in Datas'
    <3>2. i \in Nat /\ j \in Nat /\ i + 1 \in Datas /\ j + 1 \in Datas
      BY <2>3
    <3>3. i < j => i + 1 < j + 1
      BY <3>2
    <3>4. QED
      BY <2>3, <3>2, <3>3 DEF PartsInOrder
  <2>10. \A i \in Datas' : writer' <= items'[i].part /\ items'[i].track # None
    <3>1. TAKE i \in Datas'
    <3>2. i + 1 \in Datas /\ items'[i] = items[i + 1] /\ 1 < i + 1
      BY <2>3
    <3>3. writer <= items[1].part /\ items[1].part < items[i + 1].part /\ items[i + 1].track # None
      BY <2>2, <3>2 DEF PartsInOrder
    <3>4. items[1].part \in 0 .. FileLen /\ items[i + 1].part \in 0 .. FileLen
      BY <1>4, <2>2, <3>2
    <3>5. writer + 1 <= items[i + 1].part
      BY <1>1, <3>3, <3>4
    <3>6. QED
      BY <2>1, <3>2, <3>3, <3>5
  <2>11. download' # NoDownload' =>
           /\ download'.track # None /\ writer' <= download'.part
           /\ \A i \in Datas' : items'[i].part < download'.part
    <3>1. SUFFICES ASSUME download # NoDownload
          PROVE  /\ download.track # None /\ writer' <= download.part
                 /\ \A i \in Datas' : items'[i].part < download.part
      BY <2>1 DEF NoDownload
    <3>2. download.track # None /\ writer <= items[1].part /\ items[1].part < download.part
      BY <2>2, <3>1 DEF PartsInOrder
    <3>3. download.part \in Nat /\ items[1].part \in 0 .. FileLen
      BY <1>1, <1>4, <2>2
    <3>4. writer' <= download.part
      BY <1>1, <2>1, <3>2, <3>3
    <3>5. QED
      BY <2>3, <3>1, <3>2, <3>4 DEF PartsInOrder
  <2>12. PartsInOrder'
    BY <2>7, <2>8, <2>9, <2>10, <2>11 DEF PartsInOrder
  <2>13. QED
    BY <2>6, <2>12
<1>11. ASSUME ItemDatalast
       PROVE  OneOrLast' /\ PartsInOrder'
  <2>1. Take("DATALAST") /\ is_downloading' = FALSE /\ UNCHANGED download
    BY <1>11 DEF ItemDatalast, network
  <2>2. 1 \in Datalasts /\ Len(items') \in Nat
        /\ Datalasts' \subseteq 1 .. Len(items') /\ Datas' \subseteq 1 .. Len(items')
    BY <1>1, <2>1, TakeOther, Took
  <2>3. download = NoDownload /\ NoDownload' = NoDownload
    BY <2>2 DEF OneOrLast, NoDownload
  <2>4. Datalasts' = {}
    <3>1. \A i \in Datalasts' : i + 1 \in Datalasts /\ i \in Nat /\ i # 0
      BY <1>1, <2>1, <2>2, TakeOther
    <3>2. \A i \in Datalasts' : i + 1 = 1
      BY <2>2, <3>1 DEF OneOrLast
    <3>3. QED
      BY <3>1, <3>2
  <2>5. Datas' = {}
    <3>1. \A i \in Datas' : i + 1 \in Datas /\ i \in Nat
      BY <1>1, <2>1, <2>2, TakeOther
    <3>2. \A i \in Datas' : i + 1 < 1
      BY <2>2, <3>1 DEF PartsInOrder
    <3>3. QED
      BY <3>1, <3>2
  <2>6. OneOrLast'
    BY <2>1, <2>3, <2>4 DEF OneOrLast
  <2>7. PartsInOrder'
    BY <2>1, <2>3, <2>4, <2>5 DEF PartsInOrder
  <2>8. QED
    BY <2>6, <2>7
<1>12. ASSUME ReadRequests
       PROVE  OneOrLast' /\ PartsInOrder'
  <2>1. /\ ~is_downloading /\ track # None /\ is_downloading' = TRUE /\ UNCHANGED items
        /\ writer' = FirstMissing
        /\ download' = [track |-> track, part |-> FirstMissing, left |-> 2, at |-> "posted"]
    BY <1>12 DEF ReadRequests, Substream, queue
  <2>2. Datas' = {} /\ Datalasts' = {}
    <3>1. Datas = {} /\ Datalasts = {}
      BY <2>1 DEF OneOrLast, PartsInOrder
    <3>2. QED
      BY <2>1, <3>1 DEF Datas, Datalasts
  <2>3. FirstMissing \in Nat
    BY <1>1, MissesWithin
  <2>4. download' # NoDownload'
    <3>1. download'.left # 0
      BY <2>1
    <3>2. QED
      BY <3>1 DEF NoDownload
  <2>5. OneOrLast'
    BY <2>1, <2>2, <2>4 DEF OneOrLast
  <2>6. PartsInOrder'
    <3>1. download'.track # None /\ writer' <= download'.part
      BY <2>1, <2>3
    <3>2. QED
      BY <2>2, <3>1 DEF PartsInOrder
  <2>7. QED
    BY <2>5, <2>6
<1>13. ASSUME NEW type, PlainTake(type)
       PROVE  OneOrLast' /\ PartsInOrder'
  BY <1>6, <1>13 DEF PlainTake
<1>14. ASSUME Reported
       PROVE  OneOrLast' /\ PartsInOrder'
  <2>1. /\ UNCHANGED <<items, is_downloading, writer>> /\ download # NoDownload /\ download' # NoDownload
        /\ download'.track = download.track /\ download'.part = download.part
    BY <1>14, Reports DEF queue, buffers, rbuf
  <2>2. Datas' = Datas /\ Datalasts' = Datalasts /\ NoDownload' = NoDownload
    BY <2>1 DEF Datas, Datalasts, NoDownload
  <2>3. OneOrLast'
    BY <2>1, <2>2 DEF OneOrLast
  <2>4. PartsInOrder'
    BY <2>1, <2>2 DEF PartsInOrder
  <2>5. QED
    BY <2>3, <2>4
<1>15. QED
  BY <1>5, <1>7, <1>8, <1>9, <1>10, <1>11, <1>12, <1>13, <1>14, DownloadSteps

LEMMA DownloadKept ==
  ASSUME PlayerTypeOK, PlayerTypeOK', OneDownload, PartsInOrder, PlayerNext
  PROVE  OneDownload' /\ PartsInOrder'
<1>1. (OneDownload <=> OneOrLast)'
  BY Substreams, PTL
<1>2. QED
  BY <1>1, Substreams, PartsKept
-----------------------------------------------------------------------------
(* PCM only gets less, unless player_main() decodes.                       *)
LEMMA PcmFalls ==
  ASSUME PlayerTypeOK, PlayerNext
  PROVE  (pcm' \in Nat /\ pcm' <= pcm) \/ Decoded
<1> DEFINE Goal == pcm' \in Nat /\ pcm' <= pcm
<1>1. pcm \in Nat
  BY DEF PlayerTypeOK
<1>2. UNCHANGED pcm => Goal
  BY <1>1
<1>3. Application \/ AppLoads \/ Network => UNCHANGED pcm
  BY DEF Application, AppLoad, AppUnload, AppPlay, AppSeek, AppSeeks, AppSeekRefused,
       AppSeekCrashes, Command, AppLoads, Network,
     KeyArrives, Requested, SubstreamSent, SubstreamPostponed, SubstreamFails,
       ConnectionLost, PartArrives, DownloadEnds, EofArrives, buffers
<1>4. Wake \/ ScheduleReturns => UNCHANGED pcm
  BY DEF Wake, ScheduleReturns, buffers
<1>5. DeliverPcm => Goal
  BY <1>1 DEF DeliverPcm, Deliverable
<1>6. ItemUnload => Goal
  BY <1>1 DEF ItemUnload
<1>7. ItemLoad \/ ItemKey \/ ItemPlay \/ ItemPause \/ ItemEof \/ ItemSeek \/ ItemData \/ ItemDatalast
        => UNCHANGED pcm
  BY DEF ItemLoad, ItemKey, ItemPlay, ItemPause, ItemEof, ItemSeek, ItemData, ItemDatalast, buffers
<1>8. SeekWaits \/ Seeks \/ ReadRequests \/ ReadWaits \/ GoesAstray \/ OpenGoesOn \/ Opened
        => UNCHANGED pcm
  BY DEF SeekWaits, Seeks, ReadRequests, Substream, ReadWaits, GoesAstray, OpenGoesOn, Opened, buffers
<1>9. ASSUME NEW has \in BOOLEAN, DecodedLast(has) \/ OpenFails(has) \/ SeekReturns(has) PROVE Goal
  BY <1>1, <1>9 DEF DecodedLast, OpenFails, SeekReturns
<1>10. QED
  BY <1>2, <1>3, <1>4, <1>5, <1>6, <1>7, <1>8, <1>9
     DEF PlayerNext, PlayerThread, Process, Library

LEMMA DecodeKept ==
  ASSUME PlayerTypeOK, DecodeIsOutermost, PlayerNext
  PROVE  DecodeIsOutermost'
<1>1. calls \in Seq(Call) /\ pcm \in Nat /\ PcmLimit \in Nat /\ vf \in Nat
  BY PlayerAssumption DEF PlayerTypeOK
<1>2. Len(calls) \in Nat
  BY <1>1, LenProperties
<1>3. (pcm' \in Nat /\ pcm' <= pcm) \/ Decoded
  BY PcmFalls
<1>4. \A i \in 1 .. Len(calls) : calls[i].fn = "decode" /\ ~Decoded
                                 => i = 1 /\ calls[i].in = "read" /\ pcm' < PcmLimit
  BY <1>1, <1>3 DEF DecodeIsOutermost
<1>5. mode = "library" => calls # <<>>
  BY DEF PlayerTypeOK
<1>6. CASE UNCHANGED calls /\ ~Decoded
  BY <1>4, <1>6 DEF DecodeIsOutermost
<1>7. ASSUME NEW c, Opens(c), ~Decoded, c.fn # "decode"
      PROVE  DecodeIsOutermost'
  <2>1. /\ Len(calls') = Len(calls) + 1 /\ calls'[Len(calls) + 1] = c
        /\ \A i \in 1 .. Len(calls) : calls'[i] = calls[i]
    BY <1>1, <1>7, Stacked DEF Opens
  <2>2. \A i \in 1 .. Len(calls') : i = Len(calls) + 1 \/ i \in 1 .. Len(calls)
    BY <1>2, <2>1
  <2>3. QED
    BY <1>4, <1>7, <2>1, <2>2 DEF DecodeIsOutermost
<1>8. CASE Opens(Frame("decode", vf)) /\ ScheduleReturns /\ calls = <<>>
  <2> DEFINE c == Frame("decode", vf)
  <2>1. /\ Len(calls') = Len(calls) + 1 /\ calls'[Len(calls) + 1] = c
    BY <1>1, <1>8, Stacked DEF Opens
  <2>2. Len(calls) = 0
    BY <1>8
  <2>3. calls'[1].in = "read"
    BY <2>1, <2>2 DEF Frame
  <2>4. pcm' = pcm /\ mode' = "library"
    BY <1>8 DEF ScheduleReturns, Opens, buffers
  <2>5. pcm' < PcmLimit
    BY <1>8, <2>4 DEF ScheduleReturns, Decode
  <2>6. \A i \in 1 .. Len(calls') : i = 1
    BY <2>1, <2>2
  <2>7. QED
    BY <2>3, <2>5, <2>6 DEF DecodeIsOutermost
<1>9. ASSUME mode = "library", ~Decoded,
             NEW c \in Call, GoesOn(c), c.in = Top.in \/ Top.in = "seek" \/ Top.fn = "open"
      PROVE  DecodeIsOutermost'
  <2>1. /\ Len(calls) \in Nat \ {0} /\ Pop \in Seq(Call) /\ Len(Pop) = Len(calls) - 1
        /\ \A i \in 1 .. Len(Pop) : Pop[i] = calls[i]
    BY <1>1, <1>5, <1>9, Stack
  <2>2. /\ Len(calls') = Len(Pop) + 1 /\ calls'[Len(Pop) + 1] = c
        /\ \A i \in 1 .. Len(Pop) : calls'[i] = Pop[i]
    BY <1>9, <2>1, Stacked DEF GoesOn
  <2>3. \A i \in 1 .. Len(calls') : i = Len(calls) \/ (i \in 1 .. Len(Pop) /\ i \in 1 .. Len(calls))
    BY <2>1, <2>2
  <2>4. calls'[Len(calls)] = c /\ Len(calls) \in 1 .. Len(calls) /\ Top = calls[Len(calls)]
    BY <2>1, <2>2 DEF Top
  <2>5. c.fn = "decode" => Len(calls) = 1 /\ c.in = "read" /\ pcm' < PcmLimit
    BY <1>4, <1>9, <2>4 DEF GoesOn
  <2>6. \A i \in 1 .. Len(Pop) : calls'[i] = calls[i] /\ i \in 1 .. Len(calls)
    BY <2>1, <2>2
  <2>7. QED
    BY <1>4, <1>9, <2>3, <2>4, <2>5, <2>6 DEF DecodeIsOutermost
<1>10. CASE Decoded /\ DecodesOn
  <2>1. mode = "library"
    BY <1>10 DEF Decoded, ReadReturns, InCallback
  <2>2. /\ Len(calls) \in Nat \ {0} /\ Pop \in Seq(Call) /\ Len(Pop) = Len(calls) - 1
    BY <1>1, <1>5, <2>1, Stack
  <2>3. Len(calls) \in 1 .. Len(calls) /\ Top = calls[Len(calls)]
    BY <2>2 DEF Top
  <2>4. Len(calls) = 1
    BY <1>10, <2>3 DEF DecodesOn, DecodeIsOutermost
  <2>5. Len(Pop) = 0
    BY <2>2, <2>4
  <2>6. CASE calls' = Pop
    BY <2>5, <2>6 DEF DecodeIsOutermost
  <2>7. CASE calls' = Append(Pop, Frame("decode", vf)) /\ pcm' < PcmLimit
    <3>1. Frame("decode", vf) \in Call
      BY <1>1 DEF Frame, Call
    <3>2. Len(calls') = 1 /\ calls'[1] = Frame("decode", vf)
      BY <2>2, <2>5, <2>7, <3>1, Stacked
    <3>3. \A i \in 1 .. Len(calls') : i = 1
      BY <3>2
    <3>4. QED
      BY <2>7, <3>2, <3>3 DEF DecodeIsOutermost, Frame
  <2>8. QED
    BY <1>10, <2>6, <2>7 DEF DecodesOn, Decode
<1>11. CASE mode = "library" /\ calls' = Pop /\ ~Decoded
  <2>1. /\ Len(calls) \in Nat \ {0} /\ Len(Pop) = Len(calls) - 1
        /\ \A i \in 1 .. Len(Pop) : Pop[i] = calls[i]
    BY <1>1, <1>5, <1>11, Stack
  <2>2. \A i \in 1 .. Len(Pop) : i \in 1 .. Len(calls)
    BY <2>1
  <2>3. QED
    BY <1>4, <1>11, <2>1, <2>2 DEF DecodeIsOutermost
<1>12. CASE Decoded
  BY <1>10, <1>12 DEF Decoded, DecodesOn, ReadReturns
<1>13. CASE ~Decoded
  <2>1. Frame("open", vf').fn # "decode" /\ Frame("seek", vf).fn # "decode"
    BY DEF Frame
  <2>2. QED
    BY <1>6, <1>7, <1>8, <1>9, <1>11, <1>13, <2>1, CallSteps
<1>14. QED
  BY <1>12, <1>13

(* No item is left lying.                                                  *)
LEMMA NoneIsLost ==
  ASSUME PlayerTypeOK, NoLostItem, DecodeIsOutermost, PlayerNext
  PROVE  NoLostItem'
<1> DEFINE Outer(s) == \E i \in 1 .. Len(s) : s[i].fn \in {"open", "seek"}
<1>1. /\ calls \in Seq(Call) /\ items \in Seq(Entry) /\ vf \in Nat /\ decoders \subseteq Nat \ {0}
      /\ IsFiniteSet(decoders)
  BY DEF PlayerTypeOK
<1>2. Len(calls) \in Nat /\ (mode = "library" => calls # <<>>)
  BY <1>1, LenProperties DEF PlayerTypeOK
<1>3. ASSUME NEW x \in Entry, Push(x) PROVE NoLostItem'
  BY <1>3 DEF Push, NoLostItem
<1>4. UNCHANGED <<queue, calls>> /\ (mode' = mode \/ mode = "library") => NoLostItem'
  BY DEF queue, NoLostItem
<1>5. mode' \notin {"wait", "library"} => NoLostItem'
  BY DEF NoLostItem
<1>6. items' = <<>> => NoLostItem'
  BY DEF NoLostItem
<1>7. CASE Application \/ AppLoads
  <2>1. AppSeek \/ AppSeekRefused \/ AppSeekCrashes =>
          UNCHANGED <<queue, calls>> /\ (mode' = mode \/ mode' = "astray")
    BY DEF AppSeek, AppSeekRefused, AppSeekCrashes
  <2>2. ~(AppSeek \/ AppSeekRefused \/ AppSeekCrashes) => item_posted'
    BY <1>7 DEF Application, AppLoad, AppUnload, AppPlay, AppSeeks, Command, AppLoads, Push
  <2>3. QED
    BY <1>4, <1>5, <2>1, <2>2 DEF NoLostItem
<1>8. CASE Network
  <2>1. PartArrives \/ DownloadEnds \/ EofArrives => item_posted'
    BY DEF PartArrives, DownloadEnds, EofArrives, Push
  <2>2. ASSUME NEW t \in Track, KeyArrives(t) PROVE item_posted' \/ UNCHANGED <<queue, calls, mode>>
    BY <2>2 DEF KeyArrives, Push
  <2>3. Reported => UNCHANGED <<queue, calls, mode>>
    BY Reports
  <2>4. QED
    BY <1>4, <1>8, <2>1, <2>2, <2>3 DEF Network, Reported, NoLostItem
<1>9. CASE Wake
  BY <1>5, <1>9 DEF Wake
<1>10. CASE DeliverPcm
  <2>1. mode' = "drain" \/ UNCHANGED <<queue, calls, mode>>
    BY <1>10 DEF DeliverPcm, queue
  <2>2. QED
    BY <1>4, <1>5, <2>1
<1>11. CASE ScheduleReturns
  BY <1>6, <1>11 DEF ScheduleReturns, queue
<1>12. CASE ItemLoad \/ ItemUnload \/ ItemPlay \/ ItemPause \/ ItemEof \/ ItemData \/ ItemDatalast
  <2>1. mode' = "drain"
    BY <1>12 DEF ItemLoad, ItemUnload, ItemPlay, ItemPause, ItemEof, ItemData, ItemDatalast, Take
  <2>2. QED
    BY <1>5, <2>1
<1>13. ASSUME NEW c \in Call, c.fn \in {"open", "seek"}, calls' = Append(calls, c)
       PROVE  NoLostItem'
  <2>1. Len(calls') = Len(calls) + 1 /\ calls'[Len(calls) + 1] = c
    BY <1>1, <1>13, Stacked
  <2>2. Len(calls) + 1 \in 1 .. Len(calls')
    BY <1>2, <2>1
  <2>3. QED
    BY <1>13, <2>1, <2>2 DEF NoLostItem
<1>14. CASE ItemKey
  <2>1. vf' \in Nat
    BY <1>1, <1>14, Allocates DEF ItemKey
  <2>2. Frame("open", vf') \in Call /\ Frame("open", vf').fn = "open"
    BY <2>1 DEF Frame, Call
  <2>3. QED
    BY <1>13, <1>14, <2>2 DEF ItemKey
<1>15. CASE ItemSeek
  <2>1. Frame("seek", vf) \in Call /\ Frame("seek", vf).fn = "seek"
    BY <1>1 DEF Frame, Call
  <2>2. calls' = Append(calls, Frame("seek", vf)) \/ mode' = "drain"
    BY <1>15 DEF ItemSeek, Take
  <2>3. QED
    BY <1>5, <1>13, <2>1, <2>2
<1>16. CASE SeekWaits \/ ReadWaits \/ GoesAstray
  BY <1>4, <1>16 DEF SeekWaits, ReadWaits, GoesAstray, InCallback
<1>17. ASSUME mode = "library", UNCHANGED queue, NEW c \in Call, c.fn = Top.fn, calls' = Append(Pop, c)
       PROVE  NoLostItem'
  <2>1. /\ Len(calls) \in Nat \ {0} /\ Pop \in Seq(Call) /\ Len(Pop) = Len(calls) - 1
        /\ \A i \in 1 .. Len(Pop) : Pop[i] = calls[i]
    BY <1>1, <1>2, <1>17, Stack
  <2>2. /\ Len(calls') = Len(Pop) + 1 /\ calls'[Len(Pop) + 1] = c
        /\ \A i \in 1 .. Len(Pop) : calls'[i] = Pop[i]
    BY <1>17, <2>1, Stacked
  <2>3. Len(calls') = Len(calls) /\ calls'[Len(calls)].fn = calls[Len(calls)].fn
    BY <1>17, <2>1, <2>2 DEF Top
  <2>4. \A i \in 1 .. Len(calls) : calls'[i].fn = calls[i].fn
    <3>1. \A i \in 1 .. Len(calls) : i = Len(calls) \/ i \in 1 .. Len(Pop)
      BY <2>1
    <3>2. QED
      BY <2>1, <2>2, <2>3, <3>1
  <2>5. QED
    BY <1>17, <2>3, <2>4 DEF NoLostItem, queue
<1>18. CASE Seeks \/ ReadRequests \/ OpenGoesOn
  <2>1. mode = "library" /\ UNCHANGED queue
    BY <1>18 DEF Seeks, ReadRequests, Substream, OpenGoesOn, ReadReturns, InCallback
  <2>2. Top \in Call
    BY <1>1, <1>2, <2>1, Stack
  <2>3. PICK c \in Call : c.fn = Top.fn /\ calls' = Append(Pop, c)
    <3>1. Top.seeks + 1 \in Nat
      BY <2>2 DEF Call
    <3>2. /\ [Top EXCEPT !.in = "read"] \in Call /\ [Top EXCEPT !.in = "read"].fn = Top.fn
          /\ [Top EXCEPT !.did = TRUE] \in Call /\ [Top EXCEPT !.did = TRUE].fn = Top.fn
      BY <2>2 DEF Call
    <3>3. /\ [Top EXCEPT !.in = "seek", !.did = FALSE, !.seeks = @ + 1] \in Call
          /\ [Top EXCEPT !.in = "seek", !.did = FALSE, !.seeks = @ + 1].fn = Top.fn
      BY <2>2, <3>1 DEF Call
    <3>4. QED
      BY <1>18, <3>2, <3>3 DEF Seeks, ReadRequests, Substream, OpenGoesOn
  <2>4. QED
    BY <1>17, <2>1, <2>3
<1>19. CASE Decoded
  <2>1. mode = "library" /\ Top.fn = "decode" /\ UNCHANGED queue
    BY <1>19 DEF Decoded, ReadReturns, InCallback
  <2>2. Len(calls) \in Nat \ {0} /\ Top = calls[Len(calls)]
    BY <1>1, <1>2, <2>1, Stack DEF Top
  <2>3. Len(calls) = 1
    BY <2>1, <2>2 DEF DecodeIsOutermost
  <2>4. items = <<>> \/ item_posted
    <3>1. \A i \in 1 .. Len(calls) : calls[i].fn = "decode"
      BY <2>1, <2>2, <2>3
    <3>2. QED
      BY <2>1, <3>1 DEF NoLostItem
  <2>5. QED
    BY <2>1, <2>4 DEF NoLostItem, queue
<1>20. CASE Opened
  BY <1>5, <1>20 DEF Opened
<1>21. ASSUME NEW has \in BOOLEAN, DecodedLast(has) \/ OpenFails(has) \/ SeekReturns(has)
       PROVE  NoLostItem'
  <2>1. item_posted' \/ mode' = "drain"
    BY <1>21 DEF DecodedLast, OpenFails, SeekReturns, Push
  <2>2. QED
    BY <2>1 DEF NoLostItem
<1>22. QED
  BY <1>7, <1>8, <1>9, <1>10, <1>11, <1>12, <1>14, <1>15, <1>16, <1>18, <1>19, <1>20, <1>21
     DEF PlayerNext, PlayerThread, Process, Library

LEMMA BuffersTyped ==
  ASSUME PlayerTypeOK, DecodeIsOutermost, PartsInOrder, PlayerNext
  PROVE  BufferTypes'
<1>1. BufferTypes /\ QueueTypes /\ FileLen \in Nat \ {0} /\ PcmLimit \in Nat \ {0}
  BY Groups, PlayerAssumption
<1> DEFINE Cells == [track : MaybeTrack, part : 0 .. FileLen]
<1>2. /\ ogg \in [1 .. FileLen -> Cells] /\ reader \in 1 .. FileLen + 1
      /\ writer \in 1 .. FileLen + 1 /\ pcm \in 0 .. PcmLimit
  BY <1>1 DEF BufferTypes
<1>3. UNCHANGED <<rbuf, pcm>> => BufferTypes'
  BY <1>1 DEF rbuf, BufferTypes
<1>4. 1 \in 1 .. FileLen + 1 /\ EmptyFile \in [1 .. FileLen -> Cells] /\ 0 \in 0 .. PcmLimit
  BY <1>1 DEF EmptyFile, Nothing, MaybeTrack
<1>5. Application \/ AppLoads \/ Network => UNCHANGED <<rbuf, pcm>>
  BY DEF Application, AppLoad, AppUnload, AppPlay, AppSeek, AppSeeks, AppSeekRefused,
       AppSeekCrashes, Command, AppLoads, Network,
     KeyArrives, Requested, SubstreamSent, SubstreamPostponed, SubstreamFails,
       ConnectionLost, PartArrives, DownloadEnds, EofArrives, buffers
<1>6. Wake \/ ScheduleReturns => UNCHANGED <<rbuf, pcm>>
  BY DEF Wake, ScheduleReturns, buffers
<1>7. DeliverPcm => BufferTypes'
  <2>1. SUFFICES ASSUME DeliverPcm PROVE BufferTypes'
    OBVIOUS
  <2>2. pcm' \in 0 .. PcmLimit
    BY <1>1, <1>2, <2>1 DEF DeliverPcm, Deliverable
  <2>3. QED
    BY <1>1, <1>4, <2>1, <2>2 DEF DeliverPcm, BufferTypes
<1>8. ItemLoad \/ ItemUnload => BufferTypes'
  BY <1>1, <1>4 DEF ItemLoad, ItemUnload, BufferTypes
<1>9. ItemKey \/ ItemPlay \/ ItemPause \/ ItemEof \/ ItemSeek \/ ItemDatalast => UNCHANGED <<rbuf, pcm>>
  BY DEF ItemKey, ItemPlay, ItemPause, ItemEof, ItemSeek, ItemDatalast, buffers
<1>10. ItemData => BufferTypes'
  <2>1. SUFFICES ASSUME ItemData PROVE BufferTypes'
    OBVIOUS
  <2>2. Take("DATA")
    BY <2>1 DEF ItemData
  <2>3. 1 \in Datas /\ Head(items) = items[1] /\ items[1] \in Entry
    BY <1>1, <2>2, TakeOther, Took DEF QueueTypes
  <2>4. writer <= items[1].part /\ items[1].part \in 0 .. FileLen /\ items[1].track \in MaybeTrack
    BY <2>3 DEF PartsInOrder, Entry
  <2>5. writer + 1 \in 1 .. FileLen + 1
    BY <1>1, <1>2, <2>4
  <2>6. ogg' \in [1 .. FileLen -> Cells]
    BY <1>2, <2>1, <2>3, <2>4 DEF ItemData
  <2>7. QED
    BY <1>2, <2>1, <2>5, <2>6 DEF ItemData, BufferTypes
<1>11. SeekWaits \/ ReadWaits \/ GoesAstray => UNCHANGED <<rbuf, pcm>>
  BY DEF SeekWaits, ReadWaits, GoesAstray, buffers
<1>12. Seeks => BufferTypes'
  <2>1. SUFFICES ASSUME Seeks PROVE BufferTypes'
    OBVIOUS
  <2>2. reader' \in 1 .. FileLen + 1 /\ writer' \in 1 .. FileLen + 1
    BY <1>1, <2>1 DEF Seeks
  <2>3. QED
    BY <1>2, <2>1, <2>2 DEF Seeks, BufferTypes
<1>13. ReadRequests => BufferTypes'
  <2>1. FirstMissing \in 1 .. FileLen + 1
    BY <1>2, MissesWithin
  <2>2. QED
    BY <1>2, <2>1 DEF ReadRequests, Substream, BufferTypes
<1>14. ASSUME NEW fn, NEW has, ReadReturns(fn, has)
       PROVE  reader' \in 1 .. FileLen + 1 /\ UNCHANGED <<ogg, writer>>
  <2>1. has => reader <= FileLen
    BY <1>14 DEF ReadReturns, IsPresent
  <2>2. has => reader + 1 \in 1 .. FileLen + 1
    BY <1>1, <1>2, <2>1
  <2>3. QED
    BY <1>2, <1>14, <2>2 DEF ReadReturns
<1>15. OpenGoesOn \/ Opened => BufferTypes'
  BY <1>2, <1>14 DEF OpenGoesOn, Opened, BufferTypes
<1>16. ASSUME NEW has \in BOOLEAN, DecodedLast(has) \/ OpenFails(has) \/ SeekReturns(has)
       PROVE  BufferTypes'
  BY <1>2, <1>4, <1>14, <1>16 DEF DecodedLast, OpenFails, SeekReturns, BufferTypes
<1>17. Decoded => BufferTypes'
  <2>1. SUFFICES ASSUME Decoded PROVE BufferTypes'
    OBVIOUS
  <2>2. mode = "library" /\ Top.fn = "decode" /\ calls \in Seq(Call) /\ calls # <<>>
    BY <2>1 DEF Decoded, ReadReturns, InCallback, PlayerTypeOK
  <2>3. Len(calls) \in Nat \ {0} /\ Top = calls[Len(calls)]
    BY <2>2, Stack DEF Top
  <2>4. pcm < PcmLimit
    BY <2>2, <2>3 DEF DecodeIsOutermost
  <2>5. pcm' \in 0 .. PcmLimit
    BY <1>1, <1>2, <2>1, <2>4 DEF Decoded
  <2>6. QED
    BY <1>2, <1>14, <2>1, <2>5 DEF Decoded, BufferTypes
<1>18. QED
  BY <1>3, <1>5, <1>6, <1>7, <1>8, <1>9, <1>10, <1>11, <1>12, <1>13, <1>15, <1>16, <1>17
     DEF PlayerNext, PlayerThread, Process, Library
-----------------------------------------------------------------------------
(* What holds while the application is calm.                               *)
Busy == Turning # {} \/ loading # None \/ KeysDue # {}
Quiet == calls = <<>> /\ ~is_downloading /\ ~eofdue
TurnTypes == {"UNLOAD", "LOAD", "SEEK", "KEY"}
Turned ==
  /\ Busy => Quiet
  /\ \A i, j \in Turning :
       i < j => i = 1 /\ items[i].type = "UNLOAD" /\ items[j].type = "LOAD"
  /\ \A i \in Turning :
       /\ KeysDue = {}
       /\ items[i].type # "UNLOAD" => loading = None
       /\ items[i].type = "UNLOAD" => i = 1
       /\ items[i].type = "LOAD" => (Blank /\ track = None) \/ items[1].type = "UNLOAD"
       /\ items[i].type = "KEY" => Blank /\ items[i].track = track
  /\ loading # None => KeysDue = {} /\ (Turning # {} \/ (Blank /\ track = None))
  /\ KeysDue # {} => KeysDue = {track} /\ keyreq[track] = 1 /\ Blank
Looked == seeking => ~Busy /\ track # None
Called ==
  /\ Len(calls) <= 1
  /\ is_loaded => vf # 0
  /\ vf # 0 => track # None
  /\ calls # <<>> => /\ calls[1].vf = vf /\ vf # 0
                     /\ calls[1].fn = "open" => ~is_loaded
Fit ==
  /\ \A i \in Datas : items[i].track = track
  /\ download # NoDownload => download.track = track
Placed ==
  ~rewound =>
    /\ \A i \in Datas : items[i].part # writer =>
         \E j \in Datas : j < i /\ items[i].part = items[j].part + 1
    /\ download # NoDownload /\ download.part # writer =>
         \E j \in Datas : download.part = items[j].part + 1
Right ==
  /\ mode # "astray"
  /\ \A p \in 1 .. FileLen : ogg[p] # Nothing =>
       /\ ogg[p].track = track
       /\ ~rewound => ogg[p].part = p
  /\ vf # 0 => key = track

LEMMA WhileCalm ==
  /\ OneTurn <=> (Calm => Turned /\ Looked)
  /\ OneCall <=> (Calm => Called)
  /\ PartsFit <=> (Calm => Fit /\ Placed)
  /\ CalmPlayerIsRight <=> (Calm => Right)
<1>1. OneTurn <=> (Calm => Turned /\ Looked)
  BY DEF OneTurn, Turned, Looked, Busy, Quiet
<1>2. OneCall <=> (Calm => Called)
  BY DEF OneCall, Called
<1>3. PartsFit <=> (Calm => Fit /\ Placed)
  BY DEF PartsFit, Fit, Placed
<1>4. CalmPlayerIsRight <=> (Calm => Right)
  BY DEF CalmPlayerIsRight, Right
<1>5. QED
  BY <1>1, <1>2, <1>3, <1>4

(* The application stays calm only if it was, and waits until all is done. *)
LEMMA StaysCalm ==
  ASSUME PlayerTypeOK, PlayerNext, Calm'
  PROVE  /\ Calm
         /\ AppUnload \/ AppSeek => AtRest /\ loading = None
         /\ AppSeeks => AtRest
         /\ \A t \in Track : AppLoad(t) => AtRest /\ loading = None
<1>1. hasty \in Nat
  BY DEF PlayerTypeOK
<1>2. hasty' = 0
  BY DEF Calm
<1>3. Turn => Calm /\ AtRest
  BY <1>1, <1>2 DEF Turn, Calm
<1>4. (AppSeek => Calm /\ AtRest) /\ (AppSeeks => Calm /\ AtRest)
  BY <1>1, <1>2 DEF AppSeek, AppSeeks, Calm
<1>10. Application => Calm
  BY <1>2, <1>3, <1>4 DEF Application, AppLoad, AppUnload, AppPlay, AppSeekRefused, AppSeekCrashes,
     application, Calm
<1>5. AppLoads \/ Network => UNCHANGED hasty
  BY DEF AppLoads, Network, KeyArrives, Requested, SubstreamSent, SubstreamPostponed, SubstreamFails,
       ConnectionLost, PartArrives, DownloadEnds, EofArrives, application
<1>6. Wake \/ DeliverPcm \/ ScheduleReturns \/ Process => UNCHANGED hasty
  BY DEF Wake, DeliverPcm, ScheduleReturns, Process, Take, ItemLoad, ItemUnload, ItemKey, ItemPlay,
     ItemPause, ItemEof, ItemSeek, ItemData, ItemDatalast, application
<1>7. Library => UNCHANGED hasty
  BY DEF Library, SeekWaits, Seeks, ReadRequests, Substream, ReadWaits, GoesAstray, Decoded,
     OpenGoesOn, Opened, DecodedLast, OpenFails, SeekReturns, ReadReturns, application
<1>8. Calm
  BY <1>2, <1>10, <1>5, <1>6, <1>7 DEF PlayerNext, PlayerThread, Calm
<1>9. QED
  BY <1>3, <1>4, <1>8 DEF AppLoad, AppUnload, AppSeek, Command

LEMMA BusyIsQuiet ==
  ASSUME PlayerTypeOK, OneDownload, PartsInOrder, Turned, Busy
  PROVE  /\ calls = <<>> /\ mode # "library" /\ ~is_downloading /\ ~eofdue
         /\ Datas = {} /\ Datalasts = {} /\ download = NoDownload
<1>1. calls = <<>> /\ ~is_downloading /\ ~eofdue
  BY DEF Turned, Quiet
<1>2. OneOrLast
  BY Substreams
<1>3. QED
  BY <1>1, <1>2 DEF PlayerTypeOK, OneOrLast, PartsInOrder

LEMMA PushTurning ==
  ASSUME items \in Seq(Entry), NEW x \in Entry, Push(x)
  PROVE  /\ x.type \notin TurnTypes => Turning' = Turning
         /\ x.type \in TurnTypes => Turning' = Turning \union {Len(items) + 1}
<1>1. /\ Len(items) \in Nat /\ Len(items') = Len(items) + 1
      /\ \A i \in 1 .. Len(items) : items'[i] = items[i]
      /\ items'[Len(items')] = x
  BY Pushed
<1>2. 1 .. Len(items') = (1 .. Len(items)) \union {Len(items) + 1}
  BY <1>1
<1>3. QED
  BY <1>1, <1>2 DEF Turning, TurnTypes

LEMMA TakeTurning ==
  ASSUME items \in Seq(Entry), NEW type, Take(type)
  PROVE  /\ \A i \in Turning' : i + 1 \in Turning /\ i \in Nat \ {0} /\ items'[i] = items[i + 1]
         /\ \A j \in Turning : j # 1 => j - 1 \in Turning'
         /\ 1 \in Turning <=> type \in TurnTypes
<1>1. /\ Len(items') \in Nat /\ Len(items) = Len(items') + 1
      /\ \A i \in 1 .. Len(items') : items'[i] = items[i + 1]
      /\ items[1].type = type
  BY Took
<1>2. \A i \in 1 .. Len(items') : i + 1 \in 1 .. Len(items) /\ i \in Nat \ {0}
  BY <1>1
<1>3. 1 \in 1 .. Len(items)
  BY <1>1
<1>4. \A i \in 1 .. Len(items') : items'[i].type = items[i + 1].type
  BY <1>1
<1>5. ASSUME NEW j \in Turning, j # 1 PROVE j - 1 \in Turning'
  <2>1. PICK i \in 1 .. Len(items') : j = i + 1
    <3>1. j \in 1 .. Len(items)
      BY DEF Turning
    <3>2. j - 1 \in 1 .. Len(items') /\ j = (j - 1) + 1
      BY <1>1, <1>5, <3>1
    <3>3. QED
      BY <3>2
  <2>2. items'[i].type = items[j].type
    BY <1>4, <2>1
  <2>3. i \in Turning'
    BY <2>1, <2>2 DEF Turning
  <2>4. j - 1 = i
    BY <2>1
  <2>5. QED
    BY <2>3, <2>4
<1>6. \A i \in Turning' : i + 1 \in Turning /\ i \in Nat \ {0} /\ items'[i] = items[i + 1]
  BY <1>1, <1>2, <1>4 DEF Turning
<1>7. 1 \in Turning <=> type \in TurnTypes
  BY <1>1, <1>3 DEF Turning, TurnTypes
<1>8. QED
  BY <1>5, <1>6, <1>7

(* Steps that begin no turn where there is none: no command of the         *)
(* application but PLAY and PAUSE, no LOAD, no key.                        *)
LEMMA IdleStays ==
  ASSUME PlayerTypeOK, PlayerNext, ~Busy,
         ~AppUnload, ~AppSeeks, \A t \in Track : ~AppLoad(t)
  PROVE  ~Busy'
<1>1. /\ items \in Seq(Entry) /\ keyreq \in [Track -> Nat]
      /\ Turning = {} /\ loading = None /\ KeysDue = {}
  BY DEF PlayerTypeOK, Busy
<1>2. UNCHANGED <<items, loading, keyreq>> => ~Busy'
  BY <1>1 DEF Busy, Turning, KeysDue
<1>3. ASSUME NEW type \in ItemType \ TurnTypes, Push(Item(type, None)), UNCHANGED <<loading, keyreq>>
      PROVE  ~Busy'
  <2>1. Item(type, None) \in Entry /\ Item(type, None).type = type
    BY PlayerAssumption DEF Entry, Item, MaybeTrack
  <2>2. Turning' = {}
    BY <1>1, <1>3, <2>1, PushTurning
  <2>3. QED
    BY <1>1, <1>3, <2>2 DEF Busy, KeysDue
<1>4. ASSUME NEW type, Take(type), UNCHANGED <<loading, keyreq>>
      PROVE  ~Busy'
  <2>1. Turning' = {}
    BY <1>1, <1>4, TakeTurning
  <2>2. QED
    BY <1>1, <1>4, <2>1 DEF Busy, KeysDue
<1>5. /\ {"PLAY", "PAUSE", "EOF", "DATALAST"} \subseteq ItemType \ TurnTypes
  BY DEF ItemType, TurnTypes
<1>6. ASSUME NEW type \in {"PLAY", "PAUSE"}, AppPlay(type) PROVE ~Busy'
  <2>1. Push(Item(type, None)) /\ UNCHANGED <<loading, keyreq>>
    BY <1>6 DEF AppPlay, Command, network
  <2>2. QED
    BY <1>3, <1>5, <2>1
<1>7. ~AppLoads /\ ~ItemLoad /\ ~ItemUnload /\ ~ItemKey /\ ~ItemSeek
  <2>1. \A type \in TurnTypes : ~Take(type)
    BY <1>1, TakeTurning
  <2>2. QED
    BY <1>1, <2>1 DEF AppLoads, ItemLoad, ItemUnload, ItemKey, ItemSeek, TurnTypes
<1>8. \A t \in Track : ~KeyArrives(t)
  BY <1>1 DEF KeyArrives, KeysDue
<1>9. PartArrives => ~Busy'
  <2>1. SUFFICES ASSUME PartArrives PROVE ~Busy'
    OBVIOUS
  <2> DEFINE x == [type |-> "DATA", track |-> download.track, part |-> download.part]
  <2>2. download.track \in MaybeTrack /\ download.part \in 0 .. FileLen + 1 /\ FileLen \in Nat
    BY PlayerAssumption DEF PlayerTypeOK
  <2>3. download.part \in 0 .. FileLen
    BY <2>1, <2>2 DEF PartArrives
  <2>4. x \in Entry /\ x.type \notin TurnTypes
    BY <2>2, <2>3 DEF Entry, ItemType, TurnTypes
  <2>5. Push(x) /\ UNCHANGED <<loading, keyreq>>
    BY <2>1 DEF PartArrives, application
  <2> HIDE DEF x
  <2>6. Turning' = {}
    BY <1>1, <2>4, <2>5, PushTurning
  <2>7. QED
    BY <1>1, <2>5, <2>6 DEF Busy, KeysDue
<1>10. DownloadEnds \/ EofArrives => ~Busy'
  <2>1. SUFFICES ASSUME DownloadEnds \/ EofArrives PROVE ~Busy'
    OBVIOUS
  <2>2. PICK type \in {"DATALAST", "EOF"} : Push(Item(type, None))
    BY <2>1 DEF DownloadEnds, EofArrives
  <2>3. UNCHANGED <<loading, keyreq>>
    BY <2>1 DEF DownloadEnds, EofArrives, application
  <2>4. QED
    BY <1>3, <1>5, <2>2, <2>3
<1>11. Wake \/ DeliverPcm \/ ScheduleReturns => ~Busy'
  BY <1>2 DEF Wake, DeliverPcm, ScheduleReturns, queue, network, application
<1>12. ItemPlay \/ ItemPause \/ ItemEof \/ ItemData \/ ItemDatalast => ~Busy'
  BY <1>4 DEF ItemPlay, ItemPause, ItemEof, ItemData, ItemDatalast, Take, network, application
<1>13. SeekWaits \/ Seeks \/ ReadRequests \/ ReadWaits \/ GoesAstray \/ Decoded \/ OpenGoesOn \/ Opened
         => ~Busy'
  BY <1>2 DEF SeekWaits, Seeks, ReadRequests, Substream, ReadWaits, GoesAstray, Decoded, OpenGoesOn,
     Opened, ReadReturns, queue, network, application
<1>14. ASSUME NEW has \in BOOLEAN, OpenFails(has) \/ SeekReturns(has) PROVE ~Busy'
  BY <1>2, <1>14 DEF OpenFails, SeekReturns, ReadReturns, queue, network, application
<1>15. ASSUME NEW has \in BOOLEAN, DecodedLast(has) PROVE ~Busy'
  <2>1. Push(Item("EOF", None)) /\ UNCHANGED <<loading, keyreq>>
    BY <1>15 DEF DecodedLast, ReadReturns, network, application
  <2>2. QED
    BY <1>3, <1>5, <2>1
<1>17. AppSeek \/ AppSeekRefused \/ AppSeekCrashes => ~Busy'
  BY <1>2 DEF AppSeek, AppSeekRefused, AppSeekCrashes, queue, network, application
<1>18. Reported => ~Busy'
  BY <1>2, Reports DEF queue, application
<1>16. QED
  BY <1>6, <1>7, <1>8, <1>9, <1>10, <1>11, <1>12, <1>13, <1>14, <1>15, <1>17, <1>18
     DEF PlayerNext, PlayerThread, Application, Network, Reported, Process, Library

LEMMA TurnKept ==
  ASSUME PlayerTypeOK, OneDownload, PartsInOrder, Turned, Looked, Called, PlayerNext, Calm'
  PROVE  Turned'
<1>1. /\ items \in Seq(Entry) /\ keyreq \in [Track -> Nat] /\ track \in MaybeTrack
      /\ loading \in MaybeTrack /\ None \notin Track /\ None \in MaybeTrack
  BY PlayerAssumption DEF PlayerTypeOK, MaybeTrack
<1>2. Len(items) \in Nat /\ Turning \subseteq 1 .. Len(items)
  BY <1>1, LenProperties DEF Turning
<1>3. \A type \in ItemType, t \in MaybeTrack :
        Item(type, t) \in Entry /\ Item(type, t).type = type /\ Item(type, t).track = t
  BY PlayerAssumption DEF Entry, Item
<1>4. TurnTypes \subseteq ItemType
  BY DEF TurnTypes, ItemType
<1>5. ~Busy' => Turned'
  BY DEF Busy, Turned
(* The application begins a turn when all is at rest. *)
<1>6. ASSUME AtRest, NEW type \in {"UNLOAD", "SEEK"}, Push(Item(type, None)),
             UNCHANGED <<calls, is_downloading, eofdue, keyreq>>,
             type = "UNLOAD" \/ loading' = None
      PROVE  Turned'
  <2>1. items = <<>> /\ Turning = {} /\ calls = <<>> /\ ~is_downloading /\ ~eofdue /\ KeysDue = {}
    BY <1>1, <1>6 DEF AtRest, Turning, KeysDue
  <2>2. type \in TurnTypes
    BY DEF TurnTypes
  <2>3. Item(type, None) \in Entry /\ Item(type, None).type = type
    BY <1>1, <1>3, <1>4, <2>2
  <2>4. Turning' = Turning \union {Len(items) + 1}
    BY <1>1, <1>6, <2>2, <2>3, PushTurning
  <2>5. Turning' = {1}
    BY <2>1, <2>4
  <2>6. items'[1].type = type
    <3>1. Len(items') = Len(items) + 1 /\ items'[Len(items')] = Item(type, None)
      BY <1>1, <1>6, <2>3, Pushed
    <3>2. Len(items) = 0
      BY <2>1
    <3>3. QED
      BY <2>3, <3>1, <3>2
  <2>7. KeysDue' = {} /\ Quiet'
    BY <1>6, <2>1 DEF KeysDue, Quiet
  <2>8. QED
    BY <1>6, <2>5, <2>6, <2>7 DEF Turned
<1>7. ASSUME NEW t \in Track, AppLoad(t) PROVE Turned'
  BY <1>6, <1>7, StaysCalm DEF AppLoad, Command, buffers, network
<1>8. AppUnload \/ AppSeeks => Turned'
  BY <1>6, StaysCalm DEF AppUnload, AppSeeks, Command, Looked, Busy, buffers, network
<1>9. ASSUME ~Busy, ~AppUnload, ~AppSeeks, \A t \in Track : ~AppLoad(t) PROVE Turned'
  BY <1>5, <1>9, IdleStays
<1>10. ASSUME Busy
       PROVE  /\ calls = <<>> /\ mode # "library" /\ ~is_downloading /\ ~eofdue
              /\ Datas = {} /\ Datalasts = {} /\ download = NoDownload
  BY <1>10, BusyIsQuiet
(* What else happens in the middle of a turn. *)
<1>11. ASSUME Busy, UNCHANGED <<items, calls, is_downloading, eofdue, keyreq, loading, track, vf,
                                is_loaded, ogg>>
       PROVE  Turned'
  <2>1. Turning' = Turning /\ KeysDue' = KeysDue /\ (Blank <=> Blank') /\ Quiet'
    BY <1>10, <1>11 DEF Turning, KeysDue, Blank, EmptyFile, Quiet
  <2>2. QED
    BY <1>11, <2>1 DEF Turned
<1>12. ASSUME Busy, NEW type \in {"PLAY", "PAUSE"}, AppPlay(type) PROVE Turned'
  <2>1. type \in ItemType /\ type \notin TurnTypes
    BY DEF ItemType, TurnTypes
  <2>2. /\ Push(Item(type, None))
        /\ UNCHANGED <<calls, is_downloading, eofdue, keyreq, loading, track, vf, is_loaded, ogg>>
    BY <1>12 DEF AppPlay, Command, decoder, flags, buffers, rbuf, network
  <2>3. Item(type, None) \in Entry /\ Item(type, None).type \notin TurnTypes
    BY <1>1, <1>3, <2>1
  <2>4. Turning' = Turning
    BY <1>1, <2>2, <2>3, PushTurning
  <2>5. \A i \in 1 .. Len(items) : items'[i] = items[i]
    BY <1>1, <2>2, <2>3, Pushed
  <2>6. \A i \in Turning : items'[i] = items[i] /\ items'[1] = items[1]
    <3>1. TAKE i \in Turning
    <3>2. i \in 1 .. Len(items) /\ 1 \in 1 .. Len(items)
      BY <1>2
    <3>3. QED
      BY <2>5, <3>2
  <2>7. KeysDue' = KeysDue /\ (Blank <=> Blank') /\ Quiet'
    BY <1>10, <1>12, <2>2 DEF KeysDue, Blank, EmptyFile, Quiet
  <2>8. QED
    BY <2>2, <2>4, <2>6, <2>7 DEF Turned
<1>13. ASSUME AppLoads PROVE Turned'
  <2>1. loading \in Track /\ loading # None /\ loading' = None /\ Push(Item("LOAD", loading))
        /\ UNCHANGED <<calls, is_downloading, eofdue, keyreq, track, vf, is_loaded, ogg>>
    BY <1>1, <1>13 DEF AppLoads, MaybeTrack, decoder, flags, buffers, rbuf, network
  <2>2. Busy
    BY <2>1 DEF Busy
  <2>3. Item("LOAD", loading) \in Entry /\ Item("LOAD", loading).type = "LOAD"
    BY <1>1, <1>3 DEF ItemType
  <2>4. /\ Turning' = Turning \union {Len(items) + 1}
        /\ items'[Len(items) + 1].type = "LOAD"
        /\ \A i \in 1 .. Len(items) : items'[i] = items[i]
    BY <1>1, <2>1, <2>3, PushTurning, Pushed DEF TurnTypes
  <2>5. KeysDue' = {} /\ (Blank <=> Blank') /\ Quiet'
    BY <1>10, <2>1, <2>2 DEF KeysDue, Blank, EmptyFile, Quiet, Turned
  <2>6. \A i \in Turning : i = 1 /\ items[i].type = "UNLOAD" /\ items'[i] = items[i]
    BY <1>2, <2>1, <2>4 DEF Turned
  <2>7. \A i, j \in Turning' : i < j => i = 1 /\ items'[i].type = "UNLOAD" /\ items'[j].type = "LOAD"
    <3>1. TAKE i, j \in Turning'
    <3>2. SUFFICES ASSUME i < j PROVE i = 1 /\ items'[i].type = "UNLOAD" /\ items'[j].type = "LOAD"
      OBVIOUS
    <3>3. i \in Turning
      BY <1>2, <2>4, <3>2
    <3>4. j \notin Turning
      BY <2>6, <3>2, <3>3
    <3>5. QED
      BY <2>4, <2>6, <3>3, <3>4
  <2>8. Turning # {} => items'[1].type = "UNLOAD"
    BY <2>6
  <2>9. Turning = {} => Blank' /\ track' = None
    BY <2>1, <2>5 DEF Turned
  <2>10. \A i \in Turning' :
           /\ KeysDue' = {} /\ loading' = None
           /\ items'[i].type = "UNLOAD" => i = 1
           /\ items'[i].type = "LOAD" => (Blank' /\ track' = None) \/ items'[1].type = "UNLOAD"
           /\ items'[i].type = "KEY" => Blank' /\ items'[i].track = track'
    <3>1. ASSUME NEW i \in Turning
          PROVE  /\ items'[i].type = "UNLOAD" => i = 1
                 /\ items'[i].type = "LOAD" => (Blank' /\ track' = None) \/ items'[1].type = "UNLOAD"
                 /\ items'[i].type = "KEY" => Blank' /\ items'[i].track = track'
      BY <2>6
    <3>2. QED
      BY <2>1, <2>4, <2>5, <2>8, <2>9, <3>1
  <2>11. QED
    BY <2>1, <2>5, <2>7, <2>10 DEF Turned
<1>14. ASSUME NEW t \in Track, KeyArrives(t) PROVE Turned'
  <2>1. /\ keyreq[t] > 0 /\ keyreq' = [keyreq EXCEPT ![t] = @ - 1]
        /\ Push(Item("KEY", t)) \/ UNCHANGED queue
        /\ UNCHANGED <<calls, is_downloading, eofdue, loading, track, vf, is_loaded, ogg>>
    BY <1>14 DEF KeyArrives, decoder, flags, buffers, rbuf, application
  <2>2. t \in KeysDue
    BY <2>1 DEF KeysDue
  <2>3. Busy /\ KeysDue # {}
    BY <2>2 DEF Busy
  <2>4. KeysDue = {track} /\ keyreq[track] = 1 /\ Blank /\ Turning = {} /\ loading = None
    BY <2>3 DEF Turned
  <2>5. t = track
    BY <2>2, <2>4
  <2>6. KeysDue' = {}
    <3>1. keyreq'[t] = 0
      BY <1>1, <2>1, <2>4, <2>5
    <3>2. \A u \in Track : u # t => keyreq'[u] = keyreq[u] /\ ~(keyreq[u] > 0)
      BY <1>1, <2>1, <2>4, <2>5 DEF KeysDue
    <3>3. \A u \in Track : ~(keyreq'[u] > 0)
      BY <3>1, <3>2
    <3>4. QED
      BY <3>3 DEF KeysDue
  <2>7. Blank' /\ Quiet' /\ loading' = None /\ track' = track
    BY <1>10, <2>1, <2>3, <2>4 DEF Blank, EmptyFile, Quiet
  <2>8. CASE UNCHANGED queue
    <3>1. Turning' = {}
      BY <2>4, <2>8 DEF queue, Turning
    <3>2. QED
      BY <2>6, <2>7, <3>1 DEF Turned
  <2>9. CASE Push(Item("KEY", t))
    <3>1. /\ Item("KEY", t) \in Entry /\ Item("KEY", t).type = "KEY" /\ Item("KEY", t).track = t
      BY <1>3 DEF ItemType, MaybeTrack
    <3>2. Turning' = {Len(items) + 1} /\ items'[Len(items) + 1] = Item("KEY", t)
      BY <1>1, <2>4, <2>9, <3>1, PushTurning, Pushed DEF TurnTypes
    <3>3. QED
      BY <1>2, <2>5, <2>6, <2>7, <3>1, <3>2 DEF Turned
  <2>10. QED
    BY <2>1, <2>8, <2>9
<1>15. ASSUME Busy, Network PROVE Turned'
  <2>1. ~PartArrives /\ ~DownloadEnds /\ ~EofArrives
    BY <1>10, <1>15 DEF PartArrives, DownloadEnds, EofArrives, NoDownload
  <2>2. ~Reported
    BY <1>10, <1>15, Reports
  <2>3. QED
    BY <1>14, <1>15, <2>1, <2>2 DEF Network, Reported
<1>16. ASSUME Busy, Wake \/ DeliverPcm PROVE Turned'
  BY <1>11, <1>16 DEF Wake, DeliverPcm, decoder, flags, buffers, rbuf, network, application
<1>17. ASSUME Busy, ScheduleReturns PROVE Turned'
  <2>1. calls = <<>> /\ items = <<>> /\ Decode(calls, pcm)
    BY <1>10, <1>17 DEF ScheduleReturns
  <2>2. Turning = {}
    BY <2>1 DEF Turning
  <2>3. ~is_loaded
    BY <1>17, <2>2 DEF Busy, Turned, Blank
  <2>4. UNCHANGED calls
    BY <2>1, <2>3 DEF Decode
  <2>5. QED
    BY <1>11, <1>17, <2>4 DEF ScheduleReturns, queue, decoder, flags, buffers, rbuf, network, application
<1>18. ASSUME NEW type, Take(type)
       PROVE  /\ \A i \in Turning' : i + 1 \in Turning /\ i \in Nat \ {0} /\ items'[i] = items[i + 1]
              /\ type \in TurnTypes => 1 \in Turning /\ items[1].type = type
              /\ type \notin TurnTypes => 1 \notin Turning
              /\ Head(items) = items[1]
              /\ \A j \in Turning : j # 1 => j - 1 \in Turning'
  BY <1>1, <1>18, TakeTurning, Took
<1>19. ASSUME ItemLoad PROVE Turned'
  <2>1. Take("LOAD")
    BY <1>19 DEF ItemLoad
  <2>2. 1 \in Turning /\ items[1].type = "LOAD" /\ Head(items) = items[1]
    BY <1>18, <2>1 DEF TurnTypes
  <2>3. Busy
    BY <2>2 DEF Busy
  <2>4. KeysDue = {} /\ loading = None /\ Blank /\ track = None
    BY <2>2 DEF Turned
  <2>5. Turning' = {}
    <3>1. \A i \in Turning' : i + 1 \in Turning /\ 1 < i + 1
      BY <1>18, <2>1
    <3>2. QED
      BY <2>2, <3>1 DEF Turned
  <2>6. Head(items).track \in Track
    <3>1. 1 \in 1 .. Len(items) /\ items[1] \in Entry
      BY <1>1, <2>1, Took, <2>2, <1>2
    <3>2. items[1].track # None
      BY <2>2, <3>1 DEF PlayerTypeOK
    <3>3. QED
      BY <2>2, <3>1, <3>2 DEF Entry, MaybeTrack
  <2>7. track' \in Track /\ keyreq' = [keyreq EXCEPT ![track'] = @ + 1]
    BY <1>19, <2>6 DEF ItemLoad
  <2>8. \A u \in Track : keyreq[u] = 0
    BY <1>1, <2>4 DEF KeysDue
  <2>9. keyreq'[track'] = 1 /\ \A u \in Track : u # track' => keyreq'[u] = 0
    BY <1>1, <2>7, <2>8
  <2>10. KeysDue' = {track'}
    BY <2>7, <2>9 DEF KeysDue
  <2>11. Blank' /\ Quiet' /\ loading' = None
    BY <1>10, <1>19, <2>3, <2>4 DEF ItemLoad, Take, Blank, EmptyFile, Quiet, application
  <2>12. QED
    BY <2>5, <2>9, <2>10, <2>11 DEF Turned
<1>20. ASSUME ItemUnload PROVE Turned'
  <2>1. Take("UNLOAD")
    BY <1>20 DEF ItemUnload
  <2>2. 1 \in Turning /\ items[1].type = "UNLOAD"
    BY <1>18, <2>1 DEF TurnTypes
  <2>3. Busy
    BY <2>2 DEF Busy
  <2>4. KeysDue = {}
    BY <2>2 DEF Turned
  <2>5. Blank' /\ Quiet' /\ KeysDue' = {} /\ track' = None /\ loading' = loading
    BY <1>10, <1>20, <2>3, <2>4
       DEF ItemUnload, Take, Blank, EmptyFile, Quiet, KeysDue, application, network
  <2>6. \A i \in Turning' : items'[i].type = "LOAD" /\ loading = None /\ i \in Nat \ {0}
    <3>1. TAKE i \in Turning'
    <3>2. i + 1 \in Turning /\ 1 < i + 1 /\ items'[i] = items[i + 1] /\ i \in Nat \ {0}
      BY <1>18, <2>1
    <3>3. items[i + 1].type = "LOAD"
      BY <2>2, <3>2 DEF Turned
    <3>4. QED
      BY <3>2, <3>3 DEF Turned
  <2>7. \A i, j \in Turning' : ~(i < j)
    <3>1. TAKE i, j \in Turning'
    <3>2. SUFFICES ASSUME i < j PROVE FALSE
      OBVIOUS
    <3>3. i + 1 \in Turning /\ j + 1 \in Turning /\ i \in Nat \ {0} /\ j \in Nat
      BY <1>18, <2>1
    <3>4. i + 1 < j + 1 /\ i + 1 # 1
      BY <3>2, <3>3
    <3>5. QED
      BY <3>3, <3>4 DEF Turned
  <2>8. QED
    BY <2>5, <2>6, <2>7 DEF Turned
<1>21. ASSUME ItemKey \/ ItemSeek PROVE Turned'
  <2>1. PICK type \in {"KEY", "SEEK"} : Take(type)
    BY <1>21 DEF ItemKey, ItemSeek
  <2>2. 1 \in Turning /\ items[1].type = type
    BY <1>18, <2>1 DEF TurnTypes
  <2>3. KeysDue = {} /\ loading = None
    BY <2>2 DEF Turned
  <2>4. Turning' = {}
    <3>1. \A i \in Turning' : i + 1 \in Turning /\ 1 < i + 1
      BY <1>18, <2>1
    <3>2. QED
      BY <2>2, <3>1 DEF Turned
  <2>5. ~Busy'
    BY <1>21, <2>3, <2>4 DEF ItemKey, ItemSeek, Take, Busy, KeysDue, network, application
  <2>6. QED
    BY <1>5, <2>5
<1>22. ASSUME Busy, ItemPlay \/ ItemPause \/ ItemEof PROVE Turned'
  <2>1. PICK type \in {"PLAY", "PAUSE", "EOF"} : Take(type)
    BY <1>22 DEF ItemPlay, ItemPause, ItemEof
  <2>2. UNCHANGED <<calls, is_downloading, eofdue, keyreq, loading, track, vf, is_loaded, ogg>>
    BY <1>22 DEF ItemPlay, ItemPause, ItemEof, Take, decoder, buffers, rbuf, network, application
  <2>3. 1 \notin Turning
    BY <1>18, <2>1 DEF TurnTypes
  <2>4. KeysDue' = KeysDue /\ (Blank <=> Blank') /\ Quiet'
    BY <1>10, <1>22, <2>2 DEF KeysDue, Blank, EmptyFile, Quiet
  <2>5. \A i \in Turning' :
          /\ i + 1 \in Turning /\ items'[i] = items[i + 1] /\ i \in Nat
          /\ items'[i].type # "UNLOAD"
          /\ items'[i].type = "LOAD" => Blank /\ track = None
    <3>1. TAKE i \in Turning'
    <3>2. i + 1 \in Turning /\ items'[i] = items[i + 1] /\ i \in Nat \ {0}
      BY <1>18, <2>1
    <3>3. i + 1 # 1
      BY <3>2
    <3>4. items[1].type # "UNLOAD"
      <4>1. 1 \in 1 .. Len(items)
        BY <1>2, <3>2
      <4>2. QED
        BY <2>3, <4>1 DEF Turning
    <3>5. QED
      BY <3>2, <3>3, <3>4 DEF Turned
  <2>6. \A i, j \in Turning' : ~(i < j)
    <3>1. TAKE i, j \in Turning'
    <3>2. SUFFICES ASSUME i < j PROVE FALSE
      OBVIOUS
    <3>3. i + 1 \in Turning /\ j + 1 \in Turning /\ i \in Nat /\ j \in Nat
      BY <2>5
    <3>4. i + 1 < j + 1
      BY <3>2, <3>3
    <3>5. i + 1 = 1
      BY <3>3, <3>4 DEF Turned
    <3>6. QED
      BY <2>3, <3>3, <3>5
  <2>7. \A i \in Turning' :
          /\ KeysDue' = {}
          /\ items'[i].type # "UNLOAD" => loading' = None
          /\ items'[i].type = "UNLOAD" => i = 1
          /\ items'[i].type = "LOAD" => (Blank' /\ track' = None) \/ items'[1].type = "UNLOAD"
          /\ items'[i].type = "KEY" => Blank' /\ items'[i].track = track'
    <3>1. TAKE i \in Turning'
    <3>2. i + 1 \in Turning /\ items'[i] = items[i + 1]
      BY <2>5
    <3>3. /\ KeysDue = {}
          /\ items[i + 1].type # "UNLOAD" => loading = None
          /\ items[i + 1].type = "KEY" => Blank /\ items[i + 1].track = track
      BY <3>2 DEF Turned
    <3>4. QED
      BY <2>2, <2>4, <2>5, <3>2, <3>3
  <2>8. Turning # {} => Turning' # {}
    <3>1. SUFFICES ASSUME NEW j \in Turning PROVE Turning' # {}
      OBVIOUS
    <3>2. QED
      BY <1>18, <2>1, <2>3
  <2>9. loading' # None => KeysDue' = {} /\ (Turning' # {} \/ (Blank' /\ track' = None))
    BY <2>2, <2>4, <2>8 DEF Turned
  <2>10. KeysDue' # {} => KeysDue' = {track'} /\ keyreq'[track'] = 1 /\ Blank'
    BY <2>2, <2>4 DEF Turned
  <2>11. QED
    BY <2>4, <2>6, <2>7, <2>9, <2>10 DEF Turned
<1>23. ASSUME Busy, ItemData \/ ItemDatalast PROVE FALSE
  <2>1. PICK type \in {"DATA", "DATALAST"} : Take(type)
    BY <1>23 DEF ItemData, ItemDatalast
  <2>2. 1 \in Datas \union Datalasts
    BY <1>1, <2>1, TakeOther
  <2>3. QED
    BY <1>10, <1>23, <2>2
<1>24. Busy => ~Library
  BY <1>10 DEF Library, SeekWaits, Seeks, ReadRequests, Substream, ReadWaits, GoesAstray, Decoded,
     OpenGoesOn, Opened, DecodedLast, OpenFails, SeekReturns, ReadReturns, InCallback
<1>25. ASSUME Busy, AppSeek \/ AppSeekRefused \/ AppSeekCrashes PROVE Turned'
  BY <1>11, <1>25 DEF AppSeek, AppSeekRefused, AppSeekCrashes, queue, decoder, flags, buffers, rbuf,
     network, application
<1>26. ASSUME Busy PROVE Turned'
  BY <1>7, <1>8, <1>12, <1>13, <1>15, <1>16, <1>17, <1>19, <1>20, <1>21, <1>22, <1>23, <1>24, <1>25,
     <1>26 DEF PlayerNext, PlayerThread, Application, Process
<1>27. QED
  BY <1>7, <1>8, <1>9, <1>26

(* The only call into libvorbis.                                           *)
LEMMA Single ==
  ASSUME PlayerTypeOK, Called, mode = "library"
  PROVE  /\ Top = calls[1] /\ Top \in Call /\ Top.vf = vf /\ vf \in decoders /\ track # None
         /\ Top.fn = "open" => ~is_loaded
         /\ Pop = <<>>
         /\ \A c \in Call : Len(Append(Pop, c)) = 1 /\ Append(Pop, c)[1] = c /\ Append(Pop, c) # <<>>
<1>1. /\ calls \in Seq(Call) /\ calls # <<>>
      /\ vf \in decoders \union {0} /\ Len(calls) <= 1
  BY DEF PlayerTypeOK, Called
<1>2. Len(calls) \in Nat \ {0} /\ Pop \in Seq(Call) /\ Len(Pop) = Len(calls) - 1 /\ Top \in Call
  BY <1>1, Stack
<1>3. Len(calls) = 1 /\ Len(Pop) = 0
  BY <1>1, <1>2
<1>4. Pop = <<>>
  BY <1>2, <1>3, EmptySeq
<1>5. Top = calls[1]
  BY <1>3 DEF Top
<1>6. \A c \in Call : Len(Append(Pop, c)) = 1 /\ Append(Pop, c)[1] = c /\ Append(Pop, c) # <<>>
  <2>1. TAKE c \in Call
  <2>2. Len(Append(Pop, c)) = Len(Pop) + 1 /\ Append(Pop, c)[Len(Pop) + 1] = c /\ Append(Pop, c) # <<>>
    BY <1>2, Stacked
  <2>3. QED
    BY <1>3, <2>2
<1>7. QED
  BY <1>1, <1>2, <1>4, <1>5, <1>6 DEF Called

(* The item at the head of the queue that belongs to a turn.               *)
LEMMA TurnHead ==
  ASSUME PlayerTypeOK, OneDownload, PartsInOrder, Turned, NEW type \in TurnTypes, Take(type)
  PROVE  /\ calls = <<>> /\ ~is_downloading /\ Datas = {} /\ Datalasts = {} /\ download = NoDownload
         /\ 1 \in Turning /\ Head(items) = items[1] /\ items[1].type = type /\ items[1] \in Entry
         /\ type \in {"LOAD", "KEY"} => items[1].track # None
         /\ type \in {"LOAD", "KEY"} => Blank
         /\ type = "KEY" => items[1].track = track
         /\ Datas' = {} /\ Datalasts' = {}
<1>1. items \in Seq(Entry)
  BY DEF PlayerTypeOK
<1>2. 1 \in Turning /\ Head(items) = items[1] /\ items[1].type = type /\ items[1] \in Entry
  BY <1>1, TakeTurning, Took
<1>3. Busy
  BY <1>2 DEF Busy
<1>4. calls = <<>> /\ ~is_downloading /\ Datas = {} /\ Datalasts = {} /\ download = NoDownload
  BY <1>3, BusyIsQuiet
<1>5. 1 \in 1 .. Len(items)
  BY <1>2 DEF Turning
<1>6. type \in {"LOAD", "KEY"} => items[1].track # None
  BY <1>2, <1>5 DEF PlayerTypeOK
<1>7. (type \in {"LOAD", "KEY"} => Blank) /\ (type = "KEY" => items[1].track = track)
  BY <1>2 DEF Turned
<1>8. Datas' = {} /\ Datalasts' = {}
  <2>1. \A i \in 1 .. Len(items') : i \notin Datas' /\ i \notin Datalasts'
    BY <1>1, <1>4, TakeOther
  <2>2. Datas' \subseteq 1 .. Len(items') /\ Datalasts' \subseteq 1 .. Len(items')
    BY <1>1, TakeOther
  <2>3. QED
    BY <2>1, <2>2
<1>9. QED
  BY <1>2, <1>4, <1>6, <1>7, <1>8

LEMMA CallKept ==
  ASSUME PlayerTypeOK, OneDownload, PartsInOrder, Turned, Called, PlayerNext, Calm'
  PROVE  Called'
<1>1. /\ calls \in Seq(Call) /\ vf \in Nat /\ track \in MaybeTrack /\ is_loaded \in BOOLEAN
      /\ decoders \subseteq Nat \ {0} /\ IsFiniteSet(decoders)
  BY DEF PlayerTypeOK
<1>2. UNCHANGED <<calls, vf, is_loaded, track>> => Called'
  BY DEF Called
<1>3. Len(<<>>) = 0 /\ <<>> \in Seq(Call)
  BY EmptySeq
<1>4. \A c \in Call : /\ Len(Append(<<>>, c)) = 1 /\ Append(<<>>, c)[1] = c /\ Append(<<>>, c) # <<>>
  <2>1. TAKE c \in Call
  <2>2. /\ Len(Append(<<>>, c)) = 0 + 1 /\ Append(<<>>, c)[0 + 1] = c /\ Append(<<>>, c) # <<>>
    BY <1>3, Stacked
  <2>3. QED
    BY <2>2
<1>5. \A d \in Nat, fn \in {"decode", "open", "seek"} :
        Frame(fn, d) \in Call /\ Frame(fn, d).vf = d /\ Frame(fn, d).fn = fn
  BY DEF Frame, Call
<1>6. Application \/ AppLoads \/ Network => Called'
  BY <1>2 DEF Application, AppLoad, AppUnload, AppPlay, AppSeek, AppSeeks, AppSeekRefused,
       AppSeekCrashes, Command, AppLoads, Network,
     KeyArrives, Requested, SubstreamSent, SubstreamPostponed, SubstreamFails,
       ConnectionLost, PartArrives, DownloadEnds, EofArrives, decoder, flags
<1>7. Wake \/ DeliverPcm => Called'
  BY <1>2 DEF Wake, DeliverPcm, decoder, flags
<1>8. ScheduleReturns => Called'
  <2>1. SUFFICES ASSUME ScheduleReturns PROVE Called'
    OBVIOUS
  <2>2. UNCHANGED <<vf, is_loaded, track>>
    BY <2>1 DEF ScheduleReturns, decoder, flags
  <2>3. CASE calls' = calls
    BY <1>2, <2>2, <2>3
  <2>4. CASE calls = <<>> /\ is_loaded /\ calls' = Append(calls, Frame("decode", vf))
    BY <1>1, <1>4, <1>5, <2>2, <2>4 DEF Called
  <2>5. QED
    BY <2>1, <2>3, <2>4 DEF ScheduleReturns, Decode
<1>9. ItemLoad => Called'
  <2>1. SUFFICES ASSUME ItemLoad PROVE Called'
    OBVIOUS
  <2>2. calls = <<>> /\ Blank
    BY <2>1, TurnHead DEF ItemLoad, TurnTypes
  <2>3. QED
    BY <1>3, <2>1, <2>2 DEF ItemLoad, Called, Blank
<1>10. ItemUnload => Called'
  <2>1. SUFFICES ASSUME ItemUnload PROVE Called'
    OBVIOUS
  <2>2. calls = <<>>
    BY <2>1, TurnHead DEF ItemUnload, TurnTypes
  <2>3. QED
    BY <1>3, <2>1, <2>2 DEF ItemUnload, Called
<1>11. ItemKey => Called'
  <2>1. SUFFICES ASSUME ItemKey PROVE Called'
    OBVIOUS
  <2>2. calls = <<>> /\ Blank /\ items[1].track = track /\ items[1].track # None
    BY <2>1, TurnHead DEF ItemKey, TurnTypes
  <2>3. vf' \in Nat \ {0}
    BY <1>1, <2>1, Allocates DEF ItemKey
  <2>4. calls' = Append(<<>>, Frame("open", vf')) /\ is_loaded' = FALSE /\ track' = track
    BY <2>1, <2>2 DEF ItemKey, Blank, flags
  <2>5. QED
    BY <1>4, <1>5, <2>2, <2>3, <2>4 DEF Called
<1>12. ItemSeek => Called'
  <2>1. SUFFICES ASSUME ItemSeek PROVE Called'
    OBVIOUS
  <2>2. calls = <<>> /\ UNCHANGED <<vf, is_loaded, track>>
    BY <2>1, TurnHead DEF ItemSeek, TurnTypes, decoder, flags
  <2>3. CASE ~is_loaded
    BY <1>2, <2>1, <2>2, <2>3 DEF ItemSeek
  <2>4. CASE is_loaded
    <3>1. calls' = Append(<<>>, Frame("seek", vf))
      BY <2>1, <2>2, <2>4 DEF ItemSeek
    <3>2. QED
      BY <1>1, <1>4, <1>5, <2>2, <2>4, <3>1 DEF Called
  <2>5. QED
    BY <2>3, <2>4
<1>13. ItemPlay \/ ItemPause \/ ItemEof \/ ItemData \/ ItemDatalast => Called'
  BY <1>2 DEF ItemPlay, ItemPause, ItemEof, ItemData, ItemDatalast, decoder, flags
<1>14. SeekWaits \/ ReadWaits \/ GoesAstray => Called'
  BY <1>2 DEF SeekWaits, ReadWaits, GoesAstray, decoder, flags
<1>15. ASSUME mode = "library", NEW c \in Call, c.vf = Top.vf, c.fn = Top.fn, calls' = Append(Pop, c),
              UNCHANGED <<vf, is_loaded, track>>
       PROVE  Called'
  <2>1. Len(calls') = 1 /\ calls'[1] = c
    BY <1>15, Single
  <2>2. c.vf = vf /\ vf # 0 /\ track # None /\ (c.fn = "open" => ~is_loaded)
    BY <1>1, <1>15, Single
  <2>3. QED
    BY <1>15, <2>1, <2>2 DEF Called
<1>16. mode = "library" => Top \in Call
  BY Single
<1>17. Seeks \/ ReadRequests => Called'
  <2>1. SUFFICES ASSUME Seeks \/ ReadRequests PROVE Called'
    OBVIOUS
  <2>2. mode = "library" /\ UNCHANGED <<vf, is_loaded, track>>
    BY <2>1 DEF Seeks, ReadRequests, Substream, InCallback, decoder, flags
  <2>3. PICK c \in Call : c.vf = Top.vf /\ c.fn = Top.fn /\ calls' = Append(Pop, c)
    <3>1. [Top EXCEPT !.in = "read"] \in Call /\ [Top EXCEPT !.did = TRUE] \in Call
      BY <1>16, <2>2 DEF Call
    <3>2. /\ [Top EXCEPT !.in = "read"].vf = Top.vf /\ [Top EXCEPT !.in = "read"].fn = Top.fn
          /\ [Top EXCEPT !.did = TRUE].vf = Top.vf /\ [Top EXCEPT !.did = TRUE].fn = Top.fn
      BY <1>16, <2>2 DEF Call
    <3>3. QED
      BY <2>1, <3>1, <3>2 DEF Seeks, ReadRequests, Substream
  <2>4. QED
    BY <1>15, <2>2, <2>3
<1>18. OpenGoesOn => Called'
  <2>1. SUFFICES ASSUME OpenGoesOn PROVE Called'
    OBVIOUS
  <2>2. mode = "library" /\ UNCHANGED <<vf, is_loaded, track>>
    BY <2>1 DEF OpenGoesOn, ReadReturns, InCallback, decoder, flags
  <2> DEFINE c == [Top EXCEPT !.in = "seek", !.did = FALSE, !.seeks = @ + 1]
  <2>3. Top.seeks + 1 \in Nat
    BY <1>16, <2>2 DEF Call
  <2>4. c \in Call /\ c.vf = Top.vf /\ c.fn = Top.fn
    BY <1>16, <2>2, <2>3 DEF Call
  <2>5. QED
    BY <1>15, <2>1, <2>2, <2>4 DEF OpenGoesOn
<1>19. Decoded => Called'
  <2>1. SUFFICES ASSUME Decoded PROVE Called'
    OBVIOUS
  <2>2. mode = "library" /\ UNCHANGED <<vf, is_loaded, track>> /\ Top.fn = "decode"
    BY <2>1 DEF Decoded, ReadReturns, InCallback, decoder, flags
  <2>3. Pop = <<>>
    BY <2>2, Single
  <2>4. CASE calls' = Append(Pop, Frame("decode", vf)) /\ is_loaded
    BY <1>1, <1>4, <1>5, <2>2, <2>3, <2>4 DEF Called
  <2>5. CASE calls' = Pop
    BY <1>3, <2>2, <2>3, <2>5 DEF Called
  <2>6. QED
    BY <2>1, <2>4, <2>5 DEF Decoded, Decode
<1>20. Opened => Called'
  <2>1. SUFFICES ASSUME Opened PROVE Called'
    OBVIOUS
  <2>2. mode = "library" /\ calls' = Pop /\ UNCHANGED <<vf, track>>
    BY <2>1 DEF Opened, ReadReturns, InCallback, decoder
  <2>3. Pop = <<>> /\ vf # 0 /\ track # None
    BY <1>1, <2>2, Single
  <2>4. QED
    BY <1>3, <2>2, <2>3 DEF Called
<1>21. ASSUME NEW has \in BOOLEAN, DecodedLast(has) \/ SeekReturns(has) PROVE Called'
  <2>1. mode = "library" /\ calls' = Pop /\ UNCHANGED <<vf, is_loaded, track>>
    BY <1>21 DEF DecodedLast, SeekReturns, ReadReturns, InCallback, decoder, flags
  <2>2. QED
    BY <1>3, <2>1, Single DEF Called
<1>22. ASSUME NEW has \in BOOLEAN, OpenFails(has) PROVE Called'
  <2>1. mode = "library" /\ Top.fn = "open" /\ calls' = Pop /\ vf' = 0 /\ UNCHANGED is_loaded
    BY <1>22 DEF OpenFails, ReadReturns, InCallback, flags
  <2>2. QED
    BY <1>3, <2>1, Single DEF Called
<1>23. QED
  BY <1>6, <1>7, <1>8, <1>9, <1>10, <1>11, <1>12, <1>13, <1>14, <1>17, <1>18, <1>19, <1>20, <1>21,
     <1>22 DEF PlayerNext, PlayerThread, Process, Library

(* The parts in the queue, when an item is pushed and when one is taken.   *)
LEMMA PartsPushed ==
  ASSUME items \in Seq(Entry), NEW x \in Entry, Push(x)
  PROVE  /\ \A i \in Datas : i \in Datas' /\ items'[i] = items[i] /\ i < Len(items) + 1
         /\ \A i \in Datas' : i \in Datas \/ (i = Len(items) + 1 /\ x.type = "DATA")
         /\ items'[Len(items) + 1] = x
         /\ x.type = "DATA" => Len(items) + 1 \in Datas'
<1>1. Len(items) \in Nat /\ Datas \subseteq 1 .. Len(items)
  BY LenProperties DEF Datas
<1>2. /\ Len(items') = Len(items) + 1 /\ items'[Len(items')] = x
      /\ \A i \in 1 .. Len(items) : items'[i] = items[i]
  BY Pushed
<1>3. \A i \in Datas : i < Len(items) + 1 /\ items'[i] = items[i]
  BY <1>1, <1>2
<1>4. /\ x.type # "DATA" => Datas' = Datas
      /\ x.type = "DATA" => Datas' = Datas \union {Len(items) + 1}
  BY PushOther
<1>5. QED
  BY <1>2, <1>3, <1>4

LEMMA PartsShifted ==
  ASSUME items \in Seq(Entry), NEW type, Take(type)
  PROVE  /\ \A i \in Datas' : i + 1 \in Datas /\ items'[i] = items[i + 1] /\ i \in Nat \ {0}
         /\ \A j \in Datas : j # 1 => j - 1 \in Datas' /\ items'[j - 1] = items[j]
         /\ \A j \in Datas : j \in Nat \ {0}
<1>1. /\ Len(items') \in Nat /\ Len(items) = Len(items') + 1
      /\ \A i \in 1 .. Len(items') : items'[i] = items[i + 1]
  BY Took
<1>2. /\ \A i \in 1 .. Len(items') : i \in Datas' <=> i + 1 \in Datas
      /\ Datas' \subseteq 1 .. Len(items') /\ Datas \subseteq 1 .. Len(items)
  BY TakeOther
<1>3. \A i \in Datas' : i + 1 \in Datas /\ items'[i] = items[i + 1] /\ i \in Nat \ {0}
  BY <1>1, <1>2
<1>4. ASSUME NEW j \in Datas, j # 1 PROVE j - 1 \in Datas' /\ items'[j - 1] = items[j]
  <2>1. PICK i \in 1 .. Len(items') : j = i + 1
    <3>1. j \in 1 .. Len(items)
      BY <1>2
    <3>2. j - 1 \in 1 .. Len(items') /\ j = (j - 1) + 1
      BY <1>1, <1>4, <3>1
    <3>3. QED
      BY <3>2
  <2>2. i \in Datas' /\ items'[i] = items[j]
    BY <1>1, <1>2, <2>1
  <2>3. j - 1 = i
    BY <2>1
  <2>4. QED
    BY <2>2, <2>3
<1>5. \A j \in Datas : j \in Nat \ {0}
  BY <1>1, <1>2
<1>6. QED
  BY <1>3, <1>4, <1>5

LEMMA TrackSteps ==
  ASSUME PlayerNext
  PROVE  ItemLoad \/ ItemUnload \/ UNCHANGED track
<1>1. Application \/ AppLoads \/ Network => UNCHANGED track
  BY DEF Application, AppLoad, AppUnload, AppPlay, AppSeek, AppSeeks, AppSeekRefused,
       AppSeekCrashes, Command, AppLoads, Network,
     KeyArrives, Requested, SubstreamSent, SubstreamPostponed, SubstreamFails,
       ConnectionLost, PartArrives, DownloadEnds, EofArrives, decoder
<1>2. Wake \/ DeliverPcm \/ ScheduleReturns => UNCHANGED track
  BY DEF Wake, DeliverPcm, ScheduleReturns, decoder
<1>3. ItemKey \/ ItemPlay \/ ItemPause \/ ItemEof \/ ItemSeek \/ ItemData \/ ItemDatalast
        => UNCHANGED track
  BY DEF ItemKey, ItemPlay, ItemPause, ItemEof, ItemSeek, ItemData, ItemDatalast, decoder
<1>4. Library => UNCHANGED track
  BY DEF Library, SeekWaits, Seeks, ReadRequests, Substream, ReadWaits, GoesAstray, Decoded,
     OpenGoesOn, Opened, DecodedLast, OpenFails, SeekReturns, ReadReturns, decoder
<1>5. QED
  BY <1>1, <1>2, <1>3, <1>4 DEF PlayerNext, PlayerThread, Process

(* While sp_session_player_seek() looks at the track of a calm application *)
(* nobody takes it away.                                                   *)
LEMMA LookedKept ==
  ASSUME PlayerTypeOK, Turned, Looked, PlayerNext, Calm'
  PROVE  Looked'
<1>1. items \in Seq(Entry)
  BY DEF PlayerTypeOK
<1>2. SUFFICES ASSUME seeking' PROVE ~Busy' /\ track' # None
  BY DEF Looked
<1>3. CASE AppSeek
  <2>1. AtRest
    BY <1>3, StaysCalm
  <2>2. UNCHANGED <<items, keyreq, loading, track>> /\ loading = None /\ track # None
    BY <1>3 DEF AppSeek, queue, decoder, network
  <2>3. Turning' = {} /\ KeysDue' = {}
    BY <1>1, <2>1, <2>2 DEF AtRest, Turning, KeysDue
  <2>4. QED
    BY <2>2, <2>3 DEF Busy
<1>4. CASE ~AppSeek
  <2>1. seeking
    BY <1>2, <1>4 DEF PlayerNext, PlayerThread, Wake, DeliverPcm, ScheduleReturns, Process, Take,
       ItemLoad, ItemUnload, ItemKey, ItemPlay, ItemPause, ItemEof, ItemSeek, ItemData,
       ItemDatalast, Library, SeekWaits, Seeks, ReadRequests, Substream, ReadWaits, GoesAstray,
       Decoded, OpenGoesOn, Opened, DecodedLast, OpenFails, SeekReturns, ReadReturns, Application,
       AppLoad, AppUnload, AppPlay, AppSeeks, AppSeekRefused, AppSeekCrashes, AppLoads, Network,
       KeyArrives, Requested, SubstreamSent, SubstreamPostponed, SubstreamFails, ConnectionLost,
       PartArrives, DownloadEnds, EofArrives, application
  <2>2. ~Busy /\ track # None
    BY <2>1 DEF Looked
  <2>3. ~AppUnload /\ ~AppSeeks /\ \A t \in Track : ~AppLoad(t)
    BY <1>2, <2>1 DEF AppUnload, AppSeeks, AppLoad, Command
  <2>4. ~Busy'
    BY <2>2, <2>3, IdleStays
  <2>5. ~ItemLoad /\ ~ItemUnload
    BY <1>1, <2>2, TakeTurning DEF ItemLoad, ItemUnload, Busy, TurnTypes
  <2>6. QED
    BY <2>2, <2>4, <2>5, TrackSteps
<1>5. QED
  BY <1>3, <1>4

LEMMA WriterSteps ==
  ASSUME PlayerNext
  PROVE  \/ UNCHANGED <<writer, rewound>>
         \/ DeliverPcm \/ ItemLoad \/ ItemUnload \/ ItemData \/ Seeks \/ ReadRequests
<1>1. Application \/ AppLoads \/ Network => UNCHANGED <<writer, rewound>>
  BY DEF Application, AppLoad, AppUnload, AppPlay, AppSeek, AppSeeks, AppSeekRefused,
       AppSeekCrashes, Command, AppLoads, Network,
     KeyArrives, Requested, SubstreamSent, SubstreamPostponed, SubstreamFails,
       ConnectionLost, PartArrives, DownloadEnds, EofArrives, buffers, rbuf
<1>2. Wake \/ ScheduleReturns => UNCHANGED <<writer, rewound>>
  BY DEF Wake, ScheduleReturns, buffers, rbuf
<1>3. ItemKey \/ ItemPlay \/ ItemPause \/ ItemEof \/ ItemSeek \/ ItemDatalast
        => UNCHANGED <<writer, rewound>>
  BY DEF ItemKey, ItemPlay, ItemPause, ItemEof, ItemSeek, ItemDatalast, buffers, rbuf
<1>4. Library => UNCHANGED <<writer, rewound>> \/ Seeks \/ ReadRequests
  BY DEF Library, SeekWaits, ReadWaits, GoesAstray, Decoded,
     OpenGoesOn, Opened, DecodedLast, OpenFails, SeekReturns, ReadReturns, buffers, rbuf
<1>5. QED
  BY <1>1, <1>2, <1>3, <1>4 DEF PlayerNext, PlayerThread, Process

LEMMA FitKept ==
  ASSUME PlayerTypeOK, OneDownload, PartsInOrder, Turned, Fit, PlayerNext
  PROVE  Fit'
<1>1. /\ items \in Seq(Entry) /\ NoDownload' = NoDownload
      /\ download \in [track : MaybeTrack, part : 0 .. FileLen + 1, left : 0 .. 2, at : Progress]
      /\ FileLen \in Nat
  BY PlayerAssumption DEF PlayerTypeOK, NoDownload
<1>2. CASE ItemLoad \/ ItemUnload
  <2>1. Datas' = {} /\ download = NoDownload
    BY <1>2, TurnHead DEF ItemLoad, ItemUnload, TurnTypes
  <2>2. download' = download
    BY <1>2 DEF ItemLoad, ItemUnload, network
  <2>3. QED
    BY <1>1, <2>1, <2>2 DEF Fit
<1>3. ASSUME UNCHANGED track, NEW type, Take(type), UNCHANGED download PROVE Fit'
  <2>1. \A i \in Datas' : i + 1 \in Datas /\ items'[i] = items[i + 1]
    BY <1>1, <1>3, PartsShifted
  <2>2. QED
    BY <1>1, <1>3, <2>1 DEF Fit
<1>4. ASSUME UNCHANGED track, NEW x, PlainPush(x) PROVE Fit'
  <2>1. x \in Entry /\ x.type # "DATA" /\ Push(x) /\ UNCHANGED download
    BY <1>4 DEF PlainPush, Plain
  <2>2. \A i \in Datas' : i \in Datas /\ items'[i] = items[i]
    BY <1>1, <2>1, PartsPushed
  <2>3. QED
    BY <1>1, <1>4, <2>1, <2>2 DEF Fit
<1>5. ASSUME UNCHANGED track, NoItem PROVE Fit'
  BY <1>1, <1>5 DEF NoItem, Fit, Datas
<1>6. ASSUME UNCHANGED track, PartArrives PROVE Fit'
  <2> DEFINE x == [type |-> "DATA", track |-> download.track, part |-> download.part]
  <2>1. download # NoDownload /\ download.part <= FileLen
    BY <1>6 DEF PartArrives, NoDownload
  <2>2. x \in Entry /\ x.track = track
    BY <1>1, <2>1 DEF Entry, ItemType, Fit
  <2>3. Push(x) /\ download'.track = track
    BY <1>1, <1>6, <2>1 DEF PartArrives, Fit
  <2> HIDE DEF x
  <2>4. \A i \in Datas' : items'[i] = x \/ (i \in Datas /\ items'[i] = items[i])
    BY <1>1, <2>2, <2>3, PartsPushed
  <2>5. QED
    BY <1>6, <2>2, <2>3, <2>4 DEF Fit
<1>7. ASSUME UNCHANGED track, DownloadEnds PROVE Fit'
  <2>1. Item("DATALAST", None) \in Entry /\ Item("DATALAST", None).type # "DATA"
    BY <1>1 DEF Item, Entry, ItemType, MaybeTrack
  <2>2. Push(Item("DATALAST", None)) /\ download' = NoDownload
    BY <1>7 DEF DownloadEnds
  <2>3. \A i \in Datas' : i \in Datas /\ items'[i] = items[i]
    BY <1>1, <2>1, <2>2, PartsPushed
  <2>4. QED
    BY <1>1, <1>7, <2>2, <2>3 DEF Fit
<1>8. ItemData \/ ItemDatalast => \E type : Take(type) /\ UNCHANGED <<track, download>>
  BY DEF ItemData, ItemDatalast, decoder, network
<1>9. ASSUME ReadRequests PROVE Fit'
  <2>1. UNCHANGED <<track, items>> /\ download'.track = track
    BY <1>9 DEF ReadRequests, Substream, decoder, queue
  <2>2. QED
    BY <2>1 DEF Fit, Datas
<1>10. ASSUME UNCHANGED track, Reported PROVE Fit'
  BY <1>1, <1>10, Reports DEF Fit, Datas, queue
<1>11. CASE UNCHANGED track
  BY <1>3, <1>4, <1>5, <1>6, <1>7, <1>8, <1>9, <1>10, <1>11, DownloadSteps DEF PlainTake
<1>12. QED
  BY <1>2, <1>11, TrackSteps

LEMMA PlacedKept ==
  ASSUME PlayerTypeOK, OneDownload, PartsInOrder, Turned, Placed, PlayerNext
  PROVE  Placed'
<1>1. /\ items \in Seq(Entry) /\ NoDownload' = NoDownload
      /\ download \in [track : MaybeTrack, part : 0 .. FileLen + 1, left : 0 .. 2, at : Progress]
      /\ FileLen \in Nat /\ writer \in 1 .. FileLen + 1
  BY PlayerAssumption DEF PlayerTypeOK, NoDownload
<1>2. ASSUME Datas' = {}, download' = NoDownload PROVE Placed'
  BY <1>1, <1>2 DEF Placed
<1>3. ~is_downloading => Datas = {} /\ download = NoDownload
  BY Substreams DEF OneOrLast, PartsInOrder
<1>4. CASE ItemLoad \/ ItemUnload
  <2>1. Datas' = {} /\ download = NoDownload
    BY <1>4, TurnHead DEF ItemLoad, ItemUnload, TurnTypes
  <2>2. download' = download
    BY <1>4 DEF ItemLoad, ItemUnload, network
  <2>3. QED
    BY <1>2, <2>1, <2>2
<1>5. ASSUME UNCHANGED <<items, download>>,
             UNCHANGED <<writer, rewound>> \/ ~is_downloading \/ rewound'
      PROVE  Placed'
  <2>1. Datas' = Datas
    BY <1>5 DEF Datas
  <2>2. QED
    BY <1>1, <1>2, <1>3, <1>5, <2>1 DEF Placed
<1>6. CASE DeliverPcm
  <2>1. UNCHANGED <<items, download>>
    BY <1>6 DEF DeliverPcm, network
  <2>2. UNCHANGED <<writer, rewound>> \/ ~is_downloading \/ rewound'
    <3>1. CASE is_playing'
      <4>1. writer' = writer
        BY <1>6, <3>1 DEF DeliverPcm
      <4>2. rewound \in BOOLEAN
        BY DEF PlayerTypeOK
      <4>3. (rewound' <=> rewound) /\ rewound' \in BOOLEAN
        BY <1>6, <3>1 DEF DeliverPcm
      <4>4. rewound' = rewound
        BY <4>2, <4>3
      <4>5. QED
        BY <4>1, <4>4
    <3>2. CASE ~is_playing'
      BY <1>6, <3>2 DEF DeliverPcm
    <3>3. QED
      BY <3>1, <3>2
  <2>3. QED
    BY <1>5, <2>1, <2>2
<1>7. CASE Seeks
  BY <1>5, <1>7 DEF Seeks, queue, network
<1>8. CASE ReadRequests
  <2>1. /\ Datas = {} /\ UNCHANGED items /\ writer' = FirstMissing
        /\ download'.part = FirstMissing
    BY <1>3, <1>8 DEF ReadRequests, Substream, queue
  <2>2. Datas' = {}
    BY <2>1 DEF Datas
  <2>3. QED
    BY <2>1, <2>2 DEF Placed
<1>9. ASSUME ~rewound
      PROVE  /\ \A i \in Datas : items[i].part # writer =>
                  \E j \in Datas : j < i /\ items[i].part = items[j].part + 1
             /\ download # NoDownload /\ download.part # writer =>
                  \E j \in Datas : download.part = items[j].part + 1
  BY <1>9 DEF Placed
<1>10. CASE ItemData
  <2>1. Take("DATA") /\ writer' = writer + 1 /\ UNCHANGED <<download, rewound>>
    BY <1>10 DEF ItemData, network
  <2>2. SUFFICES ASSUME ~rewound
                 PROVE  /\ \A i \in Datas' : items'[i].part # writer' =>
                             \E j \in Datas' : j < i /\ items'[i].part = items'[j].part + 1
                        /\ download' # NoDownload' /\ download'.part # writer' =>
                             \E j \in Datas' : download'.part = items'[j].part + 1
    BY <2>1 DEF Placed
  <2>3. 1 \in Datas
    BY <1>1, <2>1, TakeOther
  <2>4. /\ \A i \in Datas' : i + 1 \in Datas /\ items'[i] = items[i + 1] /\ i \in Nat \ {0}
        /\ \A j \in Datas : j # 1 => j - 1 \in Datas' /\ items'[j - 1] = items[j]
        /\ \A j \in Datas : j \in Nat \ {0}
    BY <1>1, <2>1, PartsShifted
  <2>5. items[1].part = writer
    <3>1. \A j \in Datas : ~(j < 1)
      BY <2>4
    <3>2. QED
      BY <1>9, <2>2, <2>3, <3>1
  <2>6. ASSUME NEW i \in Datas', items'[i].part # writer'
        PROVE  \E j \in Datas' : j < i /\ items'[i].part = items'[j].part + 1
    <3>1. i + 1 \in Datas /\ items'[i] = items[i + 1] /\ i \in Nat \ {0} /\ 1 < i + 1
      BY <2>4
    <3>2. items[1].part < items[i + 1].part
      BY <2>3, <3>1 DEF PartsInOrder
    <3>3. items[i + 1].part # writer
      BY <1>1, <2>5, <3>2
    <3>4. PICK j \in Datas : j < i + 1 /\ items[i + 1].part = items[j].part + 1
      BY <1>9, <2>2, <3>1, <3>3
    <3>5. j # 1
      BY <2>1, <2>5, <2>6, <3>1, <3>4
    <3>6. j - 1 \in Datas' /\ items'[j - 1] = items[j] /\ j - 1 < i
      BY <2>4, <3>1, <3>4, <3>5
    <3>7. QED
      BY <3>1, <3>4, <3>6
  <2>7. ASSUME download' # NoDownload', download'.part # writer'
        PROVE  \E j \in Datas' : download'.part = items'[j].part + 1
    <3>1. download # NoDownload /\ download.part = download'.part
      BY <1>1, <2>1, <2>7
    <3>2. items[1].part < download.part
      BY <2>3, <3>1 DEF PartsInOrder
    <3>3. download.part # writer
      BY <1>1, <2>5, <3>2
    <3>4. PICK j \in Datas : download.part = items[j].part + 1
      BY <1>9, <2>2, <3>1, <3>3
    <3>5. j # 1
      BY <2>1, <2>5, <2>7, <3>1, <3>4
    <3>6. j - 1 \in Datas' /\ items'[j - 1] = items[j]
      BY <2>4, <3>5
    <3>7. QED
      BY <3>1, <3>4, <3>6
  <2>8. QED
    BY <2>6, <2>7
<1>11. ASSUME UNCHANGED <<writer, rewound>>, NEW x \in Entry, Push(x), x.type # "DATA",
              download' = download \/ download' = NoDownload
       PROVE  Placed'
  <2>1. SUFFICES ASSUME ~rewound
                 PROVE  /\ \A i \in Datas' : items'[i].part # writer =>
                             \E j \in Datas' : j < i /\ items'[i].part = items'[j].part + 1
                        /\ download' # NoDownload /\ download'.part # writer =>
                             \E j \in Datas' : download'.part = items'[j].part + 1
    BY <1>1, <1>11 DEF Placed
  <2>2. /\ \A i \in Datas : i \in Datas' /\ items'[i] = items[i]
        /\ \A i \in Datas' : i \in Datas
    BY <1>1, <1>11, PartsPushed
  <2>3. QED
    BY <1>9, <1>11, <2>1, <2>2
<1>12. ASSUME UNCHANGED <<writer, rewound, download>>, NEW type, Take(type), type # "DATA"
       PROVE  Placed'
  <2>1. SUFFICES ASSUME ~rewound
                 PROVE  /\ \A i \in Datas' : items'[i].part # writer =>
                             \E j \in Datas' : j < i /\ items'[i].part = items'[j].part + 1
                        /\ download # NoDownload /\ download.part # writer =>
                             \E j \in Datas' : download.part = items'[j].part + 1
    BY <1>1, <1>12 DEF Placed
  <2>2. 1 \notin Datas
    BY <1>1, <1>12, TakeOther
  <2>3. /\ \A i \in Datas' : i + 1 \in Datas /\ items'[i] = items[i + 1] /\ i \in Nat \ {0}
        /\ \A j \in Datas : j # 1 => j - 1 \in Datas' /\ items'[j - 1] = items[j]
        /\ \A j \in Datas : j \in Nat \ {0}
    BY <1>1, <1>12, PartsShifted
  <2>4. ASSUME NEW i \in Datas', items'[i].part # writer
        PROVE  \E j \in Datas' : j < i /\ items'[i].part = items'[j].part + 1
    <3>1. i + 1 \in Datas /\ items'[i] = items[i + 1] /\ i \in Nat \ {0}
      BY <2>3
    <3>2. PICK j \in Datas : j < i + 1 /\ items[i + 1].part = items[j].part + 1
      BY <1>9, <2>1, <2>4, <3>1
    <3>3. j # 1
      BY <2>2
    <3>4. j - 1 \in Datas' /\ items'[j - 1] = items[j] /\ j - 1 < i
      BY <2>3, <3>1, <3>2, <3>3
    <3>5. QED
      BY <3>1, <3>2, <3>4
  <2>5. ASSUME download # NoDownload, download.part # writer
        PROVE  \E j \in Datas' : download.part = items'[j].part + 1
    <3>1. PICK j \in Datas : download.part = items[j].part + 1
      BY <1>9, <2>1, <2>5
    <3>2. j - 1 \in Datas' /\ items'[j - 1] = items[j]
      BY <2>2, <2>3
    <3>3. QED
      BY <3>1, <3>2
  <2>6. QED
    BY <2>4, <2>5
<1>13. ASSUME UNCHANGED <<writer, rewound>>, PartArrives
       PROVE  Placed'
  <2> DEFINE x == [type |-> "DATA", track |-> download.track, part |-> download.part]
  <2>1. download # NoDownload /\ download.part <= FileLen
    BY <1>13 DEF PartArrives, NoDownload
  <2>2. x \in Entry /\ x.type = "DATA" /\ x.part = download.part
    BY <1>1, <2>1 DEF Entry, ItemType
  <2>3. Push(x) /\ download'.part = download.part + 1
    BY <1>1, <1>13 DEF PartArrives
  <2> HIDE DEF x
  <2>4. SUFFICES ASSUME ~rewound
                 PROVE  /\ \A i \in Datas' : items'[i].part # writer =>
                             \E j \in Datas' : j < i /\ items'[i].part = items'[j].part + 1
                        /\ \E j \in Datas' : download'.part = items'[j].part + 1
    BY <1>13 DEF Placed
  <2>5. /\ \A i \in Datas : i \in Datas' /\ items'[i] = items[i] /\ i < Len(items) + 1
        /\ \A i \in Datas' : i \in Datas \/ i = Len(items) + 1
        /\ items'[Len(items) + 1] = x /\ Len(items) + 1 \in Datas'
    BY <1>1, <2>2, <2>3, PartsPushed
  <2>6. ASSUME NEW i \in Datas', items'[i].part # writer
        PROVE  \E j \in Datas' : j < i /\ items'[i].part = items'[j].part + 1
    <3>1. CASE i \in Datas
      BY <1>9, <2>4, <2>5, <2>6, <3>1
    <3>2. CASE i = Len(items) + 1
      <4>1. download.part # writer
        BY <2>2, <2>5, <2>6, <3>2
      <4>2. PICK j \in Datas : download.part = items[j].part + 1
        BY <1>9, <2>1, <2>4, <4>1
      <4>3. QED
        BY <2>2, <2>5, <3>2, <4>2
    <3>3. QED
      BY <2>5, <3>1, <3>2
  <2>7. QED
    BY <2>2, <2>3, <2>5, <2>6
<1>14. Item("DATALAST", None) \in Entry /\ Item("DATALAST", None).type # "DATA"
  BY <1>1 DEF Item, Entry, ItemType, MaybeTrack
<1>15. CASE UNCHANGED <<writer, rewound>>
  <2>1. ASSUME NEW x, PlainPush(x) PROVE Placed'
    BY <1>11, <1>15, <2>1 DEF PlainPush, Plain
  <2>2. ASSUME NEW type, PlainTake(type) PROVE Placed'
    BY <1>12, <1>15, <2>2 DEF PlainTake, Plain
  <2>3. NoItem => Placed'
    BY <1>5, <1>15 DEF NoItem
  <2>4. DownloadEnds => Placed'
    BY <1>11, <1>14, <1>15 DEF DownloadEnds
  <2>5. ItemDatalast => Placed'
    BY <1>12, <1>15 DEF ItemDatalast, network
  <2>6. ASSUME Reported PROVE Placed'
    <3>1. /\ UNCHANGED items /\ download # NoDownload /\ download'.part = download.part
      BY <2>6, Reports DEF queue
    <3>2. Datas' = Datas
      BY <3>1 DEF Datas
    <3>3. QED
      BY <1>15, <3>1, <3>2 DEF Placed
  <2>7. QED
    BY <1>8, <1>10, <1>13, <1>15, <2>1, <2>2, <2>3, <2>4, <2>5, <2>6, DownloadSteps
<1>16. QED
  BY <1>4, <1>6, <1>7, <1>8, <1>10, <1>15, WriterSteps

(* The contents of the buffer, the key and the decoder.                    *)
LEMMA RightKept ==
  ASSUME PlayerTypeOK, OneDownload, PartsInOrder, Turned, Looked, Called, Fit, Placed, Right,
         PlayerNext, Calm'
  PROVE  Right'
<1>1. /\ items \in Seq(Entry) /\ ogg \in [1 .. FileLen -> [track : MaybeTrack, part : 0 .. FileLen]]
      /\ FileLen \in Nat /\ writer \in 1 .. FileLen + 1 /\ Nothing' = Nothing
      /\ vf \in decoders \union {0} /\ mode \in {"wait", "drain", "library", "astray"}
  BY PlayerAssumption DEF PlayerTypeOK, Nothing
<1>2. ASSUME UNCHANGED <<ogg, track, vf, key>>, rewound => rewound', mode' # "astray"
      PROVE  Right'
  BY <1>1, <1>2 DEF Right
<1>3. mode # "astray"
  BY DEF Right
<1>4. CASE Application \/ AppLoads
  <2>1. ~AppSeekCrashes
    BY DEF AppSeekCrashes, Looked
  <2>2. QED
    BY <1>2, <1>3, <1>4, <2>1 DEF Application, AppLoad, AppUnload, AppPlay, AppSeek, AppSeeks,
       AppSeekRefused, Command, AppLoads, decoder, buffers, rbuf
<1>5. CASE Network
  BY <1>2, <1>3, <1>5 DEF Network, KeyArrives, Requested, SubstreamSent, SubstreamPostponed, SubstreamFails,
       ConnectionLost, PartArrives, DownloadEnds, EofArrives, decoder,
       buffers, rbuf
<1>6. CASE Wake \/ DeliverPcm \/ ScheduleReturns
  BY <1>2, <1>3, <1>6 DEF Wake, DeliverPcm, ScheduleReturns, Decode, decoder, buffers, rbuf
<1>7. CASE ItemLoad
  <2>1. Blank
    BY <1>7, TurnHead DEF ItemLoad, TurnTypes
  <2>2. \A p \in 1 .. FileLen : ogg[p] = Nothing
    BY <2>1 DEF Blank, EmptyFile
  <2>3. ogg' = ogg /\ vf' = 0 /\ mode' = mode
    BY <1>7, <2>1 DEF ItemLoad, Blank
  <2>4. QED
    BY <1>1, <1>3, <2>2, <2>3 DEF Right
<1>8. CASE ItemUnload
  <2>1. ogg' = EmptyFile /\ vf' = 0 /\ mode' = mode
    BY <1>8 DEF ItemUnload
  <2>2. \A p \in 1 .. FileLen : ogg'[p] = Nothing
    BY <2>1 DEF EmptyFile
  <2>3. QED
    BY <1>1, <1>3, <2>1, <2>2 DEF Right
<1>9. CASE ItemKey
  <2>1. Head(items) = items[1] /\ items[1].track = track
    BY <1>9, TurnHead DEF ItemKey, TurnTypes
  <2>2. key' = track /\ track' = track /\ mode' = "library" /\ UNCHANGED <<ogg, rewound>>
    BY <1>9, <2>1 DEF ItemKey, buffers, rbuf
  <2>3. QED
    BY <1>1, <2>2 DEF Right
<1>10. CASE ItemPlay \/ ItemPause \/ ItemEof \/ ItemSeek \/ ItemDatalast
  BY <1>2, <1>3, <1>10 DEF ItemPlay, ItemPause, ItemEof, ItemSeek, ItemDatalast, decoder, buffers, rbuf
<1>11. CASE ItemData
  <2>1. Take("DATA")
    BY <1>11 DEF ItemData
  <2>2. 1 \in Datas /\ Head(items) = items[1] /\ items[1] \in Entry
    BY <1>1, <2>1, TakeOther, Took
  <2>3. items[1].track = track /\ items[1].part \in 0 .. FileLen /\ writer <= items[1].part
    BY <2>2 DEF Fit, PartsInOrder, Entry
  <2>4. ~rewound => items[1].part = writer
    <3>1. \A j \in Datas : ~(j < 1)
      BY <1>1, <2>1, PartsShifted
    <3>2. QED
      BY <2>2, <3>1 DEF Placed
  <2>5. /\ ogg' = [ogg EXCEPT ![writer] = [track |-> items[1].track, part |-> items[1].part]]
        /\ UNCHANGED <<mode, track, key, vf, rewound>>
    BY <1>11, <2>2 DEF ItemData, decoder
  <2>6. \A p \in 1 .. FileLen :
          ogg'[p] = IF p = writer THEN [track |-> items[1].track, part |-> items[1].part] ELSE ogg[p]
    BY <1>1, <2>5
  <2>7. ASSUME NEW p \in 1 .. FileLen, ogg'[p] # Nothing
        PROVE  ogg'[p].track = track /\ (~rewound => ogg'[p].part = p)
    <3>1. CASE p = writer
      BY <2>3, <2>4, <2>6, <3>1
    <3>2. CASE p # writer
      BY <2>6, <2>7, <3>2 DEF Right
    <3>3. QED
      BY <3>1, <3>2
  <2>8. QED
    BY <1>1, <1>3, <2>5, <2>7 DEF Right
<1>12. CASE SeekWaits \/ ReadWaits
  BY <1>2, <1>12 DEF SeekWaits, ReadWaits, decoder, buffers, rbuf
<1>13. ~GoesAstray
  <2>1. mode = "library" => Top.vf \in decoders /\ track # None
    BY Single
  <2>2. QED
    BY <2>1 DEF GoesAstray
<1>14. CASE Seeks \/ ReadRequests
  BY <1>2, <1>3, <1>14 DEF Seeks, ReadRequests, Substream, decoder
<1>15. CASE Decoded \/ OpenGoesOn \/ Opened
  BY <1>2, <1>3, <1>15 DEF Decoded, Decode, OpenGoesOn, Opened, ReadReturns, decoder
<1>16. ASSUME NEW has \in BOOLEAN, DecodedLast(has) \/ SeekReturns(has) PROVE Right'
  BY <1>2, <1>16 DEF DecodedLast, SeekReturns, ReadReturns, decoder
<1>17. ASSUME NEW has \in BOOLEAN, OpenFails(has) PROVE Right'
  BY <1>1, <1>17 DEF OpenFails, ReadReturns, Right
<1>18. QED
  BY <1>4, <1>5, <1>6, <1>7, <1>8, <1>9, <1>10, <1>11, <1>12, <1>13, <1>14, <1>15, <1>16, <1>17
     DEF PlayerNext, PlayerThread, Process, Library
-----------------------------------------------------------------------------
(* The player starts with nothing loaded, queued or asked for.             *)
LEMMA PlayerStarts == PlayerInit => PlayerInv
<1>1. SUFFICES ASSUME PlayerInit PROVE PlayerInv
  OBVIOUS
<1>2. /\ items = <<>> /\ calls = <<>> /\ mode = "wait" /\ decoders = {} /\ track = None /\ key = None
      /\ vf = 0 /\ pcm = 0 /\ ogg = EmptyFile /\ download = NoDownload /\ loading = None
      /\ ~seeking /\ ~is_downloading /\ ~eofdue /\ ~is_loaded /\ ~item_posted
      /\ \A t \in Track : keyreq[t] = 0
  BY <1>1 DEF PlayerInit
<1>3. None \in MaybeTrack /\ FileLen \in Nat \ {0} /\ PcmLimit \in Nat \ {0} /\ MaxCommands \in Nat
  BY PlayerAssumption DEF MaybeTrack
<1>4. Len(items) = 0 /\ Len(calls) = 0
  BY <1>2, EmptySeq
<1>5. PlayerTypeOK
  <2>1. items \in Seq(Entry) /\ calls \in Seq(Call)
    BY <1>2, EmptySeq
  <2>2. \A i \in 1 .. Len(items) : items[i].type \in {"LOAD", "KEY"} => items[i].track # None
    BY <1>4
  <2>3. IsFiniteSet(decoders)
    BY <1>2, FS_EmptySet
  <2>4. Nothing \in [track : MaybeTrack, part : 0 .. FileLen]
    BY <1>3 DEF Nothing
  <2>5. ogg \in [1 .. FileLen -> [track : MaybeTrack, part : 0 .. FileLen]]
    BY <1>2, <2>4 DEF EmptyFile
  <2>6. /\ download \in [track : MaybeTrack, part : 0 .. FileLen + 1, left : 0 .. 2, at : Progress]
        /\ download.at = "none"
    BY <1>2, <1>3 DEF NoDownload, Progress
  <2>7. /\ reader \in 1 .. FileLen + 1 /\ writer \in 1 .. FileLen + 1 /\ pcm \in 0 .. PcmLimit
        /\ commands \in 0 .. MaxCommands /\ hasty \in 0 .. MaxCommands
    BY <1>1, <1>3 DEF PlayerInit
  <2>8. /\ is_loaded \in BOOLEAN /\ is_playing \in BOOLEAN /\ is_paused \in BOOLEAN
        /\ is_eof \in BOOLEAN /\ is_downloading \in BOOLEAN /\ rewound \in BOOLEAN
        /\ eofdue \in BOOLEAN /\ item_posted \in BOOLEAN /\ keyreq \in [Track -> Nat]
        /\ seeking \in BOOLEAN
    BY <1>1 DEF PlayerInit
  <2>9. QED
    BY <1>2, <1>3, <2>1, <2>2, <2>3, <2>5, <2>6, <2>7, <2>8 DEF PlayerTypeOK
<1>6. Datas = {} /\ Datalasts = {} /\ Turning = {} /\ KeysDue = {}
  BY <1>2, <1>4 DEF Datas, Datalasts, Turning, KeysDue
<1>7. NoLostItem /\ DecodeIsOutermost /\ OneDownload /\ PartsInOrder
  BY <1>2, <1>4, <1>5, <1>6, Substreams DEF NoLostItem, DecodeIsOutermost, OneOrLast, PartsInOrder
<1>8. Turned /\ Looked /\ Called /\ Fit /\ Placed
  BY <1>2, <1>4, <1>6 DEF Turned, Looked, Busy, Called, Fit, Placed
<1>9. Right
  BY <1>2 DEF Right, EmptyFile
<1>10. QED
  BY <1>5, <1>7, <1>8, <1>9, WhileCalm DEF PlayerInv

(* Every step of the player, the network and the application keeps it.     *)
LEMMA PlayerSteps == PlayerInv /\ [PlayerNext]_playerVars => PlayerInv'
<1>1. SUFFICES ASSUME PlayerInv, [PlayerNext]_playerVars PROVE PlayerInv'
  OBVIOUS
<1>2. /\ PlayerTypeOK /\ NoLostItem /\ DecodeIsOutermost /\ OneDownload /\ PartsInOrder
      /\ Calm => Turned /\ Looked /\ Called /\ Fit /\ Placed /\ Right
  BY <1>1, WhileCalm DEF PlayerInv
<1>3. CASE PlayerNext
  <2>1. PlayerTypeOK'
    <3>1. QueueTypes' /\ DecoderTypes' /\ FlagTypes' /\ NetworkTypes'
      BY <1>2, <1>3, QueueTyped, DecodersTyped, FlagsTyped, NetworkTyped
    <3>2. CallTypes'
      BY <1>2, <1>3, CallsTyped
    <3>3. BufferTypes'
      BY <1>2, <1>3, BuffersTyped
    <3>4. (PlayerTypeOK <=> /\ QueueTypes /\ CallTypes /\ DecoderTypes /\ FlagTypes
                            /\ BufferTypes /\ NetworkTypes)'
      BY Groups, PTL
    <3>5. QED
      BY <3>1, <3>2, <3>3, <3>4
  <2>2. NoLostItem' /\ DecodeIsOutermost'
    BY <1>2, <1>3, NoneIsLost, DecodeKept
  <2>3. OneDownload' /\ PartsInOrder'
    BY <1>2, <1>3, <2>1, DownloadKept
  <2>4. Calm' => Turned' /\ Looked' /\ Called' /\ Fit' /\ Placed' /\ Right'
    <3>1. SUFFICES ASSUME Calm' PROVE Turned' /\ Looked' /\ Called' /\ Fit' /\ Placed' /\ Right'
      OBVIOUS
    <3>2. Turned /\ Looked /\ Called /\ Fit /\ Placed /\ Right
      BY <1>2, <1>3, <3>1, StaysCalm
    <3>3. Turned' /\ Looked' /\ Called'
      BY <1>2, <1>3, <3>1, <3>2, TurnKept, LookedKept, CallKept
    <3>4. Fit' /\ Placed'
      BY <1>2, <1>3, <3>2, FitKept, PlacedKept
    <3>5. Right'
      BY <1>2, <1>3, <3>1, <3>2, RightKept
    <3>6. QED
      BY <3>3, <3>4, <3>5
  <2>5. /\ (OneTurn <=> (Calm => Turned /\ Looked))'
        /\ (OneCall <=> (Calm => Called))'
        /\ (PartsFit <=> (Calm => Fit /\ Placed))'
        /\ (CalmPlayerIsRight <=> (Calm => Right))'
    BY WhileCalm, PTL
  <2>6. OneTurn' /\ OneCall' /\ PartsFit' /\ CalmPlayerIsRight'
    BY <2>4, <2>5
  <2>7. QED
    BY <2>1, <2>2, <2>3, <2>6 DEF PlayerInv
<1>4. CASE UNCHANGED playerVars
  <2>1. UNCHANGED <<items, item_posted, mode, calls, track, key, vf, decoders, is_loaded, is_playing,
                    is_paused, is_eof, is_downloading, ogg, reader, writer, rewound, pcm, keyreq,
                    download, eofdue, loading, seeking, commands, hasty>>
    BY <1>4 DEF playerVars, queue, decoder, flags, buffers, rbuf, network, application
  <2>2. /\ PlayerTypeOK' /\ NoLostItem' /\ DecodeIsOutermost'
    BY <1>2, <2>1 DEF PlayerTypeOK, NoLostItem, DecodeIsOutermost, NoDownload
  <2>3. Datas' = Datas /\ Datalasts' = Datalasts /\ Turning' = Turning /\ KeysDue' = KeysDue
        /\ NoDownload' = NoDownload /\ EmptyFile' = EmptyFile /\ Nothing' = Nothing
    BY <2>1 DEF Datas, Datalasts, Turning, KeysDue, NoDownload, EmptyFile, Nothing
  <2>4. OneDownload' /\ PartsInOrder'
    BY <1>2, <2>1, <2>3 DEF OneDownload, Underway, PartsInOrder
  <2>5. OneTurn' /\ OneCall' /\ PartsFit' /\ CalmPlayerIsRight'
    BY <1>1, <2>1, <2>3 DEF PlayerInv, OneTurn, OneCall, PartsFit, CalmPlayerIsRight, Calm, Blank
  <2>6. QED
    BY <2>2, <2>4, <2>5 DEF PlayerInv
<1>5. QED
  BY <1>1, <1>3, <1>4

(* What the player keeps at every step, also for a hasty application: its  *)
(* types, no item in a queue that nobody looks at, one download, also when *)
(* its command could not be written, whose parts are in order, and what    *)
(* holds as long as the application is calm.                               *)
THEOREM PlayerInvariant == PlayerSpec => []PlayerInv
BY PlayerStarts, PlayerSteps, PTL DEF PlayerSpec

(* is_downloading is set exactly in three cases that exclude each other: a *)
(* substream is asked for and has not ended, be it put off or left behind  *)
(* by its connection; its one DATALAST is in the queue; or the command of  *)
(* a substream could not be written, after which the flag stays set for    *)
(* good and nothing is asked for again.  There are never two downloads:    *)
(* whatever the application does meanwhile, and at whatever depth of       *)
(* re-entrance player_ov_read() asks for the next.                         *)
THEOREM PlayerOneDownload == PlayerSpec => []OneDownload
<1>1. PlayerInv => OneDownload
  BY DEF PlayerInv
<1>2. QED
  BY <1>1, PlayerInvariant, PTL

(* For an application that waits until the player is at rest before it     *)
(* loads, unloads or seeks, every part in the buffer is of the track that  *)
(* is played, and decrypted with its key; no callback of libvorbis returns *)
(* to a decoder that is gone; and unless player_deliver_pcm() rewound the  *)
(* buffer in the middle of a download, every part is at its place.         *)
THEOREM PlayerCalmIsRight == PlayerSpec => []CalmPlayerIsRight
<1>1. PlayerInv => CalmPlayerIsRight
  BY DEF PlayerInv
<1>2. QED
  BY <1>1, PlayerInvariant, PTL
=============================================================================
