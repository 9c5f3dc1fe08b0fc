------------------------------- MODULE Player -------------------------------
(***************************************************************************)
(* The player: player.c, and the calls of sp_session.c that drive it.      *)
(*                                                                         *)
(* The player thread works on a FIFO of items that the application, the    *)
(* networking thread and the player itself append to.  It decodes with     *)
(* libvorbis, whose callbacks player_ov_read() and player_ov_seek() call   *)
(* player_schedule() again while they wait for data: items are processed   *)
(* in the middle of a call that an item, or player_main(), has made.  The  *)
(* calls into libvorbis that have not returned are the stack "calls".      *)
(*                                                                         *)
(* The encrypted file is a sequence of parts; player->ogg, the sparse file *)
(* of rbuf.c, holds at each place a part of some track or nothing.  A      *)
(* download asks for two parts, a read goes on as soon as it has one.  PCM *)
(* is counted in portions of one part each.  libvorbis is external: it     *)
(* reads, and while it opens a file it seeks, where it likes.              *)
(***************************************************************************)
EXTENDS Naturals, Sequences, FiniteSets

CONSTANTS Track,        \* the tracks that the application loads
          MaxCommands,  \* bound on the calls of the application; those that do
                        \* not wait for the player count twice
          FileLen,      \* the parts of a file
          MaxSeeks,     \* bound on the seeks of ov_open_callbacks()
          PcmLimit      \* portions after which decoding pauses: 2 seconds

None == "none"

ASSUME PlayerAssumption ==
  /\ None \notin Track
  /\ MaxCommands \in Nat /\ MaxSeeks \in Nat
  /\ FileLen \in Nat \ {0} /\ PcmLimit \in Nat \ {0}

VARIABLES items,        \* player->items: [type, track, part]
          item_posted,
          mode,         \* where the player thread is
          calls,        \* the calls into libvorbis: [fn, in, vf, did, seeks]
          track,        \* player->track
          key,          \* player->key, by its track
          vf,           \* player->vf by number, 0 for NULL
          decoders,     \* the decoders that are allocated
          is_loaded, is_playing, is_paused, is_eof,
          is_downloading,
          ogg,          \* the contents of player->ogg, by place
          reader,       \* read_offset of player->ogg
          writer,       \* write_offset of player->ogg
          rewound,      \* history: player_deliver_pcm() moved both of them to
                        \* the start while a download was under way
          pcm,          \* portions in player->pcm
          keyreq,       \* how often the key of each track is asked for
          download,     \* the substream: its track, the next part, what is left,
                        \* and how far its request has come
          eofdue,       \* the substream's callback has still to push EOF
          loading,      \* the track that sp_session_player_load() has still to push
          seeking,      \* sp_session_player_seek() has looked at player->track once
          commands,     \* calls of the application so far
          hasty         \* history: loads, unloads and seeks that did not wait
                        \* until the player was at rest

queue == <<items, item_posted>>
flags == <<is_loaded, is_playing, is_paused, is_eof>>
decoder == <<track, key, vf, decoders>>
rbuf == <<ogg, reader, writer, rewound>>
buffers == <<is_downloading, rbuf, pcm>>
network == <<keyreq, download, eofdue>>
application == <<loading, seeking, commands, hasty>>
playerVars == <<queue, mode, calls, decoder, flags, buffers, network, application>>

NoDownload == [track |-> None, part |-> 0, left |-> 0, at |-> "none"]
Nothing == [track |-> None, part |-> 0]
EmptyFile == [p \in 1 .. FileLen |-> Nothing]
Item(type, t) == [type |-> type, track |-> t, part |-> 0]
Top == calls[Len(calls)]
Pop == SubSeq(calls, 1, Len(calls) - 1)
Frame(fn, dec) ==
  [fn |-> fn, in |-> IF fn = "seek" THEN "seek" ELSE "read", vf |-> dec, did |-> FALSE, seeks |-> 0]
-----------------------------------------------------------------------------
(* player_init()                                                           *)
PlayerInit ==
  /\ items = <<>> /\ item_posted = FALSE
  /\ mode = "wait" /\ calls = <<>>
  /\ track = None /\ key = None /\ vf = 0 /\ decoders = {}
  /\ is_loaded = FALSE /\ is_playing = FALSE /\ is_paused = FALSE /\ is_eof = FALSE
  /\ is_downloading = FALSE /\ pcm = 0
  /\ ogg = EmptyFile /\ reader = 1 /\ writer = 1 /\ rewound = FALSE
  /\ keyreq = [t \in Track |-> 0] /\ download = NoDownload /\ eofdue = FALSE
  /\ loading = None /\ seeking = FALSE /\ commands = 0 /\ hasty = 0

(* Slip: the condition is signalled but the flag is not set.               *)
PushUnposted(item) == items' = Append(items, item) /\ UNCHANGED item_posted

(* player_push(), under the mutex.                                         *)
Push(item) == items' = Append(items, item) /\ item_posted' = TRUE

(* Nothing is queued, running or being fetched.                            *)
AtRest ==
  /\ items = <<>> /\ calls = <<>> /\ mode = "wait"
  /\ \A t \in Track : keyreq[t] = 0
  /\ download = NoDownload /\ ~eofdue /\ ~is_downloading

(* The track or the position changes.                                      *)
Turn ==
  /\ hasty' = IF AtRest THEN hasty ELSE hasty + 1
  /\ commands' + hasty' <= MaxCommands

Calm == hasty = 0

Command(item) ==
  /\ loading = None /\ ~seeking
  /\ commands + hasty < MaxCommands /\ commands' = commands + 1
  /\ Push(item)
  /\ UNCHANGED <<mode, calls, decoder, flags, buffers, network>>

(* sp_session_player_load(): push UNLOAD, ...                              *)
AppLoad(t) ==
  /\ Command(Item("UNLOAD", None))
  /\ loading' = t
  /\ Turn
  /\ UNCHANGED seeking

(* ... then LOAD.                                                          *)
AppLoads ==
  /\ loading # None /\ loading' = None
  /\ Push(Item("LOAD", loading))
  /\ UNCHANGED <<mode, calls, decoder, flags, buffers, network, seeking, commands, hasty>>

(* sp_session_player_unload()                                              *)
AppUnload ==
  /\ Command(Item("UNLOAD", None))
  /\ Turn
  /\ UNCHANGED <<loading, seeking>>

(* sp_session_player_play(); a lost play token pauses in the same way.     *)
AppPlay(type) == Command(Item(type, None)) /\ UNCHANGED <<loading, seeking, hasty>>

(* sp_session_player_seek(): see that player->track is not NULL, ...       *)
AppSeek ==
  /\ loading = None /\ ~seeking /\ track # None
  /\ seeking' = TRUE
  /\ hasty' = IF AtRest THEN hasty ELSE hasty + 1
  /\ commands + 1 + hasty' <= MaxCommands
  /\ UNCHANGED <<queue, mode, calls, decoder, flags, buffers, network, loading, commands>>

(* ... then follow it, wherever it points by now, and push SEEK ...        *)
AppSeeks ==
  /\ seeking /\ track # None
  /\ seeking' = FALSE
  /\ Push(Item("SEEK", None)) /\ commands' = commands + 1
  /\ hasty' = IF AtRest \/ ~Calm THEN hasty ELSE 1
  /\ UNCHANGED <<mode, calls, decoder, flags, buffers, network, loading>>

(* ... unless the track is shorter than that.                              *)
AppSeekRefused ==
  /\ seeking /\ track # None
  /\ seeking' = FALSE
  /\ UNCHANGED <<queue, mode, calls, decoder, flags, buffers, network, loading, commands, hasty>>
AppSeekCrashes ==
  /\ seeking /\ track = None
  /\ mode' = "astray"
  /\ UNCHANGED <<queue, calls, decoder, flags, buffers, network, application>>
-----------------------------------------------------------------------------
(* player_aes_callback(): the key arrives, or the channel ends without it. *)
KeyArrives(t) ==
  /\ keyreq[t] > 0 /\ ~eofdue
  /\ keyreq' = [keyreq EXCEPT ![t] = @ - 1]
  /\ Push(Item("KEY", t)) \/ UNCHANGED queue
  /\ UNCHANGED <<mode, calls, decoder, flags, buffers, download, eofdue, application>>

(* player_process_request() writes the command of a substream, at once or  *)
(* after process_request() has put it off: there was no connection, or too *)
(* many channels were open.                                                *)
Requested(from, to) ==
  /\ download.at \in from /\ ~eofdue
  /\ download' = [download EXCEPT !.at = to]
  /\ UNCHANGED <<queue, mode, calls, decoder, flags, buffers, keyreq, eofdue, application>>
SubstreamSent == Requested({"posted", "postponed"}, "sent")
SubstreamPostponed == Requested({"posted"}, "postponed")

(* cmd_getsubstreams() fails to write it, withdraws the channel and tells  *)
(* nobody but the request, which returns an error that nobody looks at.    *)
SubstreamFails == Requested({"posted", "postponed"}, "failed")

(* The connection is lost.  The channel stays open, for a logout to fail.  *)
ConnectionLost == Requested({"sent"}, "orphaned")

(* player_substream_callback(), CHANNEL_DATA.  The networking thread does  *)
(* nothing else until a callback has returned, eofdue included.            *)
PartArrives ==
  /\ download.at = "sent" /\ ~eofdue
  /\ download.left > 0 /\ download.part <= FileLen
  /\ download' = [download EXCEPT !.left = @ - 1, !.part = @ + 1]
  /\ Push([type |-> "DATA", track |-> download.track, part |-> download.part])
  /\ UNCHANGED <<mode, calls, decoder, flags, buffers, keyreq, eofdue, application>>

(* Slip: that less came than was asked for goes unnoticed.                 *)
DownloadEndsQuietly ==
  /\ download.at \in {"sent", "orphaned"} /\ ~eofdue /\ download' = NoDownload
  /\ Push(Item("DATALAST", None))
  /\ UNCHANGED <<mode, calls, decoder, flags, buffers, keyreq, eofdue, application>>

(* CHANNEL_END and CHANNEL_ERROR: the download is over, and if something   *)
(* is missing ...                                                          *)
DownloadEnds ==
  /\ download.at \in {"sent", "orphaned"} /\ ~eofdue /\ download' = NoDownload
  /\ Push(Item("DATALAST", None))
  /\ eofdue' \in BOOLEAN /\ (download.left > 0 => eofdue')
  /\ UNCHANGED <<mode, calls, decoder, flags, buffers, keyreq, application>>

(* ... the end of the file is pushed after that.                           *)
EofArrives ==
  /\ eofdue /\ eofdue' = FALSE
  /\ Push(Item("EOF", None))
  /\ UNCHANGED <<mode, calls, decoder, flags, buffers, keyreq, download, application>>

Network ==
  \/ \E t \in Track : KeyArrives(t)
  \/ SubstreamSent \/ SubstreamPostponed \/ SubstreamFails \/ ConnectionLost
  \/ PartArrives \/ DownloadEnds \/ EofArrives
-----------------------------------------------------------------------------
(* player_schedule() finds item_posted, at once or after it was signalled  *)
(* in pthread_cond_wait() or pthread_cond_timedwait().                     *)
Wake ==
  /\ mode = "wait" /\ item_posted
  /\ item_posted' = FALSE
  /\ mode' = "drain"
  /\ UNCHANGED <<items, calls, decoder, flags, buffers, network, application>>

Deliverable == is_loaded /\ is_playing /\ ~is_paused /\ pcm > 0

(* Slip: playback goes on after the end of the track.                      *)
DeliverForever ==
  /\ mode = "wait" /\ Deliverable
  /\ pcm' \in {pcm, IF pcm > 1 THEN pcm - 1 ELSE pcm}
  /\ mode' = IF pcm' <= 1 THEN "drain" ELSE mode
  /\ item_posted' = IF pcm' <= 1 THEN FALSE ELSE item_posted
  /\ UNCHANGED <<items, calls, decoder, flags, is_downloading, rbuf, network, application>>

(* pthread_cond_timedwait() times out: player_deliver_pcm() hands over     *)
(* what music_delivery() takes and calls end_of_track() at the end.  Then, *)
(* and when little is left, the wait is over.                              *)
DeliverPcm ==
  /\ mode = "wait" /\ Deliverable
  /\ pcm' \in {pcm, pcm - 1}
  /\ is_playing' = ~(is_eof /\ pcm' = 0)
  /\ reader' = IF is_playing' THEN reader ELSE 1
  /\ writer' = IF is_playing' THEN writer ELSE 1
  /\ rewound' = (rewound \/ (~is_playing' /\ is_downloading))
  /\ mode' = IF pcm' <= 1 THEN "drain" ELSE mode
  /\ item_posted' = IF pcm' <= 1 THEN FALSE ELSE item_posted
  /\ UNCHANGED <<items, calls, decoder, is_loaded, is_paused, is_eof, is_downloading, ogg,
                 network, application>>

(* player_main(), below player_schedule(): decode as long as little PCM is *)
(* there.                                                                  *)
Decode(stack, portions) ==
  LET busy == is_loaded /\ ~is_eof /\ portions < PcmLimit IN
  /\ calls' = IF busy THEN Append(stack, Frame("decode", vf)) ELSE stack
  /\ mode' = IF busy THEN "library" ELSE "wait"

(* The queue is empty: return to the callback or to player_main().         *)
ScheduleReturns ==
  /\ mode = "drain" /\ items = <<>>
  /\ \/ calls # <<>> /\ mode' = "library" /\ UNCHANGED calls
     \/ calls = <<>> /\ Decode(calls, pcm)
  /\ UNCHANGED <<queue, decoder, flags, buffers, network, application>>
-----------------------------------------------------------------------------
(* The switch of player_schedule(): one item, without the mutex.           *)
Take(type) ==
  /\ mode = "drain" /\ items # <<>> /\ Head(items).type = type
  /\ items' = Tail(items)
  /\ UNCHANGED <<item_posted, application>>

ItemLoad ==
  /\ Take("LOAD")
  /\ track' = Head(items).track
  /\ is_loaded' = FALSE /\ is_playing' = FALSE /\ is_paused' = FALSE /\ is_eof' = FALSE
  /\ reader' = 1 /\ writer' = 1
  /\ keyreq' = [keyreq EXCEPT ![track'] = @ + 1]
  /\ UNCHANGED <<mode, calls, key, vf, decoders, is_downloading, ogg, rewound, pcm, download,
                 eofdue>>

(* Slip: the buffer is kept for the next track.                            *)
ItemUnloadKeeps ==
  /\ Take("UNLOAD")
  /\ track' = None /\ key' = None
  /\ is_loaded' = FALSE /\ is_playing' = FALSE /\ is_paused' = FALSE /\ is_eof' = FALSE
  /\ decoders' = decoders \ {vf} /\ vf' = 0
  /\ pcm' = 0
  /\ reader' = 1 /\ writer' = 1 /\ rewound' = FALSE
  /\ UNCHANGED <<mode, calls, is_downloading, ogg, network>>

ItemUnload ==
  /\ Take("UNLOAD")
  /\ track' = None /\ key' = IF track = None THEN key ELSE None
  /\ is_loaded' = FALSE /\ is_playing' = FALSE /\ is_paused' = FALSE /\ is_eof' = FALSE
  /\ decoders' = decoders \ {vf} /\ vf' = 0
  /\ ogg' = EmptyFile /\ reader' = 1 /\ writer' = 1 /\ rewound' = FALSE /\ pcm' = 0
  /\ UNCHANGED <<mode, calls, is_downloading, network>>

(* calloc(): a decoder that neither exists nor is in use.                  *)
Taken == decoders \union {calls[i].vf : i \in 1 .. Len(calls)}
Unused == CHOOSE d \in 1 .. Cardinality(Taken) + 1 : d \notin Taken

(* The key: ov_open_callbacks() is called on a new decoder.                *)
ItemKey ==
  /\ Take("KEY")
  /\ key' = Head(items).track
  /\ vf' = Unused /\ decoders' = decoders \union {vf'}
  /\ calls' = Append(calls, Frame("open", vf'))
  /\ mode' = "library"
  /\ UNCHANGED <<track, flags, buffers, network>>

ItemPlay ==
  /\ Take("PLAY")
  /\ is_playing' = TRUE /\ is_paused' = FALSE
  /\ UNCHANGED <<mode, calls, decoder, is_loaded, is_eof, buffers, network>>

ItemPause ==
  /\ Take("PAUSE")
  /\ is_paused' = (is_paused \/ is_playing)
  /\ UNCHANGED <<mode, calls, decoder, is_loaded, is_playing, is_eof, buffers, network>>

ItemEof ==
  /\ Take("EOF")
  /\ is_eof' = TRUE
  /\ UNCHANGED <<mode, calls, decoder, is_loaded, is_playing, is_paused, buffers, network>>

(* ov_raw_seek() is called, unless the track is not ready.                 *)
ItemSeek ==
  /\ Take("SEEK")
  /\ calls' = IF is_loaded THEN Append(calls, Frame("seek", vf)) ELSE calls
  /\ mode' = IF is_loaded THEN "library" ELSE mode
  /\ UNCHANGED <<decoder, flags, buffers, network>>

ItemData ==
  /\ Take("DATA")
  /\ ogg' = [ogg EXCEPT ![writer] = [track |-> Head(items).track, part |-> Head(items).part]]
  /\ writer' = writer + 1
  /\ UNCHANGED <<mode, calls, decoder, flags, is_downloading, reader, rewound, pcm,
                 network>>

ItemDatalast ==
  /\ Take("DATALAST")
  /\ is_downloading' = FALSE
  /\ UNCHANGED <<mode, calls, decoder, flags, rbuf, pcm, network>>

Process ==
  \/ ItemLoad \/ ItemUnload \/ ItemKey \/ ItemPlay \/ ItemPause \/ ItemEof \/ ItemSeek
  \/ ItemData \/ ItemDatalast
-----------------------------------------------------------------------------
InCallback(in) == mode = "library" /\ Top.in = in

(* player_ov_seek(): schedule as long as there is a download.              *)
SeekWaits ==
  /\ InCallback("seek") /\ is_downloading
  /\ mode' = "wait"
  /\ UNCHANGED <<queue, calls, decoder, flags, buffers, network, application>>

(* Then the reader and the writer move.                                    *)
Seeks ==
  /\ InCallback("seek") /\ ~is_downloading /\ Top.vf \in decoders
  /\ reader' \in 1 .. FileLen /\ writer' = reader'
  /\ is_eof' = FALSE
  /\ calls' = Append(Pop, [Top EXCEPT !.in = "read"])
  /\ UNCHANGED <<queue, mode, decoder, is_loaded, is_playing, is_paused, is_downloading, ogg,
                 rewound, pcm, network, application>>

(* rbuf_length(): what can be read on from the reader.                     *)
IsPresent(p) == p <= FileLen /\ ogg[p] # Nothing
FirstMissing ==
  CHOOSE p \in reader .. FileLen + 1 : ~IsPresent(p) /\ \A q \in reader .. p - 1 : IsPresent(q)
Starved == ~is_eof /\ ~IsPresent(reader)

(* player_ov_read() posts a request for two parts from the first that is   *)
(* missing.                                                                *)
Substream ==
  /\ calls' = Append(Pop, [Top EXCEPT !.did = TRUE])
  /\ is_downloading' = TRUE
  /\ writer' = FirstMissing
  /\ download' = [track |-> track, part |-> FirstMissing, left |-> 2, at |-> "posted"]
  /\ mode' = "wait"
  /\ UNCHANGED <<queue, decoder, flags, ogg, reader, rewound, pcm, keyreq, eofdue, application>>

(* Slip: a download is started although one is running.                    *)
ReadRequestsAgain ==
  /\ InCallback("read") /\ Starved
  /\ ~Top.did /\ track # None
  /\ Substream

(* player_ov_read() wants data: one request per read, ...                  *)
ReadRequests ==
  /\ InCallback("read") /\ Starved
  /\ ~Top.did /\ ~is_downloading /\ track # None
  /\ Substream

(* ... then schedule until there is some.                                  *)
ReadWaits ==
  /\ InCallback("read") /\ Starved
  /\ Top.did \/ is_downloading
  /\ mode' = "wait"
  /\ UNCHANGED <<queue, calls, decoder, flags, buffers, network, application>>

(* The decoder that a callback is about to return to was released by an    *)
(* UNLOAD processed inside of it, or there is no track to ask for.         *)
GoesAstray ==
  /\ mode = "library"
  /\ \/ InCallback("seek") /\ ~is_downloading /\ Top.vf \notin decoders
     \/ InCallback("read") /\ ~Starved /\ Top.vf \notin decoders
     \/ InCallback("read") /\ Starved /\ ~Top.did /\ ~is_downloading /\ track = None
  /\ mode' = "astray"
  /\ UNCHANGED <<queue, calls, decoder, flags, buffers, network, application>>

ReadReturns(fn, has) ==
  /\ InCallback("read") /\ ~Starved /\ Top.vf \in decoders
  /\ Top.fn = fn /\ has = IsPresent(reader)
  /\ reader' = IF has THEN reader + 1 ELSE reader
  /\ UNCHANGED <<is_downloading, ogg, writer, rewound, network, application>>

(* ov_read() yields PCM for player_main(), which goes on decoding ...      *)
Decoded ==
  /\ ReadReturns("decode", TRUE)
  /\ pcm' = pcm + 1
  /\ Decode(Pop, pcm')
  /\ UNCHANGED <<queue, decoder, flags>>

(* ... or nothing, or an error, and the player tells itself so.            *)
DecodedLast(has) ==
  /\ ReadReturns("decode", has)
  /\ Push(Item("EOF", None))
  /\ calls' = Pop /\ mode' = "wait"
  /\ UNCHANGED <<pcm, decoder, flags>>

(* ov_open_callbacks() seeks and reads once more, is done, or fails.       *)
OpenGoesOn ==
  /\ ReadReturns("open", TRUE) /\ Top.seeks < MaxSeeks
  /\ calls' = Append(Pop, [Top EXCEPT !.in = "seek", !.did = FALSE, !.seeks = @ + 1])
  /\ UNCHANGED <<queue, mode, pcm, decoder, flags>>

Opened ==
  /\ ReadReturns("open", TRUE)
  /\ is_loaded' = TRUE
  /\ calls' = Pop /\ mode' = "drain"
  /\ UNCHANGED <<queue, pcm, decoder, is_playing, is_paused, is_eof>>

OpenFails(has) ==
  /\ ReadReturns("open", has)
  /\ decoders' = decoders \ {vf} /\ vf' = 0
  /\ calls' = Pop /\ mode' = "drain"
  /\ UNCHANGED <<queue, pcm, track, key, flags>>

(* ov_raw_seek() returns; if it succeeded the PCM is flushed.              *)
SeekReturns(has) ==
  /\ ReadReturns("seek", has)
  /\ pcm' \in {0, pcm}
  /\ calls' = Pop /\ mode' = "drain"
  /\ UNCHANGED <<queue, decoder, flags>>

Library ==
  \/ SeekWaits \/ Seeks \/ ReadRequests \/ ReadWaits \/ GoesAstray
  \/ Decoded \/ OpenGoesOn \/ Opened
  \/ \E has \in BOOLEAN : DecodedLast(has) \/ OpenFails(has) \/ SeekReturns(has)

PlayerThread ==
  Wake \/ DeliverPcm \/ ScheduleReturns \/ Process \/ Library

Application ==
  \/ \E t \in Track : AppLoad(t)
  \/ AppUnload \/ AppPlay("PLAY") \/ AppPlay("PAUSE")
  \/ AppSeek \/ AppSeeks \/ AppSeekRefused \/ AppSeekCrashes

(* A decoder that is gone is the end of what the code defines.             *)
PlayerNext ==
  /\ mode # "astray"
  /\ PlayerThread \/ Network \/ Application \/ AppLoads

PlayerSpec == PlayerInit /\ [][PlayerNext]_playerVars

(* The player thread runs, and so does the networking thread: it writes a  *)
(* command that was posted, fails to or puts it off.  The server ends the  *)
(* downloads that it was asked for, as long as the connection lasts.  What *)
(* was put off need not be written and what was orphaned need not end.  An *)
(* application that plays takes the PCM.                                   *)
PlayerFairSpec ==
  /\ PlayerSpec
  /\ WF_playerVars(PlayerThread)
  /\ WF_playerVars(download.at = "posted" /\ (SubstreamSent \/ SubstreamPostponed \/ SubstreamFails))
  /\ WF_playerVars(download.at = "sent" /\ DownloadEnds)
  /\ WF_playerVars(EofArrives)
  /\ SF_playerVars(DeliverPcm /\ pcm' < pcm)
-----------------------------------------------------------------------------
(* The fields of struct player, the items of its queue, and the calls.      *)
ItemType == {"UNLOAD", "LOAD", "PLAY", "PAUSE", "SEEK", "KEY", "DATA", "DATALAST", "EOF"}
MaybeTrack == Track \union {None}
Entry == [type : ItemType, track : MaybeTrack, part : 0 .. FileLen]
Call == [fn : {"decode", "open", "seek"}, in : {"seek", "read"}, vf : Nat, did : BOOLEAN,
         seeks : Nat]

(* A download is posted, put off, sent to the server, left behind by a     *)
(* connection that is gone, or one whose command could not be written.     *)
Progress == {"none", "posted", "postponed", "sent", "orphaned", "failed"}

PlayerTypeOK ==
  /\ items \in Seq(Entry) /\ item_posted \in BOOLEAN
  /\ \A i \in 1 .. Len(items) : items[i].type \in {"LOAD", "KEY"} => items[i].track # None
  /\ mode \in {"wait", "drain", "library", "astray"}
  /\ calls \in Seq(Call) /\ (mode = "library" => calls # <<>>)
  /\ track \in MaybeTrack /\ key \in MaybeTrack
  /\ vf \in decoders \union {0} /\ decoders \subseteq Nat \ {0} /\ IsFiniteSet(decoders)
  /\ is_loaded \in BOOLEAN /\ is_playing \in BOOLEAN /\ is_paused \in BOOLEAN
  /\ is_eof \in BOOLEAN /\ is_downloading \in BOOLEAN
  /\ ogg \in [1 .. FileLen -> [track : MaybeTrack, part : 0 .. FileLen]]
  /\ reader \in 1 .. FileLen + 1 /\ writer \in 1 .. FileLen + 1 /\ rewound \in BOOLEAN
  /\ pcm \in 0 .. PcmLimit
  /\ keyreq \in [Track -> Nat] /\ eofdue \in BOOLEAN
  /\ download \in [track : MaybeTrack, part : 0 .. FileLen + 1, left : 0 .. 2, at : Progress]
  /\ download.at = "none" <=> download = NoDownload
  /\ loading \in MaybeTrack /\ seeking \in BOOLEAN
  /\ commands \in 0 .. MaxCommands /\ hasty \in 0 .. MaxCommands
  /\ seeking => commands < MaxCommands

(* Items are left lying, by a player that sleeps or is in libvorbis, only  *)
(* behind an item that is being processed: player_schedule() looks at      *)
(* item_posted, not at the queue, and it is the call it is nested in that  *)
(* will take them.                                                         *)
NoLostItem ==
  mode \in {"wait", "library"} /\ items # <<>> /\ ~item_posted =>
    \E i \in 1 .. Len(calls) : calls[i].fn \in {"open", "seek"}

(* player_main() decodes below everything else, and while there is room    *)
(* for more PCM.                                                           *)
DecodeIsOutermost ==
  \A i \in 1 .. Len(calls) :
    calls[i].fn = "decode" => i = 1 /\ calls[i].in = "read" /\ pcm < PcmLimit

(* is_downloading, "Pseudo semaphore": it is set exactly while a substream *)
(* is asked for that has not ended, or its DATALAST is in the queue, and   *)
(* for good once the command of one could not be written.  There are never *)
(* two of them, across seeks, unloads and loads in the middle of one, and  *)
(* none after one that failed.                                             *)
Datalasts == {i \in 1 .. Len(items) : items[i].type = "DATALAST"}
Underway == download.at \in {"posted", "postponed", "sent", "orphaned"}
OneDownload ==
  /\ is_downloading <=> (Underway \/ Datalasts # {} \/ download.at = "failed")
  /\ Underway \/ download.at = "failed" => Datalasts = {}
  /\ \A i, j \in Datalasts : i = j

(* The parts of a download come before its DATALAST and in their order,    *)
(* and the writer is never beyond the part that comes next.                *)
Datas == {i \in 1 .. Len(items) : items[i].type = "DATA"}
PartsInOrder ==
  /\ Datas # {} => is_downloading
  /\ \A i \in Datas, j \in Datalasts : i < j
  /\ \A i, j \in Datas : i < j => items[i].part < items[j].part
  /\ \A i \in Datas : writer <= items[i].part /\ items[i].track # None
  /\ download # NoDownload =>
       /\ download.track # None /\ writer <= download.part
       /\ \A i \in Datas : items[i].part < download.part

(* What a calm application has under way, from the item that it pushed to  *)
(* the key that arrives, it has alone: nothing is fetched or decoded.      *)
Turning == {i \in 1 .. Len(items) : items[i].type \in {"UNLOAD", "LOAD", "SEEK", "KEY"}}
KeysDue == {t \in Track : keyreq[t] > 0}
Blank == vf = 0 /\ ~is_loaded /\ ogg = EmptyFile
OneTurn ==
  Calm =>
    /\ Turning # {} \/ loading # None \/ KeysDue # {} =>
         calls = <<>> /\ ~is_downloading /\ ~eofdue
    /\ \A i, j \in Turning :
         i < j => i = 1 /\ items[i].type = "UNLOAD" /\ items[j].type = "LOAD"
    /\ \A i \in Turning :
         /\ KeysDue = {}
         /\ items[i].type # "UNLOAD" => loading = None
         /\ items[i].type = "UNLOAD" => i = 1
         /\ items[i].type = "LOAD" => (Blank /\ track = None) \/ items[1].type = "UNLOAD"
         /\ items[i].type = "KEY" => Blank /\ items[i].track = track
    /\ seeking => Turning = {} /\ loading = None /\ KeysDue = {} /\ track # None
    /\ loading # None =>
         KeysDue = {} /\ (Turning # {} \/ (Blank /\ track = None))
    /\ KeysDue # {} => KeysDue = {track} /\ keyreq[track] = 1 /\ Blank

(* A calm application's calls into libvorbis are one at a time and on the  *)
(* decoder of its track.                                                   *)
OneCall ==
  Calm =>
    /\ Len(calls) <= 1
    /\ is_loaded => vf # 0
    /\ vf # 0 => track # None
    /\ calls # <<>> => /\ calls[1].vf = vf /\ vf # 0
                       /\ calls[1].fn = "open" => ~is_loaded

(* ... and the parts of its download are written where they belong.        *)
PartsFit ==
  Calm =>
    /\ \A i \in Datas : items[i].track = track
    /\ download # NoDownload => download.track = track
    /\ ~rewound =>
         /\ \A i \in Datas : items[i].part # writer =>
              \E j \in Datas : j < i /\ items[i].part = items[j].part + 1
         /\ download # NoDownload /\ download.part # writer =>
              \E j \in Datas : download.part = items[j].part + 1

(* If the application only loads, unloads and seeks while the player is at *)
(* rest and nothing is being fetched, then every part in the buffer is of  *)
(* the track that is played and decrypted with the key of that track, and  *)
(* no callback returns to a decoder that is gone.  And it is at its place, *)
(* unless the track ended in the middle of a download.                     *)
CalmPlayerIsRight ==
  Calm => /\ mode # "astray"
          /\ \A p \in 1 .. FileLen : ogg[p] # Nothing =>
               /\ ogg[p].track = track
               /\ ~rewound => ogg[p].part = p
          /\ vf # 0 => key = track

(* A call into libvorbis returns, if the application is calm: nothing but  *)
(* the network keeps it.  player_ov_read() waits for ever for data, and    *)
(* player_ov_seek() for the end of a download, only if the substream was   *)
(* put off, could not be written or was left behind by its connection.     *)
Withheld == download.at \in {"postponed", "orphaned", "failed"}
CallsReturn == calls # <<>> ~> (calls = <<>> \/ ~Calm \/ Withheld)

(* player_push(), "notifies the player to wake up in player_schedule()":   *)
(* what is pushed is taken from the queue, at whatever depth of            *)
(* re-entrance, if the network withholds nothing.                          *)
ItemsAreTaken == items # <<>> ~> (items = <<>> \/ mode = "astray" \/ Withheld)

(* Once the end of the file is known while there is PCM to play, the       *)
(* application gets its end_of_track(), if it neither pauses nor seeks nor *)
(* changes the track.                                                      *)
Seeking == \E i \in 1 .. Len(calls) : calls[i].fn = "seek"
TrackEnds ==
  is_eof /\ Deliverable ~> \/ ~is_playing \/ is_paused \/ ~is_eof \/ ~is_loaded
                          \/ Seeking \/ mode = "astray"

(* What the player keeps at every step, also for a hasty application: its  *)
(* types, no item in a queue that nobody looks at, one download in order,  *)
(* and what holds as long as the application is calm.                      *)
PlayerInv ==
  /\ PlayerTypeOK /\ NoLostItem /\ DecodeIsOutermost /\ OneDownload /\ PartsInOrder
  /\ OneTurn /\ OneCall /\ PartsFit /\ CalmPlayerIsRight
=============================================================================
