# A TLA+ model of libopenspotify

openspotify is a C library that offers the API of libspotify on top of the
despotify protocol code.  This directory models the part of it that decides
*what happens when*: the three threads, the list of requests between two of
them and the item queue of the third, the channels that multiplex queries over
one connection, the login that makes that connection, the packets on it, the
session that ties all of this together while connections come and go, and the
reference counted tracks that the threads share.  All sources named below are in
`src/libopenspotify/`.

## The system

| component | state | operations | interacts with |
|---|---|---|---|
| requests (`request.c`, `request.h`) | the list `session->requests`, its mutex, the condition `idle_wakeup` | post, post a result, return a result, fetch, mark processed, free | shared by the main and the networking thread |
| networking thread (`iothread.c`) | its place in the list, `session->login`, `connectionstate` | clean up, walk the list and dispatch, sleep, read packets, log in and out | runs all handlers and callbacks below |
| session API (`sp_session.c`) | `session->user`, the application's callbacks | init, login, logout, process events, player calls, release | called by the application on the main thread |
| channels (`channel.c`) | `channels`, `next_channel_id`, `num_channels` | register, unregister, process a packet, fail all | commands register, packets drive, logout fails |
| packets (`packet.c`, `handlers.c`) | receive buffer, cipher state | reassemble, decrypt, dispatch by command | feeds channels; posts requests on WELCOME |
| commands (`commands.c`) | none | register a channel and write a packet | called by the request handlers |
| browsing (`browse.c`, `sp_albumbrowse.c`, `sp_artistbrowse.c`) | batches served of a request | send a batch, collect, retry, return | one channel per batch |
| playlists (`playlist.c`, `sp_playlist.c`) | container, playlists, their state and checksum | load container, load playlist, browse tracks, change | callbacks post further requests |
| search, toplists, images, users | one object per request | send, collect, retry, return | one channel per request |
| cache (`cache.c`) | none | periodic garbage collection | a request that never returns |
| login (`login.c`, `dns.c`) | a context with an 11-step state | resolve, connect, exchange keys, authenticate | driven by the login request |
| player (`player.c`, `rbuf.c`) | item queue, ring buffer, PCM buffer, its own mutex and thread | load, play, seek, fetch key and substreams, decode | posts requests, its callbacks run on the networking thread |
| tracks, albums, artists | reference counted objects in hashtables | add, release, garbage collect | shared by both threads |
| hashtable (`hashtable.c`) | buckets, mutex | insert, find, remove, iterate | |

What is hard here: two threads share a list that one of them walks without its
mutex; results, wakeups and notifications cross between them; queries outlive
the connection that carried them; ids are recycled; retries, logouts and lost
connections meet requests in any state; the player's scheduler is entered again
from inside of the decoder it has called; packets are cut anywhere by the
network; reference counts are changed without a lock.  `PROJECT.json` lists
these hazards line by line with the properties aimed at each.

## The modules

| module | models |
|---|---|
| `Channel` | `channel.c` and the AES key handler |
| `ChannelProofs` | theorems about `Channel` |
| `Request` | `request.c`, the loop of `iothread()`, `sp_session_process_events()` |
| `RequestProofs` | theorems about `Request` |
| `Delivery` | abstract: what the request list promises to both threads |
| `DeliveryProofs` | the theorem that `Request` implements `Delivery` |
| `Session` | the handlers: `process_request()`, login, logout, browse, search, toplist, image, user, playlist, cache, the player's requests, the channel callbacks, `CMD_WELCOME` and the announcements, the loss of the connection |
| `SessionProofs` | theorems about `Session`, and that it implements `Request`, `Channel` and `Delivery` |
| `Login` | `login.c`, `dns.c`, and the login and logout handlers of `iothread.c` |
| `LoginProofs` | theorems about `Login` |
| `Packet` | `packet.c`, its buffer in `buf.c`, and what logins and disconnections do to both |
| `PacketProofs` | theorems about `Packet` |
| `Player` | `player.c`, `rbuf.c`, the player calls of `sp_session.c` |
| `PlayerProofs` | theorems about `Player` |
| `Tracks` | `hashtable.c`, the reference counts of `sp_track.c`, the garbage collection of `cache.c` |
| `TracksProofs` | theorems about `Tracks` |
| `MCChannel`, `MCRequest`, `MCSession`, `MCLogin`, `MCPacket`, `MCPlayer`, `MCTracks` | the instances for TLC |

`Session` extends `Request` and `Channel`: each of its actions is a step of one
of them, or of both.  `Login` and `Packet` look closer at what is one step there
(a login request that is called until it succeeds; a packet that arrives), and
`Player` at the thread behind the player's requests.  Definitions under a comment
that begins with "Slip" are plausible mistakes of the code, kept next to the
definition they are a mistake of; no specification uses them.

### Channel

`channels` is the linked list as a set of records `[id, state, owner]`; the
order of the list shows only when two channels have one id, which `UniqueIds`
excludes.  `owner` stands for the callback and its private pointer.  `heard`
records the state in which the owner's callback last ran, `since` counts
registrations since the list was last empty.  A command whose packet cannot be
written ends the process, leaves its channel behind (`cmd_aeskey()`) or unregisters
it at once without telling its callback (`cmd_getsubstreams()`, `Withdraw`).
`Register`, `Unregister`,
`channel_by_id`, `ProcessHeader`/`ProcessData`/`ProcessLast` (the three paths of
`channel_process()`), `AesKey` and `FailAndUnregisterAll` are the functions of
the same names.  Ids are not truncated in the list, as in the code (`int`), but
packets can only name ids below `WireSize` (2^16 in the code).  The failed
assertions of `channel_process()` on malformed headers are not modelled.

### Request

The list is in the order of posting, so a node is its number and the list is the
set of linked nodes.  `state` is `req->state`, with `RAW` for a node that
`request_post()` has linked and not filled in, `absent` before and `freed`
after.  `timer` is `next_timeout` against the clock: `due`, `later`, or `never`
(`INT_MAX`).  `mpc`/`fetched` are the main thread's place in
`process_events()`, `ipc`/`walker` that of the networking thread in its loop.
A critical section is one action, except `request_post()` by the main thread,
which is two (`MainLink`, `MainFill`) when `TornPost` holds: the walk does not
take the mutex, so it can fall in between.  With `TornPost` false the post is one
step; liveness and `Session` use that, because a thread that reads an
uninitialised node can do anything and nothing can be said of it afterwards
(`ipc = "astray"`, where it stays).  What handlers decide is left open: they may
keep, return or retry any request.  Spurious wakeups of the condition variable
are left out; they lead to one more idle round.

`LifeStage` maps the states of a request to the stages of `Delivery`: unposted,
pending, answered, delivered, gone.  `DeliveryPromised` says that every behaviour
of the list is one of `Delivery` under that mapping: the main thread takes the
oldest answer there is, one at a time, each is delivered once, and only what was
delivered is freed.

### Session

`conn` is `connectionstate`; `login` is `session->login`, as the request that
created it, `contexts` are the login contexts that are allocated and
`overwritten` those that a second login has lost; `user` is `session->user`,
garbage at first, since `sp_session_init()` allocates it and does not initialise
it; `asked` is the server's side: the queries of the current connection it may
still answer; `output` is `req->output` as far as it is NULL or not; `left` is
the number of batches a browse request has still to fetch; `running` is a
channel callback that is in the middle of posting requests and results, which
the main thread can see and interleave with: one result for each new playlist
and one request for each one there is (`ContainerPosts`), or the result of a
playlist that was named, the request for its owner and the one for its tracks
(`PlaylistLists`); `greeting` is what `CMD_WELCOME` has still to do. Answers are
data only as far as they can be parsed or not; only the one for a user ends in
nothing when it cannot (`UnparsableEnd`), and its request is then in `unparsed`.
The server answers open queries in any order, with an error, an end, or not at
all, and the connection can be lost between any two packets. A failed write ends
the process, as `exit(1)` in `iothread()` does, except for the player's
requests, which return it as an error (`PlayerWriteFails`); a key's channel is
then left behind and a substream's withdrawn.  The player's requests return as
soon as their command is written, and their channels stay open (`Stream`); the
player thread posts them at any time.  The requests that change playlists are
not in this module (`Elsewhere`).

### Login

One action for each case of `login_process()` and each way it ends, together with
what `process_login_request()` does with the value it returns.  `list` is the
resolver's list as `list_insert_by_prio()` builds it, with the records it loses
on the way.  The environment is `fate`: what becomes of a connection to each
address (another family, no socket, no route, refused, silent, slow, breaking at
any time, answered), fixed for a behaviour, so that the address that is tried
again has the same fate.  Descriptors are numbers, reused lowest first as the
kernel does.  `parameters` and `keys` are not the bytes but which connection they
were exchanged on.  `polls`, `tried`, `answer` and `orderly` are history.

### Packet

Each byte of the server's stream knows its connection, packet and position;
decrypting with the wrong nonce gives garbage (-1), and a garbled header any
length.  `recv()` may return any number of bytes that fit.  `stale` marks a
connection that began with bytes of the previous one in `session->packet`, which
nothing clears; the packets of such a connection are garbage, and the properties
are about the others.

### Player

`items` and `item_posted` are the queue and its flag; `calls` is the stack of
calls into libvorbis that have not returned, because `player_ov_read()` and
`player_ov_seek()` call `player_schedule()` again.  `mode` is where the thread
is: waiting, taking items, or in the library.  The file is a number of parts, of
which a download asks for two; `ogg` holds at each place the part of some track,
so that a mixture shows.  `download.at` says how far a substream has come: its
request is posted, put off by `process_request()`, written, left behind by a
connection that was lost, or could not be written (`failed`).  In the last case
nobody is told, and `is_downloading` stays set for good.  libvorbis is external:
it seeks and reads where it likes while it opens a file, and any call may fail.
After `UNLOAD` under a running call the decoder is gone; the code's behaviour is
undefined then and the model stops (`astray`).  Decoders are numbers; a new one
gets a number that no decoder has, nor any call that is still running on one
that is gone (`Taken`, `Unused`).  `hasty` counts loads, unloads and seeks that
did not wait until the player was at rest.  `sp_session_player_seek()` reads
`player->track` twice without a lock, as its own FIXME says (`AppSeek`,
`AppSeeks`); an unload between the two is a null pointer that it follows
(`AppSeekCrashes`).  `rewound` records that `player_deliver_pcm()` has moved the
reader and the writer to the start of the buffer, at the end of a track, while a
download was under way; what that download still brings is then written to the
wrong places.

### Tracks

A track and its entry in the table are one node.  What is outside of the
hashtable's mutex is a step of its own: the reads and writes of `ref_count`, the
time between finding nothing and inserting, between inserting and initialising,
between finding and referencing, and the first read of `hashtable_remove()`.  A
track that is in the table and not yet initialised has any count, and any id when it
is freed.  `races` records the first of the races that this allows.  The threads go
on after it, with the wrong counts, second entries and mutexes that were not given
back which it leads to, until memory is used that was freed or never set, or an
assertion about a count fails (`astray`), where the code's behaviour ends.
`TracksInv` holds of all that; the other properties say what holds until the first
race, and that nothing else leads astray: five races are all there is.

## The runs

| run | configuration | shows |
|---|---|---|
| `channel` | 3 owners, ids 0..3 on the wire, 7 registrations without an idle moment | ids are unique, counted, restart at 0, fit the wire; an owner has a channel as long as it was told nothing final, and is told of the end once and in order, or not at all if the channel was withdrawn |
| `request` | 3 requests, posts caught half done | the walk never stands on freed memory, a fetched request is left alone, no wakeup and no notification is lost (`RequestInv` and its parts); the list implements `Delivery` |
| `request_live` | 2 requests | every request is looked at, every result is delivered and freed |
| `session_answers` | 4 requests: the periodic one and any of login, logout, artist browse, player key and substream, with those WELCOME posts (the query for a user, the container); one channel error | the request behind an open channel is parked, or returned if it is the player's; the periodic request stays; the inductive invariant of the session (`SessionInv`) |
| `session_relogin` | 5 requests: logins, logouts and what the playlist callbacks post | answers find the channel of their query; logged out means no channel and no query; the login context that the session knows has a request that drives it, and no other one is left but those that a second login overwrote; before any logout, disconnection or second login the user is there and each parked request can still be answered, unless its answer could not be parsed; the session uses the channel table as `Channel` specifies (`ChannelSpec` as a property) |
| `session_logout` | 4 requests, a limit of one channel, announcements by the server | a logout, postponed at the limit or not, is carried out if the number of channels falls below the limit and stays there |
| `login` | 2 logins, 1 logout, 3 servers, 2 addresses of any fate | the best server heads the list and no descriptor is used after its close or shared (`LoginInv`), nor, by an orderly application, leaked; the session's keys are of the session's connection; a server is given up when all of its suitable addresses were tried, or at once when `connect()` fails at once for one; a login ends if every server has an address that decides it |
| `player` | 2 tracks of 3 parts; 3 commands at rest, or one at rest and a hasty one | no item lies in the queue of a sleeping player but behind one that is being processed, and parts stay in order (`PlayerInv`); one download at a time, and none after one that could not be written; for a calm application the buffer holds the right parts and every call into the decoder returns unless the network withholds the download; an end of track is reported |
| `packet` | 2 connections, 3 packets of two lengths, 2 writes | packets are handled whole, once and in order; the stream has no gap, no nonce is used twice, the buffer has room (`PacketInv`); nothing waits in it for ever |
| `tracks` | 2 tracks of 3 ids in 2 buckets, 2 threads and the collector | without one of five races references are good and nothing goes astray; whatever has raced, the iterator survives removals and no entry leaks (`TracksInv`), and the collector misses nothing |

Two runs show where the code departs from its own comments; each is a finding in
`PROJECT.json`:

| run | the code says | what happens |
|---|---|---|
| `session_null` | the request is used "to run search complete callback" (`request.h:114`) | a retry that falls due offline is returned with NULL, which `process_events()` follows |
| `player_stuck` | `player_push()` "notifies the player to wake up in player_schedule()" (`player.c:225`) | `player_schedule()` waits for `item_posted`, which was cleared for all items at once; the items behind one that calls libvorbis are not seen by the `player_schedule()` nested in it, which sleeps for ever if one of them is what it waits for |

Further departures are in the model as steps, and bound what the properties can
say; the hazards name them:

- the walk can read a node between its `malloc()` and its initialisation
  (`IoReadRaw`);
- a logout that is processed after the next `sp_session_login()` drops the new
  user, and CMD_WELCOME then follows NULL (`WelcomeCrashes`);
- a logout before any login releases a user that was allocated and never
  initialised (`LogoutCrashes`);
- a second login overwrites the context of one that is under way, which is lost
  (`overwritten`);
- a user's details that cannot be parsed leave their request parked without a
  channel (`unparsed`);
- a lost connection leaves channels and parked requests behind (`Disconnect`),
  among them the player's download, for which it waits (`ConnectionLost`);
- a substream command that could not be written tells nobody: the player waits for
  data, and `is_downloading` is never cleared (`SubstreamFails`);
- a logout is postponed while 16 channels are open, and only the server or that
  logout closes them (`Postpone`; the assumption of `LogoutIsProcessed`);
- a server whose addresses all fail is picked again and again, because nothing
  sets `svc->tried`, and so is one with an address for which `connect()` fails at
  once, past the addresses behind it (`PickServer`, `Connect`; the assumption of
  `LoginEnds`);
- the bytes of an incomplete packet are put in front of the next connection's
  (`stale`);
- a hasty application makes the player mix tracks, wait for ever or return to a
  decoder that is gone (`hasty`);
- at the end of a track `player_deliver_pcm()` moves the reader and the writer of
  the buffer although a download may be under way (the end of the file can become
  known before its DATALAST is processed), which `player_ov_seek()` avoids because
  "it would screw things up" (`player.c:584`); the parts of the download are then
  at wrong places for the next play or seek (`rewound`);
- a seek that is processed after the end of the file is known flushes the PCM, and
  with it the delivery that would have called `end_of_track()` (`SeekReturns`; the
  exception in `TrackEnds`);
- a removal from the hashtable that finds nothing keeps the mutex, after a race
  (`Remove`);
- a key's channel whose command could not be written stays open
  (`PlayerWriteFails`).

### Bounds

`MaxPosts` bounds the requests ever posted, `MaxErrors` the channel errors,
`MaxSince` the registrations between two idle moments, `NumPlaylists` and
`Batches` the size of the user's library.  Three owners are enough to leave a
hole below `next_channel_id`; with `WireSize` 4 and `MaxSince` 7 ids do outgrow
the wire.  Three requests on the list give the walk a predecessor and a successor
to each node.  In `Session` the limit of 16 channels is `MaxChannels` = 2, so that
it is met; four and five requests allow a logout and a second login with a query
outstanding.  In `session_logout` it is 1, so that the one query that fits besides
the login and the logout already meets it and the logout is postponed.  `WireSize`
is large enough there for every id to be addressed; what
happens beyond is `Channel`'s subject.

In `Login` three servers are what it takes to insert a record in the middle of
the list; two addresses in both orders and every fate of each give a server whose
first, last or only address decides.  `MaxPolls` stands for `MAX_WAIT_MS` and
`SlowPolls` is below it, so that a slow address answers in time once and too late
after another one has used up the time.  Three descriptors are as many as two
logins and a leaked socket need.  In `Player` the file has three parts
(`FileLen`), one more than a download asks for: a seek goes backwards and forwards,
a download comes short, ends with the file or before it, and a part written to the
wrong place is missed elsewhere.  Three commands (`MaxCommands`) are a load, its
play, and a seek or another load at rest; one that does not wait counts twice, so
that it follows one other at any moment.  `player_stuck` does with two parts.
`MaxSeeks` bounds what libvorbis does while it opens a file, and `PcmLimit` the PCM
buffer.  In
`Packet` headers, MACs and payloads have three lengths of which none is the
buffer's start size, so that packets end on both sides of every cut and the
buffer has to grow.  In `Tracks` two ids share a bucket, so that a removal has a
predecessor, and the third is in another one, so that the iterator moves on;
`MaxNodes` bounds the tracks ever added: one per thread, or two in a row.
`MaxRefs` bounds the counts that lost updates leave too high; two threads with a
reference each need 2.  An uninitialised count is 0 or 1, which is what the
collector and the assertions tell apart.  There are 82,602 states before any race
and 7.5 million with what follows one.

### Fairness

`request_live` and `session_logout` assume weak fairness of the main thread, of
the networking thread and of the passing of time per request.  The main thread's
is the application's contract to call `sp_session_process_events()` again when
the time it was given is over; the other two are the scheduler's and the clock's.
Nothing is assumed of the server, nor of when requests are posted.

- `login`: each login request is processed again while it is on the list, which
  is what the loop of `iothread()` does with it.  A server that never answers
  stays silent; the code's own timeouts end the attempt.
- `player`: weak fairness of the player thread, and of the networking thread: a
  substream request that was posted is written, fails or is put off, and an end of
  file is pushed after the end of its download (`EofArrives`).  The server ends each
  substream that was written to it (`DownloadEnds`), with less than was asked for or
  with an error if it likes, as long as the connection lasts.  Nothing is assumed of
  a request that was put off, because nobody need log in again, of a download whose
  connection was lost, whose channel only a logout closes, nor of one that could not
  be written, which nothing ever ends: in these states (`Withheld`) `CallsReturn`
  and `ItemsAreTaken` promise nothing.  Strong fairness that PCM is taken when it is
  offered: an application may refuse any number of deliveries (`music_delivery()`
  returns 0) but not all of them for ever.
- `packet`: weak fairness of the networking thread's read.

## What is proved

`ChannelProofs` proves with TLAPS, for every set of owners, wire width and bound
(assuming only `ChannelAssumption`: the width is a positive number and the bound
a number), that `ChannelInv` is an invariant of `ChannelSpec`, and from it the
properties the run `channel` checks, the action property `StagesAdvance`
included.  `UniqueIds` alone is not inductive.  The id handed out next must be
free (`NextIdIsFree`), which `Unregister` keeps because the id it may fall back to
has just been freed and was unique.  Ids restart at 0 only because 0 is always in
use or next (`ZeroIsHeldOrNext`): whoever frees 0 makes it next, and only a
registration of 0 takes that away.  That ids fit the wire comes from
`IdsCreepSlowly`; the stages of a callback need one channel per owner
(`OneChannelPerOwner`) and `DataFollowsHeader`.  That an owner has a channel
exactly as long as it was told nothing final (`OpenUntilToldOrWithdrawn`) has one
exception, the channel that was withdrawn before anything was heard of it.

`RequestProofs` proves, for every set of request types and number of posts and for
posts that are torn or not (assuming only `RequestAssumption`), that `RequestInv`
is an invariant of `ReqSpec`, and from it the type invariant and the safety
properties of the run `request`.  What makes it inductive: the walk holds no
pointer into the list whenever requests are freed (`WalkIsOver`), so that
`WalkerIsLive` survives `request_cleanup()`; nodes are linked in the order of
posting (`LinkedInOrder`), so that a new node is nobody's and the list's end is
its last number; a node that is linked and not filled in is the one whose poster
holds the mutex (`RawIsBeingPosted`), so that a waiting networking thread is still
to be signalled; and a request is fetched only inside of process_events()
(`FetchedInEvents`).

`DeliveryProofs` proves that `ReqSpec` implements `Delivery`
(`RequestKeepsPromise`), with the same generality.  The initial states map to the
initial state of `Delivery`; of the steps, those that link a request post it,
those that set a result answer it, and fetching, marking and freeing are the three
other steps of `Delivery`; all others are invisible (`Invisible`).  `RequestInv` is
what makes the mapped steps legal: `LinkedInOrder` that the next request was
unposted, and `FetchedIsReturned` that the one to deliver was answered and is not
yet delivered.

`SessionProofs` proves, for every set of request types, number of posts, playlists,
batches, errors and limit of channels, that `SessionInv` is an invariant of
`SessionSpec`, and from it all safety properties of the session's runs.
`SessionAssumption` asks that the owners of channels are the requests, that the
types which the code itself posts are among `Kind`, and that no more ids are handed
out between two idle moments than packets can name (`MaxSince <= WireSize`: 65,536
in the code; `Channel` says what happens beyond).  None of the properties is
inductive alone: a channel's owner is parked (`OwnersAreParked`) because only
answers move a parked request on, and an answer moves the right one because it
finds the channel of its own query (`AnswersFindTheirChannel`), which no step can
close behind its back because its owner is parked.  The two are kept together,
with the invariants of the list and of the table, with what kinds of requests own
channels (`OwnersAsk`), and with `LoggedOutIsQuiet`, which is what makes a new
connection begin without the ids of the old one.  `FirstConnectionIsSound` needs
`FirstLoginHolds`: before any second login the one login there is has set the user
and has returned when the connection is up.  `ParkedHasChannel` is what makes it speak
of requests and not only of channels: a parked request has a channel, or its answer
could not be parsed.  `LoginIsDriven` says where every login context is, the ones
included that a second login has lost, and that only a second login loses one.

Each step of the session is a step of `Request` and of `Channel` or leaves their
variables alone (`SessionImplementsRequests`, `SessionImplementsChannels`), so that
what is proved of them holds in the session, in which every handler is spelt out;
with `RequestKeepsPromise` the session implements `Delivery`
(`SessionKeepsPromise`).

`PacketProofs` proves, for every set of payload lengths, header and MAC lengths,
start size and number of packets, and for `recv()` cutting the stream anywhere,
that `PacketInv` is an invariant of `PacketSpec`, and from it
`PacketsArriveWhole`.  `StreamIsWhole` is the strengthening: the bytes in
the buffer followed by those on the wire are whole packets in the order of their
numbers, beginning with the one that `key_recv_IV` belongs to; receiving only moves
the border between the two, and handling takes exactly the first packet off.
`BufferFits` bounds the buffer by the longest packet, whatever the doublings.

`LoginProofs` proves, for every number of hosts, addresses of any fate, descriptors,
logins and logouts, that `LoginInv` is an invariant of `LoginSpec`, and from it
`NoSocketLeak`, `KeysFitSocket` and the action property `AddressesAreTried`.
`BestServerFirst` holds although insertions lose records, because what
`list_insert_by_prio()` loses is behind the head.  The sockets need
`ContextIsOwned` (a context has a running request and, from the connection on, a
server) and `OneAtATime`, without which a second login overwrites the descriptor of
the first; `AddressesAreTried` needs `TriedSoFar`, which says at every step which
addresses were tried.  It has the two ways of the code back to the choice of a
server: all suitable addresses were tried, or `connect()` has just failed at once
for one, and then all up to that one.

`PlayerProofs` proves, for every set of tracks, length of the file, number of calls by
the application and seeks and reads by libvorbis, that `PlayerInv` is an invariant of
`PlayerSpec`, and from it `OneDownload` and `CalmPlayerIsRight`.  Half of it holds for
any application.  `OneDownload` has four places where a download can be: the
substream, from the post of its request to its end, also if that is put off or left
behind by its connection; its DATALAST in the queue; the command that could not be
written, after which there is no other; or nowhere.  It is kept at any depth of the
stack because `player_ov_read()` looks at `is_downloading` right before it asks.
`PartsInOrder` says the same of the parts, and is why the writer stays within the
file.  `DecodeIsOutermost` is why the PCM buffer stays within its limit, and why
`NoLostItem` holds when a decoding call returns: nothing is nested below it that
could have left items behind.  The other half is about calm applications: what they
have under way, from UNLOAD and LOAD over the key that is asked for to the KEY in the
queue, they have alone (`OneTurn`), so that no call and no download sees the track
change; then there is at most one call, on the decoder of the track (`OneCall`), and
the parts in the queue are the ones that the writer expects (`PartsFit`).  The
proof attempt corrected the model-checked bounds: with files of two parts
`CalmPlayerIsRight` had held without its exception for a buffer that is rewound under
a download; a third part shows it.

`TracksProofs` proves, for every set of keys that is not empty, number of buckets and
of tracks, that `TracksInd` is an invariant of `TracksSpec`, and from it `TracksInv`,
`OnlyRacesGoAstray`, `ReferencesAreGood` and `GcMissesNothing`.  What holds whatever
has raced is that a bucket has entries of its own keys, each once (`Sorted`), that
what is allocated is in the table or on the freelist and not on both (`Accounted`),
and that the collector has the mutex as long as it walks (`Walk`).  The last is why
the entry under its iterator is removed by nobody but itself, and not freed then
because it carries `dont_free`; all of this is kept by threads that go on after any
number of races.  `Progress` says that in the bucket at hand everything
before the entry to go to next has been seen, the current one included until it is
removed, which is what a removal under the iterator could have broken.  The other
half (`Good`) is about the time before the first race.  Whoever initialises or frees
a track is alone with it: nobody holds a reference and the other thread has no
pointer.  Whoever adds or drops a reference works on a track that is alive and in the
table.  That the five races are all there are is what the proof needs of them: each
case in which one thread breaks what the other relies on is one that `races` records.
None of the five could be left out: in the instance of the run each of them, as the
first race, leads to a state in which the threads have gone astray.

The proofs assume nothing but the named assumptions on the constants.  They are laid
out alike: lemmas on the operators (what `Push`, `Take` and the stack of calls do to
a sequence), the steps sorted by what they change, one lemma for each part of the
invariant with one step per action, and the theorems at the end.

Only model-checked: everything under fairness and every
property that says something happens at last (`LogoutIsProcessed`, `LoginEnds`,
`CallsReturn`, `TrackEnds`, `PacketsAreHandled`, those of `request_live`), which
this prover does not reach; and the two findings, which are counterexamples.  Not
checked is how long the threads of `Tracks` wait for the mutex of the hashtable:
after a race they can wait for ever, and the graph with all that follows races is
too large for a check of liveness.

## Plan

Done: requests, channels, session, login, packets, player, tracks with the
hashtable, and the abstract specification of delivery; proofs of the safety
properties that the passing runs check of all of them.  Next, in this order:

1. Playlist changes: the states and checksums of `playlist.c`, and the buffer that
   both threads use.
2. An abstract specification of a reference counted table (an id has a track as
   long as somebody holds a reference), which `Tracks` implements as long as `races`
   is empty.
3. The same for the buffer of the player: the parts of a file in order, as the
   decoder reads them.

## Not modelled

- *Cryptography* (`aes.c`, `sha1.c`, `shn.c`, `hmac.c`) and the *XML parser*
  (`ezxml.c`): vendored, sequential, and pure.  The models use which key, nonce
  and connection data belongs to, and whether an answer can be parsed.
- *Conversions* (`sp_link.c`, `link.c`, `sp_error.c`, `util.c`, the parsers of
  metadata in `browse.c` and `search.c`): pure functions of strings.
- *Playlist changes* (`sp_playlist.c`, the change requests of `playlist.c`).  Two
  hazards lie there: `sp_playlist_rename()` on the main thread
  (`sp_playlist.c:83`) and `playlist_callback()` on the networking thread use
  `playlist->buf` without a lock, and after a channel error (`playlist.c:472`) the
  buffer is NULL, which the retry of a change dereferences (`playlist.c:437`).
- *Albums and artists*: the same functions as tracks, over the same hashtable.
- *Reference counts of searches, toplists, browses, images and users*: two
  hazards are known and not covered, the objects that callbacks release while
  `req->output` still points to them (`sp_toplistbrowse.c:139`), and the reference
  for the channel of a search that is never given back (`sp_search.c:62`).
- *The end of the process*: `sp_session_release()` and `player_free()`, which
  cancel the other threads wherever they are; the code's own comment leaves open
  whether that is safe.
- *Examples, language bindings, win32 shims, `openspotify-simple`*: programs around
  the library.

Most lines of the repository are not the library's: OpenSSL and zlib headers under
`win32/include`, the Winamp SDK of an example, and vendored ciphers and parsers.
`libopenspotify/*.c` is about 14,400 lines of 62,400 in all; what is modelled is
the part of those that keeps state across calls, threads and connections.
