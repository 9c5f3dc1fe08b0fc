------------------------------- MODULE Packet -------------------------------
(***************************************************************************)
(* The packets of the connection: packet.c, the buffer of buf.c it         *)
(* collects them in, and what iothread.c does to both at login and at the  *)
(* end of a connection.                                                    *)
(*                                                                         *)
(* The server's stream is a sequence of bytes of which each knows where it *)
(* comes from: the connection, the number of the packet, the position in   *)
(* it and the length of the payload, as the header says.  Decrypting is    *)
(* external: a packet can be read with the key of its connection and its   *)
(* own number as nonce, and with anything else it is garbage.              *)
(***************************************************************************)
EXTENDS Integers, Sequences

CONSTANTS Payload,     \* the lengths of payload that packets have
          HeaderLen,   \* bytes of a header: 3
          MacLen,      \* bytes of a MAC: 4
          StartSize,   \* START_SIZE of buf.c
          MaxConns,    \* bound on the connections
          MaxPackets,  \* bound on the packets of a connection
          MaxWrites    \* bound on the packets that are written to one

ASSUME PacketAssumption ==
  /\ Payload \subseteq Nat /\ Payload # {}
  /\ HeaderLen \in Nat \ {0} /\ MacLen \in Nat /\ StartSize \in Nat \ {0}
  /\ MaxConns \in Nat /\ MaxPackets \in Nat /\ MaxWrites \in Nat

VARIABLES conn,         \* connections so far
          online,       \* session->sock is open and the session logged in
          pc,           \* where packet_read_and_process() is
          packet,       \* the bytes of session->packet
          size,         \* session->packet->size, 0 for NULL
          key_recv_IV, key_send_IV,
          wire,         \* bytes that the server has sent
          sent,         \* packets that the server has sent
          handled,      \* history: what handle_packet() got from this connection
          nonces,       \* history: what packet_write() used on this connection,
                        \* and whether the packet was written
          stale         \* history: this connection began with bytes in the buffer

packetVars ==
  <<conn, online, pc, packet, size, key_recv_IV, key_send_IV, wire, sent, handled, nonces, stale>>

Total(len) == HeaderLen + len + MacLen
Bytes(c, p, len) ==
  [i \in 1 .. Total(len) |-> [conn |-> c, packet |-> p, at |-> i, len |-> len]]
-----------------------------------------------------------------------------
(* sp_session_init()                                                       *)
PacketInit ==
  /\ conn = 0 /\ online = FALSE /\ pc = "idle"
  /\ packet = <<>> /\ size = 0
  /\ key_recv_IV = 0 /\ key_send_IV = 0
  /\ wire = <<>> /\ sent = 0
  /\ handled = <<>> /\ nonces = <<>> /\ stale = FALSE

(* process_login_request(): new keys and nonces.                           *)
Connect ==
  /\ ~online /\ pc = "idle" /\ conn < MaxConns
  /\ conn' = conn + 1 /\ online' = TRUE
  /\ key_recv_IV' = 0 /\ key_send_IV' = 0
  /\ wire' = <<>> /\ sent' = 0 /\ handled' = <<>> /\ nonces' = <<>>
  /\ stale' = (packet # <<>>)
  /\ UNCHANGED <<pc, packet, size>>

(* The server, external.                                                   *)
ServerSends(len) ==
  /\ online /\ sent < MaxPackets
  /\ wire' = wire \o Bytes(conn, sent, len)
  /\ sent' = sent + 1
  /\ UNCHANGED <<conn, online, pc, packet, size, key_recv_IV, key_send_IV, handled, nonces, stale>>

(* process_logout_request(), or iothread() after an error: the socket is   *)
(* closed.  The buffer is not touched.                                     *)
Disconnect ==
  /\ online' = FALSE /\ pc' = "idle"
  /\ wire' = <<>>
  /\ UNCHANGED <<conn, sent, nonces, stale>>

Logout ==
  /\ online /\ pc = "idle"
  /\ Disconnect
  /\ UNCHANGED <<packet, size, key_recv_IV, key_send_IV, handled>>
-----------------------------------------------------------------------------
(* packet_read_and_process(): there is a buffer, with room in it.          *)
Prepare ==
  /\ online /\ pc = "idle"
  /\ size' = IF size = 0 THEN StartSize ELSE IF Len(packet) = size THEN 2 * size ELSE size
  /\ pc' = "select"
  /\ UNCHANGED <<conn, online, packet, key_recv_IV, key_send_IV, wire, sent, handled, nonces, stale>>

(* select() times out.                                                     *)
SelectTimeout ==
  /\ pc = "select" /\ wire = <<>>
  /\ pc' = "idle"
  /\ UNCHANGED <<conn, online, packet, size, key_recv_IV, key_send_IV, wire, sent, handled, nonces,
                 stale>>

(* select() or recv() fails, or the server has closed the connection.      *)
ReceiveFails ==
  /\ pc = "select"
  /\ Disconnect
  /\ UNCHANGED <<packet, size, key_recv_IV, key_send_IV, handled>>

(* recv() takes what there is room for, or less.                           *)
Receive(n) ==
  /\ pc = "select" /\ n <= Len(wire) /\ n <= size - Len(packet)
  /\ packet' = packet \o SubSeq(wire, 1, n)
  /\ wire' = SubSeq(wire, n + 1, Len(wire))
  /\ pc' = "loop"
  /\ UNCHANGED <<conn, online, size, key_recv_IV, key_send_IV, sent, handled, nonces, stale>>

(* The bytes that key_recv_IV decrypts.                                    *)
Readable(b, i) == b.conn = conn /\ b.packet = key_recv_IV /\ b.at = i

(* header.len, or what there is instead of it.                             *)
HeaderLens ==
  IF \A i \in 1 .. HeaderLen : Readable(packet[i], i) THEN {packet[1].len} ELSE Payload

(* Slip: the nonce is set again for the payload, after it was incremented. *)
DecryptedLate(len) ==
  IF \A i \in HeaderLen + 1 .. HeaderLen + len : packet[i].packet = key_recv_IV + 1
  THEN key_recv_IV ELSE -1

(* What the handler gets: the packet, or garbage.                          *)
Decrypted(len) ==
  IF \A i \in 1 .. HeaderLen + len : Readable(packet[i], i) THEN key_recv_IV ELSE -1

(* Slip: one byte more than the packet is waited for.                      *)
IncompleteWaits(len) == Len(packet) <= Total(len)

Incomplete(len) == Len(packet) < Total(len)

(* Slip: the MAC is left in the buffer.                                    *)
ConsumeLeavesMac(len) == packet' = SubSeq(packet, Total(len) - MacLen + 1, Len(packet))

(* buf_consume()                                                           *)
Consume(len) == packet' = SubSeq(packet, Total(len) + 1, Len(packet))

(* The loop ends: there is no header, or not all that it announces.        *)
LoopEnds ==
  /\ pc = "loop"
  /\ Len(packet) >= HeaderLen => \E len \in HeaderLens : Incomplete(len)
  /\ pc' = "idle"
  /\ UNCHANGED <<conn, online, packet, size, key_recv_IV, key_send_IV, wire, sent, handled, nonces,
                 stale>>

(* A packet is taken from the buffer, decrypted and handed to              *)
(* handle_packet() ...                                                     *)
Takes ==
  /\ pc = "loop" /\ Len(packet) >= HeaderLen
  /\ \E len \in HeaderLens :
       /\ ~Incomplete(len)
       /\ Consume(len)
       /\ handled' = Append(handled, Decrypted(len))
  /\ key_recv_IV' = key_recv_IV + 1

HandlePacket ==
  /\ Takes
  /\ UNCHANGED <<conn, online, pc, size, key_send_IV, wire, sent, nonces, stale>>

(* ... which fails.                                                        *)
HandlePacketFails ==
  /\ Takes
  /\ Disconnect
  /\ UNCHANGED <<size, key_send_IV>>

(* packet_write(), for a request or from a handler; block_write() writes   *)
(* all or not.                                                             *)
Write(whole) ==
  /\ online /\ pc # "select" /\ Len(nonces) < MaxWrites
  /\ nonces' = Append(nonces, [iv |-> key_send_IV, whole |-> whole])
  /\ key_send_IV' = key_send_IV + 1
  /\ UNCHANGED <<conn, online, pc, packet, size, key_recv_IV, wire, sent, handled, stale>>
-----------------------------------------------------------------------------
Read ==
  \/ Prepare \/ SelectTimeout \/ LoopEnds \/ HandlePacket \/ HandlePacketFails
  \/ \E n \in 1 .. Len(wire) : Receive(n)

PacketNext ==
  \/ Connect \/ Logout \/ ReceiveFails \/ Read
  \/ \E len \in Payload : ServerSends(len)
  \/ \E whole \in BOOLEAN : Write(whole)

(* The networking thread comes back to packet_read_and_process() as long   *)
(* as it is logged in.                                                     *)
PacketSpec == PacketInit /\ [][PacketNext]_packetVars /\ WF_packetVars(Read)
-----------------------------------------------------------------------------
Byte == [conn : Nat, packet : Nat, at : Nat, len : Payload]

(* The fields of the session, and the numbers that a handler may get.      *)
PacketTypeOK ==
  /\ conn \in 0 .. MaxConns /\ online \in BOOLEAN /\ pc \in {"idle", "select", "loop"}
  /\ pc # "idle" => online
  /\ packet \in Seq(Byte) /\ wire \in Seq(Byte) /\ size \in Nat
  /\ handled \in Seq(Int) /\ key_recv_IV = Len(handled)
  /\ nonces \in Seq([iv : Nat, whole : BOOLEAN]) /\ key_send_IV = Len(nonces)
  /\ sent \in 0 .. MaxPackets
  /\ stale \in BOOLEAN

(* recv() has room when it is called, and the buffer never grows beyond    *)
(* twice what an incomplete packet can leave in it: it is full between two *)
(* calls only if some packet does not fit in it.                           *)
BufferFits ==
  /\ Len(packet) <= size
  /\ pc = "select" => Len(packet) < size
  /\ pc = "idle" /\ Len(packet) = size => size = 0 \/ \E len \in Payload : size < Total(len)
  /\ size <= StartSize \/ \E len \in Payload : size <= 2 * (Total(len) - 1)

(* On a connection that began with an empty buffer each packet is handled  *)
(* whole, once, in order and with its own nonce, however the stream was    *)
(* cut by recv().                                                          *)
PacketsArriveWhole == ~stale => \A i \in 1 .. Len(handled) : handled[i] = i - 1

(* ... and what was not handled yet is in the buffer and on the wire,      *)
(* without gap or repetition: whole packets in the order of their numbers, *)
(* from the one that key_recv_IV belongs to up to the last one sent.       *)
Unread == Len(packet) + Len(wire)
Coming(i) == IF i <= Len(packet) THEN packet[i] ELSE wire[i - Len(packet)]
First(i) == i - Coming(i).at + 1
Last(i) == i - Coming(i).at + Total(Coming(i).len)
StreamIsWhole ==
  online /\ ~stale =>
    /\ IF Unread = 0 THEN key_recv_IV = sent ELSE Readable(Coming(1), 1)
    /\ \A i \in 1 .. Unread :
         /\ 1 <= First(i) /\ First(i) <= i /\ i <= Last(i) /\ Last(i) <= Unread
         /\ \A j \in First(i) .. Last(i) :
              Coming(j) = [Coming(i) EXCEPT !.conn = conn, !.at = j - First(i) + 1]
         /\ IF Last(i) = Unread THEN Coming(i).packet = sent - 1
            ELSE /\ Coming(Last(i) + 1).packet = Coming(i).packet + 1
                 /\ Coming(Last(i) + 1).at = 1

(* No nonce is used twice with one key by packet_write(), also if the      *)
(* write failed: they count the packets.                                   *)
NoncesAreFresh == \A i \in 1 .. Len(nonces) : nonces[i].iv = i - 1

(* Whatever the server has sent is handled, unless the connection ends.    *)
PacketsAreHandled == online /\ ~stale ~> (~online \/ key_recv_IV = sent)

(* What the properties rest on: the types, room in the buffer, fresh       *)
(* nonces, and a stream of whole packets across buffer and wire.           *)
PacketInv == PacketTypeOK /\ BufferFits /\ StreamIsWhole /\ NoncesAreFresh
=============================================================================
