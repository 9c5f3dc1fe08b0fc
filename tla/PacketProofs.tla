---------------------------- MODULE PacketProofs ----------------------------
(***************************************************************************)
(* Proofs about Packet, for every set of payload lengths, all sizes of     *)
(* headers, MACs and buffers, and any number of connections and packets.   *)
(***************************************************************************)
EXTENDS Packet, SequenceTheorems, TLAPS

(* A packet has at least a header, and its parts fit in it.                *)
LEMMA TotalFacts ==
  ASSUME NEW len \in Payload
  PROVE  /\ len \in Nat /\ Total(len) \in Nat /\ Total(len) >= 1
         /\ HeaderLen \in Nat /\ HeaderLen >= 1
         /\ HeaderLen <= Total(len) /\ HeaderLen + len <= Total(len)
  BY PacketAssumption DEF Total

(* A stream f of n bytes of connection c: whole packets, numbered from k   *)
(* up to s - 1.                                                            *)
IsStream(f, n, c, k, s) ==
  /\ n = 0 => k = s
  /\ n > 0 => f[1].packet = k /\ f[1].at = 1
  /\ \A i \in 1 .. n :
       /\ f[i].conn = c
       /\ 1 <= f[i].at /\ f[i].at <= i /\ f[i].at <= Total(f[i].len)
       /\ i - f[i].at + Total(f[i].len) <= n
       /\ \A j \in 1 .. Total(f[i].len) :
            /\ f[i - f[i].at + j].packet = f[i].packet
            /\ f[i - f[i].at + j].len = f[i].len
            /\ f[i - f[i].at + j].at = j
       /\ i - f[i].at + Total(f[i].len) = n => f[i].packet = s - 1
       /\ i - f[i].at + Total(f[i].len) < n =>
            /\ f[i - f[i].at + Total(f[i].len) + 1].packet = f[i].packet + 1
            /\ f[i - f[i].at + Total(f[i].len) + 1].at = 1

(* The stream begins with the whole of the packet that is due.             *)
LEMMA StreamBegins ==
  ASSUME NEW n \in Nat, n > 0, NEW f \in [1 .. n -> Byte], NEW c, NEW k, NEW s,
         IsStream(f, n, c, k, s)
  PROVE  /\ f[1].len \in Payload /\ Total(f[1].len) <= n
         /\ \A j \in 1 .. Total(f[1].len) :
              f[j].conn = c /\ f[j].packet = k /\ f[j].at = j /\ f[j].len = f[1].len
<1> DEFINE t == Total(f[1].len)
<1>1. 1 \in 1 .. n /\ f[1] \in Byte
  OBVIOUS
<1>2. f[1].len \in Payload
  BY <1>1 DEF Byte
<1>3. t \in Nat /\ t >= 1
  BY <1>2, TotalFacts
<1>4. /\ f[1].at = 1 /\ f[1].packet = k
      /\ 1 - f[1].at + t <= n
      /\ \A j \in 1 .. t : /\ f[1 - f[1].at + j].packet = f[1].packet
                           /\ f[1 - f[1].at + j].len = f[1].len
                           /\ f[1 - f[1].at + j].at = j
  BY <1>1 DEF IsStream
<1> HIDE DEF t
<1>5. t <= n
  BY <1>3, <1>4
<1>6. ASSUME NEW j \in 1 .. t
      PROVE  f[j].conn = c /\ f[j].packet = k /\ f[j].at = j /\ f[j].len = f[1].len
  <2>1. j \in 1 .. n /\ 1 - f[1].at + j = j
    BY <1>3, <1>4, <1>5
  <2>2. f[j].conn = c
    BY <2>1 DEF IsStream
  <2>3. QED
    BY <1>4, <2>1, <2>2
<1>7. QED
  BY <1>2, <1>5, <1>6 DEF t

(* The server appends a packet.                                            *)
LEMMA StreamGrows ==
  ASSUME NEW n \in Nat, NEW f \in [1 .. n -> Byte], NEW c, NEW k \in Nat, NEW s \in Nat,
         IsStream(f, n, c, k, s),
         NEW len \in Payload, NEW m \in Nat, m = n + Total(len), NEW g \in [1 .. m -> Byte],
         \A i \in 1 .. n : g[i] = f[i],
         \A j \in 1 .. Total(len) : /\ g[n + j].conn = c /\ g[n + j].packet = s
                                    /\ g[n + j].at = j /\ g[n + j].len = len
  PROVE  IsStream(g, m, c, k, s + 1)
<1> DEFINE t == Total(len)
<1>1. t \in Nat /\ t >= 1 /\ m = n + t
  BY TotalFacts
<1> HIDE DEF t
<1>2. g[n + 1].packet = s /\ g[n + 1].at = 1
  BY <1>1 DEF t
<1>3. m > 0 /\ g[1].packet = k /\ g[1].at = 1
  <2>1. CASE n = 0
    BY <1>1, <1>2, <2>1 DEF IsStream
  <2>2. CASE n > 0
    BY <1>1, <2>2 DEF IsStream
  <2>3. QED
    BY <1>1, <2>1, <2>2
<1> DEFINE Q(i) ==
       /\ g[i].conn = c
       /\ 1 <= g[i].at /\ g[i].at <= i /\ g[i].at <= Total(g[i].len)
       /\ i - g[i].at + Total(g[i].len) <= m
       /\ \A j \in 1 .. Total(g[i].len) :
            /\ g[i - g[i].at + j].packet = g[i].packet
            /\ g[i - g[i].at + j].len = g[i].len
            /\ g[i - g[i].at + j].at = j
       /\ i - g[i].at + Total(g[i].len) = m => g[i].packet = s + 1 - 1
       /\ i - g[i].at + Total(g[i].len) < m =>
            /\ g[i - g[i].at + Total(g[i].len) + 1].packet = g[i].packet + 1
            /\ g[i - g[i].at + Total(g[i].len) + 1].at = 1
<1>4. ASSUME NEW i \in 1 .. n PROVE Q(i)
  <2>1. g[i] = f[i] /\ f[i] \in Byte /\ f[i].at \in Nat /\ f[i].len \in Payload /\ f[i].packet \in Nat
    BY DEF Byte
  <2> DEFINE u == Total(f[i].len)
             a == i - f[i].at
  <2>2. u \in Nat /\ u >= 1
    BY <2>1, TotalFacts
  <2>3. /\ f[i].conn = c
        /\ 1 <= f[i].at /\ f[i].at <= i /\ f[i].at <= u
        /\ a + u <= n
        /\ \A j \in 1 .. u : f[a + j].packet = f[i].packet /\ f[a + j].len = f[i].len /\ f[a + j].at = j
        /\ a + u = n => f[i].packet = s - 1
        /\ a + u < n => f[a + u + 1].packet = f[i].packet + 1 /\ f[a + u + 1].at = 1
    BY DEF IsStream
  <2>4. a \in Nat
    BY <2>1, <2>3
  <2>5. g[i].len = f[i].len /\ g[i].at = f[i].at /\ Total(g[i].len) = u /\ i - g[i].at = a
    BY <2>1
  <2> HIDE DEF u, a
  <2>6. \A j \in 1 .. u : /\ g[a + j].packet = g[i].packet /\ g[a + j].len = g[i].len
                          /\ g[a + j].at = j
    BY <2>1, <2>2, <2>3, <2>4
  <2>7. a + u < m /\ g[a + u + 1].packet = g[i].packet + 1 /\ g[a + u + 1].at = 1
    <3>1. CASE a + u = n
      BY <1>1, <1>2, <2>1, <2>3, <3>1
    <3>2. CASE a + u < n
      BY <1>1, <2>1, <2>2, <2>3, <2>4, <3>2
    <3>3. QED
      BY <2>2, <2>3, <2>4, <3>1, <3>2
  <2>8. /\ g[i].conn = c
        /\ 1 <= g[i].at /\ g[i].at <= i /\ g[i].at <= u
        /\ a + u <= m /\ a + u # m
    BY <1>1, <2>1, <2>2, <2>3, <2>4, <2>5, <2>7
  <2>9. QED
    BY <2>5, <2>6, <2>7, <2>8
<1>5. ASSUME NEW j \in 1 .. t PROVE Q(n + j)
  <2>1. /\ g[n + j].conn = c /\ g[n + j].packet = s /\ g[n + j].at = j /\ g[n + j].len = len
    BY DEF t
  <2>2. Total(g[n + j].len) = t /\ n + j - g[n + j].at = n
    BY <1>1, <2>1 DEF t
  <2>3. \A x \in 1 .. t : g[n + x].packet = s /\ g[n + x].len = len /\ g[n + x].at = x
    BY DEF t
  <2>4. QED
    BY <1>1, <2>1, <2>2, <2>3
<1>6. \A i \in 1 .. m : Q(i)
  <2>1. ASSUME NEW i \in 1 .. m, i > n PROVE Q(i)
    <3>1. PICK j \in 1 .. t : i = n + j
      BY <1>1, <2>1
    <3>2. QED
      BY <1>5, <3>1
  <2>2. QED
    BY <1>4, <2>1
<1>7. QED
  BY <1>3, <1>6 DEF IsStream

(* The packet that is due is taken from the front.                         *)
LEMMA StreamShrinks ==
  ASSUME NEW n \in Nat, n > 0, NEW f \in [1 .. n -> Byte], NEW c, NEW k \in Nat, NEW s \in Nat,
         IsStream(f, n, c, k, s),
         NEW m \in Nat, n = m + Total(f[1].len), NEW g \in [1 .. m -> Byte],
         \A i \in 1 .. m : g[i] = f[Total(f[1].len) + i]
  PROVE  IsStream(g, m, c, k + 1, s)
<1> DEFINE t == Total(f[1].len)
<1>1. /\ f[1].len \in Payload /\ t <= n
      /\ \A j \in 1 .. t : f[j].packet = k /\ f[j].at = j /\ f[j].len = f[1].len
  BY StreamBegins
<1>2. t \in Nat /\ t >= 1 /\ n = m + t
  BY <1>1, TotalFacts
<1>3. \A i \in 1 .. m : g[i] = f[t + i]
  OBVIOUS
<1>4. /\ m = 0 => k + 1 = s
      /\ m > 0 => g[1].packet = k + 1 /\ g[1].at = 1
  <2>1. 1 \in 1 .. n /\ f[1].at = 1 /\ f[1].packet = k
    BY DEF IsStream
  <2>2. 1 - f[1].at + Total(f[1].len) = t
    BY <1>2, <2>1
  <2>3. /\ t = n => k = s - 1
        /\ t < n => f[t + 1].packet = k + 1 /\ f[t + 1].at = 1
    BY <2>1, <2>2 DEF IsStream
  <2> HIDE DEF t
  <2>4. QED
    BY <1>2, <1>3, <2>3
<1> HIDE DEF t
<1> DEFINE Q(i) ==
       /\ g[i].conn = c
       /\ 1 <= g[i].at /\ g[i].at <= i /\ g[i].at <= Total(g[i].len)
       /\ i - g[i].at + Total(g[i].len) <= m
       /\ \A j \in 1 .. Total(g[i].len) :
            /\ g[i - g[i].at + j].packet = g[i].packet
            /\ g[i - g[i].at + j].len = g[i].len
            /\ g[i - g[i].at + j].at = j
       /\ i - g[i].at + Total(g[i].len) = m => g[i].packet = s - 1
       /\ i - g[i].at + Total(g[i].len) < m =>
            /\ g[i - g[i].at + Total(g[i].len) + 1].packet = g[i].packet + 1
            /\ g[i - g[i].at + Total(g[i].len) + 1].at = 1
<1>5. ASSUME NEW i \in 1 .. m PROVE Q(i)
  <2>1. PICK y \in 1 .. n : y = t + i /\ g[i] = f[y]
    BY <1>2, <1>3
  <2> DEFINE b == f[y]
             u == Total(b.len)
             a == y - b.at
  <2>2. b \in Byte /\ b.at \in Nat /\ b.len \in Payload /\ b.packet \in Nat
    BY <2>1 DEF Byte
  <2>3. u \in Nat /\ u >= 1
    BY <2>2, TotalFacts
  <2>4. /\ b.conn = c
        /\ 1 <= b.at /\ b.at <= y /\ b.at <= u
        /\ a + u <= n
        /\ \A j \in 1 .. u : f[a + j].packet = b.packet /\ f[a + j].len = b.len /\ f[a + j].at = j
        /\ a + u = n => b.packet = s - 1
        /\ a + u < n => f[a + u + 1].packet = b.packet + 1 /\ f[a + u + 1].at = 1
    BY DEF IsStream
  <2>5. a \in Nat
    BY <1>2, <2>2, <2>4
  <2>6. g[i] = b /\ Total(g[i].len) = u
    BY <2>1
  <2>7. f[1].len = b.len => t = u
    BY DEF t
  <2>8. b.at = t + i - a
    BY <1>2, <2>1, <2>2
  <2> HIDE DEF a, b, u
  <2>9. a >= t
    <3>1. SUFFICES ASSUME a < t PROVE FALSE
      BY <1>2, <2>5
    <3>2. f[a + 1].at = 1 /\ f[a + 1].len = b.len
      BY <2>3, <2>4
    <3>3. a + 1 \in 1 .. t
      BY <1>2, <2>5, <3>1
    <3>4. f[a + 1].at = a + 1 /\ f[a + 1].len = f[1].len
      BY <1>1, <3>3
    <3>5. a = 0 /\ t = u
      BY <2>5, <2>7, <3>2, <3>4
    <3>6. QED
      BY <1>2, <2>1, <2>3, <2>4, <2>8, <3>5
  <2> DEFINE d == a - t
  <2> HIDE DEF d
  <2>10. d \in Nat /\ i - g[i].at = d /\ a = t + d
    BY <1>2, <2>5, <2>6, <2>8, <2>9 DEF d
  <2>11. ASSUME NEW x \in 1 .. m - d PROVE g[d + x] = f[a + x]
    <3>1. d + x \in 1 .. m /\ t + (d + x) = a + x
      BY <1>2, <2>10
    <3>2. g[d + x] = f[t + (d + x)]
      BY <1>3, <3>1
    <3>3. QED
      BY <3>1, <3>2
  <2>12. d + u <= m /\ (d + u = m => a + u = n) /\ (d + u < m => a + u < n)
    <3>1. a + u <= n
      BY <2>4
    <3>2. n = m + t /\ a = t + d /\ a \in Nat /\ t \in Nat /\ d \in Nat /\ u \in Nat
      BY <1>2, <2>3, <2>5, <2>10
    <3>3. QED
      BY <3>1, <3>2
  <2>13. \A j \in 1 .. u : /\ g[d + j].packet = b.packet /\ g[d + j].len = b.len
                           /\ g[d + j].at = j
    <3>1. ASSUME NEW j \in 1 .. u PROVE j \in 1 .. m - d
      BY <2>3, <2>10, <2>12
    <3>2. QED
      BY <2>4, <2>11, <3>1
  <2>14. d + u < m => g[d + u + 1].packet = b.packet + 1 /\ g[d + u + 1].at = 1
    <3>1. SUFFICES ASSUME d + u < m PROVE g[d + u + 1] = f[a + u + 1]
      BY <2>4, <2>12
    <3>2. u + 1 \in 1 .. m - d /\ d + u + 1 = d + (u + 1) /\ a + u + 1 = a + (u + 1)
      BY <2>3, <2>5, <2>10, <3>1
    <3>3. QED
      BY <2>11, <3>2
  <2>15. /\ g[i].conn = c
         /\ 1 <= g[i].at /\ g[i].at <= i /\ g[i].at <= u
    BY <1>2, <2>4, <2>5, <2>6, <2>8, <2>9
  <2>16. d + u = m => g[i].packet = s - 1
    BY <2>4, <2>6, <2>12
  <2>17. QED
    BY <2>6, <2>10, <2>12, <2>13, <2>14, <2>15, <2>16
<1>6. QED
  BY <1>4, <1>5 DEF IsStream
-----------------------------------------------------------------------------
(* The bytes that are to be read, in the buffer and on the wire.           *)
Rest == [i \in 1 .. Unread |-> Coming(i)]

(* They are bytes.                                                         *)
RestIsBytes ==
  /\ Len(packet) \in Nat /\ Len(wire) \in Nat /\ Unread \in Nat
  /\ Unread = Len(packet) + Len(wire)
  /\ Rest \in [1 .. Unread -> Byte]
  /\ \A i \in 1 .. Unread : /\ Rest[i] = Coming(i) /\ Coming(i) \in Byte
                           /\ Coming(i).conn \in Nat /\ Coming(i).packet \in Nat
                           /\ Coming(i).at \in Nat /\ Coming(i).len \in Payload
LEMMA RestType == PacketTypeOK => RestIsBytes
<1> SUFFICES ASSUME packet \in Seq(Byte), wire \in Seq(Byte) PROVE RestIsBytes
  BY DEF PacketTypeOK
<1>1. /\ Len(packet) \in Nat /\ Len(wire) \in Nat
      /\ \A i \in 1 .. Len(packet) : packet[i] \in Byte
      /\ \A i \in 1 .. Len(wire) : wire[i] \in Byte
  BY ElementOfSeq, LenProperties
<1>2. ASSUME NEW i \in 1 .. Unread PROVE Coming(i) \in Byte
  <2>1. CASE i <= Len(packet)
    BY <1>1, <2>1 DEF Unread, Coming
  <2>2. CASE i > Len(packet)
    BY <1>1, <2>2 DEF Unread, Coming
  <2>3. QED
    BY <1>1, <2>1, <2>2
<1>3. \A b \in Byte : b.conn \in Nat /\ b.packet \in Nat /\ b.at \in Nat /\ b.len \in Payload
  BY DEF Byte
<1>4. QED
  BY <1>1, <1>2, <1>3 DEF Rest, Unread, RestIsBytes

(* The same of the next state.                                             *)
LEMMA RestTypeNext == (PacketTypeOK => RestIsBytes)'
  BY RestType, PTL

(* StreamIsWhole says of them what IsStream says.                          *)
WholeMeans ==
  StreamIsWhole <=> (online /\ ~stale => IsStream(Rest, Unread, conn, key_recv_IV, sent))
LEMMA StreamMeans == PacketTypeOK => WholeMeans
<1> SUFFICES ASSUME PacketTypeOK PROVE WholeMeans
  OBVIOUS
<1>1. /\ Unread \in Nat
      /\ \A i \in 1 .. Unread : /\ Rest[i] = Coming(i) /\ Coming(i) \in Byte
                               /\ Coming(i).conn \in Nat /\ Coming(i).packet \in Nat
                               /\ Coming(i).at \in Nat /\ Coming(i).len \in Payload
  BY RestType DEF RestIsBytes
<1>2. \A i \in 1 .. Unread : Total(Coming(i).len) \in Nat
  BY <1>1, TotalFacts
<1>3. sent \in Nat /\ key_recv_IV \in Nat /\ conn \in Nat
  BY PacketAssumption, LenProperties DEF PacketTypeOK
<1> DEFINE Front == IF Unread = 0 THEN key_recv_IV = sent ELSE Readable(Coming(1), 1)
           Body(i) ==
             /\ 1 <= First(i) /\ First(i) <= i /\ i <= Last(i) /\ Last(i) <= Unread
             /\ \A j \in First(i) .. Last(i) :
                  Coming(j) = [Coming(i) EXCEPT !.conn = conn, !.at = j - First(i) + 1]
             /\ IF Last(i) = Unread THEN Coming(i).packet = sent - 1
                ELSE /\ Coming(Last(i) + 1).packet = Coming(i).packet + 1
                     /\ Coming(Last(i) + 1).at = 1
           Each(i) ==
             /\ Rest[i].conn = conn
             /\ 1 <= Rest[i].at /\ Rest[i].at <= i /\ Rest[i].at <= Total(Rest[i].len)
             /\ i - Rest[i].at + Total(Rest[i].len) <= Unread
             /\ \A j \in 1 .. Total(Rest[i].len) :
                  /\ Rest[i - Rest[i].at + j].packet = Rest[i].packet
                  /\ Rest[i - Rest[i].at + j].len = Rest[i].len
                  /\ Rest[i - Rest[i].at + j].at = j
             /\ i - Rest[i].at + Total(Rest[i].len) = Unread => Rest[i].packet = sent - 1
             /\ i - Rest[i].at + Total(Rest[i].len) < Unread =>
                  /\ Rest[i - Rest[i].at + Total(Rest[i].len) + 1].packet = Rest[i].packet + 1
                  /\ Rest[i - Rest[i].at + Total(Rest[i].len) + 1].at = 1
<1>4. ASSUME NEW i \in 1 .. Unread, Body(i) PROVE Each(i)
  <2> DEFINE b == Coming(i)
             u == Total(b.len)
             a == i - b.at
  <2>1. /\ b \in Byte /\ b.at \in Nat /\ b.packet \in Nat /\ u \in Nat /\ Rest[i] = b
        /\ First(i) = a + 1 /\ Last(i) = a + u
    BY <1>1, <1>2 DEF First, Last
  <2>2. /\ 1 <= a + 1 /\ a + 1 <= i /\ i <= a + u /\ a + u <= Unread
        /\ \A j \in a + 1 .. a + u : Coming(j) = [b EXCEPT !.conn = conn, !.at = j - (a + 1) + 1]
        /\ IF a + u = Unread THEN b.packet = sent - 1
           ELSE Coming(a + u + 1).packet = b.packet + 1 /\ Coming(a + u + 1).at = 1
    BY <1>4, <2>1
  <2>3. a \in Int /\ a = i - b.at
    BY <2>1
  <2>4. Rest[i].len = b.len /\ Rest[i].at = b.at /\ Total(Rest[i].len) = u /\ i - Rest[i].at = a
    BY <2>1
  <2> HIDE DEF a, u, b
  <2>5. /\ a + 1 >= 1 /\ a + 1 <= i /\ i <= a + u /\ a + u <= Unread
        /\ a \in Nat /\ u \in Nat /\ Unread \in Nat /\ b.at \in Nat /\ i \in Nat
    <3>1. 1 <= a + 1 /\ a + 1 <= i /\ i <= a + u /\ a + u <= Unread
      BY <2>2
    <3>2. a \in Int /\ u \in Nat /\ Unread \in Nat /\ b.at \in Nat /\ i \in Nat
      BY <1>1, <2>1, <2>3
    <3>3. QED
      BY <3>1, <3>2
  <2>6. ASSUME NEW j \in 1 .. u
        PROVE  /\ a + j \in 1 .. Unread
               /\ Coming(a + j).packet = b.packet /\ Coming(a + j).len = b.len
               /\ Coming(a + j).at = j /\ Coming(a + j).conn = conn
    <3>1. a + j \in a + 1 .. a + u /\ a + j \in 1 .. Unread /\ (a + j) - (a + 1) + 1 = j
      BY <2>5
    <3>2. Coming(a + j) = [b EXCEPT !.conn = conn, !.at = j]
      BY <2>2, <3>1
    <3>3. b \in Byte
      BY <2>1
    <3>4. QED
      BY <3>1, <3>2, <3>3 DEF Byte
  <2>7. b.at \in 1 .. u /\ a + b.at = i /\ 1 <= b.at /\ b.at <= i /\ b.at <= u
    BY <2>3, <2>5
  <2>8. b.conn = conn
    BY <2>6, <2>7 DEF b
  <2>9. \A j \in 1 .. u : /\ Rest[a + j].packet = b.packet /\ Rest[a + j].len = b.len
                          /\ Rest[a + j].at = j
    BY <1>1, <2>6
  <2>10. a + u < Unread => a + u + 1 \in 1 .. Unread /\ a + u # Unread
    BY <2>5
  <2>11. a + u = Unread => b.packet = sent - 1
    BY <2>2
  <2>12. a + u < Unread => Rest[a + u + 1].packet = b.packet + 1 /\ Rest[a + u + 1].at = 1
    BY <1>1, <2>2, <2>10
  <2>13. Rest[i] = b /\ a + u <= Unread
    BY <2>1, <2>5
  <2>14. QED
    BY <2>4, <2>7, <2>8, <2>9, <2>11, <2>12, <2>13
<1>5. ASSUME NEW i \in 1 .. Unread, Each(i), \A j \in 1 .. Unread : Rest[j].conn = conn PROVE Body(i)
  <2> DEFINE b == Coming(i)
             u == Total(b.len)
             a == i - b.at
  <2>1. /\ b \in Byte /\ b.at \in Nat /\ b.packet \in Nat /\ u \in Nat /\ Rest[i] = b
        /\ First(i) = a + 1 /\ Last(i) = a + u
    BY <1>1, <1>2 DEF First, Last
  <2>2. /\ 1 <= b.at /\ b.at <= i /\ b.at <= u /\ a + u <= Unread
        /\ \A j \in 1 .. u : /\ Rest[a + j].packet = b.packet /\ Rest[a + j].len = b.len
                             /\ Rest[a + j].at = j
        /\ a + u = Unread => b.packet = sent - 1
        /\ a + u < Unread => Rest[a + u + 1].packet = b.packet + 1 /\ Rest[a + u + 1].at = 1
    BY <1>5, <2>1
  <2>3. a \in Nat /\ a + b.at = i
    BY <2>1, <2>2
  <2> HIDE DEF a, u, b
  <2>4. ASSUME NEW j \in a + 1 .. a + u
        PROVE  Coming(j) = [b EXCEPT !.conn = conn, !.at = j - (a + 1) + 1]
    <3>1. j \in 1 .. Unread /\ j - a \in 1 .. u /\ a + (j - a) = j /\ j - (a + 1) + 1 = j - a
      BY <1>1, <2>1, <2>2, <2>3
    <3>2. /\ Coming(j).packet = b.packet /\ Coming(j).len = b.len /\ Coming(j).at = j - a
          /\ Coming(j).conn = conn /\ Coming(j) \in Byte
      BY <1>1, <1>5, <2>2, <3>1
    <3>3. QED
      BY <2>1, <3>1, <3>2 DEF Byte
  <2>5. /\ 1 <= a + 1 /\ a + 1 <= i /\ i <= a + u /\ a + u <= Unread
    BY <2>1, <2>2, <2>3
  <2>6. a + u < Unread => a + u + 1 \in 1 .. Unread
    BY <1>1, <2>1, <2>3
  <2>7. IF a + u = Unread THEN b.packet = sent - 1
        ELSE Coming(a + u + 1).packet = b.packet + 1 /\ Coming(a + u + 1).at = 1
    BY <1>1, <2>1, <2>2, <2>3, <2>5, <2>6
  <2>8. QED
    BY <2>1, <2>4, <2>5, <2>7 DEF b
<1>6. ASSUME \A i \in 1 .. Unread : Rest[i].conn = conn
      PROVE  Front <=> /\ Unread = 0 => key_recv_IV = sent
                       /\ Unread > 0 => Rest[1].packet = key_recv_IV /\ Rest[1].at = 1
  BY <1>1, <1>6 DEF Readable
<1>7. StreamIsWhole <=> (online /\ ~stale => Front /\ \A i \in 1 .. Unread : Body(i))
  BY DEF StreamIsWhole
<1>8. IsStream(Rest, Unread, conn, key_recv_IV, sent)
        <=> /\ Unread = 0 => key_recv_IV = sent
            /\ Unread > 0 => Rest[1].packet = key_recv_IV /\ Rest[1].at = 1
            /\ \A i \in 1 .. Unread : Each(i)
  BY DEF IsStream
<1>9. \A i \in 1 .. Unread : Each(i) => Rest[i].conn = conn
  OBVIOUS
<1> HIDE DEF Front, Body, Each
<1>10. QED
  BY <1>4, <1>5, <1>6, <1>7, <1>8, <1>9 DEF WholeMeans

(* The same of the next state.                                             *)
LEMMA StreamMeansNext == (PacketTypeOK => WholeMeans)'
  BY StreamMeans, PTL
-----------------------------------------------------------------------------
(* A length that the loop reads from a header is one that packets have.    *)
LEMMA HeaderLensType ==
  ASSUME PacketTypeOK, Len(packet) >= HeaderLen
  PROVE  HeaderLens \subseteq Payload
<1>1. HeaderLen \in Nat /\ HeaderLen >= 1
  BY PacketAssumption
<1>2. packet \in Seq(Byte) /\ Len(packet) \in Nat
  BY LenProperties DEF PacketTypeOK
<1>3. packet[1] \in Byte
  BY <1>1, <1>2, ElementOfSeq
<1>4. QED
  BY <1>3 DEF HeaderLens, Byte

(* What is left of the buffer once a packet is consumed.                   *)
LEMMA Consumed ==
  ASSUME PacketTypeOK, NEW len \in Payload, Total(len) <= Len(packet), Consume(len)
  PROVE  /\ packet' \in Seq(Byte) /\ Len(packet') = Len(packet) - Total(len)
         /\ \A i \in 1 .. Len(packet') : packet'[i] = packet[Total(len) + i]
<1> DEFINE t == Total(len)
<1>1. t \in Nat /\ t >= 1
  BY TotalFacts
<1>2. packet \in Seq(Byte) /\ Len(packet) \in Nat
  BY LenProperties DEF PacketTypeOK
<1>3. packet' = SubSeq(packet, t + 1, Len(packet))
  BY DEF Consume
<1> HIDE DEF t
<1>4. \A i \in t + 1 .. Len(packet) : packet[i] \in Byte
  BY <1>1, <1>2, ElementOfSeq
<1>5. /\ packet' \in Seq(Byte)
      /\ Len(packet') = IF t + 1 <= Len(packet) THEN Len(packet) - (t + 1) + 1 ELSE 0
      /\ \A i \in 1 .. Len(packet) - (t + 1) + 1 : packet'[i] = packet[t + 1 + i - 1]
  BY <1>1, <1>2, <1>3, <1>4, SubSeqProperties
<1>6. t <= Len(packet)
  BY DEF t
<1>7. Len(packet') = Len(packet) - t
  BY <1>1, <1>2, <1>5, <1>6
<1>8. ASSUME NEW i \in 1 .. Len(packet') PROVE packet'[i] = packet[t + i]
  <2>1. i \in 1 .. Len(packet) - (t + 1) + 1 /\ t + 1 + i - 1 = t + i
    BY <1>1, <1>2, <1>7
  <2>2. QED
    BY <1>5, <2>1
<1>9. QED
  BY <1>5, <1>7, <1>8 DEF t

(* What recv() moves from the wire to the buffer.                          *)
LEMMA Received ==
  ASSUME PacketTypeOK, NEW n \in 1 .. Len(wire), Receive(n)
  PROVE  /\ packet' \in Seq(Byte) /\ Len(packet') = Len(packet) + n
         /\ wire' \in Seq(Byte) /\ Len(wire') = Len(wire) - n
         /\ \A i \in 1 .. Len(packet) : packet'[i] = packet[i]
         /\ \A i \in Len(packet) + 1 .. Len(packet) + n : packet'[i] = wire[i - Len(packet)]
         /\ \A i \in 1 .. Len(wire) - n : wire'[i] = wire[i + n]
<1>1. /\ packet \in Seq(Byte) /\ wire \in Seq(Byte) /\ Len(packet) \in Nat /\ Len(wire) \in Nat
      /\ n \in Nat /\ n >= 1 /\ n <= Len(wire)
  BY LenProperties DEF PacketTypeOK
<1>2. \A i \in 1 .. Len(wire) : wire[i] \in Byte
  BY <1>1, ElementOfSeq
<1>3. /\ SubSeq(wire, 1, n) \in Seq(Byte) /\ Len(SubSeq(wire, 1, n)) = n
      /\ \A i \in 1 .. n : SubSeq(wire, 1, n)[i] = wire[i]
  <2>1. \A i \in 1 .. n : wire[i] \in Byte
    BY <1>1, <1>2
  <2>2. /\ SubSeq(wire, 1, n) \in Seq(Byte)
        /\ Len(SubSeq(wire, 1, n)) = IF 1 <= n THEN n - 1 + 1 ELSE 0
        /\ \A i \in 1 .. n - 1 + 1 : SubSeq(wire, 1, n)[i] = wire[1 + i - 1]
    BY <1>1, <2>1, SubSeqProperties
  <2>3. n - 1 + 1 = n /\ \A i \in 1 .. n : 1 + i - 1 = i
    BY <1>1
  <2>4. QED
    BY <1>1, <2>2, <2>3
<1>4. /\ SubSeq(wire, n + 1, Len(wire)) \in Seq(Byte)
      /\ Len(SubSeq(wire, n + 1, Len(wire))) = Len(wire) - n
      /\ \A i \in 1 .. Len(wire) - n : SubSeq(wire, n + 1, Len(wire))[i] = wire[i + n]
  <2>1. \A i \in n + 1 .. Len(wire) : wire[i] \in Byte
    BY <1>1, <1>2
  <2>2. /\ SubSeq(wire, n + 1, Len(wire)) \in Seq(Byte)
        /\ Len(SubSeq(wire, n + 1, Len(wire)))
             = IF n + 1 <= Len(wire) THEN Len(wire) - (n + 1) + 1 ELSE 0
        /\ \A i \in 1 .. Len(wire) - (n + 1) + 1 :
             SubSeq(wire, n + 1, Len(wire))[i] = wire[n + 1 + i - 1]
    BY <1>1, <2>1, SubSeqProperties
  <2>3. /\ Len(wire) - (n + 1) + 1 = Len(wire) - n
        /\ \A i \in 1 .. Len(wire) - n : n + 1 + i - 1 = i + n
    BY <1>1
  <2>4. Len(SubSeq(wire, n + 1, Len(wire))) = Len(wire) - n
    BY <1>1, <2>2
  <2>5. QED
    BY <2>2, <2>3, <2>4
<1>5. /\ packet' \in Seq(Byte) /\ Len(packet') = Len(packet) + n
      /\ \A i \in 1 .. Len(packet) + n :
           packet'[i] = IF i <= Len(packet) THEN packet[i] ELSE SubSeq(wire, 1, n)[i - Len(packet)]
  BY <1>1, <1>3, ConcatProperties DEF Receive
<1>6. ASSUME NEW i \in Len(packet) + 1 .. Len(packet) + n PROVE packet'[i] = wire[i - Len(packet)]
  <2>1. i \in 1 .. Len(packet) + n /\ ~(i <= Len(packet)) /\ i - Len(packet) \in 1 .. n
    BY <1>1
  <2>2. QED
    BY <1>3, <1>5, <2>1
<1>7. \A i \in 1 .. Len(packet) : i \in 1 .. Len(packet) + n /\ i <= Len(packet)
  BY <1>1
<1>8. QED
  BY <1>4, <1>5, <1>6, <1>7 DEF Receive

(* What the server puts on the wire.                                       *)
LEMMA Delivered ==
  ASSUME PacketTypeOK, NEW len \in Payload, ServerSends(len)
  PROVE  /\ wire' \in Seq(Byte) /\ Len(wire') = Len(wire) + Total(len)
         /\ \A i \in 1 .. Len(wire) : wire'[i] = wire[i]
         /\ \A j \in 1 .. Total(len) :
              /\ wire'[Len(wire) + j].conn = conn /\ wire'[Len(wire) + j].packet = sent
              /\ wire'[Len(wire) + j].at = j /\ wire'[Len(wire) + j].len = len
<1> DEFINE t == Total(len)
           new == Bytes(conn, sent, len)
<1>1. t \in Nat /\ t >= 1
  BY TotalFacts
<1>2. wire \in Seq(Byte) /\ Len(wire) \in Nat /\ conn \in Nat /\ sent \in Nat
  BY PacketAssumption, LenProperties DEF PacketTypeOK
<1>3. new = [i \in 1 .. t |-> [conn |-> conn, packet |-> sent, at |-> i, len |-> len]]
  BY DEF Bytes
<1>4. wire' = wire \o new
  BY DEF ServerSends
<1> HIDE DEF t, new
<1>5. \A i \in 1 .. t : [conn |-> conn, packet |-> sent, at |-> i, len |-> len] \in Byte
  BY <1>1, <1>2 DEF Byte
<1>6. new \in [1 .. t -> Byte]
  BY <1>3, <1>5
<1>7. new \in Seq(Byte) /\ Len(new) = t
  BY <1>1, <1>6, SeqDef
<1>8. /\ wire' \in Seq(Byte) /\ Len(wire') = Len(wire) + t
      /\ \A i \in 1 .. Len(wire) + t :
           wire'[i] = IF i <= Len(wire) THEN wire[i] ELSE new[i - Len(wire)]
  BY <1>2, <1>4, <1>7, ConcatProperties
<1>9. \A i \in 1 .. Len(wire) : i \in 1 .. Len(wire) + t
  BY <1>1, <1>2
<1>10. ASSUME NEW j \in 1 .. t
       PROVE  wire'[Len(wire) + j] = [conn |-> conn, packet |-> sent, at |-> j, len |-> len]
  <2>1. /\ Len(wire) + j \in 1 .. Len(wire) + t /\ ~(Len(wire) + j <= Len(wire))
        /\ Len(wire) + j - Len(wire) = j
    BY <1>1, <1>2
  <2>2. QED
    BY <1>3, <1>8, <2>1
<1>11. \A i \in 1 .. Len(wire) : wire'[i] = wire[i]
  BY <1>8, <1>9
<1>12. \A j \in 1 .. t : /\ wire'[Len(wire) + j].conn = conn /\ wire'[Len(wire) + j].packet = sent
                         /\ wire'[Len(wire) + j].at = j /\ wire'[Len(wire) + j].len = len
  <2>1. SUFFICES ASSUME NEW j \in 1 .. t, NEW b, b = wire'[Len(wire) + j]
                 PROVE  b.conn = conn /\ b.packet = sent /\ b.at = j /\ b.len = len
    OBVIOUS
  <2>2. b = [conn |-> conn, packet |-> sent, at |-> j, len |-> len]
    BY <1>10, <2>1
  <2>3. QED
    BY <2>2
<1>13. wire' \in Seq(Byte) /\ Len(wire') = Len(wire) + t
  BY <1>8
<1>14. QED
  BY <1>11, <1>12, <1>13 DEF t

(* A packet is only taken if it is complete, and some length has been read *)
(* for it.                                                                 *)
LEMMA Taken ==
  ASSUME PacketTypeOK, Takes
  PROVE  \E len \in Payload : /\ len \in HeaderLens /\ Total(len) <= Len(packet) /\ Consume(len)
                              /\ handled' = Append(handled, Decrypted(len))
<1>1. Len(packet) >= HeaderLen /\ HeaderLens \subseteq Payload
  BY HeaderLensType DEF Takes
<1>2. PICK len \in HeaderLens :
        ~Incomplete(len) /\ Consume(len) /\ handled' = Append(handled, Decrypted(len))
  BY DEF Takes
<1>3. len \in Payload /\ Total(len) \in Nat /\ Len(packet) \in Nat
  BY <1>1, TotalFacts, LenProperties DEF PacketTypeOK
<1>4. Total(len) <= Len(packet)
  BY <1>2, <1>3 DEF Incomplete
<1>5. QED
  BY <1>2, <1>3, <1>4

(* It leaves the types as they are.                                        *)
LEMMA TakenType ==
  ASSUME PacketTypeOK, Takes
  PROVE  /\ packet' \in Seq(Byte) /\ Len(packet') < Len(packet)
         /\ handled' \in Seq(Int) /\ Len(handled') = Len(handled) + 1 /\ key_recv_IV' = Len(handled')
<1>1. PICK len \in Payload : /\ Total(len) <= Len(packet) /\ Consume(len)
                             /\ handled' = Append(handled, Decrypted(len))
  BY Taken
<1>2. /\ packet' \in Seq(Byte) /\ Len(packet') = Len(packet) - Total(len)
      /\ Total(len) \in Nat /\ Total(len) >= 1 /\ Len(packet) \in Nat
  BY <1>1, Consumed, TotalFacts, LenProperties DEF PacketTypeOK
<1>3. handled \in Seq(Int) /\ Len(handled) \in Nat /\ key_recv_IV = Len(handled)
  BY LenProperties DEF PacketTypeOK
<1>4. Decrypted(len) \in Int
  BY <1>3 DEF Decrypted
<1>5. handled' \in Seq(Int) /\ Len(handled') = Len(handled) + 1
  BY <1>1, <1>3, <1>4, AppendProperties
<1>6. key_recv_IV' = key_recv_IV + 1
  BY DEF Takes
<1>7. QED
  BY <1>2, <1>3, <1>5, <1>6

(* The types.                                                              *)
LEMMA TypeNext ==
  ASSUME PacketTypeOK, [PacketNext]_packetVars
  PROVE  PacketTypeOK'
<1> USE PacketAssumption DEF PacketTypeOK
<1>1. CASE Connect
  BY <1>1, EmptySeq DEF Connect
<1>2. CASE Logout
  BY <1>2, EmptySeq DEF Logout, Disconnect
<1>3. CASE ReceiveFails
  BY <1>3, EmptySeq DEF ReceiveFails, Disconnect
<1>4. CASE Prepare
  BY <1>4 DEF Prepare
<1>5. CASE SelectTimeout
  BY <1>5 DEF SelectTimeout
<1>6. CASE LoopEnds
  BY <1>6 DEF LoopEnds
<1>7. CASE HandlePacket
  BY <1>7, TakenType DEF HandlePacket, Takes
<1>8. CASE HandlePacketFails
  BY <1>8, TakenType, EmptySeq DEF HandlePacketFails, Disconnect
<1>9. ASSUME NEW n \in 1 .. Len(wire), Receive(n) PROVE PacketTypeOK'
  BY <1>9, Received DEF Receive
<1>10. ASSUME NEW len \in Payload, ServerSends(len) PROVE PacketTypeOK'
  <2>1. wire' \in Seq(Byte)
    BY <1>10, Delivered
  <2>2. sent' \in 0 .. MaxPackets
    BY <1>10 DEF ServerSends
  <2>3. QED
    BY <1>10, <2>1, <2>2 DEF ServerSends
<1>11. ASSUME NEW whole \in BOOLEAN, Write(whole) PROVE PacketTypeOK'
  <2>1. key_send_IV \in Nat /\ [iv |-> key_send_IV, whole |-> whole] \in [iv : Nat, whole : BOOLEAN]
    BY LenProperties
  <2>2. nonces' \in Seq([iv : Nat, whole : BOOLEAN]) /\ Len(nonces') = Len(nonces) + 1
    BY <1>11, <2>1, AppendProperties DEF Write
  <2>3. QED
    BY <1>11, <2>2 DEF Write
<1>12. CASE UNCHANGED packetVars
  BY <1>12 DEF packetVars
<1>13. QED
  BY <1>1, <1>2, <1>3, <1>4, <1>5, <1>6, <1>7, <1>8, <1>9, <1>10, <1>11, <1>12 DEF PacketNext, Read

(* The bound of the buffer.                                                *)
LEMMA FitsNext ==
  ASSUME PacketTypeOK, BufferFits, [PacketNext]_packetVars
  PROVE  BufferFits'
<1> USE DEF BufferFits
<1>1. /\ Len(packet) \in Nat /\ Len(wire) \in Nat /\ size \in Nat
      /\ \A len \in Payload : Total(len) \in Nat /\ HeaderLen <= Total(len)
      /\ HeaderLen \in Nat /\ StartSize \in Nat /\ StartSize >= 1
  BY PacketAssumption, TotalFacts, LenProperties DEF PacketTypeOK
<1>2. CASE Connect
  BY <1>2 DEF Connect
<1>3. CASE Logout
  BY <1>3 DEF Logout, Disconnect
<1>4. CASE ReceiveFails
  BY <1>1, <1>4 DEF ReceiveFails, Disconnect
<1>5. CASE Prepare
  <2>1. packet' = packet /\ pc' = "select" /\ pc = "idle"
    BY <1>5 DEF Prepare
  <2>2. CASE size = 0
    <3>1. size' = StartSize
      BY <1>5, <2>2 DEF Prepare
    <3>2. QED
      BY <1>1, <2>1, <2>2, <3>1
  <2>3. CASE size # 0 /\ Len(packet) = size
    <3>1. size' = 2 * size
      BY <1>5, <2>3 DEF Prepare
    <3>2. PICK len \in Payload : size < Total(len)
      BY <2>1, <2>3
    <3>3. size' <= 2 * (Total(len) - 1) /\ Len(packet) < size'
      BY <1>1, <2>3, <3>1, <3>2
    <3>4. \E x \in Payload : size' <= 2 * (Total(x) - 1)
      BY <3>3
    <3>5. /\ Len(packet') <= size' /\ Len(packet') < size' /\ pc' # "idle"
          /\ (\E x \in Payload : size <= 2 * (Total(x) - 1))'
      BY <1>1, <2>1, <3>1, <3>3, <3>4
    <3>6. QED
      BY <3>5
  <2>4. CASE size # 0 /\ Len(packet) # size
    <3>1. size' = size
      BY <1>5, <2>4 DEF Prepare
    <3>2. QED
      BY <1>1, <2>1, <2>4, <3>1
  <2>5. QED
    BY <2>2, <2>3, <2>4
<1>6. CASE SelectTimeout
  BY <1>1, <1>6 DEF SelectTimeout
<1>7. CASE LoopEnds
  <2>1. packet' = packet /\ size' = size /\ pc' = "idle"
    BY <1>7 DEF LoopEnds
  <2>2. \E len \in Payload : Len(packet) < Total(len)
    <3>1. CASE Len(packet) >= HeaderLen
      <4>1. PICK len \in HeaderLens : Incomplete(len)
        BY <1>7, <3>1 DEF LoopEnds
      <4>2. len \in Payload
        BY <3>1, <4>1, HeaderLensType
      <4>3. QED
        BY <4>1, <4>2 DEF Incomplete
    <3>2. CASE Len(packet) < HeaderLen
      <4>1. PICK len \in Payload : TRUE
        BY PacketAssumption
      <4>2. QED
        BY <1>1, <3>2, <4>1
    <3>3. QED
      BY <1>1, <3>1, <3>2
  <2>3. QED
    BY <1>1, <2>1, <2>2
<1>8. CASE HandlePacket
  <2>1. size' = size /\ pc' = "loop" /\ Len(packet') < Len(packet) /\ Len(packet') \in Nat
    BY <1>8, TakenType, LenProperties DEF HandlePacket, Takes
  <2>2. QED
    BY <1>1, <2>1
<1>9. CASE HandlePacketFails
  <2>1. size' = size /\ pc' = "idle" /\ Len(packet') < Len(packet) /\ Len(packet') \in Nat
    BY <1>9, TakenType, LenProperties DEF HandlePacketFails, Disconnect
  <2>2. QED
    BY <1>1, <2>1
<1>10. ASSUME NEW n \in 1 .. Len(wire), Receive(n) PROVE BufferFits'
  <2>1. Len(packet') = Len(packet) + n /\ n <= size - Len(packet) /\ size' = size /\ pc' = "loop"
    BY <1>10, Received DEF Receive
  <2>2. QED
    BY <1>1, <2>1
<1>11. ASSUME NEW len \in Payload, ServerSends(len) PROVE BufferFits'
  BY <1>11 DEF ServerSends
<1>12. ASSUME NEW whole \in BOOLEAN, Write(whole) PROVE BufferFits'
  BY <1>12 DEF Write
<1>13. CASE UNCHANGED packetVars
  BY <1>13 DEF packetVars
<1>14. QED
  BY <1>2, <1>3, <1>4, <1>5, <1>6, <1>7, <1>8, <1>9, <1>10, <1>11, <1>12, <1>13
  DEF PacketNext, Read
-----------------------------------------------------------------------------
(* What is taken from a whole stream is the packet that is due, all of it. *)
LEMMA TakesWhole ==
  ASSUME PacketTypeOK, StreamIsWhole, online, ~stale, Len(packet) >= HeaderLen,
         NEW len \in HeaderLens, Total(len) <= Len(packet)
  PROVE  /\ IsStream(Rest, Unread, conn, key_recv_IV, sent) /\ Unread > 0
         /\ len = Rest[1].len /\ Decrypted(len) = key_recv_IV
<1>1. RestIsBytes /\ IsStream(Rest, Unread, conn, key_recv_IV, sent)
  BY RestType, StreamMeans DEF WholeMeans
<1>2. /\ Len(packet) \in Nat /\ Unread \in Nat /\ Len(packet) <= Unread
      /\ HeaderLen \in Nat /\ HeaderLen >= 1 /\ Unread > 0 /\ Len(packet) >= HeaderLen
  BY <1>1, PacketAssumption DEF RestIsBytes
<1>3. Rest \in [1 .. Unread -> Byte]
  BY <1>1 DEF RestIsBytes
<1>4. ASSUME NEW i \in 1 .. Len(packet) PROVE Rest[i] = packet[i]
  <2>1. i \in 1 .. Unread /\ i <= Len(packet)
    BY <1>2
  <2>2. QED
    BY <1>1, <2>1 DEF RestIsBytes, Coming
<1>5. /\ Rest[1].len \in Payload /\ Total(Rest[1].len) <= Unread
      /\ \A j \in 1 .. Total(Rest[1].len) :
           Rest[j].conn = conn /\ Rest[j].packet = key_recv_IV /\ Rest[j].at = j
  BY <1>1, <1>2, <1>3, StreamBegins
<1> DEFINE l == Rest[1].len
<1>6. l \in Payload /\ HeaderLen <= Total(l) /\ HeaderLen + l <= Total(l) /\ Total(l) \in Nat /\ l \in Nat
  BY <1>5, TotalFacts
<1>7. ASSUME NEW i \in 1 .. Total(l), i <= Len(packet) PROVE Readable(packet[i], i)
  <2>1. i \in 1 .. Len(packet)
    BY <1>6, <1>7
  <2>2. QED
    BY <1>4, <1>5, <2>1 DEF Readable
<1>8. \A i \in 1 .. HeaderLen : i \in 1 .. Total(l) /\ i <= Len(packet)
  BY <1>2, <1>6
<1>9. packet[1].len = l
  BY <1>2, <1>4
<1>10. len = l
  BY <1>7, <1>8, <1>9 DEF HeaderLens
<1>11. \A i \in 1 .. HeaderLen + len : i \in 1 .. Total(l) /\ i <= Len(packet)
  BY <1>2, <1>6, <1>10
<1>12. \A i \in 1 .. HeaderLen + len : Readable(packet[i], i)
  BY <1>7, <1>11
<1>13. Decrypted(len) = key_recv_IV
  BY <1>12 DEF Decrypted
<1>14. QED
  BY <1>1, <1>2, <1>10, <1>13

(* The stream of whole packets.                                            *)
LEMMA StreamNext ==
  ASSUME PacketTypeOK, StreamIsWhole, [PacketNext]_packetVars
  PROVE  StreamIsWhole'
<1>1. PacketTypeOK' /\ RestIsBytes /\ RestIsBytes' /\ WholeMeans /\ WholeMeans'
  BY TypeNext, RestType, RestTypeNext, StreamMeans, StreamMeansNext
<1>2. ASSUME online', ~stale', IsStream(Rest', Unread', conn', key_recv_IV', sent')
      PROVE  StreamIsWhole'
  BY <1>1, <1>2 DEF WholeMeans, IsStream
<1>3. ASSUME online, ~stale PROVE IsStream(Rest, Unread, conn, key_recv_IV, sent)
  BY <1>1, <1>3 DEF WholeMeans
<1>4. ~online' => StreamIsWhole'
  BY DEF StreamIsWhole
<1>5. CASE Connect
  <2>1. SUFFICES ASSUME ~stale' PROVE StreamIsWhole'
    BY DEF StreamIsWhole
  <2>2. packet' = <<>> /\ wire' = <<>> /\ key_recv_IV' = sent'
    BY <1>5, <2>1 DEF Connect
  <2>3. Unread' = 0
    BY <2>2, EmptySeq DEF Unread
  <2>4. \A i : i \notin 1 .. Unread'
    BY <2>3
  <2>5. QED
    BY <1>2, <2>1, <2>2, <2>3, <2>4 DEF IsStream, StreamIsWhole
<1>6. CASE Logout \/ ReceiveFails \/ HandlePacketFails
  BY <1>4, <1>6 DEF Logout, ReceiveFails, HandlePacketFails, Disconnect
<1> DEFINE Untouched == UNCHANGED <<packet, wire, conn, sent, key_recv_IV, online, stale>>
<1>stays. ASSUME Untouched PROVE StreamIsWhole'
  <2>1. SUFFICES ASSUME online', ~stale' PROVE IsStream(Rest', Unread', conn', key_recv_IV', sent')
    BY <1>2, <1>4 DEF StreamIsWhole
  <2>2. Unread' = Unread
    BY <1>stays DEF Unread
  <2>3. Rest' = Rest
    BY <1>stays DEF Rest, Coming, Unread
  <2>4. QED
    BY <1>3, <1>stays, <2>1, <2>2, <2>3
<1>7. CASE Prepare \/ SelectTimeout \/ LoopEnds
  BY <1>7, <1>stays DEF Prepare, SelectTimeout, LoopEnds
<1>8. ASSUME NEW whole \in BOOLEAN, Write(whole) PROVE StreamIsWhole'
  BY <1>8, <1>stays DEF Write
<1>9. CASE UNCHANGED packetVars
  BY <1>9, <1>stays DEF packetVars
<1> HIDE DEF Untouched
<1> DEFINE n1 == Len(packet)
           n2 == Len(wire)
<1>types. /\ n1 \in Nat /\ n2 \in Nat /\ Unread \in Nat /\ Unread = n1 + n2
          /\ Unread' = Len(packet') + Len(wire') /\ Unread' \in Nat
          /\ Rest \in [1 .. Unread -> Byte] /\ Rest' \in [1 .. Unread' -> Byte]
          /\ conn \in Nat /\ sent \in Nat /\ key_recv_IV \in Nat
  <2>1. conn \in Nat /\ sent \in Nat /\ key_recv_IV \in Nat
    BY <1>1, PacketAssumption DEF PacketTypeOK
  <2>2. /\ Len(packet) \in Nat /\ Len(wire) \in Nat /\ Unread \in Nat
        /\ Unread = Len(packet) + Len(wire) /\ Rest \in [1 .. Unread -> Byte]
    BY <1>1 DEF RestIsBytes
  <2>3. /\ Unread' = Len(packet') + Len(wire') /\ Unread' \in Nat
        /\ Rest' \in [1 .. Unread' -> Byte]
    BY <1>1 DEF RestIsBytes
  <2>4. QED
    BY <2>1, <2>2, <2>3
<1>old. /\ \A i \in 1 .. n1 : Rest[i] = packet[i]
        /\ \A i \in 1 .. n2 : Rest[n1 + i] = wire[i]
  <2>1. ASSUME NEW i \in 1 .. n1 PROVE i \in 1 .. Unread /\ i <= n1
    BY <1>types
  <2>2. ASSUME NEW i \in 1 .. n2
        PROVE  n1 + i \in 1 .. Unread /\ ~(n1 + i <= n1) /\ n1 + i - n1 = i
    BY <1>types
  <2>3. QED
    BY <2>1, <2>2 DEF Rest, Coming
<1>new. /\ \A i \in 1 .. Len(packet') : Rest'[i] = packet'[i]
        /\ \A i \in 1 .. Len(wire') : Rest'[Len(packet') + i] = wire'[i]
  <2>1. Len(packet') \in Nat /\ Len(wire') \in Nat
    BY <1>1 DEF RestIsBytes
  <2>2. ASSUME NEW i \in 1 .. Len(packet') PROVE i \in 1 .. Unread' /\ i <= Len(packet')
    BY <1>types, <2>1
  <2>3. ASSUME NEW i \in 1 .. Len(wire')
        PROVE  /\ Len(packet') + i \in 1 .. Unread' /\ ~(Len(packet') + i <= Len(packet'))
               /\ Len(packet') + i - Len(packet') = i
    BY <1>types, <2>1
  <2>4. QED
    BY <2>2, <2>3 DEF Rest, Coming
<1> HIDE DEF n1, n2
<1>10. ASSUME NEW len \in Payload, ServerSends(len) PROVE StreamIsWhole'
  <2>1. SUFFICES ASSUME online', ~stale' PROVE IsStream(Rest', Unread', conn', key_recv_IV', sent')
    BY <1>2, <1>4 DEF StreamIsWhole
  <2>2. /\ UNCHANGED <<conn, online, packet, key_recv_IV, stale>> /\ sent' = sent + 1
        /\ Len(packet') = n1
    BY <1>10 DEF ServerSends, n1
  <2>3. IsStream(Rest, Unread, conn, key_recv_IV, sent)
    BY <1>3, <2>1, <2>2
  <2>4. /\ Len(wire') = n2 + Total(len) /\ Total(len) \in Nat
        /\ \A i \in 1 .. n2 : wire'[i] = wire[i]
        /\ \A j \in 1 .. Total(len) :
             /\ wire'[n2 + j].conn = conn /\ wire'[n2 + j].packet = sent
             /\ wire'[n2 + j].at = j /\ wire'[n2 + j].len = len
    BY <1>10, Delivered, TotalFacts DEF n2
  <2>5. Unread' = Unread + Total(len)
    BY <1>types, <2>2, <2>4
  <2>6. ASSUME NEW i \in 1 .. Unread PROVE Rest'[i] = Rest[i]
    <3>1. CASE i <= n1
      <4>1. i \in 1 .. n1
        BY <1>types, <3>1
      <4>2. QED
        BY <1>old, <1>new, <2>2, <4>1
    <3>2. CASE i > n1
      <4>1. PICK y \in 1 .. n2 : i = n1 + y
        BY <1>types, <3>2
      <4>2. y \in 1 .. Len(wire')
        BY <1>types, <2>4, <4>1
      <4>3. Rest[n1 + y] = wire[y] /\ Rest'[n1 + y] = wire'[y] /\ wire'[y] = wire[y]
        BY <1>old, <1>new, <2>2, <2>4, <4>1, <4>2
      <4>4. QED
        BY <4>1, <4>3
    <3>3. QED
      BY <1>types, <3>1, <3>2
  <2>7. ASSUME NEW j \in 1 .. Total(len) PROVE Rest'[Unread + j] = wire'[n2 + j]
    <3>1. n2 + j \in 1 .. Len(wire') /\ n1 + (n2 + j) = Unread + j
      <4>1. n1 \in Nat /\ n2 \in Nat /\ Unread = n1 + n2
        BY <1>types
      <4>2. QED
        BY <2>4, <4>1
    <3>2. QED
      BY <1>new, <2>2, <3>1
  <2>8. \A j \in 1 .. Total(len) :
          /\ Rest'[Unread + j].conn = conn /\ Rest'[Unread + j].packet = sent
          /\ Rest'[Unread + j].at = j /\ Rest'[Unread + j].len = len
    BY <2>4, <2>7
  <2>9. IsStream(Rest', Unread', conn, key_recv_IV, sent + 1)
    <3>1. /\ Unread \in Nat /\ Rest \in [1 .. Unread -> Byte] /\ key_recv_IV \in Nat
          /\ sent \in Nat /\ Unread' \in Nat /\ Rest' \in [1 .. Unread' -> Byte]
      BY <1>types
    <3>2. QED
      BY <2>3, <2>5, <2>6, <2>8, <3>1, StreamGrows
  <2>10. QED
    BY <2>2, <2>9
<1>11. ASSUME NEW n \in 1 .. Len(wire), Receive(n) PROVE StreamIsWhole'
  <2>1. SUFFICES ASSUME online', ~stale' PROVE IsStream(Rest', Unread', conn', key_recv_IV', sent')
    BY <1>2, <1>4 DEF StreamIsWhole
  <2>2. UNCHANGED <<conn, online, sent, key_recv_IV, stale>>
    BY <1>11 DEF Receive
  <2>3. IsStream(Rest, Unread, conn, key_recv_IV, sent)
    BY <1>3, <2>1, <2>2
  <2>4. /\ Len(packet') = n1 + n /\ Len(wire') = n2 - n /\ n \in 1 .. n2
        /\ \A i \in 1 .. n1 : packet'[i] = packet[i]
        /\ \A i \in n1 + 1 .. n1 + n : packet'[i] = wire[i - n1]
        /\ \A i \in 1 .. n2 - n : wire'[i] = wire[i + n]
    BY <1>11, Received DEF n1, n2
  <2>5. Unread' = Unread
    BY <1>types, <2>4
  <2>6. ASSUME NEW i \in 1 .. Unread PROVE Rest'[i] = Rest[i]
    <3>1. CASE i <= n1
      <4>1. i \in 1 .. n1 /\ i \in 1 .. Len(packet')
        BY <1>types, <2>4, <3>1
      <4>2. QED
        BY <1>old, <1>new, <2>4, <4>1
    <3>2. CASE i > n1 /\ i <= n1 + n
      <4>1. i \in n1 + 1 .. n1 + n /\ i \in 1 .. Len(packet') /\ i - n1 \in 1 .. n2 /\ n1 + (i - n1) = i
        BY <1>types, <2>4, <3>2
      <4>2. Rest'[i] = wire[i - n1]
        BY <1>new, <2>4, <4>1
      <4>3. Rest[n1 + (i - n1)] = wire[i - n1]
        BY <1>old, <4>1
      <4>4. QED
        BY <4>1, <4>2, <4>3
    <3>3. CASE i > n1 + n
      <4>1. PICK y \in 1 .. n2 - n : i = n1 + n + y
        BY <1>types, <2>4, <3>3
      <4>2. y \in 1 .. Len(wire') /\ y + n \in 1 .. n2 /\ n1 + (y + n) = i /\ Len(packet') + y = i
        BY <1>types, <2>4, <4>1
      <4>3. Rest'[Len(packet') + y] = wire'[y] /\ wire'[y] = wire[y + n]
        BY <1>new, <2>4, <4>1, <4>2
      <4>4. Rest[n1 + (y + n)] = wire[y + n]
        BY <1>old, <4>2
      <4>5. QED
        BY <4>2, <4>3, <4>4
    <3>4. QED
      BY <1>types, <2>4, <3>1, <3>2, <3>3
  <2>7. Rest' = Rest
    BY <1>types, <2>5, <2>6
  <2>8. QED
    BY <2>2, <2>3, <2>5, <2>7
<1>12. CASE HandlePacket
  <2>1. SUFFICES ASSUME online', ~stale' PROVE IsStream(Rest', Unread', conn', key_recv_IV', sent')
    BY <1>2, <1>4 DEF StreamIsWhole
  <2>2. /\ UNCHANGED <<conn, online, wire, sent, stale>> /\ key_recv_IV' = key_recv_IV + 1
        /\ Takes /\ Len(packet) >= HeaderLen /\ Len(wire') = n2
    BY <1>12 DEF HandlePacket, Takes, n2
  <2>3. PICK len \in Payload : len \in HeaderLens /\ Total(len) <= Len(packet) /\ Consume(len)
    BY <2>2, Taken
  <2>4. /\ IsStream(Rest, Unread, conn, key_recv_IV, sent) /\ Unread > 0
        /\ len = Rest[1].len
    BY <2>1, <2>2, <2>3, TakesWhole
  <2> DEFINE t == Total(len)
  <2>5. t \in Nat /\ t <= n1
    BY <2>3, TotalFacts DEF n1
  <2>6. Len(packet') = n1 - t /\ \A i \in 1 .. Len(packet') : packet'[i] = packet[t + i]
    BY <2>3, Consumed DEF n1
  <2> HIDE DEF t
  <2>7. Unread = Unread' + t
    BY <1>types, <2>2, <2>5, <2>6
  <2>8. ASSUME NEW i \in 1 .. Unread' PROVE Rest'[i] = Rest[t + i]
    <3>1. CASE i <= n1 - t
      <4>1. i \in 1 .. Len(packet') /\ t + i \in 1 .. n1
        BY <1>types, <2>5, <2>6, <3>1
      <4>2. QED
        BY <1>old, <1>new, <2>6, <4>1
    <3>2. CASE i > n1 - t
      <4>1. PICK y \in 1 .. n2 : i = n1 - t + y
        BY <1>types, <2>5, <2>7, <3>2
      <4>2. y \in 1 .. Len(wire') /\ Len(packet') + y = i /\ n1 + y = t + i
        BY <1>types, <2>2, <2>5, <2>6, <4>1
      <4>3. Rest'[Len(packet') + y] = wire'[y] /\ Rest[n1 + y] = wire[y] /\ wire'[y] = wire[y]
        BY <1>old, <1>new, <2>2, <4>1, <4>2
      <4>4. QED
        BY <4>2, <4>3
    <3>3. QED
      BY <1>types, <2>5, <3>1, <3>2
  <2>9. IsStream(Rest', Unread', conn, key_recv_IV + 1, sent)
    <3>1. /\ Unread \in Nat /\ Rest \in [1 .. Unread -> Byte] /\ key_recv_IV \in Nat
          /\ sent \in Nat /\ Unread' \in Nat /\ Rest' \in [1 .. Unread' -> Byte]
      BY <1>types
    <3>2. /\ Unread = Unread' + Total(Rest[1].len)
          /\ \A i \in 1 .. Unread' : Rest'[i] = Rest[Total(Rest[1].len) + i]
      BY <2>4, <2>7, <2>8 DEF t
    <3>3. QED
      BY <2>4, <3>1, <3>2, StreamShrinks
  <2>10. QED
    BY <2>2, <2>9
<1>13. QED
  BY <1>5, <1>6, <1>7, <1>8, <1>9, <1>10, <1>11, <1>12 DEF PacketNext, Read

(* Each nonce of packet_write() is the number of packets before it.        *)
LEMMA NoncesNext ==
  ASSUME PacketTypeOK, NoncesAreFresh, [PacketNext]_packetVars
  PROVE  NoncesAreFresh'
<1>1. CASE Connect
  <2>1. nonces' = <<>> /\ Len(<<>>) = 0
    BY <1>1, EmptySeq DEF Connect
  <2>2. QED
    BY <2>1 DEF NoncesAreFresh
<1>2. ASSUME NEW whole \in BOOLEAN, Write(whole) PROVE NoncesAreFresh'
  <2> DEFINE S == [iv : Nat, whole : BOOLEAN]
             e == [iv |-> key_send_IV, whole |-> whole]
  <2>1. nonces \in Seq(S) /\ Len(nonces) \in Nat /\ key_send_IV = Len(nonces)
    BY LenProperties DEF PacketTypeOK
  <2>2. e \in S /\ e.iv = Len(nonces)
    BY <2>1
  <2>3. nonces' = Append(nonces, e)
    BY <1>2 DEF Write
  <2> HIDE DEF S, e
  <2>4. /\ Len(nonces') = Len(nonces) + 1
        /\ \A i \in 1 .. Len(nonces) : nonces'[i] = nonces[i]
        /\ nonces'[Len(nonces) + 1] = e
    BY <2>1, <2>2, <2>3, AppendProperties
  <2>5. ASSUME NEW i \in 1 .. Len(nonces') PROVE nonces'[i].iv = i - 1
    <3>1. CASE i \in 1 .. Len(nonces)
      BY <2>4, <3>1 DEF NoncesAreFresh
    <3>2. CASE i \notin 1 .. Len(nonces)
      <4>1. i = Len(nonces) + 1 /\ i - 1 = Len(nonces)
        BY <2>1, <2>4, <3>2
      <4>2. QED
        BY <2>2, <2>4, <4>1
    <3>3. QED
      BY <3>1, <3>2
  <2>6. QED
    BY <2>5 DEF NoncesAreFresh
<1>3. CASE UNCHANGED nonces
  BY <1>3 DEF NoncesAreFresh
<1>4. (Logout \/ ReceiveFails \/ Read \/ \E len \in Payload : ServerSends(len)) => UNCHANGED nonces
  BY DEF Logout, ReceiveFails, Disconnect, Read, Prepare, SelectTimeout, LoopEnds, HandlePacket,
         HandlePacketFails, Receive, ServerSends
<1>5. UNCHANGED packetVars => UNCHANGED nonces
  BY DEF packetVars
<1>6. QED
  BY <1>1, <1>2, <1>3, <1>4, <1>5 DEF PacketNext

(* What handle_packet() gets next is the packet that is due.               *)
LEMMA ArriveNext ==
  ASSUME PacketTypeOK, StreamIsWhole, PacketsArriveWhole, [PacketNext]_packetVars
  PROVE  PacketsArriveWhole'
<1>1. CASE Connect
  <2>1. handled' = <<>> /\ Len(<<>>) = 0
    BY <1>1, EmptySeq DEF Connect
  <2>2. QED
    BY <2>1 DEF PacketsArriveWhole
<1>2. CASE HandlePacket \/ HandlePacketFails
  <2>1. SUFFICES ASSUME ~stale PROVE \A i \in 1 .. Len(handled') : handled'[i] = i - 1
    BY <1>2 DEF PacketsArriveWhole, HandlePacket, HandlePacketFails, Disconnect
  <2>2. Takes /\ pc = "loop" /\ Len(packet) >= HeaderLen
    BY <1>2 DEF HandlePacket, HandlePacketFails, Takes
  <2>3. online
    BY <2>2 DEF PacketTypeOK
  <2>4. PICK len \in Payload : /\ len \in HeaderLens /\ Total(len) <= Len(packet)
                               /\ handled' = Append(handled, Decrypted(len))
    BY <2>2, Taken
  <2>5. handled' = Append(handled, key_recv_IV)
    BY <2>1, <2>2, <2>3, <2>4, TakesWhole
  <2>6. handled \in Seq(Int) /\ Len(handled) \in Nat /\ key_recv_IV = Len(handled)
    BY LenProperties DEF PacketTypeOK
  <2>7. /\ Len(handled') = Len(handled) + 1
        /\ \A i \in 1 .. Len(handled) : handled'[i] = handled[i]
        /\ handled'[Len(handled) + 1] = Len(handled)
    BY <2>5, <2>6, AppendProperties
  <2>8. \A i \in 1 .. Len(handled) : handled[i] = i - 1
    BY <2>1 DEF PacketsArriveWhole
  <2>9. QED
    BY <2>6, <2>7, <2>8
<1>3. CASE UNCHANGED <<handled, stale>>
  BY <1>3 DEF PacketsArriveWhole
<1>4. /\ Logout \/ ReceiveFails \/ Prepare \/ SelectTimeout \/ LoopEnds => UNCHANGED <<handled, stale>>
      /\ (\E n \in 1 .. Len(wire) : Receive(n)) => UNCHANGED <<handled, stale>>
      /\ (\E len \in Payload : ServerSends(len)) => UNCHANGED <<handled, stale>>
      /\ (\E whole \in BOOLEAN : Write(whole)) => UNCHANGED <<handled, stale>>
      /\ UNCHANGED packetVars => UNCHANGED <<handled, stale>>
  BY DEF Logout, ReceiveFails, Disconnect, Prepare, SelectTimeout, LoopEnds, Receive, ServerSends,
         Write, packetVars
<1>5. QED
  BY <1>1, <1>2, <1>3, <1>4 DEF PacketNext, Read
-----------------------------------------------------------------------------
(* A session begins with no buffer and no connection.                      *)
LEMMA PacketBegins == PacketInit => PacketInv /\ PacketsArriveWhole
<1> SUFFICES ASSUME PacketInit PROVE PacketInv /\ PacketsArriveWhole
  OBVIOUS
<1> USE DEF PacketInit
<1>1. /\ Len(<<>>) = 0 /\ <<>> \in Seq(Byte) /\ <<>> \in Seq(Int)
      /\ <<>> \in Seq([iv : Nat, whole : BOOLEAN])
  BY EmptySeq
<1>2. PacketTypeOK
  <2>1. conn \in 0 .. MaxConns /\ sent \in 0 .. MaxPackets /\ size \in Nat
    BY PacketAssumption
  <2>2. packet \in Seq(Byte) /\ wire \in Seq(Byte) /\ handled \in Seq(Int)
    BY <1>1
  <2>3. nonces \in Seq([iv : Nat, whole : BOOLEAN])
    BY <1>1
  <2>4. key_recv_IV = Len(handled) /\ key_send_IV = Len(nonces)
    BY <1>1
  <2>5. QED
    BY <2>1, <2>2, <2>3, <2>4 DEF PacketTypeOK
<1>3. BufferFits
  <2>1. Len(packet) = 0 /\ size = 0 /\ pc = "idle" /\ size <= StartSize
    BY <1>1, PacketAssumption
  <2>2. QED
    BY <2>1 DEF BufferFits
<1>4. StreamIsWhole
  BY DEF StreamIsWhole
<1>5. NoncesAreFresh /\ PacketsArriveWhole
  <2>1. 1 .. Len(<<>>) = {}
    BY <1>1
  <2>2. QED
    BY <2>1 DEF NoncesAreFresh, PacketsArriveWhole
<1>6. QED
  BY <1>2, <1>3, <1>4, <1>5 DEF PacketInv

(* The invariant of the connection holds in every state: recv() always has *)
(* room, the buffer is bounded by the packets that arrive, the unread      *)
(* stream is one of whole packets from the one that is due on, and each    *)
(* packet is written with a nonce of its own.                              *)
THEOREM PacketInvariant == PacketSpec => []PacketInv
<1>1. PacketInit => PacketInv
  BY PacketBegins
<1>2. PacketInv /\ [PacketNext]_packetVars => PacketInv'
  BY TypeNext, FitsNext, StreamNext, NoncesNext DEF PacketInv
<1>3. QED
  BY <1>1, <1>2, PTL DEF PacketSpec

(* On a connection that begins with an empty buffer handle_packet() gets   *)
(* every packet whole, once, in the server's order and decrypted with its  *)
(* own nonce, wherever recv() cuts the stream.                             *)
THEOREM PacketWhole == PacketSpec => []PacketsArriveWhole
<1>1. PacketInit => PacketsArriveWhole
  BY PacketBegins
<1>2. PacketInv /\ PacketsArriveWhole /\ [PacketNext]_packetVars => PacketsArriveWhole'
  BY ArriveNext DEF PacketInv
<1>3. QED
  BY <1>1, <1>2, PacketInvariant, PTL DEF PacketSpec
=============================================================================
