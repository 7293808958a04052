--------------------------- MODULE WebSocketProofs ---------------------------
(***************************************************************************)
(* Proofs about WebSocket: ws_read never gets out of step with the client. *)
(*                                                                         *)
(* The bytes in the buffer of SSL_read, in the socket and not yet sent are *)
(* together the end of what the client writes, from the place on at which  *)
(* ws_read is in a frame: whatever SSL_read returns is what comes next in  *)
(* that frame.                                                             *)
(***************************************************************************)
EXTENDS WebSocket, ListProofs

\* The bytes of each frame.
FrameBytes == [f \in DOMAIN frames |-> [i \in 1 .. FrameLen(frames[f]) |-> <<f, i>>]]

\* The number of bytes in the frames before the k-th.
Before(k) == Len(FlattenSeq(SubSeq(FrameBytes, 1, k - 1)))

\* What ws_read has not seen.
Stream == buffer \o FlattenSeq(socket) \o unsent

\* What comes after the first p elements of a sequence.
After(B, p) == SubSeq(B, p + 1, Len(B))

\* It goes on n bytes after the beginning of frame k.
GoesOn(k, n) == Stream = After(BytesOf(frames), Before(k) + n)

HeaderOf(k) == <<<<k, 1>>, <<k, 2>>>>

Bytes == Nat \X Nat

TypeOK ==
    /\ frames \in Seq(Kinds)
    /\ unsent \in Seq(Bytes) /\ socket \in Seq(Seq(Bytes)) /\ buffer \in Seq(Bytes)
    /\ header \in Seq(Bytes) /\ dest \in Seq(Bytes) /\ handled \in Seq(Seq(Bytes))
    /\ step \in {"select", "header", "length", "mask", "payload", "ping", "removed"}

\* Frame k is the one that ws_read is at, and all messages before it were handled.
At(k) ==
    /\ handled = FlattenSeq(SubSeq(Messages, 1, k - 1))
    /\ step = "select" => GoesOn(k, 0)
    /\ step = "header" =>
          /\ GoesOn(k, Len(header))
          /\ Len(header) < 2
          /\ header # <<>> => k \in DOMAIN frames /\ header[1] = <<k, 1>>
    /\ step \in {"length", "mask", "payload", "ping"} => k \in DOMAIN frames /\ header = HeaderOf(k)
    /\ step = "length" => GoesOn(k, 2) /\ frames[k] \in {"long", "huge"}
    /\ step = "ping" => GoesOn(k, 2) /\ frames[k] = "ping"
    /\ step = "mask" => GoesOn(k, 2 + ExtLen(frames[k])) /\ frames[k] \in {"text", "empty", "long"}
    /\ step = "payload" =>
          /\ IsMessage(k)
          /\ GoesOn(k, 2 + ExtLen(frames[k]) + 4 + Len(dest))
          /\ Len(dest) < PayloadLen(frames[k])
          /\ \A i \in 1 .. Len(dest) : dest[i] = Payload(k)[i]

\* A header that was read is the header of one frame.
HeaderIsOne == Len(header) = 2 => header = HeaderOf(header[1][1])

IndInv ==
    /\ TypeOK
    /\ HeaderIsOne
    /\ step \in {"header", "length", "mask"} => dest = <<>>
    /\ \E k \in 1 .. Len(frames) + 1 : At(k)

----------------------------------------------------------------------------
(* Frames in the bytes *)

\* The lengths that the kinds of frames have.
LEMMA KindLens ==
  ASSUME NEW kind \in Kinds
  PROVE  /\ ExtLen(kind) \in Nat /\ PayloadLen(kind) \in Nat /\ FrameLen(kind) \in Nat
         /\ FrameLen(kind) = 2 + ExtLen(kind) + 4 + PayloadLen(kind)
         /\ kind \in {"text", "long"} => PayloadLen(kind) > 0
         /\ kind = "ping" => ExtLen(kind) = 0 /\ PayloadLen(kind) = 1
BY WebSocketAssumption DEF Kinds, ExtLen, PayloadLen, FrameLen

\* The frames are in the bytes one after the other.
LEMMA FramesAreLaidOut ==
  ASSUME frames \in Seq(Kinds)
  PROVE  /\ BytesOf(frames) \in Seq(Bytes)
         /\ Before(1) = 0 /\ Before(Len(frames) + 1) = Len(BytesOf(frames))
         /\ \A k \in DOMAIN frames :
               /\ Before(k) \in Nat
               /\ Before(k + 1) = Before(k) + FrameLen(frames[k])
               /\ Before(k + 1) <= Len(BytesOf(frames))
               /\ \A j \in 1 .. FrameLen(frames[k]) : BytesOf(frames)[Before(k) + j] = <<k, j>>
<1>1. Len(frames) \in Nat /\ DOMAIN frames = 1 .. Len(frames) /\ \A k \in DOMAIN frames : frames[k] \in Kinds
  OBVIOUS
<1>2. \A k \in DOMAIN frames : FrameLen(frames[k]) \in Nat
  BY <1>1, KindLens
<1>3. PICK s : s = FrameBytes
  OBVIOUS
<1>4. /\ DOMAIN s = 1 .. Len(frames)
      /\ \A k \in DOMAIN frames : s[k] = [i \in 1 .. FrameLen(frames[k]) |-> <<k, i>>]
  BY <1>1, <1>3 DEF FrameBytes
<1>5. \A k \in DOMAIN frames :
         /\ s[k] \in Seq(Bytes) /\ Len(s[k]) = FrameLen(frames[k])
         /\ \A j \in 1 .. FrameLen(frames[k]) : s[k][j] = <<k, j>>
  <2> TAKE k \in DOMAIN frames
  <2>1. s[k] = [i \in 1 .. FrameLen(frames[k]) |-> <<k, i>>] /\ FrameLen(frames[k]) \in Nat /\ k \in Nat
    BY <1>1, <1>2, <1>4
  <2>2. \A i \in 1 .. FrameLen(frames[k]) : <<k, i>> \in Bytes
    BY <2>1 DEF Bytes
  <2>3. PICK n \in Nat : n = FrameLen(frames[k])
    BY <2>1
  <2>4. PICK t : t = [i \in 1 .. n |-> <<k, i>>]
    OBVIOUS
  <2>5. t \in [1 .. n -> Bytes] /\ \A i \in 1 .. n : t[i] = <<k, i>>
    BY <2>2, <2>3, <2>4
  <2>6. t \in Seq(Bytes) /\ Len(t) = n
    BY <2>5
  <2> QED
    BY <2>1, <2>3, <2>4, <2>5, <2>6
<1>6. s \in Seq(Seq(Bytes)) /\ Len(s) = Len(frames)
  <2>1. PICK U : U = Seq(Bytes)
    OBVIOUS
  <2>2. s \in [1 .. Len(frames) -> U]
    <3>1. s = [k \in DOMAIN s |-> s[k]]
      BY <1>3 DEF FrameBytes
    <3>2. \A k \in 1 .. Len(frames) : s[k] \in U
      BY <1>1, <1>5, <2>1
    <3> QED
      BY <1>4, <3>1, <3>2
  <2>3. s \in Seq(U) /\ Len(s) = Len(frames)
    BY <1>1, <2>2
  <2> QED
    BY <2>1, <2>3
<1>7. BytesOf(frames) = FlattenSeq(s)
  BY <1>3 DEF BytesOf, FrameBytes
<1>8. PICK fl \in [0 .. Len(s) -> Seq(Bytes)] : LaidOut(s, fl)
  BY <1>6, FlattenPlaces
<1>9. \A k \in 1 .. Len(frames) + 1 : k - 1 \in 0 .. Len(s) /\ Before(k) = Len(fl[k - 1])
  <2> TAKE k \in 1 .. Len(frames) + 1
  <2>1. k - 1 \in 0 .. Len(s)
    BY <1>1, <1>6
  <2>2. fl[k - 1] = FlattenSeq(SubSeq(s, 1, k - 1))
    BY <1>8, <2>1, Zenon DEF LaidOut
  <2> QED
    BY <1>3, <2>1, <2>2 DEF Before
<1>10. ASSUME NEW k \in DOMAIN frames
       PROVE  /\ Before(k) \in Nat
              /\ Before(k + 1) = Before(k) + FrameLen(frames[k])
              /\ Before(k + 1) <= Len(BytesOf(frames))
              /\ \A j \in 1 .. FrameLen(frames[k]) : BytesOf(frames)[Before(k) + j] = <<k, j>>
  <2>1. /\ k \in 1 .. Len(frames) + 1 /\ k + 1 \in 1 .. Len(frames) + 1 /\ k + 1 - 1 = k
        /\ k \in 1 .. Len(s) /\ k \in 0 .. Len(s) /\ k - 1 \in 0 .. Len(s)
    BY <1>1, <1>6
  <2>2. Before(k) = Len(fl[k - 1]) /\ Before(k + 1) = Len(fl[k])
    <3>1. Before(k) = Len(fl[k - 1])
      BY <1>9, <2>1, Zenon
    <3>2. Before(k + 1) = Len(fl[k + 1 - 1])
      BY <1>9, <2>1, SMTT(60)
    <3> QED
      BY <2>1, <3>1, <3>2, Zenon
  <2>3. Len(fl[k]) = Len(fl[k - 1]) + Len(s[k]) /\ Len(fl[k]) <= Len(FlattenSeq(s))
    BY <1>8, <2>1, Zenon DEF LaidOut
  <2>4. Len(fl[k - 1]) \in Nat
    <3>1. fl[k - 1] \in Seq(Bytes)
      BY <1>8, <2>1
    <3> QED
      BY <3>1
  <2>5. \A j \in 1 .. Len(s[k]) : FlattenSeq(s)[Len(fl[k - 1]) + j] = s[k][j]
    BY <1>8, <2>1, Zenon DEF LaidOut
  <2>6. Len(s[k]) = FrameLen(frames[k]) /\ \A j \in 1 .. FrameLen(frames[k]) : s[k][j] = <<k, j>>
    BY <1>5, Zenon
  <2>7. \A j \in 1 .. FrameLen(frames[k]) : BytesOf(frames)[Before(k) + j] = <<k, j>>
    BY <1>7, <2>2, <2>5, <2>6, Zenon
  <2>8. Before(k + 1) = Before(k) + FrameLen(frames[k]) /\ Before(k + 1) <= Len(BytesOf(frames))
    BY <1>7, <2>2, <2>3, <2>6, Zenon
  <2> QED
    BY <2>2, <2>4, <2>7, <2>8, Zenon
<1>11. BytesOf(frames) \in Seq(Bytes)
  <2>1. FlattenSeq(s) \in Seq(Bytes)
    BY <1>6, FlattenPrefixes
  <2> QED
    BY <1>7, <2>1
<1>12. Before(1) = 0 /\ Before(Len(frames) + 1) = Len(BytesOf(frames))
  <2>1. 1 \in 1 .. Len(frames) + 1 /\ 1 - 1 = 0
        /\ Len(frames) + 1 \in 1 .. Len(frames) + 1 /\ Len(frames) + 1 - 1 = Len(s)
    BY <1>1, <1>6
  <2>2. Before(1) = Len(fl[1 - 1]) /\ Before(Len(frames) + 1) = Len(fl[Len(frames) + 1 - 1])
    BY <1>9, <2>1
  <2>3. Len(<<>>) = 0
    OBVIOUS
  <2> QED
    BY <1>7, <1>8, <2>1, <2>2, <2>3, Zenon DEF LaidOut
<1> QED
  BY <1>10, <1>11, <1>12, Zenon

\* What is in front of the rest of a sequence is what comes next in it.
Joins(c, r, whole) == whole = c \o r

IsNext(B, p, c, r) ==
    /\ p + Len(c) <= Len(B) /\ r = After(B, p + Len(c))
    /\ \A i \in 1 .. Len(c) : c[i] = B[p + i]

LEMMA FrontIsNext ==
  ASSUME NEW T, NEW B \in Seq(T), NEW c \in Seq(T), NEW r \in Seq(T), NEW p \in Nat, p <= Len(B),
         NEW whole, Joins(c, r, whole), whole = After(B, p)
  PROVE  IsNext(B, p, c, r)
<1>1. Len(B) \in Nat /\ Len(c) \in Nat /\ Len(r) \in Nat /\ \A i \in 1 .. Len(B) : B[i] \in T
  OBVIOUS
<1>3. /\ whole \in Seq(T) /\ Len(whole) = Len(c) + Len(r)
      /\ \A i \in 1 .. Len(c) + Len(r) : whole[i] = IF i <= Len(c) THEN c[i] ELSE r[i - Len(c)]
  <2>1. PICK w : w = c \o r
    OBVIOUS
  <2>2. /\ w \in Seq(T) /\ Len(w) = Len(c) + Len(r)
        /\ \A i \in 1 .. Len(c) + Len(r) : w[i] = IF i <= Len(c) THEN c[i] ELSE r[i - Len(c)]
    BY <2>1, ConcatProperties
  <2>3. whole = w
    BY <2>1 DEF Joins
  <2> QED
    BY <2>2, <2>3
<1>4. Len(whole) = Len(B) - p /\ \A i \in 1 .. Len(B) - p : whole[i] = B[p + i]
  <2>1. \A i \in p + 1 .. Len(B) : B[i] \in T
    BY <1>1
  <2>2. /\ Len(whole) = IF p + 1 <= Len(B) THEN Len(B) - (p + 1) + 1 ELSE 0
        /\ \A i \in 1 .. Len(B) - (p + 1) + 1 : whole[i] = B[p + 1 + i - 1]
    BY <1>1, <2>1, SubSeqProperties DEF After
  <2> QED
    BY <1>1, <2>2
<1>5. p + Len(c) <= Len(B) /\ Len(r) = Len(B) - p - Len(c)
  <2>1. Len(c) + Len(r) = Len(B) - p
    BY <1>3, <1>4, Zenon
  <2> QED
    BY <1>1, <2>1
<1>6. \A i \in 1 .. Len(c) : c[i] = B[p + i]
  <2> TAKE i \in 1 .. Len(c)
  <2>1. i \in 1 .. Len(c) + Len(r) /\ i <= Len(c) /\ i \in 1 .. Len(B) - p
    BY <1>1, <1>5
  <2>2. whole[i] = IF i <= Len(c) THEN c[i] ELSE r[i - Len(c)]
    BY <1>3, <2>1, Zenon
  <2> QED
    BY <1>4, <2>1, <2>2
<1>7. \A i \in 1 .. Len(r) : r[i] = B[p + Len(c) + i]
  <2> TAKE i \in 1 .. Len(r)
  <2>1. PICK j : j = Len(c) + i
    OBVIOUS
  <2>2. j \in 1 .. Len(c) + Len(r) /\ ~(j <= Len(c)) /\ j - Len(c) = i /\ j \in 1 .. Len(B) - p
        /\ p + j = p + Len(c) + i
    BY <1>1, <1>5, <2>1
  <2>3. whole[j] = r[j - Len(c)]
    BY <1>3, <2>2
  <2> QED
    BY <1>4, <2>2, <2>3
<1>8. r = SubSeq(B, p + Len(c) + 1, Len(B))
  <2>1. PICK q \in Nat : q = p + Len(c)
    BY <1>1
  <2>2. PICK t : t = SubSeq(B, q + 1, Len(B))
    OBVIOUS
  <2>3. \A i \in q + 1 .. Len(B) : B[i] \in T
    BY <1>1, <2>1
  <2>4. /\ t \in Seq(T)
        /\ Len(t) = IF q + 1 <= Len(B) THEN Len(B) - (q + 1) + 1 ELSE 0
        /\ \A i \in 1 .. Len(B) - (q + 1) + 1 : t[i] = B[q + 1 + i - 1]
    BY <1>1, <2>2, <2>3, SubSeqProperties
  <2>5. Len(t) = Len(r) /\ \A i \in 1 .. Len(r) : t[i] = B[q + i]
    <3>1. Len(r) = Len(B) - q /\ Len(B) - (q + 1) + 1 = Len(B) - q
          /\ (~(q + 1 <= Len(B)) => Len(B) - q = 0)
      BY <1>1, <1>5, <2>1
    <3>2. \A i \in 1 .. Len(r) : q + 1 + i - 1 = q + i
      BY <1>1, <2>1
    <3> QED
      BY <2>4, <3>1, <3>2
  <2>6. r = t
    BY <1>7, <2>1, <2>4, <2>5, SeqEqual
  <2> QED
    BY <2>1, <2>2, <2>6
<1> QED
  BY <1>5, <1>6, <1>8 DEF IsNext, After

----------------------------------------------------------------------------
(* SSL_read *)

LEMMA StreamIsBytes ==
  ASSUME TypeOK
  PROVE  FlattenSeq(socket) \in Seq(Bytes) /\ Stream \in Seq(Bytes)
<1>1. FlattenSeq(socket) \in Seq(Bytes)
  BY FlattenPrefixes DEF TypeOK
<1>2. buffer \o FlattenSeq(socket) \in Seq(Bytes)
  BY <1>1, ConcatProperties DEF TypeOK
<1> QED
  BY <1>1, <1>2, ConcatProperties DEF TypeOK, Stream

\* Cutting a sequence in two.
LEMMA CutInTwo ==
  ASSUME NEW T, NEW s \in Seq(T), NEW k \in 0 .. Len(s)
  PROVE  /\ SubSeq(s, 1, k) \in Seq(T) /\ Len(SubSeq(s, 1, k)) = k
         /\ SubSeq(s, k + 1, Len(s)) \in Seq(T)
         /\ s = SubSeq(s, 1, k) \o SubSeq(s, k + 1, Len(s))
<1>1. Len(s) \in Nat /\ \A i \in 1 .. Len(s) : s[i] \in T
  OBVIOUS
<1>2. /\ \A i \in 1 .. k : s[i] \in T
      /\ \A i \in k + 1 .. Len(s) : s[i] \in T
  BY <1>1
<1>3. SubSeq(s, 1, k) \in Seq(T) /\ Len(SubSeq(s, 1, k)) = k
  BY <1>1, <1>2, SubSeqProperties
<1>4. SubSeq(s, k + 1, Len(s)) \in Seq(T)
  BY <1>1, <1>2, SubSeqProperties
<1>5. s = SubSeq(s, 1, k) \o SubSeq(s, k + 1, Len(s))
  <2>1. 1 \in 1 .. Len(s) + 1 /\ k \in 1 - 1 .. Len(s) /\ Len(s) \in k .. Len(s)
    BY <1>1
  <2>2. SubSeq(s, 1, k) \o SubSeq(s, k + 1, Len(s)) = SubSeq(s, 1, Len(s))
    BY <2>1, ConcatAdjacentSubSeq
  <2> QED
    BY <2>2, SubSeqFull
<1> QED
  BY <1>3, <1>4, <1>5

\* SSL_read returns what comes next, at most what was asked for and not nothing.
LEMMA ReadGivesNext ==
  ASSUME TypeOK, NEW n \in Nat \ {0}, SSL_read(n)
  PROVE  /\ Chunk(n) \in Seq(Bytes) /\ Len(Chunk(n)) \in 1 .. n
         /\ buffer' \in Seq(Bytes) /\ socket' \in Seq(Seq(Bytes))
         /\ Stream' \in Seq(Bytes) /\ Stream = Chunk(n) \o Stream'
<1>1. /\ Record.bytes # <<>>
      /\ buffer' = SubSeq(Record.bytes, Len(Chunk(n)) + 1, Len(Record.bytes))
      /\ socket' = Record.rest
      /\ unsent' = unsent
  BY DEF SSL_read
<1>2. PICK bytes : bytes = Record.bytes
  OBVIOUS
<1>3. PICK rest : rest = Record.rest
  OBVIOUS
<1>4. PICK c : c = Chunk(n)
  OBVIOUS
<1>5. bytes # <<>> /\ buffer' = SubSeq(bytes, Len(c) + 1, Len(bytes)) /\ socket' = rest
  BY <1>1, <1>2, <1>3, <1>4
<1>6. /\ buffer \in Seq(Bytes) /\ socket \in Seq(Seq(Bytes)) /\ unsent \in Seq(Bytes)
      /\ FlattenSeq(socket) \in Seq(Bytes)
  BY StreamIsBytes DEF TypeOK
<1>7. /\ bytes \in Seq(Bytes) /\ rest \in Seq(Seq(Bytes)) /\ FlattenSeq(rest) \in Seq(Bytes)
      /\ buffer \o FlattenSeq(socket) = bytes \o FlattenSeq(rest)
  <2>1. CASE buffer # <<>>
    <3>1. bytes = buffer /\ rest = socket
      BY <1>2, <1>3, <2>1 DEF Record
    <3> QED
      BY <1>6, <3>1
  <2>2. CASE buffer = <<>>
    <3>1. socket # <<>>
      BY <1>2, <1>5, <2>2 DEF Record
    <3>2. bytes = Head(socket) /\ rest = Tail(socket)
      BY <1>2, <1>3, <2>2, <3>1 DEF Record
    <3>3. bytes \in Seq(Bytes) /\ rest \in Seq(Seq(Bytes))
      BY <1>6, <3>1, <3>2, HeadTailProperties
    <3>4. FlattenSeq(socket) = bytes \o FlattenSeq(rest)
      BY <1>6, <3>1, <3>2, FlattenTail
    <3>5. buffer \o FlattenSeq(socket) = FlattenSeq(socket)
      BY <1>6, <2>2, ConcatEmptySeq
    <3>6. FlattenSeq(rest) \in Seq(Bytes)
      BY <3>3, FlattenPrefixes
    <3> QED
      BY <3>3, <3>4, <3>5, <3>6
  <2> QED
    BY <2>1, <2>2
<1>8. PICK k : k = Min({n, Len(bytes)})
  OBVIOUS
<1>9. c = SubSeq(bytes, 1, k) /\ k \in 1 .. n /\ k \in 0 .. Len(bytes)
  <2>1. Len(bytes) \in Nat \ {0}
    BY <1>5, <1>7, EmptySeq
  <2>2. k \in {n, Len(bytes)} /\ \A m \in {n, Len(bytes)} : k <= m
    BY <1>8, <2>1, MinIsLowest
  <2>3. c = SubSeq(bytes, 1, k)
    BY <1>2, <1>4, <1>8 DEF Chunk
  <2> QED
    BY <2>1, <2>2, <2>3
<1>10. /\ c \in Seq(Bytes) /\ Len(c) = k /\ buffer' \in Seq(Bytes)
       /\ bytes = c \o buffer'
  <2>1. /\ SubSeq(bytes, 1, k) \in Seq(Bytes) /\ Len(SubSeq(bytes, 1, k)) = k
        /\ SubSeq(bytes, k + 1, Len(bytes)) \in Seq(Bytes)
        /\ bytes = SubSeq(bytes, 1, k) \o SubSeq(bytes, k + 1, Len(bytes))
    BY <1>7, <1>9, CutInTwo
  <2>2. buffer' = SubSeq(bytes, k + 1, Len(bytes))
    BY <1>5, <1>9, <2>1
  <2> QED
    BY <1>9, <2>1, <2>2
<1>11. PICK b : b = buffer'
  OBVIOUS
<1>12. PICK f : f = FlattenSeq(rest)
  OBVIOUS
<1>13. PICK X : X = Seq(Bytes) /\ \A x, y, z \in X : (x \o y) \o z = x \o (y \o z)
  <2>1. PICK X : X = Seq(Bytes)
    OBVIOUS
  <2> QED
    BY ONLY <2>1, ConcatIsAssociative, SMTT(60)
<1> DEFINE Cat(x, y) == x \o y
<1>14. \A x, y, z \in X : Cat(Cat(x, y), z) = Cat(x, Cat(y, z))
  BY <1>13, Zenon
<1>15. \A x, y \in X : Cat(x, y) \in X
  BY <1>13, ConcatProperties
<1>16. Stream = Cat(Cat(buffer, FlattenSeq(socket)), unsent)
  BY DEF Stream
<1>17. Cat(buffer, FlattenSeq(socket)) = Cat(bytes, f) /\ bytes = Cat(c, b)
  BY <1>7, <1>10, <1>11, <1>12
<1>18. Stream' = Cat(Cat(b, f), unsent)
  BY <1>1, <1>5, <1>11, <1>12 DEF Stream
<1>19. c \in X /\ b \in X /\ f \in X /\ unsent \in X
  BY <1>6, <1>7, <1>10, <1>11, <1>12, <1>13
<1>20. Stream = Cat(c, Stream') /\ Stream' \in X
  <2> HIDE DEF Cat
  <2>1. Stream = Cat(Cat(Cat(c, b), f), unsent)
    BY <1>16, <1>17, Zenon
  <2>2. Cat(Cat(c, b), f) = Cat(c, Cat(b, f)) /\ Cat(b, f) \in X
    <3>1. Cat(Cat(c, b), f) = Cat(c, Cat(b, f))
      BY <1>14, <1>19, ZenonT(60)
    <3>2. Cat(b, f) \in X
      BY <1>15, <1>19, Zenon
    <3> QED
      BY <3>1, <3>2
  <2>3. Cat(Cat(c, Cat(b, f)), unsent) = Cat(c, Cat(Cat(b, f), unsent))
    BY <1>14, <1>19, <2>2, ZenonT(60)
  <2>4. Cat(Cat(b, f), unsent) \in X
    BY <1>15, <1>19, <2>2, Zenon
  <2> QED
    BY <1>18, <2>1, <2>2, <2>3, <2>4, Zenon
<1> QED
  BY <1>4, <1>5, <1>7, <1>9, <1>10, <1>13, <1>20

\* An SSL_read of n bytes returns c, what comes after the first m bytes of frame k.
ReadsNext(k, m, n, c) ==
    /\ c \in Seq(Bytes) /\ Len(c) \in 1 .. n
    /\ UNCHANGED <<frames, unsent>>
    /\ buffer' \in Seq(Bytes) /\ socket' \in Seq(Seq(Bytes))
    /\ \A i \in 1 .. Len(c) : c[i] = <<k, m + i>>
    /\ GoesOn(k, m + Len(c))'

\* What it returns inside of a frame is what comes next in this frame.
LEMMA ReadsInFrame ==
  ASSUME TypeOK, NEW k \in DOMAIN frames, NEW m \in Nat, NEW n \in Nat \ {0},
         m + n <= FrameLen(frames[k]), GoesOn(k, m), SSL_read(n), NEW c, c = Chunk(n)
  PROVE  ReadsNext(k, m, n, c)
<1>1. /\ c \in Seq(Bytes) /\ Len(c) \in 1 .. n
      /\ buffer' \in Seq(Bytes) /\ socket' \in Seq(Seq(Bytes))
      /\ Stream' \in Seq(Bytes) /\ Stream = c \o Stream'
  BY ReadGivesNext
<1>2. frames \in Seq(Kinds) /\ frames' = frames
  BY DEF TypeOK, SSL_read
<1>3. PICK r \in Seq(Bytes) : r = Stream'
  BY <1>1
<1>4. PICK B \in Seq(Bytes) : B = BytesOf(frames)
  BY <1>2, FramesAreLaidOut
<1>5. /\ Before(k) \in Nat
      /\ Before(k) + FrameLen(frames[k]) <= Len(B)
      /\ \A j \in 1 .. FrameLen(frames[k]) : B[Before(k) + j] = <<k, j>>
  <2>1. /\ Before(k) \in Nat
        /\ Before(k + 1) = Before(k) + FrameLen(frames[k])
        /\ Before(k + 1) <= Len(BytesOf(frames))
        /\ \A j \in 1 .. FrameLen(frames[k]) : BytesOf(frames)[Before(k) + j] = <<k, j>>
    BY <1>2, FramesAreLaidOut
  <2> QED
    BY <1>4, <2>1
<1>6. PICK before \in Nat : before = Before(k)
  BY <1>5
<1>7. PICK len \in Nat : len = FrameLen(frames[k])
  <2>1. frames[k] \in Kinds
    BY <1>2
  <2> QED
    BY <2>1, KindLens
<1>8. PICK p \in Nat : p = before + m
  OBVIOUS
<1>9. Len(B) \in Nat /\ before + len <= Len(B) /\ m + n <= len /\ \A j \in 1 .. len : B[before + j] = <<k, j>>
  BY <1>5, <1>6, <1>7, SMTT(60)
<1>10. p <= Len(B)
  BY <1>8, <1>9
<1>11. PICK whole : whole = c \o r /\ whole = After(B, p)
  BY <1>1, <1>3, <1>4, <1>6, <1>8 DEF GoesOn
<1>12. IsNext(B, p, c, r)
  <2>1. PICK d \in Seq(Bytes) : d = c
    BY <1>1
  <2>2. Joins(d, r, whole)
    BY <1>11, <2>1 DEF Joins
  <2>3. whole = After(B, p)
    BY <1>11
  <2>4. IsNext(B, p, d, r)
    BY <1>10, <2>2, <2>3, FrontIsNext
  <2> QED
    BY <2>1, <2>4
<1>13. \A i \in 1 .. Len(c) : c[i] = <<k, m + i>>
  <2> TAKE i \in 1 .. Len(c)
  <2>1. m + i \in 1 .. len /\ before + (m + i) = p + i
    BY <1>1, <1>8, <1>9
  <2>2. B[before + (m + i)] = <<k, m + i>>
    BY <1>9, <2>1, Zenon
  <2>3. c[i] = B[p + i]
    BY <1>12, Zenon DEF IsNext
  <2> QED
    BY <2>1, <2>2, <2>3, Zenon
<1>14. GoesOn(k, m + Len(c))'
  <2>1. BytesOf(frames)' = B /\ Before(k)' = before
    BY <1>2, <1>4, <1>6 DEF BytesOf, Before, FrameBytes
  <2>2. before + (m + Len(c)) = p + Len(c)
    BY <1>1, <1>8
  <2>3. r = After(B, before + (m + Len(c)))
    BY <1>12, <2>2 DEF IsNext
  <2> QED
    BY <1>3, <2>1, <2>3 DEF GoesOn
<1> QED
  BY <1>1, <1>13, <1>14 DEF ReadsNext, SSL_read

\* After the last frame nothing can be read.
LEMMA NothingAfterLast ==
  ASSUME TypeOK, GoesOn(Len(frames) + 1, 0), NEW n \in Nat \ {0}, SSL_read(n)
  PROVE  FALSE
<1>1. PICK c \in Seq(Bytes) : c = Chunk(n) /\ Len(c) \in 1 .. n
  BY ReadGivesNext
<1>2. PICK r \in Seq(Bytes) : Stream = c \o r
  BY <1>1, ReadGivesNext
<1>3. PICK B \in Seq(Bytes) : B = BytesOf(frames) /\ Before(Len(frames) + 1) = Len(B)
  BY FramesAreLaidOut DEF TypeOK
<1>4. c \o r = SubSeq(B, Len(B) + 0 + 1, Len(B))
  BY <1>2, <1>3 DEF GoesOn, After
<1>5. SubSeq(B, Len(B) + 0 + 1, Len(B)) = <<>>
  <2>1. Len(B) \in Int /\ Len(B) + 0 + 1 \in Int /\ Len(B) < Len(B) + 0 + 1
    OBVIOUS
  <2> QED
    BY <2>1, SubSeqEmpty
<1>6. Len(c \o r) = Len(c) + Len(r) /\ Len(r) \in Nat
  BY ConcatProperties
<1> QED
  BY <1>1, <1>4, <1>5, <1>6

----------------------------------------------------------------------------
(* Messages *)

\* The messages of the frames up to the k-th: those before it, and its own.
LEMMA MessagesOf ==
  ASSUME frames \in Seq(Kinds)
  PROVE  /\ FlattenSeq(Messages) \in Seq(Seq(Bytes))
         /\ FlattenSeq(SubSeq(Messages, 1, 0)) = <<>>
         /\ \A k \in DOMAIN frames :
               /\ Payload(k) \in Seq(Bytes)
               /\ DOMAIN Payload(k) = 1 .. PayloadLen(frames[k])
               /\ FlattenSeq(SubSeq(Messages, 1, k - 1)) \in Seq(Seq(Bytes))
               /\ ~IsMessage(k) =>
                     FlattenSeq(SubSeq(Messages, 1, k)) = FlattenSeq(SubSeq(Messages, 1, k - 1))
               /\ IsMessage(k) =>
                     FlattenSeq(SubSeq(Messages, 1, k))
                        = Append(FlattenSeq(SubSeq(Messages, 1, k - 1)), Payload(k))
         /\ \A k \in 1 .. Len(frames) + 1 :
               IsPrefix(FlattenSeq(SubSeq(Messages, 1, k - 1)), FlattenSeq(Messages))
<1>1. /\ Len(frames) \in Nat /\ DOMAIN frames = 1 .. Len(frames)
      /\ \A k \in DOMAIN frames : frames[k] \in Kinds
  OBVIOUS
<1>2. PICK s : s = Messages
  OBVIOUS
<1>3. ASSUME NEW k \in DOMAIN frames
      PROVE  /\ Payload(k) \in Seq(Bytes) /\ DOMAIN Payload(k) = 1 .. PayloadLen(frames[k])
  <2>1. PICK n \in Nat : n = PayloadLen(frames[k])
    BY <1>1, KindLens
  <2>2. PICK e \in Nat : e = ExtLen(frames[k])
    BY <1>1, KindLens
  <2>3. PICK t : t = [i \in 1 .. n |-> <<k, 2 + e + 4 + i>>]
    OBVIOUS
  <2>4. \A i \in 1 .. n : <<k, 2 + e + 4 + i>> \in Bytes
    BY <1>1 DEF Bytes
  <2>5. t \in Seq(Bytes) /\ DOMAIN t = 1 .. n
    <3>1. t \in [1 .. n -> Bytes]
      BY <2>3, <2>4
    <3> QED
      BY <3>1
  <2>6. Payload(k) = t
    BY <2>1, <2>2, <2>3 DEF Payload
  <2> QED
    BY <2>1, <2>5, <2>6
<1>4. PICK U : U = Seq(Bytes)
  OBVIOUS
<1>5. PICK V : V = Seq(U)
  OBVIOUS
<1>6. /\ s \in [1 .. Len(frames) -> V]
      /\ \A k \in DOMAIN frames : s[k] = IF IsMessage(k) THEN <<Payload(k)>> ELSE <<>>
  <2>1. s = [i \in 1 .. Len(frames) |-> IF IsMessage(i) THEN <<Payload(i)>> ELSE <<>>]
    BY <1>2 DEF Messages
  <2>2. ASSUME NEW k \in 1 .. Len(frames)
        PROVE  (IF IsMessage(k) THEN <<Payload(k)>> ELSE <<>>) \in V
    <3>1. PICK x \in U : x = Payload(k)
      BY <1>1, <1>3, <1>4
    <3>2. <<x>> \in V /\ <<>> \in V
      BY <1>5
    <3> QED
      BY <3>1, <3>2
  <2> QED
    BY <1>1, <2>1, <2>2
<1>7. s \in Seq(V) /\ Len(s) = Len(frames)
  BY <1>1, <1>6
<1>8. s \in Seq(Seq(U))
  BY <1>5, <1>7
<1>9. /\ FlattenSeq(s) \in Seq(U)
      /\ FlattenSeq(SubSeq(s, 1, 0)) = <<>>
      /\ \A k \in 1 .. Len(s) :
            /\ FlattenSeq(SubSeq(s, 1, k - 1)) \in Seq(U)
            /\ FlattenSeq(SubSeq(s, 1, k)) = FlattenSeq(SubSeq(s, 1, k - 1)) \o s[k]
  BY <1>8, FlattenPrefixes
<1>10. ASSUME NEW k \in DOMAIN frames
       PROVE  /\ FlattenSeq(SubSeq(s, 1, k - 1)) \in Seq(U)
              /\ ~IsMessage(k) => FlattenSeq(SubSeq(s, 1, k)) = FlattenSeq(SubSeq(s, 1, k - 1))
              /\ IsMessage(k) =>
                    FlattenSeq(SubSeq(s, 1, k)) = Append(FlattenSeq(SubSeq(s, 1, k - 1)), Payload(k))
  <2>1. PICK a \in Seq(U) : a = FlattenSeq(SubSeq(s, 1, k - 1))
    BY <1>1, <1>7, <1>9
  <2>2. FlattenSeq(SubSeq(s, 1, k)) = a \o s[k]
    BY <1>1, <1>7, <1>9, <2>1
  <2>3. CASE IsMessage(k)
    <3>1. PICK x \in U : x = Payload(k)
      BY <1>3, <1>4
    <3>2. s[k] = <<x>>
      BY <1>6, <2>3, <3>1
    <3>3. a \o <<x>> = Append(a, x)
      OBVIOUS
    <3> QED
      BY <2>1, <2>2, <2>3, <3>1, <3>2, <3>3
  <2>4. CASE ~IsMessage(k)
    <3>1. s[k] = <<>>
      BY <1>6, <2>4
    <3>2. a \o <<>> = a
      BY ConcatEmptySeq
    <3> QED
      BY <2>1, <2>2, <2>4, <3>1, <3>2
  <2> QED
    BY <2>3, <2>4
<1>11. ASSUME NEW k \in 1 .. Len(frames) + 1
       PROVE  IsPrefix(FlattenSeq(SubSeq(s, 1, k - 1)), FlattenSeq(s))
  <2>1. PICK fl \in [0 .. Len(s) -> Seq(U)] : LaidOut(s, fl)
    BY <1>8, FlattenPlaces
  <2>2. k - 1 \in 0 .. Len(s)
    BY <1>1, <1>7
  <2>3. PICK a \in Seq(U) : a = fl[k - 1]
    BY <2>2
  <2>4. PICK b \in Seq(U) : b = FlattenSeq(s)
    BY <1>9
  <2>5. a = FlattenSeq(SubSeq(s, 1, k - 1)) /\ Len(a) <= Len(b) /\ \A j \in 1 .. Len(a) : b[j] = a[j]
    BY <2>1, <2>2, <2>3, <2>4, Zenon DEF LaidOut
  <2>6. IsPrefix(a, b)
    <3>1. SubSeq(a, 1, Len(a)) = a
      BY SubSeqFull
    <3>2. Len(a) \in 0 .. Len(b)
      BY <2>5
    <3>3. SubSeq(b, 1, Len(a)) \in Seq(U) /\ Len(SubSeq(b, 1, Len(a))) = Len(a)
      BY <3>2, CutInTwo
    <3>4. \A i \in 1 .. Len(a) : SubSeq(b, 1, Len(a))[i] = a[i]
      BY <2>5, <3>2
    <3>5. SubSeq(b, 1, Len(a)) = a
      BY <3>3, <3>4, SeqEqual
    <3> QED
      BY <2>5, <3>1, <3>5 DEF IsPrefix
  <2> QED
    BY <2>4, <2>5, <2>6
<1> QED
  BY <1>2, <1>3, <1>4, <1>9, <1>10, <1>11

----------------------------------------------------------------------------
(* The steps *)

\* What depends on the frames alone.
LEMMA SameFrames ==
  ASSUME UNCHANGED frames
  PROVE  /\ BytesOf(frames)' = BytesOf(frames) /\ Messages' = Messages
         /\ \A k : /\ Before(k)' = Before(k) /\ Payload(k)' = Payload(k)
                   /\ IsMessage(k)' <=> IsMessage(k)
BY DEF BytesOf, Messages, Before, FrameBytes, Payload, IsMessage

\* Wherever ws_read is in a frame, it is still there if nothing was read.
LEMMA StreamUnread ==
  ASSUME UNCHANGED <<frames, step, header, dest, handled>>, Stream' = Stream,
         NEW k, At(k)
  PROVE  At(k)'
<1>1. /\ BytesOf(frames)' = BytesOf(frames) /\ Messages' = Messages
      /\ Before(k)' = Before(k) /\ Payload(k)' = Payload(k) /\ (IsMessage(k)' <=> IsMessage(k))
  BY SameFrames
<1>2. \A n : GoesOn(k, n)' <=> GoesOn(k, n)
  BY <1>1 DEF GoesOn
<1>3. (handled = FlattenSeq(SubSeq(Messages, 1, k - 1)))'
  BY <1>1 DEF At
<1>4. /\ (step = "select" => GoesOn(k, 0))'
      /\ (step = "header" =>
             /\ GoesOn(k, Len(header))
             /\ Len(header) < 2
             /\ header # <<>> => k \in DOMAIN frames /\ header[1] = <<k, 1>>)'
  <2>1. GoesOn(k, Len(header))' <=> GoesOn(k, Len(header))
    BY <1>1 DEF GoesOn
  <2> QED
    BY <1>2, <2>1 DEF At
<1>5. (step \in {"length", "mask", "payload", "ping"} => k \in DOMAIN frames /\ header = HeaderOf(k))'
  BY DEF At, HeaderOf
<1>6. /\ (step = "length" => GoesOn(k, 2) /\ frames[k] \in {"long", "huge"})'
      /\ (step = "ping" => GoesOn(k, 2) /\ frames[k] = "ping")'
  BY <1>2 DEF At
<1>7. (step = "mask" => GoesOn(k, 2 + ExtLen(frames[k])) /\ frames[k] \in {"text", "empty", "long"})'
  <2>1. GoesOn(k, 2 + ExtLen(frames[k]))' <=> GoesOn(k, 2 + ExtLen(frames[k]))
    BY <1>1 DEF GoesOn, ExtLen
  <2> QED
    BY <2>1 DEF At
<1>8. (step = "payload" =>
          /\ IsMessage(k)
          /\ GoesOn(k, 2 + ExtLen(frames[k]) + 4 + Len(dest))
          /\ Len(dest) < PayloadLen(frames[k])
          /\ \A i \in 1 .. Len(dest) : dest[i] = Payload(k)[i])'
  <2>1. /\ GoesOn(k, 2 + ExtLen(frames[k]) + 4 + Len(dest))'
             <=> GoesOn(k, 2 + ExtLen(frames[k]) + 4 + Len(dest))
        /\ PayloadLen(frames[k])' = PayloadLen(frames[k])
    BY <1>1 DEF GoesOn, ExtLen, PayloadLen
  <2> QED
    BY <1>1, <2>1 DEF At
<1> QED
  BY <1>3, <1>4, <1>5, <1>6, <1>7, <1>8 DEF At

LEMMA InitIndInv == Init => IndInv
<1> SUFFICES ASSUME Init PROVE IndInv
  OBVIOUS
<1>1. frames \in Seq(Kinds) /\ BytesOf(frames) \in Seq(Bytes)
  BY WebSocketAssumption, FramesAreLaidOut DEF Init
<1>2. \A S : <<>> \in Seq(S)
  OBVIOUS
<1>3. TypeOK
  BY <1>1, <1>2 DEF Init, TypeOK
<1>4. HeaderIsOne
  BY DEF Init, HeaderIsOne
<1>5. GoesOn(1, 0)
  <2>1. PICK B \in Seq(Bytes) : B = BytesOf(frames) /\ Before(1) = 0
    BY <1>1, FramesAreLaidOut
  <2>2. FlattenSeq(socket) = <<>>
    BY FlattenPrefixes DEF Init, FlattenSeq
  <2>3. Stream = B
    <3>1. <<>> \o <<>> = <<>> /\ <<>> \o B = B
      BY <1>2, ConcatEmptySeq
    <3> QED
      BY <2>1, <2>2, <3>1 DEF Init, Stream
  <2>4. SubSeq(B, 0 + 0 + 1, Len(B)) = B
    BY SubSeqFull
  <2> QED
    BY <2>1, <2>3, <2>4 DEF GoesOn, After
<1>6. At(1)
  <2>1. FlattenSeq(SubSeq(Messages, 1, 1 - 1)) = <<>>
    BY <1>1, MessagesOf
  <2> QED
    BY <1>5, <2>1 DEF Init, At
<1>7. 1 \in 1 .. Len(frames) + 1
  BY <1>1
<1> QED
  BY <1>3, <1>4, <1>6, <1>7 DEF Init, IndInv

\* The client's bytes only move.
LEMMA SendsRecordInd ==
  ASSUME IndInv, NEW n \in 1 .. Len(unsent), SendsRecord(n)
  PROVE  IndInv'
<1>1. TypeOK /\ HeaderIsOne
  BY DEF IndInv
<1>2. UNCHANGED <<frames, buffer, step, header, dest, handled>>
  BY DEF SendsRecord, server
<1>3. PICK a : a = SubSeq(unsent, 1, n)
  OBVIOUS
<1>4. PICK b : b = SubSeq(unsent, n + 1, Len(unsent))
  OBVIOUS
<1>5. socket' = Append(socket, a) /\ unsent' = b
  BY <1>3, <1>4 DEF SendsRecord
<1>6. a \in Seq(Bytes) /\ b \in Seq(Bytes) /\ unsent = a \o b
  <2>1. unsent \in Seq(Bytes) /\ n \in 0 .. Len(unsent)
    BY <1>1 DEF TypeOK
  <2>2. /\ SubSeq(unsent, 1, n) \in Seq(Bytes)
        /\ SubSeq(unsent, n + 1, Len(unsent)) \in Seq(Bytes)
        /\ unsent = SubSeq(unsent, 1, n) \o SubSeq(unsent, n + 1, Len(unsent))
    BY <2>1, CutInTwo
  <2> QED
    BY <1>3, <1>4, <2>2
<1>7. TypeOK'
  <2>1. PICK U : U = Seq(Bytes)
    OBVIOUS
  <2>2. socket' \in Seq(U)
    BY <1>1, <1>5, <1>6, <2>1 DEF TypeOK
  <2> QED
    BY <1>1, <1>2, <1>5, <1>6, <2>1, <2>2 DEF TypeOK
<1>8. Stream' = Stream
  <2>1. FlattenSeq(socket') = FlattenSeq(socket) \o a
    BY <1>1, <1>5, <1>6, FlattenAppend DEF TypeOK
  <2>2. PICK X : X = Seq(Bytes) /\ \A x, y, z \in X : (x \o y) \o z = x \o (y \o z)
    <3>1. PICK X : X = Seq(Bytes)
      OBVIOUS
    <3> QED
      BY ONLY <3>1, ConcatIsAssociative, SMTT(60)
  <2>3. PICK s : s = FlattenSeq(socket)
    OBVIOUS
  <2>4. buffer \in X /\ s \in X /\ a \in X /\ b \in X
    BY <1>1, <1>6, <2>2, <2>3, StreamIsBytes DEF TypeOK
  <2>5. \A x, y \in X : x \o y \in X
    BY <2>2, ConcatProperties
  <2> DEFINE Cat(x, y) == x \o y
  <2>6. /\ \A x, y, z \in X : Cat(Cat(x, y), z) = Cat(x, Cat(y, z))
        /\ \A x, y \in X : Cat(x, y) \in X
    BY <2>2, <2>5, Zenon
  <2>7. Stream' = Cat(Cat(buffer, Cat(s, a)), b)
    BY <1>2, <1>5, <2>1, <2>3 DEF Stream
  <2>8. Stream = Cat(Cat(buffer, s), Cat(a, b))
    BY <1>6, <2>3 DEF Stream
  <2> HIDE DEF Cat
  <2>9. PICK c \in X : c = Cat(buffer, s)
    BY <2>4, <2>6
  <2>10. Cat(buffer, Cat(s, a)) = Cat(c, a)
    BY <2>4, <2>6, <2>9
  <2>11. Cat(Cat(c, a), b) = Cat(c, Cat(a, b))
    BY <2>4, <2>6
  <2> QED
    BY <2>7, <2>8, <2>9, <2>10, <2>11, Zenon
<1>9. \E k \in 1 .. Len(frames) + 1 : At(k)'
  BY <1>2, <1>8, StreamUnread DEF IndInv
<1> QED
  BY <1>1, <1>2, <1>7, <1>9 DEF IndInv, HeaderIsOne, HeaderOf

\* Steps that read nothing.
LEMMA NothingReadInd ==
  ASSUME IndInv, Closes \/ server_select \/ ReadFails \/ UNCHANGED vars
  PROVE  IndInv'
<1>1. TypeOK /\ HeaderIsOne
  BY DEF IndInv
<1>2. UNCHANGED <<frames, unsent, socket, buffer, handled>>
  BY DEF Closes, server_select, ReadFails, vars, client, server, Goto
<1>3. Stream' = Stream
  BY <1>2 DEF Stream
<1>4. PICK k \in 1 .. Len(frames) + 1 : At(k)
  BY DEF IndInv
<1>5. \A S : <<>> \in Seq(S)
  OBVIOUS
<1>6. BytesOf(frames)' = BytesOf(frames) /\ Messages' = Messages /\ Before(k)' = Before(k)
  BY <1>2, SameFrames
<1>7. CASE UNCHANGED <<step, header, dest>>
  <2>1. At(k)'
    BY <1>2, <1>3, <1>4, <1>7, StreamUnread
  <2> QED
    BY <1>1, <1>2, <1>4, <1>7, <2>1 DEF IndInv, TypeOK, HeaderIsOne, HeaderOf
<1>8. CASE server_select
  <2>1. step = "select" /\ step' = "header" /\ header' = <<>> /\ dest' = <<>>
    BY <1>8 DEF server_select
  <2>2. GoesOn(k, Len(header))'
    <3>1. Len(<<>>) = 0
      OBVIOUS
    <3> QED
      BY <1>3, <1>4, <1>6, <2>1, <3>1 DEF At, GoesOn
  <2>3. At(k)'
    BY <1>2, <1>4, <1>6, <2>1, <2>2 DEF At
  <2>4. TypeOK'
    BY <1>1, <1>2, <1>5, <2>1 DEF TypeOK
  <2> QED
    BY <1>2, <1>4, <2>1, <2>3, <2>4 DEF IndInv, HeaderIsOne
<1>9. CASE ReadFails
  <2>1. step' = "removed" /\ UNCHANGED <<header, dest>>
    BY <1>9 DEF ReadFails, Goto
  <2>2. At(k)'
    BY <1>2, <1>4, <1>6, <2>1 DEF At
  <2> QED
    BY <1>1, <1>2, <1>4, <2>1, <2>2 DEF IndInv, TypeOK, HeaderIsOne, HeaderOf
<1> QED
  BY <1>7, <1>8, <1>9 DEF Closes, vars, client, server

\* ws_read reads a header that the client wrote as one.
LEMMA ReadsHeaderInd ==
  ASSUME IndInv, ReadsHeader
  PROVE  IndInv'
<1>1. TypeOK /\ dest = <<>> /\ step = "header"
  BY DEF IndInv, ReadsHeader
<1>2. PICK k \in 1 .. Len(frames) + 1 : At(k)
  BY DEF IndInv
<1>3. PICK m \in Nat : m = Len(header)
  BY <1>1 DEF TypeOK
<1>4. PICK n \in Nat \ {0} : n = 2 - m
  BY <1>1, <1>2, <1>3, SMTT(60) DEF At
<1>5. GoesOn(k, m) /\ (m # 0 => k \in DOMAIN frames /\ header[1] = <<k, 1>>) /\ m \in {0, 1} /\ m + n = 2
  <2>1. /\ GoesOn(k, Len(header)) /\ Len(header) < 2
        /\ header # <<>> => k \in DOMAIN frames /\ header[1] = <<k, 1>>
    BY <1>1, <1>2 DEF At
  <2>2. m # 0 => header # <<>>
    BY <1>3
  <2> QED
    BY <1>3, <1>4, <2>1, <2>2
<1>6. PICK c : c = Chunk(n)
  OBVIOUS
<1>7. SSL_read(n) /\ header' = header \o c /\ dest' = <<>> /\ handled' = handled
  BY <1>1, <1>3, <1>4, <1>6 DEF ReadsHeader
<1>8. k \in DOMAIN frames
  <2>1. DOMAIN frames = 1 .. Len(frames) /\ Len(frames) \in Nat
    BY <1>1 DEF TypeOK
  <2>2. k # Len(frames) + 1
    <3> SUFFICES ASSUME k = Len(frames) + 1 PROVE FALSE
      OBVIOUS
    <3>1. GoesOn(Len(frames) + 1, 0)
      BY <1>5, <2>1
    <3> QED
      BY <1>1, <1>7, <3>1, NothingAfterLast
  <2> QED
    BY <2>1, <2>2
<1>9. PICK kind \in Kinds : kind = frames[k]
  BY <1>1, <1>8 DEF TypeOK
<1>10. m + n <= FrameLen(frames[k])
  BY <1>5, <1>9, KindLens
<1>11. /\ c \in Seq(Bytes) /\ Len(c) \in 1 .. n
       /\ UNCHANGED <<frames, unsent>>
       /\ buffer' \in Seq(Bytes) /\ socket' \in Seq(Seq(Bytes))
       /\ \A i \in 1 .. Len(c) : c[i] = <<k, m + i>>
       /\ GoesOn(k, m + Len(c))'
       /\ Messages' = Messages /\ handled = FlattenSeq(SubSeq(Messages, 1, k - 1))
  <2>1. ReadsNext(k, m, n, c)
    BY <1>1, <1>5, <1>6, <1>7, <1>8, <1>10, ReadsInFrame
  <2>2. Messages' = Messages /\ handled = FlattenSeq(SubSeq(Messages, 1, k - 1))
    BY <1>2, <2>1, SameFrames DEF At, ReadsNext
  <2> QED
    BY <2>1, <2>2 DEF ReadsNext
<1>12. PICK h \in Seq(Bytes) : h = header'
  <2>1. header \in Seq(Bytes)
    BY <1>1 DEF TypeOK
  <2> QED
    BY <1>7, <1>11, <2>1, ConcatProperties
<1>13. Len(h) = m + Len(c) /\ Len(h) \in {1, 2} /\ \A i \in 1 .. Len(h) : h[i] = <<k, i>>
  <2>1. header \in Seq(Bytes)
    BY <1>1 DEF TypeOK
  <2>2. /\ Len(h) = m + Len(c)
        /\ \A i \in 1 .. m + Len(c) : h[i] = IF i <= m THEN header[i] ELSE c[i - m]
    BY <1>3, <1>7, <1>11, <1>12, <2>1, ConcatProperties
  <2>3. Len(c) \in 1 .. n
    BY <1>11
  <2>4. Len(h) \in {1, 2}
    BY <1>5, <2>2, <2>3
  <2>5. \A i \in 1 .. Len(h) : h[i] = <<k, i>>
    <3> TAKE i \in 1 .. Len(h)
    <3>1. CASE i <= m
      <4>1. i = 1 /\ m # 0
        BY <1>5, <2>2, <2>3, <3>1
      <4>2. h[i] = header[i]
        BY <2>2, <3>1
      <4> QED
        BY <1>5, <4>1, <4>2
    <3>2. CASE ~(i <= m)
      <4>1. i - m \in 1 .. Len(c) /\ m + (i - m) = i
        BY <2>2, <2>3, <3>2
      <4>2. h[i] = c[i - m]
        BY <2>2, <3>2
      <4>3. c[i - m] = <<k, m + (i - m)>>
        BY <1>11, <4>1
      <4> QED
        BY <4>1, <4>2, <4>3
    <3> QED
      BY <3>1, <3>2
  <2> QED
    BY <2>2, <2>4, <2>5
<1>14. GoesOn(k, Len(h))'
  BY <1>11, <1>13
<1>15. h[1] = <<k, 1>> /\ header'[1][1] = k /\ frames[header'[1][1]] = kind
  BY <1>9, <1>12, <1>13
<1>16. step' = IF Len(h) < 2 THEN "header" ELSE AfterHeader(kind)
  BY <1>12, <1>15 DEF ReadsHeader
<1>17. PICK st : st = step'
  OBVIOUS
<1>18. CASE Len(h) < 2
  <2>1. st = "header"
    BY <1>16, <1>17, <1>18
  <2>2. TypeOK'
    BY <1>1, <1>7, <1>11, <1>12, <1>17, <2>1 DEF TypeOK
  <2>3. HeaderIsOne'
    BY <1>12, <1>18 DEF HeaderIsOne
  <2>4. GoesOn(k, Len(header))'
    BY <1>12, <1>14
  <2>5. At(k)'
    BY <1>7, <1>8, <1>11, <1>12, <1>15, <1>17, <1>18, <2>1, <2>4 DEF At
  <2> QED
    BY <1>2, <1>7, <1>11, <2>2, <2>3, <2>5 DEF IndInv
<1>19. CASE ~(Len(h) < 2)
  <2>1. Len(h) = 2 /\ h = HeaderOf(k) /\ st = AfterHeader(kind)
    <3>1. Len(h) = 2 /\ h[1] = <<k, 1>> /\ h[2] = <<k, 2>>
      BY <1>13, <1>19
    <3>2. h = <<h[1], h[2]>>
      BY <3>1
    <3> QED
      BY <1>16, <1>17, <1>19, <3>1, <3>2 DEF HeaderOf
  <2>2. /\ st \in {"length", "mask", "ping", "removed"}
        /\ st = "length" => kind \in {"long", "huge"}
        /\ st = "ping" => kind = "ping"
        /\ st = "mask" => ExtLen(kind) = 0 /\ kind \in {"text", "empty", "long"}
    BY <2>1 DEF AfterHeader, ChecksLength, ExtLen, Kinds
  <2>3. TypeOK'
    BY <1>1, <1>7, <1>11, <1>12, <1>17, <2>2 DEF TypeOK
  <2>4. HeaderIsOne'
    BY <1>12, <1>15, <2>1 DEF HeaderIsOne, HeaderOf
  <2>5. GoesOn(k, 2)'
    BY <1>14, <2>1
  <2>6. st = "mask" => GoesOn(k, 2 + ExtLen(frames[k]))'
    <3>1. st = "mask" => 2 + ExtLen(frames[k])' = 2
      BY <1>9, <1>11, <2>2 DEF ExtLen
    <3> QED
      BY <2>5, <3>1 DEF GoesOn
  <2>7. At(k)'
    BY <1>7, <1>8, <1>9, <1>11, <1>12, <1>17, <2>1, <2>2, <2>5, <2>6 DEF At, HeaderOf
  <2> QED
    BY <1>2, <1>7, <1>11, <2>3, <2>4, <2>7 DEF IndInv
<1> QED
  BY <1>18, <1>19

\* After the header, in a frame: where ws_read is, and what SSL_read gives it.
LEMMA InsideFrame ==
  ASSUME IndInv, step \in {"length", "mask", "payload", "ping"}
  PROVE  \E k \in DOMAIN frames : /\ At(k) /\ k \in 1 .. Len(frames) + 1
                                  /\ header = HeaderOf(k) /\ header[1][1] = k
                                  /\ frames[k] \in Kinds /\ Kind = frames[k]
<1>1. PICK k \in 1 .. Len(frames) + 1 : At(k)
  BY DEF IndInv
<1>2. k \in DOMAIN frames /\ header = HeaderOf(k)
  BY <1>1 DEF At
<1>3. header[1][1] = k
  BY <1>2 DEF HeaderOf
<1>4. frames[k] \in Kinds
  BY <1>2 DEF IndInv, TypeOK
<1> QED
  BY <1>1, <1>2, <1>3, <1>4 DEF Kind

\* A step inside of a frame that changes nothing but the bytes and where ws_read is.
LEMMA GotoInd ==
  ASSUME IndInv, NEW k \in DOMAIN frames, At(k), k \in 1 .. Len(frames) + 1, header = HeaderOf(k),
         UNCHANGED <<frames, unsent>>, buffer' \in Seq(Bytes), socket' \in Seq(Seq(Bytes)),
         NEW st, Goto(st),
         \/ st = "removed"
         \/ /\ st = "mask" /\ dest = <<>>
            /\ frames[k] \in {"text", "empty", "long"} /\ GoesOn(k, 2 + ExtLen(frames[k]))'
         \/ /\ st = "payload" /\ dest = <<>>
            /\ frames[k] \in {"text", "long"} /\ GoesOn(k, 2 + ExtLen(frames[k]) + 4)'
  PROVE  IndInv'
<1>1. step' = st /\ UNCHANGED <<header, dest, handled>>
  BY DEF Goto
<1>2. TypeOK /\ HeaderIsOne
  BY DEF IndInv
<1>3. st \in {"removed", "mask", "payload"}
  OBVIOUS
<1>4. TypeOK'
  BY <1>1, <1>2, <1>3 DEF TypeOK
<1>5. HeaderIsOne'
  BY <1>1, <1>2 DEF HeaderIsOne, HeaderOf
<1>6. Messages' = Messages /\ handled = FlattenSeq(SubSeq(Messages, 1, k - 1))
  BY SameFrames DEF At
<1>7. CASE st = "removed"
  <2>1. At(k)'
    BY <1>1, <1>6, <1>7 DEF At
  <2> QED
    BY <1>1, <1>4, <1>5, <1>7, <2>1 DEF IndInv
<1>8. CASE st = "mask"
  <2>1. frames[k] \in {"text", "empty", "long"} /\ dest = <<>>
    BY <1>8
  <2>2. GoesOn(k, 2 + ExtLen(frames[k]))'
    BY <1>8
  <2>3. At(k)'
    BY <1>1, <1>6, <1>8, <2>1, <2>2 DEF At, HeaderOf
  <2> QED
    BY <1>1, <1>4, <1>5, <1>8, <2>1, <2>3 DEF IndInv
<1>9. CASE st = "payload"
  <2>1. frames[k] \in {"text", "long"} /\ dest = <<>>
    BY <1>9
  <2>2. GoesOn(k, 2 + ExtLen(frames[k]) + 4)'
    BY <1>9
  <2>3. /\ Len(dest') = 0 /\ PayloadLen(frames[k]) > 0 /\ IsMessage(k)'
        /\ PayloadLen(frames[k])' = PayloadLen(frames[k]) /\ ExtLen(frames[k])' = ExtLen(frames[k])
        /\ ExtLen(frames[k]) \in Nat
    BY <1>1, <2>1, KindLens DEF IsMessage, Kinds, PayloadLen, ExtLen
  <2>4. GoesOn(k, 2 + ExtLen(frames[k]) + 4 + Len(dest))'
    <3>1. (2 + ExtLen(frames[k]) + 4 + Len(dest))' = (2 + ExtLen(frames[k]) + 4)'
      BY <2>3
    <3> QED
      BY <2>2, <3>1 DEF GoesOn
  <2>5. \A i \in 1 .. Len(dest') : dest'[i] = Payload(k)'[i]
    BY <2>3
  <2>6. At(k)'
    BY <1>1, <1>6, <1>9, <2>3, <2>4, <2>5 DEF At, HeaderOf
  <2> QED
    BY <1>1, <1>4, <1>5, <1>9, <2>6 DEF IndInv
<1> QED
  BY <1>3, <1>7, <1>8, <1>9

LEMMA ReadsLengthInd ==
  ASSUME IndInv, ReadsLength
  PROVE  IndInv'
<1>1. TypeOK /\ dest = <<>> /\ step = "length"
  BY DEF IndInv, ReadsLength
<1>2. PICK k \in DOMAIN frames : /\ At(k) /\ k \in 1 .. Len(frames) + 1
                                 /\ header = HeaderOf(k)
                                 /\ frames[k] \in Kinds /\ Kind = frames[k]
  BY <1>1, InsideFrame
<1>3. PICK kind \in Kinds : kind = frames[k]
  BY <1>2
<1>4. GoesOn(k, 2) /\ kind \in {"long", "huge"}
  BY <1>1, <1>2, <1>3 DEF At
<1>5. PICK n \in Nat \ {0} : n = ExtLen(kind)
  BY <1>4 DEF ExtLen
<1>6. 2 + n <= FrameLen(frames[k])
  BY <1>3, <1>5, KindLens
<1>7. PICK c : c = Chunk(n)
  OBVIOUS
<1>8. PICK st : st = IF Len(c) < n THEN "removed" ELSE ChecksLength(kind)
  OBVIOUS
<1>9. SSL_read(n) /\ Goto(st)
  BY <1>2, <1>3, <1>5, <1>7, <1>8 DEF ReadsLength
<1>10. ReadsNext(k, 2, n, c)
  BY <1>1, <1>4, <1>6, <1>7, <1>9, ReadsInFrame
<1>11. st \in {"removed", "mask"} /\ (st = "mask" => Len(c) = n /\ kind = "long")
  <2>1. Len(c) \in 1 .. n
    BY <1>10 DEF ReadsNext
  <2>2. kind = "huge" => ChecksLength(kind) = "removed"
    BY WebSocketAssumption DEF ChecksLength, PayloadLen
  <2> QED
    BY <1>4, <1>8, <2>1, <2>2 DEF ChecksLength
<1>12. UNCHANGED <<frames, unsent>> /\ buffer' \in Seq(Bytes) /\ socket' \in Seq(Seq(Bytes))
  BY <1>10 DEF ReadsNext
<1>13. st = "mask" => GoesOn(k, 2 + ExtLen(frames[k]))'
  <2>1. GoesOn(k, 2 + Len(c))' /\ ExtLen(frames[k])' = n
    BY <1>3, <1>5, <1>10, <1>12 DEF ReadsNext, ExtLen
  <2> QED
    BY <1>11, <2>1 DEF GoesOn
<1> QED
  BY <1>1, <1>2, <1>3, <1>9, <1>11, <1>12, <1>13, GotoInd

LEMMA ReadsMaskInd ==
  ASSUME IndInv, ReadsMask
  PROVE  IndInv'
<1>1. TypeOK /\ dest = <<>> /\ step = "mask"
  BY DEF IndInv, ReadsMask
<1>2. PICK k \in DOMAIN frames : /\ At(k) /\ k \in 1 .. Len(frames) + 1
                                 /\ header = HeaderOf(k)
                                 /\ frames[k] \in Kinds /\ Kind = frames[k]
  BY <1>1, InsideFrame
<1>3. PICK kind \in Kinds : kind = frames[k]
  BY <1>2
<1>4. PICK m \in Nat : m = 2 + ExtLen(kind)
  BY KindLens
<1>5. GoesOn(k, m) /\ kind \in {"text", "empty", "long"}
  BY <1>1, <1>2, <1>3, <1>4 DEF At
<1>6. m + 4 <= FrameLen(frames[k])
  BY <1>3, <1>4, KindLens
<1>7. PICK c : c = Chunk(4)
  OBVIOUS
<1>8. PICK st : st = IF Len(c) < 4 \/ PayloadLen(kind) = 0 THEN "removed" ELSE "payload"
  OBVIOUS
<1>9. SSL_read(4) /\ Goto(st)
  BY <1>2, <1>3, <1>7, <1>8 DEF ReadsMask
<1>10. ReadsNext(k, m, 4, c)
  BY <1>1, <1>5, <1>6, <1>7, <1>9, ReadsInFrame
<1>11. st \in {"removed", "payload"} /\ (st = "payload" => Len(c) = 4 /\ kind \in {"text", "long"})
  <2>1. Len(c) \in 1 .. 4
    BY <1>10 DEF ReadsNext
  <2>2. kind = "empty" => PayloadLen(kind) = 0
    BY DEF PayloadLen
  <2>3. CASE Len(c) < 4 \/ PayloadLen(kind) = 0
    BY <1>8, <2>3
  <2>4. CASE ~(Len(c) < 4 \/ PayloadLen(kind) = 0)
    <3>1. st = "payload" /\ ~(Len(c) < 4)
      BY <1>8, <2>4, Zenon
    <3>2. Len(c) = 4
      <4>1. \A l \in 1 .. 4 : ~(l < 4) => l = 4
        OBVIOUS
      <4> QED
        BY <2>1, <3>1, <4>1, Zenon
    <3> QED
      BY <1>5, <2>2, <2>4, <3>1, <3>2, Zenon
  <2> QED
    BY <2>3, <2>4
<1>12. UNCHANGED <<frames, unsent>> /\ buffer' \in Seq(Bytes) /\ socket' \in Seq(Seq(Bytes))
  BY <1>10 DEF ReadsNext
<1>13. st = "payload" => GoesOn(k, 2 + ExtLen(frames[k]) + 4)'
  <2>1. GoesOn(k, m + Len(c))' /\ (2 + ExtLen(frames[k]))' = m
    BY <1>3, <1>4, <1>10, <1>12 DEF ReadsNext, ExtLen
  <2> QED
    BY <1>11, <2>1 DEF GoesOn
<1> QED
  BY <1>1, <1>2, <1>3, <1>9, <1>11, <1>12, <1>13, GotoInd

LEMMA ReadsPingInd ==
  ASSUME IndInv, ReadsPing
  PROVE  IndInv'
<1>1. TypeOK /\ step = "ping"
  BY DEF IndInv, ReadsPing
<1>2. PICK k \in DOMAIN frames : /\ At(k) /\ k \in 1 .. Len(frames) + 1
                                 /\ header = HeaderOf(k)
                                 /\ frames[k] \in Kinds /\ Kind = frames[k]
  BY <1>1, InsideFrame
<1>3. SSL_read(PayloadLen(Kind)) /\ Goto("removed")
  BY DEF ReadsPing
<1>4. UNCHANGED <<frames, unsent>> /\ buffer' \in Seq(Bytes) /\ socket' \in Seq(Seq(Bytes))
  <2>1. frames[k] = "ping"
    BY <1>1, <1>2 DEF At
  <2>2. PICK n \in Nat \ {0} : n = PayloadLen(Kind)
    BY <1>2, <2>1, KindLens
  <2> QED
    BY <1>1, <1>3, <2>2, ReadGivesNext DEF SSL_read
<1> QED
  BY <1>2, <1>3, <1>4, GotoInd

\* The payload is the one that the client wrote, and is handled when it is complete.
LEMMA ReadsPayloadInd ==
  ASSUME IndInv, ReadsPayload
  PROVE  IndInv'
<1>1. TypeOK /\ HeaderIsOne /\ step = "payload"
  BY DEF IndInv, ReadsPayload
<1>2. PICK k \in DOMAIN frames : /\ At(k) /\ k \in 1 .. Len(frames) + 1
                                 /\ header = HeaderOf(k)
                                 /\ frames[k] \in Kinds /\ Kind = frames[k]
  BY <1>1, InsideFrame
<1>3. PICK kind \in Kinds : kind = frames[k]
  BY <1>2
<1>4. PICK before \in Nat : before = 2 + ExtLen(kind) + 4
  BY KindLens
<1>5. PICK len \in Nat : len = PayloadLen(kind)
  BY KindLens
<1>6. PICK p \in Seq(Bytes) : p = Payload(k) /\ DOMAIN p = 1 .. len /\ Len(p) = len
                              /\ \A i \in 1 .. len : p[i] = <<k, before + i>>
  <2>1. Payload(k) \in Seq(Bytes) /\ DOMAIN Payload(k) = 1 .. len
    BY <1>1, <1>3, <1>5, MessagesOf DEF TypeOK
  <2>2. \A i \in 1 .. len : Payload(k)[i] = <<k, before + i>>
    BY <1>3, <1>4, <1>5 DEF Payload
  <2>3. PICK q \in Seq(Bytes) : q = Payload(k)
    BY <2>1
  <2>4. Len(q) = len
    BY <2>1, <2>3
  <2> QED
    BY <2>1, <2>2, <2>3, <2>4
<1>7. PICK d \in Seq(Bytes) : d = dest
  BY <1>1 DEF TypeOK
<1>8. IsMessage(k) /\ GoesOn(k, before + Len(d)) /\ Len(d) < len /\ \A i \in 1 .. Len(d) : d[i] = p[i]
  BY <1>1, <1>2, <1>3, <1>4, <1>5, <1>6, <1>7 DEF At
<1>9. PICK m \in Nat : m = before + Len(d)
  BY <1>7
<1>10. PICK n \in Nat \ {0} : n = len - Len(d)
  BY <1>7, <1>8
<1>11. m + n <= FrameLen(frames[k])
  <2>1. FrameLen(frames[k]) = before + len
    BY <1>3, <1>4, <1>5, KindLens
  <2> QED
    BY <1>9, <1>10, <2>1
<1>12. PICK c : c = Chunk(n)
  OBVIOUS
<1>13. PICK e : e = d \o c
  OBVIOUS
<1>14. /\ SSL_read(n) /\ dest' = e /\ header' = header
       /\ Len(e) < len => UNCHANGED <<step, handled>>
       /\ ~(Len(e) < len) => step' = "select" /\ handled' = Append(handled, e)
  BY <1>2, <1>3, <1>5, <1>7, <1>10, <1>12, <1>13 DEF ReadsPayload
<1>15. ReadsNext(k, m, n, c)
  <2>1. GoesOn(k, m)
    BY <1>8, <1>9
  <2> QED
    BY <1>1, <1>11, <1>12, <1>14, <2>1, ReadsInFrame
<1>16. /\ c \in Seq(Bytes) /\ Len(c) \in 1 .. n /\ \A i \in 1 .. Len(c) : c[i] = <<k, m + i>>
       /\ UNCHANGED <<frames, unsent>> /\ buffer' \in Seq(Bytes) /\ socket' \in Seq(Seq(Bytes))
       /\ GoesOn(k, m + Len(c))'
  BY <1>15 DEF ReadsNext
<1>17. e \in Seq(Bytes) /\ Len(e) = Len(d) + Len(c) /\ Len(e) <= len /\ \A i \in 1 .. Len(e) : e[i] = p[i]
  <2>1. /\ e \in Seq(Bytes) /\ Len(e) = Len(d) + Len(c) /\ Len(d) \in Nat
        /\ \A i \in 1 .. Len(d) + Len(c) : e[i] = IF i <= Len(d) THEN d[i] ELSE c[i - Len(d)]
    BY <1>13, <1>16, ConcatProperties
  <2>2. Len(e) <= len
    BY <1>10, <1>16, <2>1
  <2>3. \A i \in 1 .. Len(e) : e[i] = p[i]
    <3> TAKE i \in 1 .. Len(e)
    <3>1. i \in 1 .. len /\ e[i] = IF i <= Len(d) THEN d[i] ELSE c[i - Len(d)]
      BY <2>1, <2>2
    <3>2. CASE i <= Len(d)
      BY <1>8, <2>1, <3>1, <3>2
    <3>3. CASE ~(i <= Len(d))
      <4>1. i - Len(d) \in 1 .. Len(c) /\ m + (i - Len(d)) = before + i
        BY <1>9, <1>16, <2>1, <3>3
      <4>2. c[i - Len(d)] = <<k, before + i>>
        BY <1>16, <4>1
      <4> QED
        BY <1>6, <3>1, <3>3, <4>2
    <3> QED
      BY <3>2, <3>3
  <2> QED
    BY <2>1, <2>2, <2>3
<1>18. PICK g \in Nat : g = before + Len(e) /\ g = m + Len(c)
  BY <1>9, <1>16, <1>17
<1>19. GoesOn(k, g)'
  BY <1>16, <1>18
<1>20. HeaderIsOne'
  BY <1>1, <1>14 DEF HeaderIsOne, HeaderOf
<1>21. /\ Messages' = Messages /\ Payload(k)' = p /\ (IsMessage(k))'
       /\ handled = FlattenSeq(SubSeq(Messages, 1, k - 1))
  BY <1>2, <1>6, <1>8, <1>16, SameFrames DEF At
<1>22. CASE Len(e) < len
  <2>1. step' = "payload" /\ handled' = handled
    BY <1>1, <1>14, <1>22
  <2>2. TypeOK'
    BY <1>1, <1>14, <1>16, <1>17, <2>1 DEF TypeOK
  <2>3. GoesOn(k, 2 + ExtLen(frames[k]) + 4 + Len(dest))'
    <3>1. (2 + ExtLen(frames[k]) + 4 + Len(dest))' = g
      BY <1>3, <1>4, <1>14, <1>16, <1>18 DEF ExtLen
    <3> QED
      BY <1>19, <3>1 DEF GoesOn
  <2>4. PayloadLen(frames[k])' = len
    BY <1>3, <1>5, <1>16 DEF PayloadLen
  <2>5. At(k)'
    BY <1>2, <1>14, <1>16, <1>17, <1>21, <1>22, <2>1, <2>3, <2>4 DEF At, HeaderOf
  <2> QED
    BY <1>2, <1>16, <1>20, <2>1, <2>2, <2>5 DEF IndInv
<1>23. CASE ~(Len(e) < len)
  <2>1. step' = "select" /\ handled' = Append(handled, e) /\ Len(e) = len
    <3>1. Len(e) = len
      BY <1>17, <1>23, SMTT(60)
    <3> QED
      BY <1>14, <1>23, <3>1, Zenon
  <2>2. e = p
    <3>1. Len(e) = Len(p) /\ \A i \in 1 .. Len(e) : e[i] = p[i]
      BY <1>6, <1>17, <2>1
    <3> QED
      BY <1>17, <3>1, SeqEqual
  <2>3. TypeOK'
    <3>1. PICK U : U = Seq(Bytes)
      OBVIOUS
    <3>2. handled \in Seq(U) /\ e \in U
      BY <1>1, <1>17, <3>1 DEF TypeOK
    <3>3. handled' \in Seq(U)
      BY <2>1, <3>2
    <3> QED
      BY <1>1, <1>14, <1>16, <1>17, <2>1, <3>1, <3>3 DEF TypeOK
  <2>4. k \in Nat /\ k + 1 \in 1 .. Len(frames) + 1 /\ k + 1 - 1 = k
    BY <1>1 DEF TypeOK
  <2>5. handled' = FlattenSeq(SubSeq(Messages, 1, k))
    <3>1. FlattenSeq(SubSeq(Messages, 1, k)) = Append(FlattenSeq(SubSeq(Messages, 1, k - 1)), Payload(k))
      BY <1>1, <1>8, MessagesOf DEF TypeOK
    <3> QED
      BY <1>6, <1>21, <2>1, <2>2, <3>1
  <2>6. GoesOn(k + 1, 0)'
    <3>1. Before(k + 1) = Before(k) + FrameLen(frames[k]) /\ Before(k) \in Nat
      BY <1>1, FramesAreLaidOut DEF TypeOK
    <3>2. g = FrameLen(frames[k])
      BY <1>3, <1>4, <1>5, <1>18, <2>1, KindLens
    <3>3. Before(k + 1)' = Before(k + 1) /\ Before(k)' = Before(k)
      BY <1>16, SameFrames
    <3>4. Before(k + 1)' + 0 = Before(k)' + g
      BY <3>1, <3>2, <3>3
    <3> QED
      BY <1>19, <3>4 DEF GoesOn
  <2>7. At(k + 1)'
    BY <1>21, <2>1, <2>4, <2>5, <2>6, SMTT(60) DEF At
  <2> QED
    BY <1>16, <1>20, <2>1, <2>3, <2>4, <2>7 DEF IndInv
<1> QED
  BY <1>22, <1>23

LEMMA NextInd ==
  ASSUME IndInv, [Next]_vars
  PROVE  IndInv'
<1>1. ASSUME NEW n \in 1 .. Len(unsent), SendsRecord(n) PROVE IndInv'
  BY <1>1, SendsRecordInd
<1>2. CASE Closes \/ server_select \/ ReadFails \/ UNCHANGED vars
  BY <1>2, NothingReadInd
<1>3. CASE ReadsHeader
  BY <1>3, ReadsHeaderInd
<1>4. CASE ReadsLength
  BY <1>4, ReadsLengthInd
<1>5. CASE ReadsMask
  BY <1>5, ReadsMaskInd
<1>6. CASE ReadsPayload
  BY <1>6, ReadsPayloadInd
<1>7. CASE ReadsPing
  BY <1>7, ReadsPingInd
<1> QED
  BY <1>1, <1>2, <1>3, <1>4, <1>5, <1>6, <1>7 DEF Next, ServerStep

LEMMA IndInvInStep == IndInv => InStep
<1> SUFFICES ASSUME IndInv PROVE InStep
  OBVIOUS
<1>1. Len(header) = 2 => header = <<<<header[1][1], 1>>, <<header[1][1], 2>>>>
  BY DEF IndInv, HeaderIsOne, HeaderOf
<1>2. PICK k \in 1 .. Len(frames) + 1 : At(k)
  BY DEF IndInv
<1>3. handled = FlattenSeq(SubSeq(Messages, 1, k - 1))
  BY <1>2 DEF At
<1>4. IsPrefix(FlattenSeq(SubSeq(Messages, 1, k - 1)), FlattenSeq(Messages))
  BY MessagesOf DEF IndInv, TypeOK
<1> QED
  BY <1>1, <1>3, <1>4 DEF InStep

\* ws_read never gets out of step with the client: whatever the client writes, and however TLS
\* cuts it into records, a header that ws_read decodes is the header of one frame, and the messages
\* given to m_handle_client_message are the first of those that the client wrote, complete and in
\* their order.
THEOREM InStepCorrect == Spec => []InStep
<1>1. Init => IndInv
  BY InitIndInv
<1>2. IndInv /\ [Next]_vars => IndInv'
  BY NextInd
<1>3. IndInv => InStep
  BY IndInvInStep
<1> QED
  BY <1>1, <1>2, <1>3, PTL DEF Spec

=============================================================================
