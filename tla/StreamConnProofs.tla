-------------------------- MODULE StreamConnProofs --------------------------
(***************************************************************************)
(* Proofs about StreamConn, for all blocks, sizes of header and record and *)
(* numbers of writers: as long as no two of them write at once, the reader *)
(* returns the blocks that were written, whole and in order, and whatever  *)
(* record it finds it can open.                                            *)
(***************************************************************************)
EXTENDS StreamConn, SequenceTheorems, TLAPS

Size(b) == HeaderSize + b.length

Octets == [of : Blocks, at : Nat] \cup {Junk}

\* A place in the stream of the blocks written: the number of a block and how
\* many bytes of it come before.
Places == Nat \X Nat

\* The place after q bytes of the k-th of the blocks s: the last byte of a
\* block is followed by the first one of the next block.
Advance(s, k, q) == IF q = Size(s[k]) THEN <<k + 1, 0>> ELSE <<k, q>>

\* The bytes are those from place c on, and do not go beyond its block.
Fits(s, c, bytes) ==
    bytes # <<>> =>
        /\ c[1] \in 1 .. Len(s)
        /\ c[2] + Len(bytes) =< Size(s[c[1]])
        /\ \A i \in 1 .. Len(bytes) : bytes[i] = [of |-> s[c[1]], at |-> c[2] + i]

\* The place after the bytes.
Past(s, c, bytes) ==
    IF bytes = <<>> THEN c ELSE Advance(s, c[1], c[2] + Len(bytes))

Sizes == [size : Nat \cup {Junk}, nonce : Nat \cup {Unsealed}]
Payloads == [bytes : Seq(Octets), nonce : Nat \cup {Unsealed}]
Records == [size : Sizes, payload : Payloads]

Types ==
    /\ next \in [Writers -> Nat \ {0}]
    /\ at \in [Writers -> {"idle", "fill", "sealSize", "sealPayload", "emit"}]
    /\ src \in [Writers -> Seq(Octets)]
    /\ nr \in [Writers -> Nat]
    /\ nonce \in Nat
    /\ sizeBuf \in Sizes
    /\ payloadBuf \in Payloads
    /\ wire \in Seq(Records)
    /\ cut \in BOOLEAN
    /\ readNonce \in Nat
    /\ leftover \in Seq(Octets)
    /\ got \in Seq(Octets)
    /\ want \in Nat
    /\ reading \in {"header", "data", "failed"}
    /\ started \in Seq(Blocks)
    /\ received \in Seq(Seq(Octets))

\* One goroutine writes at a time.
Single == \A v, w \in Writers : at[v] # "idle" /\ at[w] # "idle" => v = w

\* What NewBlockFromReader has returned.
Returned ==
    /\ Len(received) =< Len(started)
    /\ \A i \in 1 .. Len(received) : received[i] = Pack(started[i])

\* What it asks for ends with a header or with a block.
Asking ==
    /\ Len(got) =< want
    /\ reading = "header" => want = HeaderSize
    /\ reading = "data" => got # <<>> /\ want = Size(started[Len(received) + 1])
    /\ reading = "failed" => cut

\* The records carry the nonces that the reader will use.
Sealed ==
    \A i \in 1 .. Len(wire) :
        /\ wire[i].size.size = Len(wire[i].payload.bytes)
        /\ wire[i].size.nonce = readNonce + 2 * (i - 1)
        /\ wire[i].payload.nonce = readNonce + 2 * (i - 1) + 1
        /\ wire[i].payload.bytes # <<>>

\* Where the block begins that is being read, and the next one to be written.
Front == <<Len(received) + 1, 0>>
Back == <<Len(started) + 1, 0>>

\* got, leftover and the records lie one behind the other, the i-th record
\* from the i-th of the places cur on.
Laid(cur) ==
    LET pastGot == Past(started, Front, got)
    IN  /\ cur \in Seq(Places) /\ Len(cur) = Len(wire) + 1
        /\ Fits(started, Front, got)
        /\ Fits(started, pastGot, leftover)
        /\ cur[1] = Past(started, pastGot, leftover)
        /\ \A i \in 1 .. Len(wire) :
             /\ Fits(started, cur[i], wire[i].payload.bytes)
             /\ cur[i + 1] = Past(started, cur[i], wire[i].payload.bytes)

\* What a goroutine inside ReadFrom makes a record of, and what then is left.
Making(w) == Take(payloadBuf.bytes, nr[w])
Rest(w, c) == Fits(started, c, src[w]) /\ Past(started, c, src[w]) = Back

\* The nonce of the next record.
Fresh == readNonce + 2 * Len(wire)

\* What the goroutines still have to send goes on at place c.
Writing(c) ==
    /\ (\A w \in Writers : at[w] = "idle") => c = Back /\ nonce = Fresh
    /\ \A w \in Writers :
         /\ at[w] = "fill" => Rest(w, c) /\ nonce = Fresh
         /\ at[w] \in {"sealSize", "sealPayload", "emit"} =>
              /\ nr[w] > 0 /\ nr[w] =< Len(payloadBuf.bytes) /\ sizeBuf.size = nr[w]
              /\ Fits(started, c, Making(w))
              /\ Rest(w, Past(started, c, Making(w)))
         /\ at[w] = "sealSize" =>
              nonce = Fresh /\ sizeBuf.nonce = Unsealed /\ payloadBuf.nonce = Unsealed
         /\ at[w] = "sealPayload" =>
              nonce = Fresh + 1 /\ sizeBuf.nonce = Fresh /\ payloadBuf.nonce = Unsealed
         /\ at[w] = "emit" =>
              /\ nonce = Fresh + 2 /\ sizeBuf.nonce = Fresh
              /\ payloadBuf.nonce = Fresh + 1 /\ Len(payloadBuf.bytes) = nr[w]

\* A cut connection carries no more than it did.
InFlight == \E cur : Laid(cur) /\ (~cut => Writing(cur[Len(wire) + 1]))

OneWriterInv == Types /\ Single /\ Returned /\ Asking /\ Sealed /\ InFlight

\* Once writes have overlapped there is nothing to say.
StreamInv == ~overlapped => OneWriterInv

-----------------------------------------------------------------------------
(* Bytes and places *)

LEMMA SizesPositive ==
    /\ HeaderSize \in Nat /\ HeaderSize > 0
    /\ payloadSizeMask \in Nat /\ payloadSizeMask > 0
    /\ Unsealed \notin Nat
<1>1. HeaderSize \in Nat \ {0} /\ payloadSizeMask \in Nat \ {0}
  BY SizesAssumption, Zenon
<1> QED  BY <1>1, SizesAssumption

LEMMA BlockSize ==
    ASSUME NEW b \in Blocks
    PROVE  b.length \in Nat /\ Size(b) \in Nat /\ Size(b) >= HeaderSize /\ Size(b) > 0
<1>1. PICK w \in Writers : \E n \in DOMAIN Lengths[w] : b = Block(w, n)
  BY DEF Blocks
<1>2. Lengths[w] \in Seq(Nat)
  BY SizesAssumption
<1>3. b.length \in Nat
  BY <1>1, <1>2 DEF Block
<1> QED  BY <1>3, SizesPositive DEF Size

LEMMA NextBlock ==
    ASSUME NEW w \in Writers, NEW n \in Nat \ {0}, n =< Len(Lengths[w])
    PROVE  Block(w, n) \in Blocks
<1>1. Lengths[w] \in Seq(Nat)
  BY SizesAssumption
<1>2. n \in DOMAIN Lengths[w]
  BY <1>1
<1> QED  BY <1>2 DEF Blocks

LEMMA PackBytes ==
    ASSUME NEW b \in Blocks
    PROVE  /\ Pack(b) \in Seq(Octets) /\ Len(Pack(b)) = Size(b) /\ Pack(b) # <<>>
           /\ \A i \in 1 .. Size(b) : Pack(b)[i] = [of |-> b, at |-> i]
<1>1. Size(b) \in Nat /\ Size(b) > 0
  BY BlockSize
<1>2. Pack(b) = [i \in 1 .. Size(b) |-> [of |-> b, at |-> i]]
  BY DEF Pack, Size
<1>3. \A i \in 1 .. Size(b) : [of |-> b, at |-> i] \in Octets
  BY <1>1 DEF Octets
<1>4. Pack(b) \in Seq(Octets) /\ Len(Pack(b)) = Size(b)
  BY <1>1, <1>2, <1>3
<1> QED  BY <1>1, <1>2, <1>4

LEMMA TakeBytes ==
    ASSUME NEW bytes \in Seq(Octets), NEW n \in Nat
    PROVE  /\ Take(bytes, n) \in Seq(Octets) /\ Len(Take(bytes, n)) = n
           /\ n =< Len(bytes) => \A i \in 1 .. n : Take(bytes, n)[i] = bytes[i]
           /\ n = Len(bytes) => Take(bytes, n) = bytes
<1>1. \A i \in 1 .. n : (IF i =< Len(bytes) THEN bytes[i] ELSE Junk) \in Octets
  BY DEF Octets
<1>2. Take(bytes, n) \in Seq(Octets) /\ Len(Take(bytes, n)) = n
  BY <1>1 DEF Take
<1>3. n =< Len(bytes) => \A i \in 1 .. n : Take(bytes, n)[i] = bytes[i]
  BY DEF Take
<1>4. n = Len(bytes) => Take(bytes, n) = bytes
  BY <1>2, <1>3
<1> QED  BY <1>2, <1>3, <1>4

LEMMA AfterBytes ==
    ASSUME NEW bytes \in Seq(Octets), NEW n \in Nat
    PROVE  /\ After(bytes, n) \in Seq(Octets)
           /\ Len(After(bytes, n)) = IF n =< Len(bytes) THEN Len(bytes) - n ELSE 0
           /\ \A i \in 1 .. Len(After(bytes, n)) : After(bytes, n)[i] = bytes[n + i]
  BY DEF After

LEMMA PastPlace ==
    ASSUME NEW s \in Seq(Blocks), NEW c \in Places, NEW bytes \in Seq(Octets)
    PROVE  Past(s, c, bytes) \in Places
  BY DEF Past, Advance, Places

\* Bytes that fit can be cut in two anywhere.
LEMMA SplitFits ==
    ASSUME NEW s \in Seq(Blocks), NEW c \in Places, NEW bytes \in Seq(Octets),
           Fits(s, c, bytes), NEW n \in 1 .. Len(bytes), NEW first \in Seq(Octets),
           Len(first) = n, \A i \in 1 .. n : first[i] = bytes[i]
    PROVE  /\ Fits(s, c, first)
           /\ Fits(s, Past(s, c, first), After(bytes, n))
           /\ Past(s, Past(s, c, first), After(bytes, n)) = Past(s, c, bytes)
<1> DEFINE k == c[1]
           p == c[2]
           rest == After(bytes, n)
<1>1. /\ k \in 1 .. Len(s) /\ p \in Nat /\ p + Len(bytes) =< Size(s[k])
      /\ \A i \in 1 .. Len(bytes) : bytes[i] = [of |-> s[k], at |-> p + i]
      /\ Len(bytes) \in Nat /\ n =< Len(bytes) /\ n > 0 /\ n \in Nat
      /\ bytes # <<>> /\ first # <<>>
  <2>1. Len(bytes) \in Nat /\ n =< Len(bytes) /\ n > 0 /\ n \in Nat
    OBVIOUS
  <2>2. bytes # <<>> /\ first # <<>>
    BY <2>1
  <2>3. p \in Nat
    BY DEF Places
  <2> QED  BY <2>1, <2>2, <2>3, Zenon DEF Fits
<1>2. Size(s[k]) \in Nat
  BY <1>1, BlockSize
<1>3. Fits(s, c, first)
  <2>1. p + Len(first) =< Size(s[k])
    BY <1>1, <1>2
  <2>2. \A i \in 1 .. Len(first) : first[i] = [of |-> s[k], at |-> p + i]
    <3> SUFFICES ASSUME NEW i \in 1 .. Len(first)
                 PROVE  first[i] = [of |-> s[k], at |-> p + i]
      OBVIOUS
    <3>1. i \in 1 .. n /\ i \in 1 .. Len(bytes)
      BY <1>1
    <3> QED  BY <1>1, <3>1
  <2> QED  BY <1>1, <2>1, <2>2, Zenon DEF Fits
<1>4. /\ rest \in Seq(Octets) /\ Len(rest) = Len(bytes) - n
      /\ \A i \in 1 .. Len(rest) : rest[i] = bytes[n + i]
  BY <1>1, AfterBytes
<1> HIDE DEF rest
<1>5. CASE n = Len(bytes)
  <2>1. rest = <<>>
    BY <1>4, <1>5
  <2>2. Past(s, c, first) = Past(s, c, bytes)
    BY <1>1, <1>5 DEF Past
  <2> QED  BY <1>3, <2>1, <2>2 DEF Fits, Past, rest
<1>6. CASE n # Len(bytes)
  <2>1. rest # <<>> /\ p + n # Size(s[k])
    BY <1>1, <1>2, <1>4, <1>6
  <2>2. Past(s, c, first) = <<k, p + n>>
    BY <1>1, <2>1 DEF Past, Advance
  <2>3. \A i \in 1 .. Len(rest) : rest[i] = [of |-> s[k], at |-> p + n + i]
    <3> SUFFICES ASSUME NEW i \in 1 .. Len(rest)
                 PROVE  rest[i] = [of |-> s[k], at |-> p + n + i]
      OBVIOUS
    <3>1. n + i \in 1 .. Len(bytes) /\ p + (n + i) = p + n + i
      BY <1>1, <1>4
    <3> QED  BY <1>1, <1>4, <3>1
  <2>4. Fits(s, <<k, p + n>>, rest)
    BY <1>1, <1>2, <1>4, <2>3 DEF Fits
  <2>5. Past(s, <<k, p + n>>, rest) = Past(s, c, bytes)
    <3>1. p + n + Len(rest) = p + Len(bytes)
      BY <1>1, <1>4
    <3> QED  BY <1>1, <2>1, <3>1 DEF Past
  <2> QED  BY <1>3, <2>2, <2>4, <2>5 DEF rest
<1> QED  BY <1>5, <1>6

\* Bytes that fit one behind the other, in the same block, fit together.
LEMMA JoinFits ==
    ASSUME NEW s \in Seq(Blocks), NEW k \in Nat, NEW a \in Seq(Octets),
           NEW b \in Seq(Octets), b # <<>>, Fits(s, <<k, 0>>, a),
           k \in 1 .. Len(s) => Len(a) < Size(s[k]),
           Fits(s, Past(s, <<k, 0>>, a), b)
    PROVE  /\ k \in 1 .. Len(s) /\ Len(a) + Len(b) =< Size(s[k])
           /\ Fits(s, <<k, 0>>, a \o b)
           /\ Past(s, <<k, 0>>, a \o b) = Past(s, Past(s, <<k, 0>>, a), b)
<1>1. Past(s, <<k, 0>>, a) = <<k, Len(a)>> /\ Len(a) \in Nat /\ Len(b) \in Nat
  <2>1. CASE a = <<>>
    BY <2>1 DEF Past
  <2>2. CASE a # <<>>
    <3>1. k \in 1 .. Len(s)
      BY <2>2 DEF Fits
    <3>2. Size(s[k]) \in Nat
      BY <3>1, BlockSize
    <3> QED  BY <2>2, <3>1, <3>2 DEF Past, Advance
  <2> QED  BY <2>1, <2>2
<1>2. /\ k \in 1 .. Len(s) /\ Len(a) + Len(b) =< Size(s[k])
      /\ \A i \in 1 .. Len(b) : b[i] = [of |-> s[k], at |-> Len(a) + i]
  <2>1. Fits(s, <<k, Len(a)>>, b)
    BY <1>1
  <2>2. <<k, Len(a)>>[1] = k /\ <<k, Len(a)>>[2] = Len(a)
    OBVIOUS
  <2> DEFINE c == <<k, Len(a)>>
  <2>3. c[1] = k /\ c[2] = Len(a) /\ Fits(s, c, b)
    BY <2>1, <2>2
  <2> HIDE DEF c
  <2>4. /\ c[1] \in 1 .. Len(s) /\ c[2] + Len(b) =< Size(s[c[1]])
        /\ \A i \in 1 .. Len(b) : b[i] = [of |-> s[c[1]], at |-> c[2] + i]
    BY <2>3, Zenon DEF Fits
  <2> QED  BY <2>3, <2>4, Zenon
<1>3. \A i \in 1 .. Len(a) : a[i] = [of |-> s[k], at |-> i]
  BY DEF Fits
<1>4. a \o b \in Seq(Octets) /\ Len(a \o b) = Len(a) + Len(b) /\ a \o b # <<>>
  BY <1>1
<1>5. \A i \in 1 .. Len(a \o b) : (a \o b)[i] = [of |-> s[k], at |-> 0 + i]
  <2> SUFFICES ASSUME NEW i \in 1 .. Len(a \o b)
               PROVE  (a \o b)[i] = [of |-> s[k], at |-> i]
    OBVIOUS
  <2>1. CASE i =< Len(a)
    BY <1>1, <1>3, <1>4, <2>1
  <2>2. CASE ~(i =< Len(a))
    <3>1. i - Len(a) \in 1 .. Len(b) /\ Len(a) + (i - Len(a)) = i
      BY <1>1, <1>4, <2>2
    <3>2. (a \o b)[i] = b[i - Len(a)]
      BY <1>1, <1>4, <2>2
    <3> QED  BY <1>2, <3>1, <3>2
  <2> QED  BY <2>1, <2>2
<1>6. Fits(s, <<k, 0>>, a \o b)
  BY <1>2, <1>4, <1>5, BlockSize DEF Fits
<1>7. Past(s, <<k, 0>>, a \o b) = Past(s, <<k, Len(a)>>, b)
  BY <1>1, <1>4 DEF Past
<1> QED  BY <1>1, <1>2, <1>6, <1>7

\* A block more changes nothing about the bytes before it.
LEMMA GrowFits ==
    ASSUME NEW s \in Seq(Blocks), NEW b \in Blocks, NEW c \in Places,
           NEW bytes \in Seq(Octets), Fits(s, c, bytes)
    PROVE  /\ Fits(Append(s, b), c, bytes)
           /\ Past(Append(s, b), c, bytes) = Past(s, c, bytes)
<1>1. CASE bytes = <<>>
  BY <1>1 DEF Fits, Past
<1>2. CASE bytes # <<>>
  <2>1. c[1] \in 1 .. Len(s)
    BY <1>2 DEF Fits
  <2>2. Len(Append(s, b)) = Len(s) + 1 /\ Append(s, b)[c[1]] = s[c[1]]
    BY <2>1
  <2>3. c[1] \in 1 .. Len(Append(s, b))
    BY <2>1, <2>2
  <2> QED  BY <1>2, <2>2, <2>3 DEF Fits, Past, Advance
<1> QED  BY <1>1, <1>2

\* A whole block fits behind the ones before it.
LEMMA WholeFits ==
    ASSUME NEW s \in Seq(Blocks), NEW b \in Blocks
    PROVE  /\ Fits(Append(s, b), <<Len(s) + 1, 0>>, Pack(b))
           /\ Past(Append(s, b), <<Len(s) + 1, 0>>, Pack(b)) = <<Len(Append(s, b)) + 1, 0>>
<1> DEFINE t == Append(s, b)
           c == <<Len(s) + 1, 0>>
<1>1. /\ Len(t) = Len(s) + 1 /\ Len(s) \in Nat /\ t[Len(s) + 1] = b
      /\ c[1] = Len(s) + 1 /\ c[2] = 0
  OBVIOUS
<1>2. /\ Len(Pack(b)) = Size(b) /\ Pack(b) # <<>> /\ Size(b) \in Nat
      /\ \A i \in 1 .. Size(b) : Pack(b)[i] = [of |-> b, at |-> i]
  BY PackBytes, BlockSize
<1> HIDE DEF t, c
<1>3. /\ c[1] \in 1 .. Len(t) /\ t[c[1]] = b
      /\ c[2] + Len(Pack(b)) = Size(b) /\ c[2] + Len(Pack(b)) =< Size(t[c[1]])
  BY <1>1, <1>2
<1>4. \A i \in 1 .. Len(Pack(b)) : Pack(b)[i] = [of |-> t[c[1]], at |-> c[2] + i]
  BY <1>1, <1>2, <1>3
<1>5. Fits(t, c, Pack(b))
  BY <1>3, <1>4, Zenon DEF Fits
<1>6. Past(t, c, Pack(b)) = <<c[1] + 1, 0>>
  BY <1>2, <1>3 DEF Past, Advance
<1> QED  BY <1>1, <1>5, <1>6 DEF t, c

-----------------------------------------------------------------------------
(* The start *)

LEMMA InitInv == Init => OneWriterInv
<1> SUFFICES ASSUME Init PROVE OneWriterInv
  OBVIOUS
<1> USE DEF Init
<1>1. Types
  <2>1. sizeBuf \in Sizes
    BY DEF Sizes
  <2>2. payloadBuf \in Payloads
    BY DEF Payloads
  <2>3. wire \in Seq(Records) /\ leftover \in Seq(Octets) /\ got \in Seq(Octets)
        /\ started \in Seq(Blocks) /\ received \in Seq(Seq(Octets))
    OBVIOUS
  <2>4. src \in [Writers -> Seq(Octets)]
    OBVIOUS
  <2>5. next \in [Writers -> Nat \ {0}] /\ nr \in [Writers -> Nat]
    OBVIOUS
  <2>6. at \in [Writers -> {"idle", "fill", "sealSize", "sealPayload", "emit"}]
    OBVIOUS
  <2>7. /\ nonce \in Nat /\ readNonce \in Nat /\ want \in Nat
        /\ cut \in BOOLEAN /\ reading \in {"header", "data", "failed"}
    BY SizesPositive
  <2> HIDE DEF Init
  <2> QED  BY <2>1, <2>2, <2>3, <2>4, <2>5, <2>6, <2>7 DEF Types
<1>2. Single /\ Returned /\ Asking /\ Sealed
  <2>1. Single
    BY DEF Single
  <2>2. Len(received) = 0 /\ Len(started) = 0 /\ Len(wire) = 0 /\ Len(got) = 0
    OBVIOUS
  <2>3. Returned /\ Sealed
    BY <2>2 DEF Returned, Sealed
  <2>4. Asking
    BY <2>2, SizesPositive DEF Asking
  <2> QED  BY <2>1, <2>3, <2>4
<1>3. InFlight
  <2> DEFINE cur == << <<1, 0>> >>
  <2>1. cur \in Seq(Places) /\ Len(cur) = 1 /\ cur[1] = <<1, 0>> /\ Len(wire) = 0
    BY DEF Places
  <2>2. Front = <<1, 0>> /\ Back = <<1, 0>>
    BY DEF Front, Back
  <2> HIDE DEF cur
  <2>3. Laid(cur)
    BY <2>1, <2>2 DEF Laid, Fits, Past
  <2>4. Fresh = 0
    BY <2>1 DEF Fresh
  <2>5. Writing(cur[Len(wire) + 1])
    <3>1. \A w \in Writers : at[w] = "idle"
      OBVIOUS
    <3>2. cur[Len(wire) + 1] = Back /\ nonce = Fresh
      BY <2>1, <2>2, <2>4
    <3> QED  BY <3>1, <3>2 DEF Writing
  <2> QED  BY <2>3, <2>5 DEF InFlight
<1> QED  BY <1>1, <1>2, <1>3 DEF OneWriterInv

-----------------------------------------------------------------------------
(* What steps of one side leave to the other *)

LEMMA LaidPlaces ==
    ASSUME Types, NEW cur, Laid(cur)
    PROVE  /\ cur \in Seq(Places) /\ Len(wire) \in Nat
           /\ \A i \in 1 .. Len(wire) + 1 : cur[i] \in Places
           /\ Front \in Places /\ Past(started, Front, got) \in Places
<1>1. Front \in Places
  BY DEF Front, Places, Types
<1>2. Past(started, Front, got) \in Places
  BY <1>1, PastPlace DEF Types
<1>3. cur \in Seq(Places) /\ Len(cur) = Len(wire) + 1 /\ Len(wire) \in Nat
  BY DEF Laid, Types
<1> QED  BY <1>1, <1>2, <1>3

LEMMA SameLaid ==
    ASSUME NEW cur, Laid(cur), UNCHANGED <<wire, started, received, got, leftover>>
    PROVE  Laid(cur)'
  BY DEF Laid, Front

LEMMA SameWriting ==
    ASSUME NEW c, Writing(c), UNCHANGED writeVars, Fresh' = Fresh
    PROVE  Writing(c)'
<1>1. UNCHANGED <<at, src, nr, nonce, sizeBuf, payloadBuf, started>>
  BY DEF writeVars
<1>2. Back' = Back /\ \A w \in Writers : Making(w)' = Making(w)
  BY <1>1 DEF Back, Making
<1>3. \A w \in Writers : \A d : Rest(w, d)' = Rest(w, d)
  BY <1>1, <1>2 DEF Rest
<1> QED  BY <1>1, <1>2, <1>3 DEF Writing

-----------------------------------------------------------------------------
(* The writer *)

LEMMA StartWriteInv ==
    ASSUME OneWriterInv, NEW w \in Writers, StartWrite(w), ~overlapped'
    PROVE  OneWriterInv'
<1> DEFINE b == Block(w, next[w])
<1>1. \A v \in Writers : at[v] = "idle"
  BY DEF StartWrite
<1>2. /\ at' = [at EXCEPT ![w] = "fill"] /\ src' = [src EXCEPT ![w] = Pack(b)]
      /\ next' = [next EXCEPT ![w] = @ + 1] /\ started' = Append(started, b)
      /\ next[w] =< Len(Lengths[w])
      /\ UNCHANGED <<nr, nonce, sizeBuf, payloadBuf, wire, cut, readVars>>
  BY DEF StartWrite
<1>3. UNCHANGED <<readNonce, leftover, got, want, reading, received>>
  BY <1>2 DEF readVars
<1>4. Types /\ Single /\ Returned /\ Asking /\ Sealed /\ InFlight
  BY DEF OneWriterInv
<1>5. b \in Blocks
  BY <1>2, <1>4, NextBlock DEF Types
<1>6. Pack(b) \in Seq(Octets)
  BY <1>5, PackBytes
<1> HIDE DEF b
<1>7. /\ started \in Seq(Blocks) /\ started' \in Seq(Blocks) /\ Len(started) \in Nat
      /\ Len(started') = Len(started) + 1
      /\ \A i \in 1 .. Len(started) : started'[i] = started[i]
  BY <1>2, <1>4, <1>5 DEF Types
<1>8. Types'
  <2>1. src' \in [Writers -> Seq(Octets)] /\ next' \in [Writers -> Nat \ {0}]
        /\ at' \in [Writers -> {"idle", "fill", "sealSize", "sealPayload", "emit"}]
    BY <1>2, <1>4, <1>6 DEF Types
  <2> QED  BY <1>2, <1>3, <1>4, <1>7, <2>1 DEF Types
<1>9. Single'
  BY <1>1, <1>2, <1>4 DEF Single, Types
<1>10. Returned'
  <2>1. Len(received) \in Nat /\ Len(received) =< Len(started)
    BY <1>4 DEF Returned, Types
  <2>2. \A i \in 1 .. Len(received) : started'[i] = started[i]
    BY <1>7, <2>1
  <2>3. Len(received) =< Len(started')
    BY <1>7, <2>1
  <2> QED  BY <1>3, <1>4, <2>2, <2>3 DEF Returned
<1>11. Asking'
  <2>1. reading = "data" => started'[Len(received) + 1] = started[Len(received) + 1]
    <3> SUFFICES ASSUME reading = "data"
                 PROVE  Len(received) + 1 \in 1 .. Len(started)
      BY <1>7
    <3>1. PICK cur : Laid(cur)
      BY <1>4 DEF InFlight
    <3>2. got # <<>> /\ Fits(started, Front, got)
      BY <1>4, <3>1 DEF Asking, Laid
    <3> QED  BY <3>2 DEF Fits, Front
  <2> QED  BY <1>2, <1>3, <1>4, <2>1 DEF Asking
<1>12. Sealed'
  BY <1>2, <1>3, <1>4 DEF Sealed
<1>13. InFlight'
  <2>1. PICK cur : Laid(cur) /\ (~cut => Writing(cur[Len(wire) + 1]))
    BY <1>4 DEF InFlight
  <2>2. Front' = Front /\ Fresh' = Fresh
    BY <1>2, <1>3 DEF Front, Fresh
  <2>3. Laid(cur)'
    <3> DEFINE pastGot == Past(started, Front, got)
    <3>1. /\ cur \in Seq(Places) /\ Len(cur) = Len(wire) + 1
          /\ Fits(started, Front, got) /\ Fits(started, pastGot, leftover)
          /\ cur[1] = Past(started, pastGot, leftover)
          /\ \A i \in 1 .. Len(wire) :
               /\ Fits(started, cur[i], wire[i].payload.bytes)
               /\ cur[i + 1] = Past(started, cur[i], wire[i].payload.bytes)
      BY <2>1 DEF Laid
    <3>2. Front \in Places /\ pastGot \in Places /\ Len(wire) \in Nat
          /\ \A i \in 1 .. Len(wire) + 1 : cur[i] \in Places
      BY <1>4, <2>1, LaidPlaces
    <3>3. /\ Fits(started', Front, got) /\ Past(started', Front, got) = pastGot
      BY <1>2, <1>4, <1>5, <3>1, <3>2, GrowFits DEF Types
    <3>4. /\ Fits(started', pastGot, leftover)
          /\ Past(started', pastGot, leftover) = cur[1]
      <4> HIDE DEF pastGot
      <4> QED  BY <1>2, <1>4, <1>5, <3>1, <3>2, GrowFits DEF Types
    <3>5. \A i \in 1 .. Len(wire) :
             /\ Fits(started', cur[i], wire[i].payload.bytes)
             /\ cur[i + 1] = Past(started', cur[i], wire[i].payload.bytes)
      <4> SUFFICES ASSUME NEW i \in 1 .. Len(wire)
                   PROVE  /\ Fits(started', cur[i], wire[i].payload.bytes)
                          /\ cur[i + 1] = Past(started', cur[i], wire[i].payload.bytes)
        OBVIOUS
      <4>1. wire[i] \in Records
        BY <1>4 DEF Types
      <4>2. wire[i].payload.bytes \in Seq(Octets)
        BY <4>1 DEF Records, Payloads
      <4>3. cur[i] \in Places
        BY <3>2
      <4>4. /\ Fits(started, cur[i], wire[i].payload.bytes)
            /\ cur[i + 1] = Past(started, cur[i], wire[i].payload.bytes)
        BY <3>1
      <4> QED  BY <1>2, <1>5, <1>7, <4>2, <4>3, <4>4, GrowFits
    <3> HIDE DEF pastGot
    <3>6. Past(started', Front', got') = pastGot
      BY <1>3, <2>2, <3>3
    <3> QED  BY <1>2, <1>3, <2>2, <3>1, <3>3, <3>4, <3>5, <3>6 DEF Laid
  <2>4. ~cut => Writing(cur[Len(wire) + 1])'
    <3> SUFFICES ASSUME ~cut
                 PROVE  Writing(cur[Len(wire) + 1])'
      OBVIOUS
    <3> DEFINE c == cur[Len(wire) + 1]
    <3>1. c = Back /\ nonce = Fresh
      BY <1>1, <2>1 DEF Writing
    <3>2. Fits(started', c, src'[w]) /\ Past(started', c, src'[w]) = Back'
      <4>1. src'[w] = Pack(b)
        BY <1>2, <1>4 DEF Types
      <4>2. c = <<Len(started) + 1, 0>>
        BY <3>1 DEF Back
      <4> HIDE DEF c
      <4> QED  BY <1>2, <1>5, <1>7, <4>1, <4>2, WholeFits DEF Back
    <3>3. c' = c /\ nonce' = Fresh' /\ at'[w] = "fill"
      BY <1>2, <1>4, <2>2, <3>1 DEF Types
    <3>4. \A v \in Writers : v # w => at'[v] = "idle"
      BY <1>1, <1>2, <1>4 DEF Types
    <3> HIDE DEF c
    <3>5. Rest(w, c)'
      BY <3>2, <3>3 DEF Rest
    <3>6. Writing(c)'
      <4>1. ~ \A v \in Writers : at'[v] = "idle"
        BY <3>3
      <4>2. \A v \in Writers : at'[v] = "idle" \/ v = w
        BY <3>4
      <4> QED  BY <3>3, <3>5, <4>1, <4>2 DEF Writing
    <3> QED  BY <3>6 DEF c
  <2> QED  BY <1>2, <2>3, <2>4 DEF InFlight
<1> QED  BY <1>8, <1>9, <1>10, <1>11, <1>12, <1>13 DEF OneWriterInv

\* A step inside Write adds nothing to the stream and takes nothing from it.
LEMMA InsideWrite ==
    ASSUME OneWriterInv, UNCHANGED <<wire, cut, readVars, started>>, Types', Single',
           ~cut => \A c \in Places : Writing(c) => Writing(c)'
    PROVE  OneWriterInv'
<1>1. UNCHANGED <<readNonce, leftover, got, want, reading, received>>
  BY DEF readVars
<1>2. Returned' /\ Asking' /\ Sealed'
  <2>1. Returned'
    BY <1>1 DEF OneWriterInv, Returned
  <2>2. Asking'
    BY <1>1 DEF OneWriterInv, Asking
  <2>3. Sealed'
    BY <1>1 DEF OneWriterInv, Sealed
  <2> QED  BY <2>1, <2>2, <2>3
<1>3. PICK cur : Laid(cur) /\ (~cut => Writing(cur[Len(wire) + 1]))
  BY DEF OneWriterInv, InFlight
<1>4. Laid(cur)'
  BY <1>1, <1>3, SameLaid
<1>5. cur[Len(wire) + 1] \in Places
  BY <1>3, LaidPlaces DEF OneWriterInv
<1>6. ~cut' => Writing(cur[Len(wire) + 1])'
  <2>1. PICK c : c = cur[Len(wire) + 1]
    OBVIOUS
  <2>2. c = cur'[Len(wire') + 1]
    BY <2>1
  <2>3. ~cut => Writing(c)'
    BY <1>3, <1>5, <2>1
  <2> QED  BY <2>1, <2>2, <2>3
<1>7. InFlight'
  BY <1>4, <1>6 DEF InFlight
<1> QED  BY <1>2, <1>7 DEF OneWriterInv

\* The goroutine that is not idle stays the only one.
LEMMA SameSingle ==
    ASSUME Types, Single, NEW w \in Writers, at[w] # "idle", NEW to,
           at' = [at EXCEPT ![w] = to]
    PROVE  /\ Single' /\ at'[w] = to
           /\ \A v \in Writers : v # w => at[v] = "idle" /\ at'[v] = "idle"
<1>1. \A v \in Writers : v # w => at[v] = "idle"
  BY DEF Single
<1>2. at'[w] = to /\ \A v \in Writers : v # w => at'[v] = at[v]
  BY DEF Types
<1> QED  BY <1>1, <1>2 DEF Single

LEMMA FillInv ==
    ASSUME OneWriterInv, NEW w \in Writers, Fill(w)
    PROVE  OneWriterInv'
<1> DEFINE n == RecordSize(src[w])
           beyond == IF payloadBuf.nonce = Unsealed THEN After(payloadBuf.bytes, n) ELSE <<>>
<1>1. /\ at[w] = "fill" /\ src[w] # <<>>
      /\ nr' = [nr EXCEPT ![w] = n]
      /\ sizeBuf' = [size |-> n, nonce |-> Unsealed]
      /\ payloadBuf' = [bytes |-> Take(src[w], n) \o beyond, nonce |-> Unsealed]
      /\ src' = [src EXCEPT ![w] = After(@, n)]
      /\ at' = [at EXCEPT ![w] = "sealSize"]
      /\ UNCHANGED <<next, nonce, started, wire, cut, readVars>>
  BY DEF Fill
<1>2. Types /\ Single
  BY DEF OneWriterInv
<1>3. src[w] \in Seq(Octets) /\ Len(src[w]) \in Nat /\ Len(src[w]) > 0
  BY <1>1, <1>2 DEF Types
<1>4. n \in Nat /\ n > 0 /\ n =< Len(src[w])
  BY <1>3, SizesPositive DEF RecordSize
<1>5. payloadBuf.bytes \in Seq(Octets)
  BY <1>2 DEF Types, Payloads
<1>6. beyond \in Seq(Octets)
  BY <1>4, <1>5, AfterBytes
<1> HIDE DEF n, beyond
<1> DEFINE first == Take(src[w], n)
           rest == After(src[w], n)
<1>7. /\ first \in Seq(Octets) /\ Len(first) = n
      /\ \A i \in 1 .. n : first[i] = src[w][i]
  BY <1>3, <1>4, TakeBytes
<1>8. rest \in Seq(Octets)
  BY <1>3, <1>4, AfterBytes
<1> HIDE DEF first, rest
<1>9. /\ payloadBuf'.bytes = first \o beyond /\ payloadBuf'.nonce = Unsealed
      /\ first \o beyond \in Seq(Octets) /\ n =< Len(first \o beyond)
      /\ sizeBuf'.size = n /\ sizeBuf'.nonce = Unsealed
      /\ nr'[w] = n /\ src'[w] = rest
  <2>1. first \o beyond \in Seq(Octets) /\ n =< Len(first \o beyond)
    BY <1>4, <1>6, <1>7
  <2>2. nr'[w] = n
    BY <1>1, <1>2 DEF Types
  <2>3. src'[w] = rest
    BY <1>1, <1>2 DEF Types, rest
  <2>4. payloadBuf'.bytes = first \o beyond /\ payloadBuf'.nonce = Unsealed
    BY <1>1 DEF first
  <2>5. sizeBuf'.size = n /\ sizeBuf'.nonce = Unsealed
    BY <1>1
  <2> QED  BY <2>1, <2>2, <2>3, <2>4, <2>5
<1>10. UNCHANGED <<readNonce, leftover, got, want, reading, received>>
  BY <1>1 DEF readVars
<1>11. Types'
  <2>1. src' \in [Writers -> Seq(Octets)] /\ nr' \in [Writers -> Nat]
        /\ at' \in [Writers -> {"idle", "fill", "sealSize", "sealPayload", "emit"}]
    BY <1>1, <1>2, <1>4, <1>8 DEF Types, rest
  <2>2. sizeBuf' \in Sizes
    BY <1>1, <1>4 DEF Sizes
  <2>3. payloadBuf' \in Payloads
    <3>1. payloadBuf' = [bytes |-> first \o beyond, nonce |-> Unsealed]
      BY <1>1 DEF first
    <3> QED  BY <1>9, <3>1 DEF Payloads
  <2> QED  BY <1>1, <1>2, <1>10, <2>1, <2>2, <2>3 DEF Types
<1>12. /\ Single' /\ at'[w] = "sealSize"
       /\ \A v \in Writers : v # w => at[v] = "idle" /\ at'[v] = "idle"
  BY <1>1, <1>2, SameSingle
<1>13. ASSUME NEW c \in Places, Writing(c)
       PROVE  Writing(c)'
  <2>1. Rest(w, c) /\ nonce = Fresh
    BY <1>1, <1>13 DEF Writing
  <2>2. Fresh' = Fresh /\ Back' = Back
    BY <1>1, <1>10 DEF Fresh, Back
  <2>3. Making(w)' = first
    <3>1. /\ Take(first \o beyond, n) \in Seq(Octets) /\ Len(Take(first \o beyond, n)) = n
          /\ \A i \in 1 .. n : Take(first \o beyond, n)[i] = (first \o beyond)[i]
      BY <1>4, <1>9, TakeBytes
    <3>2. \A i \in 1 .. n : (first \o beyond)[i] = first[i]
      <4> SUFFICES ASSUME NEW i \in 1 .. n
                   PROVE  (first \o beyond)[i] = first[i]
        OBVIOUS
      <4> QED  BY <1>4, <1>6, <1>7, ConcatProperties
    <3>3. Take(first \o beyond, n) = first
      BY <1>4, <1>7, <3>1, <3>2
    <3> QED  BY <1>9, <3>3 DEF Making
  <2>4. /\ Fits(started, c, first)
        /\ Fits(started, Past(started, c, first), rest)
        /\ Past(started, Past(started, c, first), rest) = Past(started, c, src[w])
    <3>1. started \in Seq(Blocks) /\ n \in 1 .. Len(src[w]) /\ Fits(started, c, src[w])
      BY <1>2, <1>3, <1>4, <2>1 DEF Types, Rest
    <3> QED  BY <1>3, <1>7, <3>1, SplitFits DEF rest
  <2>5. Rest(w, Past(started, c, Making(w)))'
    BY <1>1, <1>9, <2>1, <2>2, <2>3, <2>4 DEF Rest
  <2>6. Fits(started, c, Making(w))'
    BY <1>1, <2>3, <2>4
  <2>7. /\ nr'[w] > 0 /\ nr'[w] =< Len(payloadBuf'.bytes) /\ sizeBuf'.size = nr'[w]
        /\ nonce' = Fresh'
    BY <1>1, <1>4, <1>9, <2>1, <2>2
  <2> QED  BY <1>9, <1>12, <2>5, <2>6, <2>7 DEF Writing
<1> QED  BY <1>1, <1>11, <1>12, <1>13, InsideWrite

LEMMA SealSizeInv ==
    ASSUME OneWriterInv, NEW w \in Writers, SealSize(w)
    PROVE  OneWriterInv'
<1>1. /\ at[w] = "sealSize"
      /\ sizeBuf' = [size |-> IF sizeBuf.nonce = Unsealed THEN sizeBuf.size ELSE Junk,
                     nonce |-> nonce]
      /\ nonce' = nonce + 1
      /\ at' = [at EXCEPT ![w] = "sealPayload"]
      /\ UNCHANGED <<next, src, nr, payloadBuf, started, wire, cut, readVars>>
  BY DEF SealSize, SizeSealed, increment
<1>2. Types /\ Single
  BY DEF OneWriterInv
<1>3. UNCHANGED <<readNonce, leftover, got, want, reading, received>>
  BY <1>1 DEF readVars
<1>4. Types'
  <2>1. at' \in [Writers -> {"idle", "fill", "sealSize", "sealPayload", "emit"}]
    BY <1>1, <1>2 DEF Types
  <2>2. sizeBuf' \in Sizes
    <3>1. (IF sizeBuf.nonce = Unsealed THEN sizeBuf.size ELSE Junk) \in Nat \cup {Junk}
      BY <1>2 DEF Types, Sizes
    <3>2. nonce \in Nat \cup {Unsealed}
      BY <1>2 DEF Types
    <3> QED  BY <1>1, <3>1, <3>2 DEF Sizes
  <2>3. nonce' \in Nat
    BY <1>1, <1>2 DEF Types
  <2> QED  BY <1>1, <1>2, <1>3, <2>1, <2>2, <2>3 DEF Types
<1>5. /\ Single' /\ at'[w] = "sealPayload"
      /\ \A v \in Writers : v # w => at[v] = "idle" /\ at'[v] = "idle"
  BY <1>1, <1>2, SameSingle
<1>6. ASSUME NEW c \in Places, Writing(c)
      PROVE  Writing(c)'
  <2>1. /\ nr[w] > 0 /\ nr[w] =< Len(payloadBuf.bytes) /\ sizeBuf.size = nr[w]
        /\ Fits(started, c, Making(w))
        /\ Rest(w, Past(started, c, Making(w)))
        /\ nonce = Fresh /\ sizeBuf.nonce = Unsealed /\ payloadBuf.nonce = Unsealed
    BY <1>1, <1>6 DEF Writing
  <2>2. Fresh' = Fresh /\ Back' = Back /\ Making(w)' = Making(w)
    BY <1>1, <1>3 DEF Fresh, Back, Making
  <2>3. Fits(started, c, Making(w))' /\ Rest(w, Past(started, c, Making(w)))'
    BY <1>1, <2>1, <2>2 DEF Rest
  <2>4. /\ nr'[w] > 0 /\ nr'[w] =< Len(payloadBuf'.bytes) /\ sizeBuf'.size = nr'[w]
        /\ nonce' = Fresh' + 1 /\ sizeBuf'.nonce = Fresh' /\ payloadBuf'.nonce = Unsealed
    BY <1>1, <2>1, <2>2
  <2> QED  BY <1>5, <2>3, <2>4 DEF Writing
<1> QED  BY <1>1, <1>4, <1>5, <1>6, InsideWrite

LEMMA SealPayloadInv ==
    ASSUME OneWriterInv, NEW w \in Writers, SealPayload(w)
    PROVE  OneWriterInv'
<1> DEFINE plain == IF payloadBuf.nonce = Unsealed THEN payloadBuf.bytes ELSE <<>>
<1>1. /\ at[w] = "sealPayload"
      /\ payloadBuf' = [bytes |-> Take(plain, nr[w]), nonce |-> nonce]
      /\ nonce' = nonce + 1
      /\ at' = [at EXCEPT ![w] = "emit"]
      /\ UNCHANGED <<next, src, nr, sizeBuf, started, wire, cut, readVars>>
  BY DEF SealPayload, increment
<1>2. Types /\ Single
  BY DEF OneWriterInv
<1>3. UNCHANGED <<readNonce, leftover, got, want, reading, received>>
  BY <1>1 DEF readVars
<1>4. plain \in Seq(Octets) /\ nr[w] \in Nat
  BY <1>2 DEF Types, Payloads
<1>5. Take(plain, nr[w]) \in Seq(Octets) /\ Len(Take(plain, nr[w])) = nr[w]
  <2> HIDE DEF plain
  <2> QED  BY <1>4, TakeBytes
<1>6. Types'
  <2>1. at' \in [Writers -> {"idle", "fill", "sealSize", "sealPayload", "emit"}]
    BY <1>1, <1>2 DEF Types
  <2>2. payloadBuf' \in Payloads
    <3>1. nonce \in Nat \cup {Unsealed}
      BY <1>2 DEF Types
    <3> HIDE DEF plain
    <3> QED  BY <1>1, <1>5, <3>1 DEF Payloads
  <2>3. nonce' \in Nat
    BY <1>1, <1>2 DEF Types
  <2> HIDE DEF plain
  <2> QED  BY <1>1, <1>2, <1>3, <2>1, <2>2, <2>3 DEF Types
<1>7. /\ Single' /\ at'[w] = "emit"
      /\ \A v \in Writers : v # w => at[v] = "idle" /\ at'[v] = "idle"
  BY <1>1, <1>2, SameSingle
<1>8. ASSUME NEW c \in Places, Writing(c)
      PROVE  Writing(c)'
  <2>1. /\ nr[w] > 0 /\ nr[w] =< Len(payloadBuf.bytes) /\ sizeBuf.size = nr[w]
        /\ Fits(started, c, Making(w))
        /\ Rest(w, Past(started, c, Making(w)))
        /\ nonce = Fresh + 1 /\ sizeBuf.nonce = Fresh /\ payloadBuf.nonce = Unsealed
    BY <1>1, <1>8 DEF Writing
  <2>2. Fresh' = Fresh /\ Back' = Back
    BY <1>1, <1>3 DEF Fresh, Back
  <2>3. payloadBuf'.bytes = Making(w) /\ payloadBuf'.nonce = nonce
    BY <1>1, <2>1 DEF Making
  <2>4. Making(w) \in Seq(Octets) /\ Len(Making(w)) = nr[w]
    BY <1>5, <2>1 DEF Making
  <2>5. Making(w)' = Making(w)
    <3>1. Making(w)' = Take(Making(w), nr[w])
      BY <1>1, <2>3 DEF Making
    <3>2. Take(Making(w), nr[w]) = Making(w)
      BY <1>4, <2>4, TakeBytes
    <3> QED  BY <3>1, <3>2
  <2>6. Fits(started, c, Making(w))' /\ Rest(w, Past(started, c, Making(w)))'
    BY <1>1, <2>1, <2>2, <2>5 DEF Rest
  <2>7. Fresh \in Nat
    BY <1>2 DEF Fresh, Types
  <2>8. /\ nr'[w] > 0 /\ nr'[w] =< Len(payloadBuf'.bytes) /\ sizeBuf'.size = nr'[w]
        /\ nonce' = Fresh' + 2 /\ sizeBuf'.nonce = Fresh'
        /\ payloadBuf'.nonce = Fresh' + 1 /\ Len(payloadBuf'.bytes) = nr'[w]
    <3> HIDE DEF plain
    <3> QED  BY <1>1, <1>4, <2>1, <2>2, <2>3, <2>4, <2>7
  <2> QED  BY <1>7, <2>6, <2>8 DEF Writing
<1> QED  BY <1>1, <1>6, <1>7, <1>8, InsideWrite

LEMMA ReturnInv ==
    ASSUME OneWriterInv, NEW w \in Writers, Return(w)
    PROVE  OneWriterInv'
<1>1. /\ at[w] = "fill" /\ src[w] = <<>> /\ at' = [at EXCEPT ![w] = "idle"]
      /\ UNCHANGED <<next, src, nr, nonce, sizeBuf, payloadBuf, started, wire, cut, readVars>>
  BY DEF Return
<1>2. Types /\ Single
  BY DEF OneWriterInv
<1>3. UNCHANGED <<readNonce, leftover, got, want, reading, received>>
  BY <1>1 DEF readVars
<1>4. Types'
  <2>1. at' \in [Writers -> {"idle", "fill", "sealSize", "sealPayload", "emit"}]
    BY <1>1, <1>2 DEF Types
  <2> QED  BY <1>1, <1>2, <1>3, <2>1 DEF Types
<1>5. /\ Single' /\ at'[w] = "idle"
      /\ \A v \in Writers : v # w => at[v] = "idle" /\ at'[v] = "idle"
  BY <1>1, <1>2, SameSingle
<1>6. ASSUME NEW c \in Places, Writing(c)
      PROVE  Writing(c)'
  <2>1. Rest(w, c) /\ nonce = Fresh
    BY <1>1, <1>6 DEF Writing
  <2>2. c = Back
    BY <1>1, <2>1 DEF Rest, Past
  <2>3. Fresh' = Fresh /\ Back' = Back
    BY <1>1, <1>3 DEF Fresh, Back
  <2>4. \A v \in Writers : at'[v] = "idle"
    BY <1>5
  <2> QED  BY <1>1, <2>1, <2>2, <2>3, <2>4 DEF Writing
<1> QED  BY <1>1, <1>4, <1>5, <1>6, InsideWrite

LEMMA EmitInv ==
    ASSUME OneWriterInv, NEW w \in Writers, Emit(w)
    PROVE  OneWriterInv'
<1>1. /\ at[w] = "emit" /\ at' = [at EXCEPT ![w] = IF cut THEN "idle" ELSE "fill"]
      /\ UNCHANGED <<next, src, nr, nonce, sizeBuf, payloadBuf, started, cut, readVars>>
  BY DEF Emit
<1>2. Types /\ Single /\ Returned /\ Asking /\ Sealed /\ InFlight
  BY DEF OneWriterInv
<1>3. UNCHANGED <<readNonce, leftover, got, want, reading, received>>
  BY <1>1 DEF readVars
<1>4. at' \in [Writers -> {"idle", "fill", "sealSize", "sealPayload", "emit"}]
  BY <1>1, <1>2 DEF Types
<1>5. /\ Single' /\ at'[w] = IF cut THEN "idle" ELSE "fill"
      /\ \A v \in Writers : v # w => at[v] = "idle" /\ at'[v] = "idle"
  BY <1>1, <1>2, SameSingle
<1>6. CASE cut
  <2>1. wire' = wire
    BY <1>6 DEF Emit
  <2>2. Types'
    BY <1>1, <1>2, <1>3, <1>4, <2>1 DEF Types
  <2> QED  BY <1>1, <1>5, <1>6, <2>1, <2>2, InsideWrite
<1>7. CASE ~cut
  <2>1. PICK cur : Laid(cur) /\ Writing(cur[Len(wire) + 1])
    BY <1>2, <1>7 DEF InFlight
  <2> DEFINE m == Len(wire)
             c == cur[m + 1]
             bytes == payloadBuf.bytes
             d == Past(started, c, bytes)
             new == [size |-> sizeBuf, payload |-> payloadBuf]
  <2>2. /\ nr[w] > 0 /\ sizeBuf.size = nr[w]
        /\ Fits(started, c, Making(w)) /\ Rest(w, Past(started, c, Making(w)))
        /\ nonce = Fresh + 2 /\ sizeBuf.nonce = Fresh
        /\ payloadBuf.nonce = Fresh + 1 /\ Len(bytes) = nr[w]
    BY <1>1, <2>1 DEF Writing
  <2>3. /\ bytes \in Seq(Octets) /\ nr[w] \in Nat /\ m \in Nat /\ readNonce \in Nat
        /\ wire \in Seq(Records)
    BY <1>2 DEF Types, Payloads
  <2>4. Making(w) = bytes /\ bytes # <<>>
    <3>1. Take(bytes, nr[w]) = bytes
      <4> HIDE DEF bytes
      <4> QED  BY <2>2, <2>3, TakeBytes
    <3>2. bytes # <<>>
      BY <2>2, <2>3
    <3> QED  BY <3>1, <3>2 DEF Making
  <2>5. payloadBuf.nonce # Unsealed
    <3>1. Fresh + 1 \in Nat
      BY <2>3 DEF Fresh
    <3> QED  BY <2>2, <3>1, SizesPositive
  <2>6. wire' = Append(wire, new)
    BY <1>7, <2>2, <2>5 DEF Emit
  <2>7. new \in Records
    <3>1. sizeBuf \in Sizes /\ payloadBuf \in Payloads
      BY <1>2 DEF Types
    <3> QED  BY <3>1 DEF Records
  <2>8. /\ new.size.size = Len(new.payload.bytes)
        /\ new.size.nonce = readNonce + 2 * m /\ new.payload.nonce = readNonce + 2 * m + 1
        /\ new.payload.bytes # <<>> /\ new.payload.bytes = bytes
    BY <2>2, <2>4 DEF Fresh
  <2>9. /\ c \in Places /\ cur \in Seq(Places) /\ Len(cur) = m + 1
    BY <1>2, <2>1, <2>3, LaidPlaces DEF Laid
  <2> HIDE DEF c, new, bytes
  <2>10. d \in Places
    BY <1>2, <2>3, <2>9, PastPlace DEF Types
  <2>11. /\ Fits(started, c, bytes) /\ Rest(w, d)
    BY <2>2, <2>4
  <2> HIDE DEF d, m
  <2>12. /\ wire' \in Seq(Records) /\ Len(wire') = m + 1 /\ wire'[m + 1] = new
         /\ \A i \in 1 .. m : wire'[i] = wire[i]
    BY <2>3, <2>6, <2>7 DEF m
  <2>13. Types'
    BY <1>1, <1>2, <1>3, <1>4, <2>12 DEF Types
  <2>14. Returned' /\ Asking'
    <3>1. Returned'
      BY <1>1, <1>2, <1>3 DEF Returned
    <3>2. Asking'
      BY <1>1, <1>2, <1>3 DEF Asking
    <3> QED  BY <3>1, <3>2
  <2>15. Sealed'
    <3> SUFFICES ASSUME NEW i \in 1 .. Len(wire')
                 PROVE  /\ wire'[i].size.size = Len(wire'[i].payload.bytes)
                        /\ wire'[i].size.nonce = readNonce + 2 * (i - 1)
                        /\ wire'[i].payload.nonce = readNonce + 2 * (i - 1) + 1
                        /\ wire'[i].payload.bytes # <<>>
      BY <1>3 DEF Sealed
    <3>1. CASE i \in 1 .. m
      BY <1>2, <2>12, <3>1 DEF Sealed, m
    <3>2. CASE i = m + 1
      <4>1. i - 1 = m
        BY <2>3, <3>2 DEF m
      <4> QED  BY <2>8, <2>12, <3>2, <4>1
    <3>3. i \in 1 .. m \/ i = m + 1
      BY <2>3, <2>12 DEF m
    <3> QED  BY <3>1, <3>2, <3>3
  <2>16. InFlight'
    <3>1. PICK places : places = Append(cur, d)
      OBVIOUS
    <3>2. /\ places \in Seq(Places) /\ Len(places) = m + 2 /\ places[m + 2] = d
          /\ \A i \in 1 .. m + 1 : places[i] = cur[i]
      BY <2>3, <2>9, <2>10, <3>1 DEF m
    <3>3. Front' = Front /\ Back' = Back
      BY <1>1, <1>3 DEF Front, Back
    <3>4. Laid(places)'
      <4> DEFINE pastGot == Past(started, Front, got)
      <4>1. /\ Fits(started, Front, got) /\ Fits(started, pastGot, leftover)
            /\ cur[1] = Past(started, pastGot, leftover)
            /\ \A i \in 1 .. m :
                 /\ Fits(started, cur[i], wire[i].payload.bytes)
                 /\ cur[i + 1] = Past(started, cur[i], wire[i].payload.bytes)
        BY <2>1 DEF Laid, m
      <4>2. Len(places) = Len(wire') + 1 /\ places[1] = cur[1]
        BY <2>3, <2>12, <3>2 DEF m
      <4>3. ASSUME NEW i \in 1 .. Len(wire')
            PROVE  /\ Fits(started, places[i], wire'[i].payload.bytes)
                   /\ places[i + 1] = Past(started, places[i], wire'[i].payload.bytes)
        <5>1. CASE i \in 1 .. m
          <6>1. places[i] = cur[i] /\ places[i + 1] = cur[i + 1] /\ wire'[i] = wire[i]
            BY <2>3, <2>12, <3>2, <5>1 DEF m
          <6> QED  BY <4>1, <5>1, <6>1
        <5>2. CASE i = m + 1
          <6>1. i + 1 = m + 2
            BY <2>3, <5>2 DEF m
          <6>2. places[i] = c /\ places[i + 1] = d /\ wire'[i] = new
            BY <2>3, <2>12, <3>2, <5>2, <6>1 DEF m, c
          <6> QED  BY <2>8, <2>11, <6>2 DEF d
        <5>3. i \in 1 .. m \/ i = m + 1
          BY <2>3, <2>12 DEF m
        <5> QED  BY <5>1, <5>2, <5>3
      <4> HIDE DEF pastGot
      <4>4. Past(started', Front', got') = pastGot
        BY <1>1, <1>3, <3>3 DEF pastGot
      <4> QED  BY <1>1, <1>3, <3>2, <3>3, <4>1, <4>2, <4>3, <4>4 DEF Laid
    <3>5. Writing(places[Len(wire) + 1])'
      <4>1. places[Len(wire') + 1] = d
        <5>1. Len(wire') + 1 = m + 2
          BY <2>3, <2>12 DEF m
        <5> QED  BY <3>2, <5>1
      <4>2. at'[w] = "fill"
        BY <1>5, <1>7
      <4>3. nonce' = Fresh'
        BY <1>1, <1>3, <2>2, <2>3, <2>12 DEF Fresh, m
      <4>4. PICK e : e = d
        OBVIOUS
      <4>5. Rest(w, e)'
        BY <1>1, <2>11, <3>3, <4>4 DEF Rest
      <4>6. Writing(e)'
        BY <1>5, <4>2, <4>3, <4>5 DEF Writing
      <4>7. e = places[Len(wire') + 1]
        BY <4>1, <4>4
      <4> QED  BY <4>6, <4>7
    <3> QED  BY <3>4, <3>5 DEF InFlight
  <2> QED  BY <1>5, <2>13, <2>14, <2>15, <2>16 DEF OneWriterInv
<1> QED  BY <1>6, <1>7

LEMMA CutInv ==
    ASSUME OneWriterInv, Cut
    PROVE  OneWriterInv'
<1>1. cut' = TRUE /\ UNCHANGED <<writeVars, readVars>>
  BY DEF Cut
<1>2. /\ UNCHANGED <<next, at, src, nr, nonce, sizeBuf, payloadBuf, started>>
      /\ UNCHANGED <<readNonce, leftover, got, want, reading, received>>
  BY <1>1 DEF writeVars, readVars
<1>3. PICK n \in 0 .. Len(wire) : wire' = SubSeq(wire, 1, n)
  BY DEF Cut
<1>4. Types /\ Single /\ Returned /\ Asking /\ Sealed /\ InFlight
  BY DEF OneWriterInv
<1>5. wire \in Seq(Records) /\ Len(wire) \in Nat /\ n \in Nat /\ n =< Len(wire)
  BY <1>4 DEF Types
<1>6. /\ wire' \in Seq(Records) /\ Len(wire') = n
      /\ \A i \in 1 .. n : wire'[i] = wire[i]
  BY <1>3, <1>5
<1>7. Types'
  BY <1>1, <1>2, <1>4, <1>6 DEF Types
<1>8. Single' /\ Returned'
  BY <1>2, <1>4 DEF Single, Returned
<1>9. Asking'
  BY <1>1, <1>2, <1>4 DEF Asking
<1>10. Sealed'
  <2>1. \A i \in 1 .. n : i \in 1 .. Len(wire) /\ wire'[i] = wire[i]
    BY <1>5, <1>6
  <2> QED  BY <1>2, <1>4, <1>6, <2>1 DEF Sealed
<1>11. InFlight'
  <2>1. PICK cur : Laid(cur)
    BY <1>4 DEF InFlight
  <2>2. cur \in Seq(Places) /\ Len(cur) = Len(wire) + 1
    BY <2>1 DEF Laid
  <2>3. PICK places : places = SubSeq(cur, 1, n + 1)
    OBVIOUS
  <2>4. /\ places \in Seq(Places) /\ Len(places) = n + 1
        /\ \A i \in 1 .. n + 1 : places[i] = cur[i]
    BY <1>5, <2>2, <2>3
  <2>5. \A i \in 1 .. n : places[i] = cur[i] /\ places[i + 1] = cur[i + 1]
    BY <1>5, <2>4
  <2>6. Front' = Front /\ places[1] = cur[1]
    BY <1>2, <1>5, <2>4 DEF Front
  <2>7. \A i \in 1 .. n :
           /\ Fits(started, cur[i], wire[i].payload.bytes)
           /\ cur[i + 1] = Past(started, cur[i], wire[i].payload.bytes)
    BY <1>5, <2>1 DEF Laid
  <2>8. \A i \in 1 .. n :
           /\ Fits(started', places[i], wire'[i].payload.bytes)
           /\ places[i + 1] = Past(started', places[i], wire'[i].payload.bytes)
    BY <1>2, <1>6, <2>5, <2>7
  <2>9. Laid(places)'
    BY <1>2, <1>6, <2>1, <2>4, <2>6, <2>8 DEF Laid
  <2> QED  BY <1>1, <2>9 DEF InFlight
<1> QED  BY <1>7, <1>8, <1>9, <1>10, <1>11 DEF OneWriterInv

-----------------------------------------------------------------------------
(* The reader *)

\* Bytes that follow got: some join it, the others stay.
LEMMA CopyOutFits ==
    ASSUME Types, Asking, reading # "failed", Len(got) < want,
           Fits(started, Front, got), NEW bytes \in Seq(Octets), bytes # <<>>,
           Fits(started, Past(started, Front, got), bytes), CopyOut(bytes)
    PROVE  /\ got' \in Seq(Octets) /\ leftover' \in Seq(Octets)
           /\ Len(got') =< want /\ got' # <<>>
           /\ Fits(started, Front, got')
           /\ Fits(started, Past(started, Front, got'), leftover')
           /\ Past(started, Past(started, Front, got'), leftover')
                = Past(started, Past(started, Front, got), bytes)
<1> DEFINE missing == want - Len(got)
           n == IF Len(bytes) < missing THEN Len(bytes) ELSE missing
           first == SubSeq(bytes, 1, n)
           k == Len(received) + 1
           pastGot == Past(started, Front, got)
<1>1. got' = got \o first /\ leftover' = After(bytes, n)
  BY DEF CopyOut, Keep
<1>2. /\ got \in Seq(Octets) /\ started \in Seq(Blocks) /\ Len(got) \in Nat /\ want \in Nat
      /\ k \in Nat /\ Len(bytes) \in Nat
  BY DEF Types
<1>3. Len(bytes) > 0
  OBVIOUS
<1>4. n \in 1 .. Len(bytes) /\ n =< want - Len(got)
  BY <1>2, <1>3
<1> HIDE DEF n
<1>5. /\ first \in Seq(Octets) /\ Len(first) = n /\ first # <<>>
      /\ \A i \in 1 .. n : first[i] = bytes[i]
  BY <1>2, <1>4
<1>6. Front = <<k, 0>> /\ Front \in Places
  BY <1>2 DEF Front, Places
<1>7. pastGot \in Places
  BY <1>2, <1>6, PastPlace
<1> HIDE DEF first, pastGot, k
<1>8. /\ Fits(started, pastGot, first)
      /\ Fits(started, Past(started, pastGot, first), After(bytes, n))
      /\ Past(started, Past(started, pastGot, first), After(bytes, n))
           = Past(started, pastGot, bytes)
  BY <1>2, <1>4, <1>5, <1>7, SplitFits DEF pastGot
<1>9. k \in 1 .. Len(started) => Len(got) < Size(started[k])
  <2> SUFFICES ASSUME k \in 1 .. Len(started)
               PROVE  Len(got) < Size(started[k])
    OBVIOUS
  <2>1. Size(started[k]) \in Nat /\ Size(started[k]) >= HeaderSize
    BY <1>2, BlockSize
  <2>2. want = HeaderSize \/ want = Size(started[k])
    BY DEF Asking, Types, k
  <2> QED  BY <1>2, <2>1, <2>2
<1>10. /\ Fits(started, Front, got \o first)
       /\ Past(started, Front, got \o first) = Past(started, pastGot, first)
  <2>1. /\ Fits(started, <<k, 0>>, got) /\ pastGot = Past(started, <<k, 0>>, got)
    BY <1>6 DEF pastGot
  <2> QED  BY <1>2, <1>5, <1>6, <1>8, <1>9, <2>1, JoinFits
<1>11. /\ got \o first \in Seq(Octets) /\ Len(got \o first) = Len(got) + Len(first)
       /\ Len(got \o first) =< want /\ got \o first # <<>>
  <2>1. got \o first \in Seq(Octets) /\ Len(got \o first) = Len(got) + Len(first)
    BY <1>2, <1>5, ConcatProperties
  <2> QED  BY <1>2, <1>4, <1>5, <2>1
<1>12. After(bytes, n) \in Seq(Octets)
  BY <1>4, AfterBytes
<1> QED  BY <1>1, <1>8, <1>10, <1>11, <1>12 DEF pastGot

LEMMA ReadLeftoverInv ==
    ASSUME OneWriterInv, ReadLeftover
    PROVE  OneWriterInv'
<1>1. /\ reading # "failed" /\ Len(got) < want /\ leftover # <<>> /\ CopyOut(leftover)
      /\ UNCHANGED <<writeVars, wire, cut, readNonce, want, reading, received>>
  BY DEF ReadLeftover, HasLeftover
<1>2. UNCHANGED <<next, at, src, nr, nonce, sizeBuf, payloadBuf, started>>
  BY <1>1 DEF writeVars
<1>3. Types /\ Single /\ Returned /\ Asking /\ Sealed /\ InFlight
  BY DEF OneWriterInv
<1>4. PICK cur : Laid(cur) /\ (~cut => Writing(cur[Len(wire) + 1]))
  BY <1>3 DEF InFlight
<1>5. /\ cur \in Seq(Places) /\ Len(cur) = Len(wire) + 1
      /\ Fits(started, Front, got)
      /\ Fits(started, Past(started, Front, got), leftover)
      /\ cur[1] = Past(started, Past(started, Front, got), leftover)
      /\ \A i \in 1 .. Len(wire) :
           /\ Fits(started, cur[i], wire[i].payload.bytes)
           /\ cur[i + 1] = Past(started, cur[i], wire[i].payload.bytes)
  BY <1>4 DEF Laid
<1>6. leftover \in Seq(Octets)
  BY <1>3 DEF Types
<1>7. /\ got' \in Seq(Octets) /\ leftover' \in Seq(Octets)
      /\ Len(got') =< want /\ got' # <<>>
      /\ Fits(started, Front, got')
      /\ Fits(started, Past(started, Front, got'), leftover')
      /\ Past(started, Past(started, Front, got'), leftover') = cur[1]
  BY <1>1, <1>3, <1>5, <1>6, CopyOutFits
<1>8. Types'
  BY <1>1, <1>2, <1>3, <1>7 DEF Types
<1>9. Single' /\ Returned' /\ Sealed'
  BY <1>1, <1>2, <1>3 DEF Single, Returned, Sealed
<1>10. Asking'
  BY <1>1, <1>2, <1>3, <1>7 DEF Asking
<1>11. Front' = Front /\ Fresh' = Fresh
  BY <1>1 DEF Front, Fresh
<1>12. Laid(cur)'
  BY <1>1, <1>2, <1>5, <1>7, <1>11 DEF Laid
<1>13. ~cut' => Writing(cur[Len(wire) + 1])'
  <2>1. PICK c : c = cur[Len(wire) + 1]
    OBVIOUS
  <2>2. c = cur[Len(wire') + 1]
    BY <1>1, <2>1
  <2>3. ~cut => Writing(c)'
    BY <1>1, <1>4, <1>11, <2>1, SameWriting
  <2> QED  BY <1>1, <2>2, <2>3
<1>14. InFlight'
  BY <1>12, <1>13 DEF InFlight
<1> QED  BY <1>8, <1>9, <1>10, <1>14 DEF OneWriterInv

LEMMA ReadRecordInv ==
    ASSUME OneWriterInv, ReadRecord
    PROVE  OneWriterInv'
<1> DEFINE bytes == Head(wire).payload.bytes
           m == Len(wire)
<1>1. /\ reading # "failed" /\ Len(got) < want /\ leftover = <<>> /\ wire # <<>>
      /\ CopyOut(bytes) /\ wire' = Tail(wire) /\ readNonce' = readNonce + 2
      /\ UNCHANGED <<writeVars, cut, want, reading, received>>
  <2>1. readNonce \in Nat /\ readNonce' = (readNonce + 1) + 1
    BY DEF ReadRecord, increment, OneWriterInv, Types
  <2> QED  BY <2>1 DEF ReadRecord
<1>2. UNCHANGED <<next, at, src, nr, nonce, sizeBuf, payloadBuf, started>>
  BY <1>1 DEF writeVars
<1>3. Types /\ Single /\ Returned /\ Asking /\ Sealed /\ InFlight
  BY DEF OneWriterInv
<1>4. PICK cur : Laid(cur) /\ (~cut => Writing(cur[m + 1]))
  BY <1>3 DEF InFlight
<1>5. /\ cur \in Seq(Places) /\ Len(cur) = m + 1
      /\ Fits(started, Front, got)
      /\ cur[1] = Past(started, Past(started, Front, got), leftover)
      /\ \A i \in 1 .. m :
           /\ Fits(started, cur[i], wire[i].payload.bytes)
           /\ cur[i + 1] = Past(started, cur[i], wire[i].payload.bytes)
  BY <1>4 DEF Laid
<1>6. wire \in Seq(Records) /\ m \in Nat /\ m > 0 /\ readNonce \in Nat
  BY <1>1, <1>3 DEF Types
<1>7. /\ wire' \in Seq(Records) /\ Len(wire') = m - 1 /\ Head(wire) = wire[1]
      /\ \A i \in 1 .. m - 1 : wire'[i] = wire[i + 1]
  BY <1>1, <1>6
<1>8. bytes \in Seq(Octets)
  <2>1. Head(wire) \in Records
    BY <1>6, <1>7
  <2> QED  BY <2>1 DEF Records, Payloads
<1>9. bytes # <<>> /\ Fits(started, cur[1], bytes) /\ cur[2] = Past(started, cur[1], bytes)
  <2>1. 1 \in 1 .. m
    BY <1>6
  <2>2. wire[1].payload.bytes # <<>>
    BY <1>3, <2>1 DEF Sealed
  <2>3. 1 + 1 = 2
    OBVIOUS
  <2> QED  BY <1>5, <1>7, <2>1, <2>2, <2>3
<1>10. cur[1] = Past(started, Front, got)
  BY <1>1, <1>5 DEF Past
<1> HIDE DEF bytes, m
<1>11. /\ got' \in Seq(Octets) /\ leftover' \in Seq(Octets)
       /\ Len(got') =< want /\ got' # <<>>
       /\ Fits(started, Front, got')
       /\ Fits(started, Past(started, Front, got'), leftover')
       /\ Past(started, Past(started, Front, got'), leftover') = cur[2]
  BY <1>1, <1>3, <1>5, <1>8, <1>9, <1>10, CopyOutFits
<1>12. Types'
  <2>1. readNonce' \in Nat
    BY <1>1, <1>6
  <2> QED  BY <1>1, <1>2, <1>3, <1>7, <1>11, <2>1 DEF Types
<1>13. Single' /\ Returned'
  BY <1>1, <1>2, <1>3 DEF Single, Returned
<1>14. Asking'
  BY <1>1, <1>2, <1>3, <1>11 DEF Asking
<1>15. Sealed'
  <2> SUFFICES ASSUME NEW i \in 1 .. Len(wire')
               PROVE  /\ wire'[i].size.size = Len(wire'[i].payload.bytes)
                      /\ wire'[i].size.nonce = readNonce' + 2 * (i - 1)
                      /\ wire'[i].payload.nonce = readNonce' + 2 * (i - 1) + 1
                      /\ wire'[i].payload.bytes # <<>>
    BY DEF Sealed
  <2>1. /\ i \in 1 .. m - 1 /\ i + 1 \in 1 .. m
        /\ readNonce + 2 * ((i + 1) - 1) = readNonce' + 2 * (i - 1)
    BY <1>1, <1>6, <1>7
  <2>2. wire'[i] = wire[i + 1]
    BY <1>7, <2>1
  <2>3. /\ wire[i + 1].size.size = Len(wire[i + 1].payload.bytes)
        /\ wire[i + 1].size.nonce = readNonce + 2 * ((i + 1) - 1)
        /\ wire[i + 1].payload.nonce = readNonce + 2 * ((i + 1) - 1) + 1
        /\ wire[i + 1].payload.bytes # <<>>
    BY <1>3, <2>1 DEF Sealed, m
  <2> QED  BY <2>1, <2>2, <2>3
<1>16. Front' = Front /\ Fresh' = Fresh
  <2>1. Front' = Front
    BY <1>1 DEF Front
  <2>2. readNonce' + 2 * (m - 1) = readNonce + 2 * m
    BY <1>1, <1>6
  <2> QED  BY <1>7, <2>1, <2>2 DEF Fresh, m
<1>17. PICK places : places = Tail(cur)
  OBVIOUS
<1>18. /\ places \in Seq(Places) /\ Len(places) = m
       /\ \A i \in 1 .. m : places[i] = cur[i + 1]
  BY <1>5, <1>6, <1>17
<1>19. Laid(places)'
  <2>1. ASSUME NEW i \in 1 .. Len(wire')
        PROVE  /\ Fits(started, places[i], wire'[i].payload.bytes)
               /\ places[i + 1] = Past(started, places[i], wire'[i].payload.bytes)
    <3>1. i + 1 \in 1 .. m /\ i \in 1 .. m /\ i \in 1 .. m - 1
      BY <1>6, <1>7
    <3>2. /\ places[i] = cur[i + 1] /\ places[i + 1] = cur[(i + 1) + 1]
          /\ wire'[i] = wire[i + 1]
      BY <1>7, <1>18, <3>1
    <3> QED  BY <1>5, <3>1, <3>2
  <2>2. Len(places) = Len(wire') + 1 /\ places[1] = cur[2]
    BY <1>6, <1>7, <1>18
  <2> QED  BY <1>2, <1>11, <1>16, <1>18, <2>1, <2>2 DEF Laid
<1>20. ~cut' => Writing(places[Len(wire) + 1])'
  <2>1. PICK c : c = cur[m + 1]
    OBVIOUS
  <2>2. c = places[Len(wire') + 1]
    BY <1>6, <1>7, <1>18, <2>1
  <2>3. ~cut => Writing(c)'
    BY <1>1, <1>4, <1>16, <2>1, SameWriting
  <2> QED  BY <1>1, <2>2, <2>3
<1>21. InFlight'
  BY <1>19, <1>20 DEF InFlight
<1> QED  BY <1>12, <1>13, <1>14, <1>15, <1>21 DEF OneWriterInv

\* Reading fails only at the end of a cut connection.
LEMMA ReadFailsInv ==
    ASSUME OneWriterInv, ReadFails
    PROVE  OneWriterInv'
<1>1. /\ reading' = "failed"
      /\ UNCHANGED <<writeVars, wire, cut, readNonce, leftover, got, want, received>>
  BY DEF ReadFails
<1>2. UNCHANGED <<next, at, src, nr, nonce, sizeBuf, payloadBuf, started>>
  BY <1>1 DEF writeVars
<1>3. Types /\ Single /\ Returned /\ Asking /\ Sealed /\ InFlight
  BY DEF OneWriterInv
<1>4. wire # <<>> => Opens(Head(wire))
  <2> SUFFICES ASSUME wire # <<>>
               PROVE  Opens(Head(wire))
    OBVIOUS
  <2>1. Head(wire) = wire[1] /\ 1 \in 1 .. Len(wire) /\ readNonce \in Nat
    BY <1>3 DEF Types
  <2>2. /\ wire[1].size.size = Len(wire[1].payload.bytes)
        /\ wire[1].size.nonce = readNonce + 2 * (1 - 1)
        /\ wire[1].payload.nonce = readNonce + 2 * (1 - 1) + 1
    BY <1>3, <2>1 DEF Sealed
  <2>3. readNonce + 2 * (1 - 1) = readNonce
    BY <2>1
  <2> QED  BY <2>1, <2>2, <2>3 DEF Opens, increment
<1>5. cut
  BY <1>4 DEF ReadFails
<1>6. Types'
  BY <1>1, <1>2, <1>3 DEF Types
<1>7. Single' /\ Returned' /\ Sealed'
  BY <1>1, <1>2, <1>3 DEF Single, Returned, Sealed
<1>8. Asking'
  BY <1>1, <1>3, <1>5 DEF Asking
<1>9. InFlight'
  <2>1. PICK cur : Laid(cur)
    BY <1>3 DEF InFlight
  <2>2. Laid(cur)'
    BY <1>1, <1>2, <2>1, SameLaid
  <2> QED  BY <1>1, <1>5, <2>2 DEF InFlight
<1> QED  BY <1>6, <1>7, <1>8, <1>9 DEF OneWriterInv

\* The header is that of the block being read.
LEMMA ReadHeaderInv ==
    ASSUME OneWriterInv, ReadHeader
    PROVE  OneWriterInv'
<1> DEFINE k == Len(received) + 1
<1>1. /\ reading = "header" /\ Len(got) = want /\ reading' = "data"
      /\ UNCHANGED <<writeVars, wire, cut, readNonce, leftover, got, received>>
  BY DEF ReadHeader
<1>2. UNCHANGED <<next, at, src, nr, nonce, sizeBuf, payloadBuf, started>>
  BY <1>1 DEF writeVars
<1>3. Types /\ Single /\ Returned /\ Asking /\ Sealed /\ InFlight
  BY DEF OneWriterInv
<1>4. PICK cur : Laid(cur) /\ (~cut => Writing(cur[Len(wire) + 1]))
  BY <1>3 DEF InFlight
<1>5. /\ got \in Seq(Octets) /\ started \in Seq(Blocks) /\ k \in Nat
      /\ HeaderSize \in Nat /\ HeaderSize > 0 /\ Len(got) = HeaderSize
  BY <1>1, <1>3, SizesPositive DEF Types, Asking
<1>6. got # <<>>
  BY <1>5
<1>7. /\ k \in 1 .. Len(started)
      /\ \A i \in 1 .. HeaderSize : got[i] = [of |-> started[k], at |-> i]
  <2>1. Fits(started, Front, got) /\ Front[1] = k /\ Front[2] = 0
    BY <1>4 DEF Laid, Front
  <2>2. /\ k \in 1 .. Len(started)
        /\ \A i \in 1 .. Len(got) : got[i] = [of |-> started[k], at |-> 0 + i]
    BY <1>6, <2>1 DEF Fits
  <2> QED  BY <1>5, <2>2
<1>8. started[k] \in Blocks
  BY <1>5, <1>7
<1>9. Size(started[k]) \in Nat /\ Size(started[k]) >= HeaderSize
  BY <1>8, BlockSize
<1> HIDE DEF k
<1>10. BlockLength(got) = {started[k].length}
  <2>1. \A i \in 1 .. HeaderSize : got[i] # Junk
    <3> SUFFICES ASSUME NEW i \in 1 .. HeaderSize
                 PROVE  got[i] # Junk
      OBVIOUS
    <3>1. [of |-> started[k], at |-> i] \in [of : Blocks, at : Nat]
      BY <1>5, <1>8
    <3> QED  BY <1>7, <3>1, JunkAssumption
  <2>2. 1 \in 1 .. HeaderSize
    BY <1>5
  <2>3. \A i \in 1 .. HeaderSize : got[i].of = started[k] /\ got[i].at = i
    <3> SUFFICES ASSUME NEW i \in 1 .. HeaderSize
                 PROVE  got[i].of = started[k] /\ got[i].at = i
      OBVIOUS
    <3>1. got[i] = [of |-> started[k], at |-> i]
      BY <1>7
    <3>2. /\ [of |-> started[k], at |-> i].of = started[k]
          /\ [of |-> started[k], at |-> i].at = i
      OBVIOUS
    <3> QED  BY <3>1, <3>2, Zenon
  <2>4. got[1].of = started[k]
    BY <2>2, <2>3
  <2> QED  BY <2>1, <2>3, <2>4, Zenon DEF BlockLength
<1>11. want' = Size(started[k])
  BY <1>10 DEF ReadHeader, Size
<1>12. Types'
  BY <1>1, <1>2, <1>3, <1>9, <1>11 DEF Types
<1>13. Single' /\ Returned' /\ Sealed'
  BY <1>1, <1>2, <1>3 DEF Single, Returned, Sealed
<1>14. Asking'
  <2>1. Len(got') =< want' /\ got' # <<>>
    BY <1>1, <1>5, <1>6, <1>9, <1>11
  <2>2. want' = Size(started'[Len(received') + 1])
    BY <1>1, <1>2, <1>11 DEF k
  <2> QED  BY <1>1, <2>1, <2>2 DEF Asking
<1>15. InFlight'
  <2>1. Laid(cur)'
    BY <1>1, <1>2, <1>4, SameLaid
  <2>2. Fresh' = Fresh
    BY <1>1 DEF Fresh
  <2>3. PICK c : c = cur[Len(wire) + 1]
    OBVIOUS
  <2>4. c = cur[Len(wire') + 1]
    BY <1>1, <2>3
  <2>5. ~cut => Writing(c)'
    BY <1>1, <1>4, <2>2, <2>3, SameWriting
  <2>6. ~cut' => Writing(cur[Len(wire) + 1])'
    BY <1>1, <2>4, <2>5
  <2> QED  BY <2>1, <2>6 DEF InFlight
<1> QED  BY <1>12, <1>13, <1>14, <1>15 DEF OneWriterInv

\* The block that is returned is the next one that was written.
LEMMA ReturnBlockInv ==
    ASSUME OneWriterInv, ReturnBlock
    PROVE  OneWriterInv'
<1> DEFINE k == Len(received) + 1
<1>1. /\ reading = "data" /\ Len(got) = want /\ received' = Append(received, got)
      /\ got' = <<>> /\ want' = HeaderSize /\ reading' = "header"
      /\ UNCHANGED <<writeVars, wire, cut, readNonce, leftover>>
  BY DEF ReturnBlock
<1>2. UNCHANGED <<next, at, src, nr, nonce, sizeBuf, payloadBuf, started>>
  BY <1>1 DEF writeVars
<1>3. Types /\ Single /\ Returned /\ Asking /\ Sealed /\ InFlight
  BY DEF OneWriterInv
<1>4. PICK cur : Laid(cur) /\ (~cut => Writing(cur[Len(wire) + 1]))
  BY <1>3 DEF InFlight
<1>5. /\ got \in Seq(Octets) /\ started \in Seq(Blocks) /\ k \in Nat
      /\ received \in Seq(Seq(Octets)) /\ Len(received) \in Nat
      /\ got # <<>> /\ Len(got) = Size(started[k])
  BY <1>1, <1>3 DEF Types, Asking
<1>6. /\ k \in 1 .. Len(started)
      /\ \A i \in 1 .. Len(got) : got[i] = [of |-> started[k], at |-> i]
  <2>1. Fits(started, Front, got) /\ Front[1] = k /\ Front[2] = 0
    BY <1>4 DEF Laid, Front
  <2>2. /\ k \in 1 .. Len(started)
        /\ \A i \in 1 .. Len(got) : got[i] = [of |-> started[k], at |-> 0 + i]
    BY <1>5, <2>1 DEF Fits
  <2>3. Len(got) \in Nat
    BY <1>5
  <2> QED  BY <2>2, <2>3
<1>7. started[k] \in Blocks
  BY <1>5, <1>6
<1>8. got = Pack(started[k])
  <2>1. /\ Pack(started[k]) \in Seq(Octets) /\ Len(Pack(started[k])) = Size(started[k])
        /\ \A i \in 1 .. Size(started[k]) :
             Pack(started[k])[i] = [of |-> started[k], at |-> i]
    BY <1>7, PackBytes
  <2>2. /\ Len(got) = Len(Pack(started[k]))
        /\ \A i \in 1 .. Len(got) : got[i] = Pack(started[k])[i]
    BY <1>5, <1>6, <2>1
  <2> QED  BY <1>5, <2>1, <2>2, SeqEqual
<1>9. /\ received' \in Seq(Seq(Octets)) /\ Len(received') = k /\ received'[k] = got
      /\ \A i \in 1 .. Len(received) : received'[i] = received[i]
  BY <1>1, <1>5
<1>10. Past(started, Front, got) = Front'
  <2>1. Front = <<k, 0>> /\ Front' = <<k + 1, 0>>
    BY <1>9 DEF Front
  <2>2. Past(started, <<k, 0>>, got) = Advance(started, k, 0 + Len(got))
    BY <1>5 DEF Past
  <2>3. 0 + Len(got) = Size(started[k])
    BY <1>5
  <2> QED  BY <2>1, <2>2, <2>3 DEF Advance
<1>11. Types'
  <2>1. got' \in Seq(Octets) /\ want' \in Nat
    BY <1>1, SizesPositive
  <2> QED  BY <1>1, <1>2, <1>3, <1>9, <2>1 DEF Types
<1>12. Single' /\ Sealed'
  BY <1>1, <1>2, <1>3 DEF Single, Sealed
<1>13. Returned'
  <2>1. Len(received') =< Len(started)
    BY <1>5, <1>6, <1>9
  <2>2. ASSUME NEW i \in 1 .. Len(received')
        PROVE  received'[i] = Pack(started[i])
    <3>1. CASE i = k
      BY <1>8, <1>9, <3>1
    <3>2. CASE i # k
      <4>1. i \in 1 .. Len(received)
        BY <1>5, <1>9, <3>2
      <4> QED  BY <1>3, <1>9, <4>1 DEF Returned
    <3> QED  BY <3>1, <3>2
  <2> QED  BY <1>2, <2>1, <2>2 DEF Returned
<1>14. Asking'
  <2>1. Len(got') = 0 /\ 0 =< HeaderSize
    BY <1>1, SizesPositive
  <2> QED  BY <1>1, <2>1 DEF Asking
<1>15. Laid(cur)'
  <2>1. /\ Past(started', Front', got') = Past(started, Front, got)
        /\ Fits(started', Front', got')
    BY <1>1, <1>2, <1>10 DEF Past, Fits
  <2> QED  BY <1>1, <1>2, <1>4, <2>1 DEF Laid
<1>16. InFlight'
  <2>1. Fresh' = Fresh
    BY <1>1 DEF Fresh
  <2>2. PICK c : c = cur[Len(wire) + 1]
    OBVIOUS
  <2>3. c = cur[Len(wire') + 1]
    BY <1>1, <2>2
  <2>4. ~cut => Writing(c)'
    BY <1>1, <1>4, <2>1, <2>2, SameWriting
  <2>5. ~cut' => Writing(cur[Len(wire) + 1])'
    BY <1>1, <2>3, <2>4
  <2> QED  BY <1>15, <2>5 DEF InFlight
<1> QED  BY <1>11, <1>12, <1>13, <1>14, <1>16 DEF OneWriterInv

-----------------------------------------------------------------------------
(* Every step *)

\* The handshake and steps of others.
LEMMA SameInv ==
    ASSUME OneWriterInv, UNCHANGED <<writeVars, wire, cut, readVars>>
    PROVE  OneWriterInv'
<1>1. UNCHANGED <<next, at, src, nr, nonce, sizeBuf, payloadBuf, started>>
  BY DEF writeVars
<1>2. UNCHANGED <<readNonce, leftover, got, want, reading, received>>
  BY DEF readVars
<1>3. Types /\ Single
  BY DEF OneWriterInv
<1>4. Types'
  BY <1>1, <1>2, <1>3 DEF Types
<1>5. Single'
  BY <1>1, <1>3 DEF Single
<1>6. Fresh' = Fresh
  BY <1>2 DEF Fresh
<1>7. \A c \in Places : Writing(c) => Writing(c)'
  BY <1>6, SameWriting
<1> QED  BY <1>1, <1>4, <1>5, <1>7, InsideWrite

LEMMA NextInv ==
    ASSUME StreamInv, [Next]_vars
    PROVE  StreamInv'
<1> SUFFICES ASSUME ~overlapped'
             PROVE  OneWriterInv'
  BY DEF StreamInv
<1>1. CASE \E w \in Writers : Write(w)
  <2>1. PICK w \in Writers : Write(w)
    BY <1>1
  <2>2. ~overlapped
    BY <2>1 DEF Write, StartWrite, Fill, SealSize, SealPayload, Emit, Return
  <2>3. OneWriterInv
    BY <2>2 DEF StreamInv
  <2> QED  BY <2>1, <2>3, StartWriteInv, FillInv, SealSizeInv, SealPayloadInv, EmitInv,
              ReturnInv DEF Write
<1>2. CASE ~ \E w \in Writers : Write(w)
  <2>1. overlapped' = overlapped
    BY <1>2 DEF Next, InitWriter, Cut, NewBlockFromReader, InitReader, ReadLeftover,
                ReadRecord, ReadFails, ReadHeader, ReturnBlock, vars, writeVars
  <2>2. OneWriterInv
    BY <2>1 DEF StreamInv
  <2>3. CASE InitWriter \/ InitReader \/ UNCHANGED vars
    <3>1. UNCHANGED <<writeVars, wire, cut, readVars>>
      BY <2>3 DEF InitWriter, InitReader, vars
    <3> QED  BY <2>2, <3>1, SameInv
  <2> QED  BY <1>2, <2>2, <2>3, CutInv, ReadLeftoverInv, ReadRecordInv, ReadFailsInv,
              ReadHeaderInv, ReturnBlockInv DEF Next, NewBlockFromReader
<1> QED  BY <1>1, <1>2

LEMMA StreamInvariant == Spec => []StreamInv
<1>1. Init => StreamInv
  BY InitInv DEF StreamInv
<1>2. StreamInv /\ [Next]_vars => StreamInv'
  BY NextInv
<1> QED  BY <1>1, <1>2, PTL DEF Spec

\* Whatever the sizes of blocks and records, wherever the reads end and the
\* connection is cut, NewBlockFromReader (block.go) returns the blocks that
\* were packed, whole and in order, as long as streamConn's Write (tunnel.go)
\* is called by one goroutine at a time.
THEOREM WholeBlocksCorrectness == Spec => []WholeBlocks
<1>1. StreamInv => WholeBlocks
  BY DEF StreamInv, OneWriterInv, Returned, WholeBlocks
<1> QED  BY <1>1, StreamInvariant, PTL

\* What the writer's ReadFrom seals, the reader's read can open (tunnel.go): it
\* fails only when the connection was cut or writes overlapped.
THEOREM WrittenCanBeOpenedCorrectness == Spec => []WrittenCanBeOpened
<1>1. StreamInv => WrittenCanBeOpened
  BY DEF StreamInv, OneWriterInv, Asking, WrittenCanBeOpened
<1> QED  BY <1>1, StreamInvariant, PTL
============================================================================
