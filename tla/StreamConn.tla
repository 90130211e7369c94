----------------------------- MODULE StreamConn -----------------------------
(***************************************************************************)
(* One direction of an encrypted tunnel connection: blocks are packed and  *)
(* written to the streamConn, whose writer splits them into records of at  *)
(* most payloadSizeMask bytes and seals each record's size and payload;    *)
(* the far streamConn opens the records, and NewBlockFromReader takes the  *)
(* blocks out of the byte stream again.                                    *)
(*                                                                         *)
(* A byte is known by the block it comes from and its place in it.  The    *)
(* AEAD is ideal: what was sealed under a nonce opens under that nonce     *)
(* only.  The nonces are numbers (12 bytes never wrap) and a sealed buffer *)
(* that is sealed again or overwritten holds Junk.  A size that does not   *)
(* belong to its payload is reported at once, although ReadFull may have   *)
(* to wait for the bytes it asks for before Open fails.                    *)
(***************************************************************************)
EXTENDS Naturals, Sequences, FiniteSets, FiniteSetsExt

CONSTANTS
    Lengths,            \* of the BlockData of the blocks to send, by writer
    HeaderSize,
    payloadSizeMask,
    MayCut,             \* whether the network may cut the connection
    Unsealed,           \* in place of a nonce
    Junk                \* in place of a byte or a size

Writers == DOMAIN Lengths   \* goroutines that call packThenSend

ASSUME SizesAssumption ==
    /\ {HeaderSize, payloadSizeMask} \subseteq Nat \ {0}
    /\ MayCut \in BOOLEAN
    /\ \A w \in Writers : Lengths[w] \in Seq(Nat)
    /\ Unsealed \notin Nat

\* The n-th block of a writer.
Block(w, n) == [writer |-> w, n |-> n, length |-> Lengths[w][n]]
Blocks == UNION {{Block(w, n) : n \in DOMAIN Lengths[w]} : w \in Writers}
MaxLength == Max({b.length : b \in Blocks})

\* Pack: HeaderSize bytes, then the data.
Pack(b) == [i \in 1 .. HeaderSize + b.length |-> [of |-> b, at |-> i]]

ASSUME JunkAssumption == Junk \notin [of : Blocks, at : Nat]

VARIABLES
    salt,               \* "none", "sent" (c.w exists) or "read" (so does c.r)
    next,               \* the block each writer sends next
    at,                 \* where its Write is
    src,                \* what ReadFrom has not yet read of b
    nr,                 \* bytes of the record it is making
    nonce,              \* of the writer
    sizeBuf,            \* the first part of w.buf: a size, and its nonce
    payloadBuf,         \* the second part: bytes, the nonce and how many
                        \* of them were sealed
    wire,               \* records on their way
    cut,                \* the connection is lost
    readNonce,          \* of the reader
    leftover,           \* r.leftover
    got,                \* what NewBlockFromReader has of a block
    want,               \* how much of the block it asks for
    reading,            \* "header", "data" or "failed"
    started,            \* ghost: the blocks written, in the order of the calls
    overlapped,         \* ghost: a Write began while another one ran
    received            \* ghost: what NewBlockFromReader returned

writeVars == <<next, at, src, nr, nonce, sizeBuf, payloadBuf, overlapped, started>>
readVars == <<readNonce, leftover, got, want, reading, received>>
vars == <<salt, writeVars, wire, cut, readVars>>

Init ==
    /\ salt = "none"
    /\ next = [w \in Writers |-> 1]
    /\ at = [w \in Writers |-> "idle"]
    /\ src = [w \in Writers |-> <<>>]
    /\ nr = [w \in Writers |-> 0]
    /\ nonce = 0
    /\ sizeBuf = [size |-> 0, nonce |-> Unsealed]
    /\ payloadBuf = [bytes |-> <<>>, nonce |-> Unsealed]
    /\ wire = <<>>
    /\ cut = FALSE
    /\ readNonce = 0
    /\ leftover = <<>>
    /\ got = <<>>
    /\ want = HeaderSize
    /\ reading = "header"
    /\ overlapped = FALSE
    /\ started = <<>>
    /\ received = <<>>

-----------------------------------------------------------------------------
(* The writer *)

\* The first n of the bytes, or Junk where there are none.
Take(bytes, n) == [i \in 1 .. n |-> IF i =< Len(bytes) THEN bytes[i] ELSE Junk]
After(bytes, n) == SubSeq(bytes, n + 1, Len(bytes))

\* initWriter, during the handshake, before the other writers exist.
InitWriter ==
    /\ salt = "none"
    /\ salt' = "sent"
    /\ UNCHANGED <<writeVars, wire, cut, readVars>>

\* packThenSend calls Write with a packed block.
StartWrite(w) ==
    /\ salt # "none"
    /\ at[w] = "idle"
    /\ next[w] =< Len(Lengths[w])
    /\ src' = [src EXCEPT ![w] = Pack(Block(w, next[w]))]
    /\ next' = [next EXCEPT ![w] = @ + 1]
    /\ at' = [at EXCEPT ![w] = "fill"]
    /\ overlapped' = (overlapped \/ \E v \in Writers : at[v] # "idle")
    /\ started' = Append(started, Block(w, next[w]))
    /\ UNCHANGED <<salt, nr, nonce, sizeBuf, payloadBuf, wire, cut, readVars>>

\* How many bytes r.Read(payloadBuf) returns.
RecordSize(bytes) ==
    IF Len(bytes) < payloadSizeMask THEN Len(bytes) ELSE payloadSizeMask

\* The loop of ReadFrom: the next bytes of b and their number go to w.buf.
Fill(w) ==
    LET n == RecordSize(src[w])
        beyond == IF payloadBuf.nonce = Unsealed THEN After(payloadBuf.bytes, n) ELSE <<>>
    IN  /\ at[w] = "fill"
        /\ src[w] # <<>>
        /\ nr' = [nr EXCEPT ![w] = n]
        /\ sizeBuf' = [size |-> n, nonce |-> Unsealed]
        /\ payloadBuf' = [bytes |-> Take(src[w], n) \o beyond, nonce |-> Unsealed]
        /\ src' = [src EXCEPT ![w] = After(@, n)]
        /\ at' = [at EXCEPT ![w] = "sealSize"]
        /\ UNCHANGED <<salt, next, nonce, overlapped, started, wire, cut, readVars>>

increment(n) == n + 1

\* Mutant of SizeSealed: the payload is sealed under the same nonce.
SizeSealedAgain(n) == n

\* The nonce once the size is sealed.
SizeSealed(n) == increment(n)

\* The size is sealed in place and the nonce incremented.
SealSize(w) ==
    /\ at[w] = "sealSize"
    /\ sizeBuf' = [size |-> IF sizeBuf.nonce = Unsealed THEN sizeBuf.size ELSE Junk,
                   nonce |-> nonce]
    /\ nonce' = SizeSealed(nonce)
    /\ at' = [at EXCEPT ![w] = "sealPayload"]
    /\ UNCHANGED <<salt, next, src, nr, payloadBuf, overlapped, started, wire, cut, readVars>>

\* So is the payload.
SealPayload(w) ==
    LET plain == IF payloadBuf.nonce = Unsealed THEN payloadBuf.bytes ELSE <<>>
    IN  /\ at[w] = "sealPayload"
        /\ payloadBuf' = [bytes |-> Take(plain, nr[w]), nonce |-> nonce]
        /\ nonce' = increment(nonce)
        /\ at' = [at EXCEPT ![w] = "emit"]
        /\ UNCHANGED <<salt, next, src, nr, sizeBuf, overlapped, started, wire, cut, readVars>>

\* w.buf is written to the connection; a cut connection ends this Write.
Emit(w) ==
    LET intact == payloadBuf.nonce # Unsealed /\ Len(payloadBuf.bytes) = nr[w]
    IN  /\ at[w] = "emit"
        /\ at' = [at EXCEPT ![w] = IF cut THEN "idle" ELSE "fill"]
        /\ wire' = IF cut THEN wire
                   ELSE Append(wire, [size |-> sizeBuf,
                                      payload |-> IF intact THEN payloadBuf
                                                  ELSE [bytes |-> Take(<<>>, nr[w]),
                                                        nonce |-> Unsealed]])
        /\ UNCHANGED <<salt, next, src, nr, nonce, sizeBuf, payloadBuf, overlapped, started, cut,
                       readVars>>

\* Everything is written: r.Read returns io.EOF and Write returns.
Return(w) ==
    /\ at[w] = "fill"
    /\ src[w] = <<>>
    /\ at' = [at EXCEPT ![w] = "idle"]
    /\ UNCHANGED <<salt, next, src, nr, nonce, sizeBuf, payloadBuf, overlapped, started, wire, cut,
                   readVars>>

\* The network cuts the connection; some of the last records never arrive.
Cut ==
    /\ MayCut
    /\ ~cut
    /\ cut' = TRUE
    /\ \E n \in 0 .. Len(wire) : wire' = SubSeq(wire, 1, n)
    /\ UNCHANGED <<salt, writeVars, readVars>>

-----------------------------------------------------------------------------
(* The reader *)

\* initReader, on the first Read.
InitReader ==
    /\ salt = "sent"
    /\ salt' = "read"
    /\ UNCHANGED <<writeVars, wire, cut, readVars>>

\* What the header in h says of the length; anything, if it is none.
BlockLength(h) ==
    IF \A i \in 1 .. HeaderSize : h[i] # Junk /\ h[i].of = h[1].of /\ h[i].at = i
    THEN {h[1].of.length}
    ELSE 0 .. MaxLength

\* Mutant of Keep: the rest of the record is dropped.
KeepNone(bytes, n) == <<>>

\* leftover after n of the bytes were copied to the caller.
Keep(bytes, n) == After(bytes, n)

\* Read copies what ReadFull still wants of the bytes and keeps the rest.
CopyOut(bytes) ==
    LET missing == want - Len(got)
        n == IF Len(bytes) < missing THEN Len(bytes) ELSE missing
    IN  /\ got' = got \o SubSeq(bytes, 1, n)
        /\ leftover' = Keep(bytes, n)

\* Mutant of HasLeftover: used only if it has all that is wanted.
HasLeftoverWhole == Len(leftover) >= want - Len(got)

HasLeftover == leftover # <<>>

\* Read finds bytes of the previous record.
ReadLeftover ==
    /\ reading # "failed"
    /\ Len(got) < want
    /\ HasLeftover
    /\ CopyOut(leftover)
    /\ UNCHANGED <<salt, writeVars, wire, cut, readNonce, want, reading, received>>

\* Both parts of the record open under the reader's nonces.
Opens(r) ==
    /\ r.size.nonce = readNonce
    /\ r.payload.nonce = increment(readNonce)
    /\ r.size.size = Len(r.payload.bytes)

\* Read opens the next record.
ReadRecord ==
    /\ salt = "read"
    /\ reading # "failed"
    /\ Len(got) < want
    /\ leftover = <<>>
    /\ wire # <<>>
    /\ Opens(Head(wire))
    /\ CopyOut(Head(wire).payload.bytes)
    /\ wire' = Tail(wire)
    /\ readNonce' = increment(increment(readNonce))
    /\ UNCHANGED <<salt, writeVars, cut, want, reading, received>>

\* Read fails: a record does not open, or the connection ends.
ReadFails ==
    /\ reading # "failed"
    /\ Len(got) < want
    /\ leftover = <<>>
    /\ \/ wire # <<>> /\ salt = "read" /\ ~Opens(Head(wire))
       \/ wire = <<>> /\ cut
    /\ reading' = "failed"
    /\ UNCHANGED <<salt, writeVars, wire, cut, readNonce, leftover, got, want, received>>

\* The header is there; the data is wanted next.
ReadHeader ==
    /\ reading = "header"
    /\ Len(got) = want
    /\ \E n \in BlockLength(got) : want' = HeaderSize + n
    /\ reading' = "data"
    /\ UNCHANGED <<salt, writeVars, wire, cut, readNonce, leftover, got, received>>

\* NewBlockFromReader returns a block and is called again.
ReturnBlock ==
    /\ reading = "data"
    /\ Len(got) = want
    /\ received' = Append(received, got)
    /\ got' = <<>>
    /\ want' = HeaderSize
    /\ reading' = "header"
    /\ UNCHANGED <<salt, writeVars, wire, cut, readNonce, leftover>>

-----------------------------------------------------------------------------
Write(w) ==
    \/ StartWrite(w)
    \/ Fill(w)
    \/ SealSize(w)
    \/ SealPayload(w)
    \/ Emit(w)
    \/ Return(w)

NewBlockFromReader ==
    InitReader \/ ReadLeftover \/ ReadRecord \/ ReadFails \/ ReadHeader \/ ReturnBlock

Next ==
    \/ InitWriter
    \/ \E w \in Writers : Write(w)
    \/ Cut
    \/ NewBlockFromReader

Spec == Init /\ [][Next]_vars

\* Each goroutine goes on; the network need not cut.
Fairness ==
    /\ WF_vars(InitWriter)
    /\ \A w \in Writers : WF_vars(Write(w))
    /\ WF_vars(NewBlockFromReader)

FairSpec == Spec /\ Fairness

-----------------------------------------------------------------------------
(* Properties *)

\* However blocks are cut into records and reads, NewBlockFromReader returns
\* the blocks that were packed, whole and in order, and after a cut no part of
\* one: as long as no two goroutines call Write at once.
WholeBlocks ==
    ~overlapped =>
        /\ Len(received) =< Len(started)
        /\ \A i \in 1 .. Len(received) : received[i] = Pack(started[i])

\* "Write encrypts b and writes to the embedded io.Writer" (tunnel.go 33):
\* what is written can be opened, so that reading fails only when the
\* connection is cut, or when OutboundRelay and PingPong, which share w.buf
\* and w.nonce without a lock, wrote at once.
WrittenCanBeOpened == reading = "failed" => cut \/ overlapped

\* Every block that is written is received, unless the connection is cut or
\* writes overlapped.
EveryBlockArrives ==
    \A n \in 1 .. Cardinality(Blocks) :
        (Len(started) >= n) ~> (Len(received) >= n \/ cut \/ overlapped)
=============================================================================
