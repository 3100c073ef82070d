-------------------------------- MODULE Framing --------------------------------
(***************************************************************************)
(* The readers that cut a byte stream back into frames: a length prefix    *)
(* and a body.  Four pieces of code do it, each in its own way:            *)
(*   FramingReader         src/infrastructure/transport/framing.ts         *)
(*   FramingReaderState    the copy of it inside transport/tls-tcp.ts      *)
(*   recvBanner            the fingerprint banner, transport/tls-tcp.ts    *)
(*   handleUnixConnection  an admin request, shells/admin/admin-server.ts  *)
(*                                                                         *)
(* A byte is named by its frame and its place in it, so that a reader that *)
(* loses its place is seen to.  A read returns any non-empty part of what  *)
(* is in flight: the stream does not keep the boundaries of the writes.    *)
(***************************************************************************)
EXTENDS Integers, Sequences

CONSTANTS
    Reader,        \* the readers to check
    PrefixLen,     \* bytes of a length prefix
    BodyLengths,   \* lengths of bodies
    MaxBody,       \* the largest body a reader accepts
    MaxFrames      \* bound: frames on the connection

\* A body is the JSON text of an envelope, or a fingerprint: longer than a
\* prefix, and no longer than a sender may encode.
ASSUME FramingAssumption ==
    /\ Reader \subseteq {"FramingReader", "FramingReaderState", "recvBanner",
                         "handleUnixConnection"}
    /\ {PrefixLen, MaxFrames} \subseteq Nat \ {0} /\ MaxBody \in Nat
    /\ \A n \in BodyLengths : n \in PrefixLen .. MaxBody

VARIABLES
    reader,    \* the one that reads this connection
    length,    \* of the body of each frame written so far
    wire,      \* bytes in flight
    ended,     \* has the connection ended?
    phase,     \* of the reader
    buffer,    \* its #buffer
    prefix,    \* its prefixBytes, or lenBuf
    body,      \* its bodyBytes
    got,       \* the frames it has returned, 0 for one that nobody wrote
    whole      \* history: has every read returned just what was wanted?

state == <<phase, buffer, prefix, body, got, whole>>
vars  == <<reader, length, wire, ended, state>>

Byte  == [frame : 1 .. MaxFrames, at : Nat \ {0}]
Phase == {"idle", "prefix", "body", "decoding", "done", "failed"}

Init ==
    /\ reader \in Reader
    /\ length = <<>> /\ wire = <<>> /\ ended = FALSE
    /\ phase = "idle" /\ buffer = <<>> /\ prefix = <<>> /\ body = <<>>
    /\ got = <<>> /\ whole = TRUE

-------------------------------------------------------------------------------
(***************************************************************************)
(* The connection.                                                         *)
(***************************************************************************)
\* encodeEnvelope and sendBanner: the prefix, then the body.
frameOf(f, n) == [i \in 1 .. PrefixLen + n |-> [frame |-> f, at |-> i]]

\* The writer of an admin request writes one frame; elsewhere others follow.
Write(n) ==
    /\ ~ended /\ Len(length) < IF reader = "handleUnixConnection" THEN 1 ELSE MaxFrames
    /\ length' = Append(length, n)
    /\ wire' = wire \o frameOf(Len(length) + 1, n)
    /\ UNCHANGED <<reader, ended, state>>

\* The peer closes, or the connection breaks and takes the last bytes with it.
End ==
    /\ ~ended
    /\ ended' = TRUE
    /\ \E k \in 0 .. Len(wire) : wire' = SubSeq(wire, 1, k)
    /\ UNCHANGED <<reader, length, state>>

\* What a read may return, and that it returns it.
Chunks == {SubSeq(wire, 1, k) : k \in 1 .. Len(wire)}

Take(c) == wire' = SubSeq(wire, Len(c) + 1, Len(wire))

-------------------------------------------------------------------------------
(***************************************************************************)
(* What a prefix declares.  Bytes of a JSON text or a fingerprint are no   *)
(* control characters, so four bytes that start with one of them are a     *)
(* number above 2^29, and exceed every limit.                              *)
(***************************************************************************)
declared(p) ==
    IF \A i \in 1 .. PrefixLen : p[i].at = i THEN length[p[1].frame] ELSE MaxBody + 1

\* decodeEnvelope and decodeEnvelopeWire accept w: its length is the one its
\* prefix declares, and its body is a JSON text.
decodes(w) ==
    /\ declared(w) <= MaxBody
    /\ Len(w) = PrefixLen + declared(w)
    /\ w = frameOf(w[1].frame, declared(w))

-------------------------------------------------------------------------------
(***************************************************************************)
(* FramingReader.readEnvelope and its copy, called again and again.        *)
(***************************************************************************)
Envelopes == reader \in {"FramingReader", "FramingReaderState"}

\* readPrefixBytes: four bytes of the buffer, if it has them, or all of it.
ReadEnvelope ==
    /\ Envelopes /\ phase = "idle"
    /\ \/ /\ Len(buffer) >= PrefixLen
          /\ prefix' = SubSeq(buffer, 1, PrefixLen)
          /\ buffer' = SubSeq(buffer, PrefixLen + 1, Len(buffer))
       \/ /\ Len(buffer) < PrefixLen
          /\ prefix' = buffer
          /\ buffer' = <<>>
    /\ phase' = "prefix" /\ body' = <<>>
    /\ UNCHANGED <<reader, length, wire, ended, got, whole>>

\* Is chunk c one frame, of which nothing was read before?
OneFrame(c) == prefix = <<>> /\ c = frameOf(c[1].frame, length[c[1].frame])

PrefixChunk(c) ==
    /\ Envelopes /\ phase = "prefix" /\ Len(prefix) < PrefixLen
    /\ Take(c)
    /\ prefix' = prefix \o c
    /\ whole' = (whole /\ OneFrame(c))
    /\ UNCHANGED <<reader, length, ended, phase, buffer, body, got>>

\* Mutant: what follows the body in the same chunk is forgotten.
PrefixRead_Forgets ==
    LET n == declared(prefix)
        extra == Len(prefix) - PrefixLen
    IN  /\ Envelopes /\ phase = "prefix" /\ Len(prefix) >= PrefixLen
        /\ phase' = CASE n > MaxBody -> "failed" [] extra < n -> "body" [] OTHER -> "decoding"
        /\ body' = SubSeq(prefix, PrefixLen + 1, PrefixLen + IF extra < n THEN extra ELSE n)
        /\ UNCHANGED <<reader, length, wire, ended, buffer, prefix, got, whole>>

\* The prefix is complete, and the bytes read with it belong to the body.
\* What #buffer may still hold of the body is not looked at.
PrefixRead ==
    LET n == declared(prefix)
        extra == Len(prefix) - PrefixLen
    IN  /\ Envelopes /\ phase = "prefix" /\ Len(prefix) >= PrefixLen
        /\ \/ /\ n > MaxBody
              /\ phase' = "failed"
              /\ UNCHANGED <<buffer, body>>
           \/ /\ n <= MaxBody /\ extra >= n
              /\ body' = SubSeq(prefix, PrefixLen + 1, PrefixLen + n)
              /\ buffer' = IF extra > n THEN SubSeq(prefix, PrefixLen + n + 1, Len(prefix))
                           ELSE buffer
              /\ phase' = "decoding"
           \/ /\ n <= MaxBody /\ extra < n
              /\ body' = SubSeq(prefix, PrefixLen + 1, Len(prefix))
              /\ phase' = "body"
              /\ UNCHANGED buffer
        /\ UNCHANGED <<reader, length, wire, ended, prefix, got, whole>>

\* What goes back into the buffer of a chunk that completes the body.
\* FramingReader computes it after `remaining` was set to 0, and so keeps the
\* whole chunk.
leftover(c, remaining) ==
    IF reader = "FramingReader" THEN c ELSE SubSeq(c, remaining + 1, Len(c))

\* Mutant: a chunk that ends with the body does not complete it.
BodyChunk_WantsMore(c) ==
    LET remaining == declared(prefix) - Len(body)
    IN  /\ Envelopes /\ phase = "body"
        /\ Take(c)
        /\ \/ /\ Len(c) > remaining
              /\ body' = body \o SubSeq(c, 1, remaining)
              /\ buffer' = leftover(c, remaining)
              /\ phase' = "decoding"
           \/ /\ Len(c) <= remaining
              /\ body' = body \o c
              /\ UNCHANGED <<phase, buffer>>
        /\ whole' = FALSE
        /\ UNCHANGED <<reader, length, ended, prefix, got>>

BodyChunk(c) ==
    LET remaining == declared(prefix) - Len(body)
    IN  /\ Envelopes /\ phase = "body"
        /\ Take(c)
        /\ \/ /\ Len(c) >= remaining
              /\ body' = body \o SubSeq(c, 1, remaining)
              /\ buffer' = leftover(c, remaining)
              /\ phase' = "decoding"
           \/ /\ Len(c) < remaining
              /\ body' = body \o c
              /\ UNCHANGED <<phase, buffer>>
        /\ whole' = FALSE
        /\ UNCHANGED <<reader, length, ended, prefix, got>>

\* FramingReader puts the prefix before the body again, its copy does not.
Decode ==
    LET w == IF reader = "FramingReader" THEN SubSeq(prefix, 1, PrefixLen) \o body ELSE body
    IN  /\ Envelopes /\ phase = "decoding"
        /\ \/ decodes(w) /\ got' = Append(got, w[1].frame) /\ phase' = "idle"
           \/ ~decodes(w) /\ phase' = "failed" /\ UNCHANGED got
        /\ UNCHANGED <<reader, length, wire, ended, buffer, prefix, body, whole>>

-------------------------------------------------------------------------------
(***************************************************************************)
(* recvBanner: the first chunk must hold the length, and whatever else is  *)
(* in it is dropped.                                                       *)
(***************************************************************************)
\* Mutant: a first chunk that is too short is not refused.
BannerLength_AnyChunk(c) ==
    /\ reader = "recvBanner" /\ phase = "idle"
    /\ Take(c)
    /\ prefix' = c
    /\ phase' = "body"
    /\ whole' = (Len(c) = PrefixLen)
    /\ UNCHANGED <<reader, length, ended, buffer, body, got>>

BannerLength(c) ==
    /\ reader = "recvBanner" /\ phase = "idle"
    /\ Take(c)
    /\ \/ /\ Len(c) < PrefixLen
          /\ phase' = "failed"
          /\ UNCHANGED prefix
       \/ /\ Len(c) >= PrefixLen
          /\ prefix' = SubSeq(c, 1, PrefixLen)
          /\ phase' = "body"
    /\ whole' = (Len(c) = PrefixLen)
    /\ UNCHANGED <<reader, length, ended, buffer, body, got>>

BannerChunk(c) ==
    LET n == declared(prefix)
        b == body \o c
    IN  /\ reader = "recvBanner" /\ phase = "body"
        /\ Take(c)
        /\ body' = b
        /\ \/ Len(b) < n /\ UNCHANGED <<phase, got>>
           \/ /\ Len(b) >= n
              /\ phase' = "done"
              /\ got' = <<IF prefix \o SubSeq(b, 1, n) = frameOf(1, n) THEN 1 ELSE 0>>
        /\ UNCHANGED <<reader, length, ended, buffer, prefix, whole>>

-------------------------------------------------------------------------------
(***************************************************************************)
(* handleUnixConnection reads into subarray(read, total - read) of a       *)
(* buffer: that is all of it at first, but less than what is missing once  *)
(* something has been read.  A read into no space returns 0 at once, and   *)
(* the loop goes round for ever: no step of this module.                   *)
(***************************************************************************)
space(read, total) == total - 2 * read

Filled(b, total) == Len(b) = total

RequestPrefix(c) ==
    /\ reader = "handleUnixConnection" /\ phase \in {"idle", "prefix"}
    /\ Len(c) <= space(Len(prefix), PrefixLen)
    /\ Take(c)
    /\ prefix' = prefix \o c
    /\ phase' = IF Filled(prefix', PrefixLen) THEN "body" ELSE "prefix"
    /\ whole' = Filled(prefix', PrefixLen)
    /\ UNCHANGED <<reader, length, ended, buffer, body, got>>

RequestBody(c) ==
    /\ reader = "handleUnixConnection" /\ phase = "body"
    /\ Len(c) <= space(Len(body), declared(prefix))
    /\ Take(c)
    /\ body' = body \o c
    /\ \/ /\ ~Filled(body', declared(prefix))
          /\ whole' = FALSE
          /\ UNCHANGED <<phase, got>>
       \/ /\ Filled(body', declared(prefix))
          /\ phase' = IF decodes(prefix \o body') THEN "done" ELSE "failed"
          /\ got' = IF decodes(prefix \o body') THEN <<prefix[1].frame>> ELSE <<>>
          /\ UNCHANGED whole
    /\ UNCHANGED <<reader, length, ended, buffer, prefix>>

\* A read at the end of the stream: the reader throws or returns.
Truncated ==
    /\ ended /\ wire = <<>>
    /\ \/ Envelopes /\ \/ phase = "prefix" /\ Len(prefix) < PrefixLen
                       \/ phase = "body"
       \/ reader = "recvBanner" /\ phase \in {"idle", "body"}
       \/ /\ reader = "handleUnixConnection"
          /\ \/ phase \in {"idle", "prefix"} /\ space(Len(prefix), PrefixLen) > 0
             \/ phase = "body" /\ space(Len(body), declared(prefix)) > 0
    /\ phase' = "failed"
    /\ UNCHANGED <<reader, length, wire, ended, buffer, prefix, body, got, whole>>

-------------------------------------------------------------------------------
Read == \/ ReadEnvelope
        \/ PrefixRead
        \/ Decode
        \/ Truncated
        \/ \E c \in Chunks : \/ PrefixChunk(c)
                             \/ BodyChunk(c)
                             \/ BannerLength(c)
                             \/ BannerChunk(c)
                             \/ RequestPrefix(c)
                             \/ RequestBody(c)

Next == Read \/ End \/ \E n \in BodyLengths : Write(n)

Spec == Init /\ [][Next]_vars

\* A reader goes on as long as bytes or the end of the stream reach it.
FairSpec == Spec /\ WF_vars(Read)

-------------------------------------------------------------------------------
(***************************************************************************)
(* PROPERTIES                                                              *)
(***************************************************************************)
\* Every variable has its type, and a body is read only after its length.
TypeOK ==
    /\ reader \in Reader
    /\ Len(length) <= MaxFrames /\ \A i \in DOMAIN length : length[i] \in BodyLengths
    /\ \A s \in {wire, buffer, prefix, body} : \A i \in DOMAIN s : s[i] \in Byte
    /\ ended \in BOOLEAN /\ whole \in BOOLEAN
    /\ phase \in Phase
    /\ Len(got) <= MaxFrames
    /\ phase = "body" => Len(prefix) >= PrefixLen

(***************************************************************************)
(* However the stream is cut, FramingReader and the admin server return    *)
(* the frames that were written, in their order, none left out, repeated   *)
(* or made up: a reader that loses its place fails instead.  So does       *)
(* recvBanner if the length arrives in a chunk of its own, whatever is     *)
(* sent after the banner.                                                  *)
(***************************************************************************)
InOrder ==
    reader # "recvBanner" \/ whole => \A i \in DOMAIN got : got[i] = i

(***************************************************************************)
(* The first frame of a connection is read however it is cut, which is all *)
(* that the admin client needs of FramingReader.  The others need whole    *)
(* chunks for it.                                                          *)
(***************************************************************************)
FirstFrameRead ==
    (length # <<>> /\ reader # "FramingReaderState")
        ~> (got # <<>> \/ ended \/ (reader # "FramingReader" /\ ~whole))

(***************************************************************************)
(* plans/004: "Two envelopes concatenated in a buffer, decode              *)
(* sequentially, both correct."  A peer that only writes frames is never   *)
(* refused one while it stays connected.                                   *)
(***************************************************************************)
FramesIntact ==
    reader = "FramingReader" /\ ~ended => phase # "failed"
===============================================================================
