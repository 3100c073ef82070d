----------------------------- MODULE FramingProofs -----------------------------
(***************************************************************************)
(* Proofs about Framing for prefixes and bodies of any length, any number  *)
(* of frames and any cut of the stream: its type invariant, and that what  *)
(* the readers return are the frames that were written, in their order.    *)
(***************************************************************************)
EXTENDS Framing, SequenceTheorems, TLAPS

-------------------------------------------------------------------------------
(***************************************************************************)
(* Types.  A byte belongs to a frame that was written.                     *)
(***************************************************************************)
Sent == [frame : 1 .. Len(length), at : Nat \ {0}]

Typed ==
    /\ reader \in Reader /\ ended \in BOOLEAN /\ whole \in BOOLEAN /\ phase \in Phase
    /\ length \in Seq(BodyLengths) /\ Len(length) <= MaxFrames
    /\ reader = "handleUnixConnection" => Len(length) <= 1
    /\ wire \in Seq(Sent) /\ buffer \in Seq(Sent)
    /\ prefix \in Seq(Sent) /\ body \in Seq(Sent)
    /\ phase = "body" => /\ Len(prefix) >= PrefixLen
                         /\ Envelopes => Len(body) < declared(prefix)

LEMMA Cut ==
    ASSUME NEW S, NEW s \in Seq(S), NEW m \in Nat \ {0}, NEW n \in Nat, n <= Len(s)
    PROVE  /\ SubSeq(s, m, n) \in Seq(S)
           /\ Len(SubSeq(s, m, n)) = IF m <= n THEN n - m + 1 ELSE 0
           /\ \A i \in 1 .. n - m + 1 : SubSeq(s, m, n)[i] = s[m + i - 1]
<1>1. \A i \in m .. n : s[i] \in S
  BY ElementOfSeq, LenProperties
<1>2. m \in Int /\ n \in Int
  OBVIOUS
<1> QED
  BY <1>1, <1>2, SubSeqProperties

LEMMA Lengths ==
    ASSUME NEW n \in BodyLengths
    PROVE  n \in Nat \ {0} /\ n <= MaxBody /\ n >= PrefixLen
  BY FramingAssumption

\* A chunk is the start of what was in flight, and the rest stays there.
LEMMA Chunk ==
    ASSUME Typed, NEW c \in Chunks, Take(c)
    PROVE  /\ c \in Seq(Sent) /\ Len(c) \in 1 .. Len(wire)
           /\ \A i \in 1 .. Len(c) : c[i] = wire[i]
           /\ wire' \in Seq(Sent) /\ Len(wire') = Len(wire) - Len(c)
           /\ \A i \in 1 .. Len(wire) - Len(c) : wire'[i] = wire[Len(c) + i]
<1>1. PICK k \in 1 .. Len(wire) : c = SubSeq(wire, 1, k)
  BY DEF Chunks
<1>2. wire \in Seq(Sent) /\ Len(wire) \in Nat
  BY LenProperties DEF Typed
<1>3. /\ c \in Seq(Sent) /\ Len(c) = k
      /\ \A i \in 1 .. k : c[i] = wire[i]
  BY <1>1, <1>2, Cut
<1>4. wire' = SubSeq(wire, k + 1, Len(wire))
  BY <1>3 DEF Take
<1>5. /\ wire' \in Seq(Sent)
      /\ Len(wire') = IF k + 1 <= Len(wire) THEN Len(wire) - (k + 1) + 1 ELSE 0
      /\ \A i \in 1 .. Len(wire) - (k + 1) + 1 : wire'[i] = wire[(k + 1) + i - 1]
  BY <1>2, <1>4, Cut
<1> QED
  BY <1>2, <1>3, <1>5

LEMMA Frame ==
    ASSUME NEW f \in Nat \ {0}, NEW n \in Nat
    PROVE  /\ frameOf(f, n) \in Seq([frame : {f}, at : Nat \ {0}])
           /\ Len(frameOf(f, n)) = PrefixLen + n
           /\ \A i \in 1 .. PrefixLen + n : frameOf(f, n)[i] = [frame |-> f, at |-> i]
<1> DEFINE S == [frame : {f}, at : Nat \ {0}]
<1>1. PrefixLen + n \in Nat
  BY FramingAssumption
<1>2. frameOf(f, n) \in [1 .. PrefixLen + n -> S]
  BY <1>1 DEF frameOf
<1>3. frameOf(f, n) \in Seq(S)
  BY <1>1, <1>2, SeqDef
<1> QED
  BY <1>1, <1>2, <1>3, LenProperties DEF frameOf

\* What a prefix declares is a body's length only if its bytes are in their
\* places.
LEMMA Declared ==
    ASSUME Typed, NEW p \in Seq(Sent), Len(p) >= PrefixLen
    PROVE  /\ declared(p) \in Nat \ {0}
           /\ declared(p) <= MaxBody =>
                 /\ \A i \in 1 .. PrefixLen : p[i].at = i
                 /\ p[1] = [frame |-> p[1].frame, at |-> 1]
                 /\ p[1].frame \in 1 .. Len(length)
                 /\ declared(p) = length[p[1].frame]
           /\ p[1].at # 1 => declared(p) > MaxBody
<1>1. PrefixLen \in Nat \ {0} /\ MaxBody \in Nat /\ Len(length) \in Nat /\ Len(p) \in Nat
  BY FramingAssumption, LenProperties DEF Typed
<1>2. p[1] \in Sent /\ 1 \in 1 .. PrefixLen
  BY <1>1, ElementOfSeq
<1>3. length[p[1].frame] \in BodyLengths
  BY <1>2, ElementOfSeq DEF Sent, Typed
<1>4. p[1].frame \in 1 .. Len(length) /\ p[1] = [frame |-> p[1].frame, at |-> p[1].at]
  BY <1>2 DEF Sent
<1> QED
  BY <1>1, <1>2, <1>3, <1>4, Lengths DEF declared

(***************************************************************************)
(* What a step of the connection does to the stream: a write adds a frame  *)
(* at its end, and the end of the connection only takes bytes from there.  *)
(***************************************************************************)
LEMMA Written ==
    ASSUME Typed, NEW n \in BodyLengths, Write(n)
    PROVE  /\ length' \in Seq(BodyLengths) /\ Len(length') = Len(length) + 1
           /\ \A i \in 1 .. Len(length) : length'[i] = length[i]
           /\ length'[Len(length) + 1] = n
           /\ Sent \subseteq Sent'
           /\ wire' \in Seq(Sent') /\ Len(wire') = Len(wire) + PrefixLen + n
           /\ \A i \in 1 .. Len(wire) : wire'[i] = wire[i]
           /\ \A i \in 1 .. PrefixLen + n :
                 wire'[Len(wire) + i] = [frame |-> Len(length) + 1, at |-> i]
<1> DEFINE f == Len(length) + 1
           new == frameOf(f, n)
<1>1. /\ Len(length) \in Nat /\ Len(wire) \in Nat /\ f \in Nat \ {0}
      /\ n \in Nat /\ PrefixLen \in Nat /\ PrefixLen + n \in Nat
  BY LenProperties, Lengths, FramingAssumption DEF Typed
<1>2. length' = Append(length, n) /\ wire' = wire \o new
  BY DEF Write
<1>3. /\ length' \in Seq(BodyLengths) /\ Len(length') = f
      /\ \A i \in 1 .. Len(length) : length'[i] = length[i]
      /\ length'[f] = n
  BY <1>1, <1>2, AppendProperties DEF Typed
<1>4. Sent \subseteq Sent' /\ [frame : {f}, at : Nat \ {0}] \subseteq Sent'
  BY <1>1, <1>3 DEF Sent
<1>5. /\ new \in Seq([frame : {f}, at : Nat \ {0}]) /\ Len(new) = PrefixLen + n
      /\ \A i \in 1 .. PrefixLen + n : new[i] = [frame |-> f, at |-> i]
  BY <1>1, Frame
<1>6. wire \in Seq(Sent') /\ new \in Seq(Sent')
  BY <1>4, <1>5, SeqMonotonic DEF Typed
<1> HIDE DEF new, f
<1>7. /\ wire \o new \in Seq(Sent')
      /\ Len(wire \o new) = Len(wire) + Len(new)
      /\ \A i \in 1 .. Len(wire) + Len(new) :
            (wire \o new)[i] = IF i <= Len(wire) THEN wire[i] ELSE new[i - Len(wire)]
  BY <1>6, ConcatProperties
<1>8. \A i \in 1 .. PrefixLen + n : wire'[Len(wire) + i] = new[i]
  BY <1>1, <1>2, <1>5, <1>7
<1>9. \A i \in 1 .. Len(wire) : wire'[i] = wire[i]
  BY <1>1, <1>2, <1>5, <1>7
<1>10. /\ wire' \in Seq(Sent') /\ Len(wire') = Len(wire) + PrefixLen + n
  BY <1>1, <1>2, <1>5, <1>7
<1> QED
  BY <1>3, <1>4, <1>5, <1>8, <1>9, <1>10 DEF f

LEMMA Cutoff ==
    ASSUME Typed, End
    PROVE  /\ wire' \in Seq(Sent) /\ Len(wire') \in 0 .. Len(wire)
           /\ \A i \in 1 .. Len(wire') : wire'[i] = wire[i]
<1>1. PICK k \in 0 .. Len(wire) : wire' = SubSeq(wire, 1, k)
  BY DEF End
<1>2. wire \in Seq(Sent) /\ Len(wire) \in Nat /\ k \in Nat /\ k <= Len(wire)
  BY LenProperties DEF Typed
<1>3. /\ SubSeq(wire, 1, k) \in Seq(Sent)
      /\ Len(SubSeq(wire, 1, k)) = IF 1 <= k THEN k - 1 + 1 ELSE 0
      /\ \A i \in 1 .. k - 1 + 1 : SubSeq(wire, 1, k)[i] = wire[1 + i - 1]
  BY <1>2, Cut
<1> QED
  BY <1>1, <1>2, <1>3

LEMMA TypedConnection ==
    ASSUME Typed, End \/ \E n \in BodyLengths : Write(n)
    PROVE  Typed'
<1>1. CASE End
  <2>1. wire' \in Seq(Sent)
    BY <1>1, Cutoff
  <2> QED
    BY <1>1, <2>1 DEF End, Typed, Sent, state, declared, Envelopes
<1>2. CASE \E n \in BodyLengths : Write(n)
  <2>1. PICK n \in BodyLengths : Write(n)
    BY <1>2
  <2>2. /\ length' \in Seq(BodyLengths) /\ Len(length') = Len(length) + 1
        /\ Sent \subseteq Sent' /\ wire' \in Seq(Sent')
    BY <2>1, Written
  <2>3. /\ buffer \in Seq(Sent') /\ prefix \in Seq(Sent') /\ body \in Seq(Sent')
    BY <2>2, SeqMonotonic DEF Typed
  <2>4. Len(length) \in Nat /\ MaxFrames \in Nat
    BY LenProperties, FramingAssumption DEF Typed
  <2>5. Len(length') <= MaxFrames /\ (reader = "handleUnixConnection" => Len(length') <= 1)
    <3>1. Len(length) < IF reader = "handleUnixConnection" THEN 1 ELSE MaxFrames
      BY <2>1 DEF Write
    <3>2. MaxFrames >= 1
      BY FramingAssumption
    <3> QED
      BY <2>2, <2>4, <3>1, <3>2
  <2>6. UNCHANGED <<reader, ended, whole, phase, buffer, prefix, body, got>>
    BY <2>1 DEF Write, state
  <2>7. Len(prefix) >= PrefixLen => declared(prefix)' = declared(prefix)
    <3>1. \A p \in Seq(Sent) : Len(p) >= PrefixLen => length'[p[1].frame] = length[p[1].frame]
      <4> SUFFICES ASSUME NEW p \in Seq(Sent), Len(p) >= PrefixLen
                   PROVE  length'[p[1].frame] = length[p[1].frame]
        OBVIOUS
      <4>1. 1 \in 1 .. Len(p)
        BY FramingAssumption, LenProperties
      <4>2. p[1] \in Sent
        BY <4>1, ElementOfSeq
      <4> QED
        BY <2>1, <4>2, Written DEF Sent
    <3>2. prefix \in Seq(Sent)
      BY DEF Typed
    <3> QED
      BY <2>6, <3>1, <3>2 DEF declared
  <2>8. Envelopes' = Envelopes
    BY <2>6 DEF Envelopes
  <2> QED
    BY <2>2, <2>3, <2>5, <2>6, <2>7, <2>8 DEF Typed
<1> QED
  BY <1>1, <1>2

LEMMA TypedRead ==
    ASSUME Typed, Read
    PROVE  Typed'
<1>1. /\ PrefixLen \in Nat \ {0} /\ MaxBody \in Nat
      /\ Len(wire) \in Nat /\ Len(buffer) \in Nat /\ Len(prefix) \in Nat /\ Len(body) \in Nat
      /\ Len(length) \in Nat
  BY FramingAssumption, LenProperties DEF Typed
<1> DEFINE n == declared(prefix)
<1>n. Len(prefix) >= PrefixLen => n \in Nat \ {0}
  <2>1. prefix \in Seq(Sent)
    BY DEF Typed
  <2> QED
    BY <2>1, Declared
<1>t. UNCHANGED <<length, prefix>> => UNCHANGED n
  BY DEF declared
<1>e. UNCHANGED reader => (Envelopes' = Envelopes)
  BY DEF Envelopes
<1>o. reader' \in {"recvBanner", "handleUnixConnection"} => ~Envelopes'
  BY DEF Envelopes
<1> HIDE DEF n
<1>2. CASE ReadEnvelope
  <2>1. CASE Len(buffer) >= PrefixLen
    <3>1. /\ SubSeq(buffer, 1, PrefixLen) \in Seq(Sent)
          /\ SubSeq(buffer, PrefixLen + 1, Len(buffer)) \in Seq(Sent)
      BY <1>1, <2>1, Cut DEF Typed
    <3> QED
      BY <1>1, <1>2, <2>1, <3>1, EmptySeq DEF ReadEnvelope, Typed, Sent, Phase
  <2>2. CASE Len(buffer) < PrefixLen
    <3>1. UNCHANGED <<reader, length, wire, ended, whole>> /\ phase' = "prefix"
      BY <1>2 DEF ReadEnvelope
    <3>2. prefix' = buffer /\ buffer' = <<>> /\ body' = <<>>
      BY <1>1, <1>2, <2>2 DEF ReadEnvelope
    <3> QED
      BY <3>1, <3>2, EmptySeq DEF Typed, Sent, Phase
  <2> QED
    BY <1>1, <2>1, <2>2
<1>3. CASE PrefixRead
  <2> DEFINE extra == Len(prefix) - PrefixLen
  <2>1. n \in Nat \ {0} /\ Len(prefix) >= PrefixLen /\ extra \in Nat
    BY <1>1, <1>3, <1>n DEF PrefixRead
  <2>2. CASE n > MaxBody
    BY <1>1, <1>3, <2>1, <2>2 DEF PrefixRead, Typed, Sent, Phase, n
  <2>3. CASE n <= MaxBody /\ extra >= n
    <3>1. /\ SubSeq(prefix, PrefixLen + 1, PrefixLen + n) \in Seq(Sent)
          /\ SubSeq(prefix, PrefixLen + n + 1, Len(prefix)) \in Seq(Sent)
      BY <1>1, <2>1, <2>3, Cut DEF Typed
    <3>2. /\ body' = SubSeq(prefix, PrefixLen + 1, PrefixLen + n)
          /\ buffer' = SubSeq(prefix, PrefixLen + n + 1, Len(prefix)) \/ buffer' = buffer
          /\ phase' = "decoding"
          /\ UNCHANGED <<reader, length, wire, ended, prefix, got, whole>>
      BY <1>1, <1>3, <2>1, <2>3 DEF PrefixRead, n
    <3> QED
      BY <3>1, <3>2 DEF Typed, Sent, Phase
  <2>4. CASE n <= MaxBody /\ extra < n
    <3>1. SubSeq(prefix, PrefixLen + 1, Len(prefix)) \in Seq(Sent)
      BY <1>1, <2>1, <2>4, Cut DEF Typed
    <3>2. /\ body' = SubSeq(prefix, PrefixLen + 1, Len(prefix))
          /\ phase' = "body"
          /\ UNCHANGED <<reader, length, wire, ended, buffer, prefix, got, whole>>
      BY <1>1, <1>3, <2>1, <2>4 DEF PrefixRead, n
    <3>3. Len(body') = IF PrefixLen + 1 <= Len(prefix) THEN Len(prefix) - (PrefixLen + 1) + 1 ELSE 0
      BY <1>1, <2>1, <2>4, <3>2, Cut DEF Typed
    <3>4. Len(body') < n'
      BY <1>1, <1>t, <2>1, <2>4, <3>2, <3>3
    <3> QED
      BY <2>1, <3>1, <3>2, <3>4 DEF Typed, Sent, Phase, n
  <2> QED
    BY <1>1, <2>1, <2>2, <2>3, <2>4
<1>4. CASE \E c \in Chunks : PrefixChunk(c) \/ RequestPrefix(c) \/ BannerLength(c)
  <2>1. PICK c \in Chunks : PrefixChunk(c) \/ RequestPrefix(c) \/ BannerLength(c)
    BY <1>4
  <2>2. c \in Seq(Sent) /\ Len(c) \in Nat /\ wire' \in Seq(Sent) /\ UNCHANGED <<reader, length, ended, body, buffer>>
    BY <1>1, <2>1, Chunk DEF PrefixChunk, RequestPrefix, BannerLength
  <2>3. /\ prefix \o c \in Seq(Sent)
        /\ Len(prefix \o c) = Len(prefix) + Len(c)
    BY <2>2, ConcatProperties DEF Typed
  <2>4. CASE PrefixChunk(c)
    BY <2>2, <2>3, <2>4 DEF PrefixChunk, Typed, Sent, Phase
  <2>5. CASE RequestPrefix(c)
    <3>1. prefix' = prefix \o c /\ phase' \in {"body", "prefix"} /\ whole' \in BOOLEAN
      BY <2>5 DEF RequestPrefix, Filled
    <3>2. phase' = "body" => Len(prefix') = PrefixLen
      BY <2>5 DEF RequestPrefix, Filled
    <3> QED
      BY <1>1, <1>o, <2>2, <2>3, <2>5, <3>1, <3>2 DEF Typed, Sent, Phase, RequestPrefix
  <2>6. CASE BannerLength(c)
    <3>1. CASE Len(c) < PrefixLen
      BY <1>1, <2>2, <2>6, <3>1 DEF BannerLength, Typed, Sent, Phase
    <3>2. CASE Len(c) >= PrefixLen
      <4>1. SubSeq(c, 1, PrefixLen) \in Seq(Sent) /\ Len(SubSeq(c, 1, PrefixLen)) = PrefixLen
        BY <1>1, <2>2, <3>2, Cut
      <4>2. prefix' = SubSeq(c, 1, PrefixLen) /\ phase' = "body" /\ whole' \in BOOLEAN
        BY <1>1, <2>2, <2>6, <3>2 DEF BannerLength
      <4> QED
        BY <1>1, <1>o, <2>2, <2>6, <4>1, <4>2 DEF Typed, Sent, Phase, BannerLength
    <3> QED
      BY <1>1, <2>2, <3>1, <3>2
  <2> QED
    BY <2>1, <2>4, <2>5, <2>6
<1>5. CASE \E c \in Chunks : BodyChunk(c) \/ BannerChunk(c) \/ RequestBody(c)
  <2>1. PICK c \in Chunks : BodyChunk(c) \/ BannerChunk(c) \/ RequestBody(c)
    BY <1>5
  <2>2. /\ c \in Seq(Sent) /\ Len(c) \in Nat /\ wire' \in Seq(Sent)
        /\ UNCHANGED <<reader, length, ended, prefix>>
    BY <1>1, <2>1, Chunk DEF BodyChunk, BannerChunk, RequestBody
  <2>3. body \o c \in Seq(Sent)
    BY <2>2, ConcatProperties DEF Typed
  <2>4. CASE BodyChunk(c)
    <3> DEFINE remaining == n - Len(body)
    <3>1. Len(prefix) >= PrefixLen /\ Len(body) < n
      BY <2>4 DEF BodyChunk, Typed, n
    <3>2. remaining \in Nat \ {0}
      BY <1>1, <1>n, <3>1
    <3>3. CASE Len(c) >= remaining
      <4>1. SubSeq(c, 1, remaining) \in Seq(Sent) /\ leftover(c, remaining) \in Seq(Sent)
        <5>1. SubSeq(c, 1, remaining) \in Seq(Sent)
          BY <2>2, <3>2, <3>3, Cut
        <5>2. SubSeq(c, remaining + 1, Len(c)) \in Seq(Sent)
          BY <2>2, <3>2, <3>3, Cut
        <5> QED
          BY <2>2, <5>1, <5>2 DEF leftover
      <4>2. /\ body' = body \o SubSeq(c, 1, remaining) /\ buffer' = leftover(c, remaining)
            /\ phase' = "decoding" /\ whole' = FALSE
        BY <2>2, <2>4, <3>2, <3>3 DEF BodyChunk, n
      <4>3. body' \in Seq(Sent)
        BY <4>1, <4>2, ConcatProperties DEF Typed
      <4> QED
        BY <2>2, <4>1, <4>2, <4>3 DEF Typed, Sent, Phase
    <3>4. CASE Len(c) < remaining
      <4>1. body' = body \o c /\ whole' = FALSE /\ UNCHANGED <<phase, buffer>>
        BY <2>2, <2>4, <3>2, <3>4 DEF BodyChunk, n
      <4>2. Len(body') = Len(body) + Len(c)
        BY <2>2, <4>1, ConcatProperties DEF Typed
      <4>3. Len(body') < n'
        BY <1>1, <1>n, <1>t, <2>2, <3>1, <3>4, <4>2
      <4> QED
        BY <2>2, <2>3, <3>1, <4>1, <4>3 DEF Typed, Sent, Phase, n
    <3> QED
      BY <2>2, <3>2, <3>3, <3>4
  <2>5. CASE BannerChunk(c)
    BY <1>o, <2>2, <2>3, <2>5 DEF BannerChunk, Typed, Sent, Phase
  <2>6. CASE RequestBody(c)
    <3>1. body' = body \o c /\ phase' \in {phase, "done", "failed"} /\ whole' \in {whole, FALSE}
      BY <2>6 DEF RequestBody
    <3>2. UNCHANGED buffer
      BY <2>6 DEF RequestBody
    <3> QED
      BY <2>2, <2>3, <3>1, <3>2, <1>o, <2>6 DEF Typed, Sent, Phase, RequestBody
  <2> QED
    BY <2>1, <2>4, <2>5, <2>6
<1>6. CASE Decode \/ Truncated
  BY <1>6 DEF Decode, Truncated, Typed, Sent, Phase
<1> QED
  BY <1>2, <1>3, <1>4, <1>5, <1>6 DEF Read

LEMMA TypedInvariant == Spec => []Typed
<1>1. Init => Typed
  <2> SUFFICES ASSUME Init PROVE Typed
    OBVIOUS
  <2>1. \A S : <<>> \in Seq(S) /\ Len(<<>>) = 0
    BY EmptySeq
  <2>2. /\ length \in Seq(BodyLengths) /\ Len(length) = 0 /\ wire \in Seq(Sent)
        /\ buffer \in Seq(Sent) /\ prefix \in Seq(Sent) /\ body \in Seq(Sent)
    BY <2>1, Zenon DEF Init
  <2>3. /\ phase \in Phase /\ phase # "body" /\ ended \in BOOLEAN /\ whole \in BOOLEAN
        /\ reader \in Reader
    BY DEF Init, Phase
  <2>4. Len(length) <= MaxFrames /\ Len(length) <= 1
    BY <2>2, FramingAssumption
  <2> QED
    BY <2>2, <2>3, <2>4, Zenon DEF Typed
<1>2. Typed /\ [Next]_vars => Typed'
  <2>1. Typed /\ UNCHANGED vars => Typed'
    BY DEF Typed, vars, state, Sent, Envelopes, declared
  <2> QED
    BY <2>1, TypedConnection, TypedRead DEF Next
<1> QED
  BY <1>1, <1>2, PTL DEF Spec

-------------------------------------------------------------------------------
(***************************************************************************)
(* The stream.  After a byte comes the next of its frame, and after the    *)
(* last of a frame the first of the next.  `len' is the length of each     *)
(* body, `nx' the byte that comes next from the connection, if any does.   *)
(***************************************************************************)
first(f) == [frame |-> f, at |-> 1]

succ(len, b) == IF b.at < PrefixLen + len[b.frame]
                THEN [frame |-> b.frame, at |-> b.at + 1] ELSE first(b.frame + 1)

coming == IF wire # <<>> THEN {wire[1]}
          ELSE IF ended THEN {} ELSE {first(Len(length) + 1)}

\* No byte is missing within s, or between s and what comes.
Gapless(len, s) == \A i \in 1 .. Len(s) - 1 : s[i + 1] = succ(len, s[i])

Joins(len, s, nx) == \A b \in nx : b = succ(len, s[Len(s)])

Stream ==
    /\ Gapless(length, wire)
    /\ ~ended /\ wire # <<>> => succ(length, wire[Len(wire)]) = first(Len(length) + 1)

\* s is where frame k starts, with all of the stream behind it; or it is no
\* start of any frame, and no reader will take it for one.
Resumes(len, s, k, nx) ==
    \/ s # <<>> /\ s[1].at # 1
    \/ s = <<>> /\ nx \subseteq {first(k)}
    \/ s # <<>> /\ s[1] = first(k) /\ Gapless(len, s) /\ Joins(len, s, nx)

\* A read takes what comes, and leaves the stream as gapless as it was.
LEMMA ReadOn ==
    ASSUME Typed, Stream, NEW c \in Chunks, Take(c), UNCHANGED <<length, ended>>
    PROVE  /\ Stream'
           /\ coming = {c[1]} /\ Gapless(length, c) /\ Joins(length, c, coming')
<1>1. /\ c \in Seq(Sent) /\ Len(c) \in 1 .. Len(wire)
      /\ \A i \in 1 .. Len(c) : c[i] = wire[i]
      /\ wire' \in Seq(Sent) /\ Len(wire') = Len(wire) - Len(c)
      /\ \A i \in 1 .. Len(wire) - Len(c) : wire'[i] = wire[Len(c) + i]
  BY Chunk
<1>2. Len(wire) \in Nat /\ Len(wire') \in Nat /\ Len(c) \in Nat /\ wire # <<>>
  BY <1>1, LenProperties, EmptySeq DEF Typed
<1>3. coming = {c[1]}
  BY <1>1, <1>2 DEF coming
<1>4. \A i \in 1 .. Len(wire) - 1 : wire[i + 1] = succ(length, wire[i])
  BY DEF Stream, Gapless
<1>5. Gapless(length, c)
  BY <1>1, <1>2, <1>4 DEF Gapless
<1>6. Gapless(length, wire')
  <2> SUFFICES ASSUME NEW i \in 1 .. Len(wire') - 1
               PROVE  wire'[i + 1] = succ(length, wire'[i])
    BY DEF Gapless
  <2>1. wire'[i] = wire[Len(c) + i] /\ wire'[i + 1] = wire[Len(c) + i + 1]
    BY <1>1, <1>2
  <2> QED
    BY <1>1, <1>2, <1>4, <2>1
<1>7. wire' # <<>> => wire'[Len(wire')] = wire[Len(wire)] /\ Len(wire') # 0 /\ wire'[1] = wire[Len(c) + 1]
  <2>1. wire' # <<>> => Len(wire') # 0
    BY <1>1, EmptySeq
  <2> QED
    BY <1>1, <1>2, <2>1
<1>8. Stream'
  BY <1>2, <1>6, <1>7 DEF Stream
<1>9. Joins(length, c, coming')
  <2>1. c[Len(c)] = wire[Len(c)]
    BY <1>1, <1>2
  <2>2. CASE wire' # <<>>
    <3>1. Len(c) \in 1 .. Len(wire) - 1
      BY <1>1, <1>2, <1>7, <2>2
    <3>2. wire'[1] = succ(length, c[Len(c)])
      BY <1>4, <1>7, <2>1, <2>2, <3>1
    <3> QED
      BY <2>2, <3>2 DEF coming, Joins
  <2>3. CASE wire' = <<>>
    <3>1. Len(c) = Len(wire)
      BY <1>1, <1>2, <2>3, EmptySeq
    <3> QED
      BY <1>2, <2>1, <2>3, <3>1 DEF coming, Joins, Stream
  <2> QED
    BY <2>2, <2>3
<1> QED
  BY <1>3, <1>5, <1>8, <1>9

\* The connection only adds to the stream where it ends, and takes from there.
LEMMA StreamGoesOn ==
    ASSUME Typed, Stream, End \/ \E n \in BodyLengths : Write(n)
    PROVE  /\ Stream' /\ coming' \subseteq coming
           /\ \A b \in Sent : succ(length', b) = succ(length, b)
<1>1. Len(wire) \in Nat /\ Len(length) \in Nat
  BY LenProperties DEF Typed
<1>2. CASE End
  <2>1. /\ wire' \in Seq(Sent) /\ Len(wire') \in 0 .. Len(wire)
        /\ \A i \in 1 .. Len(wire') : wire'[i] = wire[i]
    BY <1>2, Cutoff
  <2>2. length' = length /\ ended' = TRUE
    BY <1>2 DEF End
  <2>3. Stream'
    BY <1>1, <2>1, <2>2 DEF Stream, Gapless
  <2>4. coming' \subseteq coming
    <3>1. wire' # <<>> => wire # <<>> /\ wire'[1] = wire[1]
      <4>1. wire' # <<>> => Len(wire') >= 1
        BY <1>1, <2>1, EmptySeq
      <4>2. wire = <<>> => Len(wire) = 0
        BY EmptySeq
      <4> QED
        BY <1>1, <2>1, <4>1, <4>2
    <3> QED
      BY <2>2, <3>1 DEF coming
  <2> QED
    BY <2>2, <2>3, <2>4
<1>3. CASE \E n \in BodyLengths : Write(n)
  <2>1. PICK n \in BodyLengths : Write(n)
    BY <1>3
  <2> DEFINE f == Len(length) + 1
             m == PrefixLen + n
  <2>2. /\ Len(length') = f
        /\ \A i \in 1 .. Len(length) : length'[i] = length[i]
        /\ length'[f] = n
        /\ wire' \in Seq(Sent') /\ Len(wire') = Len(wire) + m
        /\ \A i \in 1 .. Len(wire) : wire'[i] = wire[i]
        /\ \A i \in 1 .. m : wire'[Len(wire) + i] = [frame |-> f, at |-> i]
    <3>1. Len(wire) + PrefixLen + n = Len(wire) + m
      BY <1>1, Lengths, FramingAssumption
    <3> QED
      BY <2>1, <3>1, Written
  <2>3. ended' = ended /\ ~ended
    BY <2>1 DEF Write
  <2>4. n \in Nat \ {0} /\ PrefixLen \in Nat \ {0} /\ m \in Nat \ {0}
    BY Lengths, FramingAssumption
  <2>5. \A b \in Sent : succ(length', b) = succ(length, b)
    BY <1>1, <2>2 DEF Sent, succ
  <2>6. wire' # <<>>
    BY <1>1, <2>2, <2>4, EmptySeq
  <2>7. wire'[Len(wire) + 1] = first(f)
    BY <2>2, <2>4 DEF first
  <2>8. wire = <<>> <=> Len(wire) = 0
    BY <1>1, EmptySeq DEF Typed
  <2>9. coming' = coming
    BY <1>1, <2>2, <2>3, <2>6, <2>7, <2>8 DEF coming
  <2>10. \A i \in 1 .. Len(wire) : wire[i] \in Sent
    BY ElementOfSeq DEF Typed
  <2>11. Gapless(length', wire')
    <3> SUFFICES ASSUME NEW i \in 1 .. Len(wire') - 1
                 PROVE  wire'[i + 1] = succ(length', wire'[i])
      BY DEF Gapless
    <3>1. CASE i < Len(wire)
      <4>1. wire'[i] = wire[i] /\ wire'[i + 1] = wire[i + 1] /\ wire[i] \in Sent
        BY <1>1, <2>2, <2>10, <3>1
      <4>2. wire[i + 1] = succ(length, wire[i])
        BY <1>1, <3>1 DEF Stream, Gapless
      <4> QED
        BY <2>5, <4>1, <4>2
    <3>2. CASE i = Len(wire)
      <4>1. wire'[i] = wire[i] /\ wire[i] \in Sent /\ wire # <<>>
        BY <1>1, <2>2, <2>10, <2>8, <3>2
      <4>2. wire'[i + 1] = first(f) /\ succ(length, wire[i]) = first(f)
        BY <2>3, <2>7, <3>2, <4>1 DEF Stream
      <4> QED
        BY <2>5, <4>1, <4>2
    <3>3. CASE i > Len(wire)
      <4> DEFINE j == i - Len(wire)
      <4>1. j \in 1 .. m - 1 /\ Len(wire) + j = i /\ Len(wire) + (j + 1) = i + 1 /\ j \in 1 .. m /\ j + 1 \in 1 .. m
        BY <1>1, <2>2, <2>4, <3>3
      <4>2. wire'[i] = [frame |-> f, at |-> j] /\ wire'[i + 1] = [frame |-> f, at |-> j + 1]
        BY <2>2, <4>1
      <4>3. j < PrefixLen + length'[f]
        BY <2>2, <2>4, <4>1
      <4> HIDE DEF j, f
      <4> QED
        BY <4>2, <4>3 DEF succ
    <3> QED
      BY <1>1, <2>2, <2>4, <3>1, <3>2, <3>3
  <2>12. succ(length', wire'[Len(wire')]) = first(Len(length') + 1)
    <3>1. wire'[Len(wire')] = [frame |-> f, at |-> m] /\ m \in 1 .. m
      BY <2>2, <2>4
    <3>2. ~(m < PrefixLen + length'[f])
      BY <2>2, <2>4
    <3> HIDE DEF m
    <3>3. succ(length', wire'[Len(wire')]) = first(f + 1)
      BY <3>1, <3>2 DEF succ
    <3> QED
      BY <2>2, <3>3
  <2> QED
    BY <2>5, <2>9, <2>11, <2>12 DEF Stream
<1> QED
  BY <1>2, <1>3

LEMMA ResumesLater ==
    ASSUME NEW S, NEW s \in Seq(S), NEW len, NEW later, NEW k, NEW nx, NEW ny \in SUBSET nx,
           \A b \in S : succ(later, b) = succ(len, b),
           Resumes(len, s, k, nx)
    PROVE  Resumes(later, s, k, ny)
<1>1. Len(s) \in Nat /\ (s # <<>> => Len(s) >= 1) /\ \A i \in 1 .. Len(s) : s[i] \in S
  BY LenProperties, ElementOfSeq, EmptySeq
<1>2. Gapless(len, s) => Gapless(later, s)
  BY <1>1 DEF Gapless
<1>3. s # <<>> /\ Joins(len, s, nx) => Joins(later, s, ny)
  BY <1>1 DEF Joins
<1> QED
  BY <1>2, <1>3 DEF Resumes

LEMMA ResumesLonger ==
    ASSUME NEW S, NEW s \in Seq(S), NEW c \in Seq(S), Len(c) >= 1, NEW len, NEW k, NEW nx,
           Gapless(len, c), Joins(len, c, nx),
           Resumes(len, s, k, {c[1]})
    PROVE  Resumes(len, s \o c, k, nx)
<1>1. Len(s) \in Nat /\ Len(c) \in Nat /\ (s = <<>> <=> Len(s) = 0)
  BY LenProperties, EmptySeq
<1>2. /\ s \o c \in Seq(S) /\ Len(s \o c) = Len(s) + Len(c)
      /\ \A i \in 1 .. Len(s) + Len(c) :
            (s \o c)[i] = IF i <= Len(s) THEN s[i] ELSE c[i - Len(s)]
  BY ConcatProperties
<1>3. s \o c # <<>> /\ (s \o c)[1] = IF s = <<>> THEN c[1] ELSE s[1]
  BY <1>1, <1>2, EmptySeq
<1>4. Joins(len, s \o c, nx)
  BY <1>1, <1>2 DEF Joins
<1>5. ASSUME s # <<>> => Gapless(len, s) /\ c[1] = succ(len, s[Len(s)])
      PROVE  Gapless(len, s \o c)
  <2> SUFFICES ASSUME NEW i \in 1 .. Len(s \o c) - 1
               PROVE  (s \o c)[i + 1] = succ(len, (s \o c)[i])
    BY DEF Gapless
  <2>1. CASE i < Len(s)
    BY <1>1, <1>2, <1>5, <2>1 DEF Gapless
  <2>2. CASE i = Len(s)
    BY <1>1, <1>2, <1>5, <2>2
  <2>3. CASE i > Len(s)
    <3> DEFINE j == i - Len(s)
    <3>1. j \in 1 .. Len(c) - 1 /\ (i + 1) - Len(s) = j + 1
      BY <1>1, <1>2, <2>3
    <3>2. c[j + 1] = succ(len, c[j])
      BY <3>1 DEF Gapless
    <3>3. (s \o c)[i] = c[j] /\ (s \o c)[i + 1] = c[(i + 1) - Len(s)]
      BY <1>1, <1>2, <2>3
    <3> QED
      BY <3>1, <3>2, <3>3
  <2> QED
    BY <1>1, <1>2, <2>1, <2>2, <2>3
<1>6. CASE s = <<>>
  BY <1>3, <1>4, <1>5, <1>6 DEF Resumes
<1>7. CASE s # <<>> /\ s[1].at # 1
  BY <1>3, <1>7 DEF Resumes
<1>8. CASE s # <<>> /\ s[1] = first(k) /\ Gapless(len, s) /\ Joins(len, s, {c[1]})
  BY <1>3, <1>4, <1>5, <1>8 DEF Resumes, Joins
<1> QED
  BY <1>6, <1>7, <1>8 DEF Resumes

\* s, and then what comes, is what follows byte b.
Behind(len, s, b, nx) ==
    IF s = <<>> THEN nx \subseteq {succ(len, b)}
    ELSE s[1] = succ(len, b) /\ Gapless(len, s) /\ Joins(len, s, nx)

LEMMA BehindLater ==
    ASSUME NEW S, NEW s \in Seq(S), NEW len, NEW later, NEW a \in S, NEW nx, NEW ny \in SUBSET nx,
           \A b \in S : succ(later, b) = succ(len, b),
           Behind(len, s, a, nx)
    PROVE  Behind(later, s, a, ny)
<1>1. Len(s) \in Nat /\ (s # <<>> => Len(s) >= 1) /\ \A i \in 1 .. Len(s) : s[i] \in S
  BY LenProperties, ElementOfSeq, EmptySeq
<1>2. Gapless(len, s) => Gapless(later, s)
  BY <1>1 DEF Gapless
<1>3. s # <<>> /\ Joins(len, s, nx) => Joins(later, s, ny)
  BY <1>1 DEF Joins
<1> QED
  BY <1>2, <1>3 DEF Behind

LEMMA Rest ==
    ASSUME NEW S, NEW s \in Seq(S), NEW m \in 1 .. Len(s), NEW len, NEW nx,
           Gapless(len, s), Joins(len, s, nx)
    PROVE  Behind(len, SubSeq(s, m + 1, Len(s)), s[m], nx)
<1> DEFINE r == SubSeq(s, m + 1, Len(s))
<1>1. Len(s) \in Nat /\ m \in Nat \ {0}
  BY LenProperties
<1>2. CASE m = Len(s)
  <2>1. r = <<>>
    BY <1>1, <1>2, SubSeqEmpty
  <2> QED
    BY <1>2, <2>1 DEF Behind, Joins
<1>3. CASE m < Len(s)
  <2>1. /\ r \in Seq(S) /\ Len(r) = Len(s) - m
        /\ \A i \in 1 .. Len(s) - m : r[i] = s[m + i]
    <3>1. /\ r \in Seq(S)
          /\ Len(r) = IF m + 1 <= Len(s) THEN Len(s) - (m + 1) + 1 ELSE 0
          /\ \A i \in 1 .. Len(s) - (m + 1) + 1 : r[i] = s[(m + 1) + i - 1]
      BY <1>1, <1>3, Cut
    <3> QED
      BY <1>1, <1>3, <3>1
  <2> HIDE DEF r
  <2>2. r # <<>> /\ r[1] = s[m + 1] /\ r[Len(r)] = s[Len(s)]
    <3>1. Len(r) \in 1 .. Len(s) - m /\ 1 \in 1 .. Len(s) - m /\ m + Len(r) = Len(s)
      BY <1>1, <1>3, <2>1
    <3>2. Len(<<>>) = 0
      BY EmptySeq
    <3>3. r[1] = s[m + 1] /\ r[Len(r)] = s[m + Len(r)]
      BY <2>1, <3>1
    <3>4. Len(r) # 0
      BY <3>1
    <3>5. r # <<>>
      BY <3>2, <3>4
    <3> QED
      BY <3>1, <3>3, <3>5
  <2>3. s[m + 1] = succ(len, s[m])
    BY <1>1, <1>3 DEF Gapless
  <2>4. Gapless(len, r)
    <3> SUFFICES ASSUME NEW i \in 1 .. Len(r) - 1 PROVE r[i + 1] = succ(len, r[i])
      BY DEF Gapless
    <3>1. /\ i \in 1 .. Len(s) - m /\ i + 1 \in 1 .. Len(s) - m
          /\ m + i \in 1 .. Len(s) - 1 /\ m + (i + 1) = (m + i) + 1
      BY <1>1, <1>3, <2>1
    <3>2. r[i] = s[m + i] /\ r[i + 1] = s[(m + i) + 1]
      BY <2>1, <3>1
    <3> QED
      BY <3>1, <3>2 DEF Gapless
  <2> QED
    BY <2>2, <2>3, <2>4 DEF Behind, Joins, r
<1> QED
  BY <1>1, <1>2, <1>3

-------------------------------------------------------------------------------
(***************************************************************************)
(* FramingReader and its copy.  FramingReader is always where the frame    *)
(* after the last one it returned starts, or holds a byte that starts no   *)
(* frame and fails on it.  When a chunk completes a body it keeps all of   *)
(* the chunk, and so a byte of that body.  Its copy never gets beyond the  *)
(* first frame: it decodes a body without the prefix.                      *)
(***************************************************************************)
next == Len(got) + 1

Began(p, k, len) ==
    /\ Len(p) >= PrefixLen /\ p[1] = first(k) /\ k \in 1 .. Len(len)
    /\ \A i \in 1 .. PrefixLen : p[i].at = i

NoStart(s, nx) == IF s = <<>> THEN \A b \in nx : b.at # 1 ELSE s[1].at # 1

Returned == /\ got \in Seq(Nat) /\ Len(got) <= Len(length)
            /\ \A i \in 1 .. Len(got) : got[i] = i

Following ==
    /\ phase \in {"idle", "prefix", "body", "decoding", "failed"}
    /\ phase = "idle" => Resumes(length, buffer, next, coming)
    /\ phase = "prefix" => /\ Resumes(length, prefix \o buffer, next, coming)
                           /\ Len(prefix) = PrefixLen \/ buffer = <<>>
    /\ phase \in {"body", "decoding"} => Began(prefix, next, length)
    /\ phase = "decoding" => Len(body) = length[next]
    /\ phase = "decoding" /\ reader = "FramingReader" =>
          \/ buffer # <<>> /\ \E i \in 1 .. Len(body) : buffer[1] = body[i]
          \/ Behind(length, buffer, body[Len(body)], coming)

Copying ==
    reader = "FramingReaderState" =>
        /\ got = <<>>
        /\ phase \in {"idle", "prefix", "body"} => buffer = <<>>
        /\ phase \in {"body", "decoding"} => NoStart(body, coming)

EnvelopesOK == Envelopes => Returned /\ Following /\ Copying

LEMMA EnvelopesConnected ==
    ASSUME Typed, Stream, EnvelopesOK, End \/ \E n \in BodyLengths : Write(n)
    PROVE  EnvelopesOK'
<1>1. UNCHANGED <<reader, phase, buffer, prefix, body, got>>
  BY DEF End, Write, state
<1>2. /\ Len(length) \in Nat /\ Len(length') \in Nat /\ Len(length) <= Len(length')
      /\ \A i \in 1 .. Len(length) : length'[i] = length[i]
  <2>1. CASE End
    BY <2>1, LenProperties DEF End, Typed
  <2>2. CASE \E n \in BodyLengths : Write(n)
    BY <2>2, Written, LenProperties DEF Typed
  <2> QED
    BY <2>1, <2>2
<1>3. coming' \subseteq coming /\ \A b \in Sent : succ(length', b) = succ(length, b)
  BY StreamGoesOn
<1>4. /\ buffer \in Seq(Sent) /\ prefix \in Seq(Sent) /\ body \in Seq(Sent)
      /\ prefix \o buffer \in Seq(Sent)
  BY ConcatProperties DEF Typed
<1>5. SUFFICES ASSUME Envelopes PROVE (Returned /\ Following /\ Copying)'
  BY <1>1 DEF EnvelopesOK, Envelopes
<1>6. Returned /\ Following /\ Copying
  BY <1>5 DEF EnvelopesOK
<1>7. next' = next
  BY <1>1 DEF next
<1>8. Returned'
  BY <1>1, <1>2, <1>6, LenProperties DEF Returned
<1>9. Copying'
  BY <1>1, <1>3, <1>6 DEF Copying, NoStart
<1>10. phase = "idle" => Resumes(length', buffer, next, coming')
  BY <1>3, <1>4, <1>6, ResumesLater DEF Following
<1>11. phase = "prefix" => Resumes(length', prefix \o buffer, next, coming')
  BY <1>3, <1>4, <1>6, ResumesLater DEF Following
<1>12. Began(prefix, next, length) => Began(prefix, next, length') /\ length'[next] = length[next]
  BY <1>2 DEF Began
<1>13. phase = "decoding" /\ Behind(length, buffer, body[Len(body)], coming)
         => Behind(length', buffer, body[Len(body)], coming')
  <2> SUFFICES ASSUME phase = "decoding", Behind(length, buffer, body[Len(body)], coming)
               PROVE  Behind(length', buffer, body[Len(body)], coming')
    OBVIOUS
  <2>1. Began(prefix, next, length) /\ Len(body) = length[next]
    BY <1>6 DEF Following
  <2>2. Len(body) \in Nat \ {0}
    BY <2>1, ElementOfSeq, Lengths DEF Began, Typed
  <2>3. body[Len(body)] \in Sent
    BY <1>4, <2>2, ElementOfSeq
  <2> QED
    BY <1>3, <1>4, <2>3, BehindLater
<1>14. Following'
  BY <1>1, <1>6, <1>7, <1>10, <1>11, <1>12, <1>13 DEF Following
<1> QED
  BY <1>8, <1>9, <1>14

LEMMA ReadEnvelopeKeeps ==
    ASSUME Typed, EnvelopesOK, ReadEnvelope
    PROVE  EnvelopesOK'
<1>1. /\ UNCHANGED <<reader, length, wire, ended, got>> /\ phase' = "prefix"
      /\ Envelopes /\ phase = "idle"
  BY DEF ReadEnvelope
<1>2. Returned /\ Following /\ Copying /\ coming' = coming /\ next' = next
  BY <1>1 DEF EnvelopesOK, coming, next
<1>3. PrefixLen \in Nat \ {0} /\ buffer \in Seq(Sent) /\ Len(buffer) \in Nat
  BY FramingAssumption, LenProperties DEF Typed
<1>4. prefix' \o buffer' = buffer /\ (Len(prefix') = PrefixLen \/ buffer' = <<>>)
  <2>1. CASE Len(buffer) >= PrefixLen
    <3>1. /\ prefix' = SubSeq(buffer, 1, PrefixLen)
          /\ buffer' = SubSeq(buffer, PrefixLen + 1, Len(buffer))
      BY <1>3, <2>1 DEF ReadEnvelope
    <3>2. prefix' \o buffer' = SubSeq(buffer, 1, Len(buffer))
      <4>1. /\ 1 \in 1 .. Len(buffer) + 1 /\ PrefixLen \in 1 - 1 .. Len(buffer)
            /\ Len(buffer) \in PrefixLen .. Len(buffer)
        BY <1>3, <2>1
      <4> QED
        BY <1>3, <3>1, <4>1, ConcatAdjacentSubSeq
    <3>3. SubSeq(buffer, 1, Len(buffer)) = buffer
      BY <1>3, SubSeqFull
    <3>4. Len(prefix') = PrefixLen
      BY <1>3, <2>1, <3>1, Cut
    <3> QED
      BY <3>2, <3>3, <3>4
  <2>2. CASE Len(buffer) < PrefixLen
    <3>1. prefix' = buffer /\ buffer' = <<>>
      BY <1>3, <2>2 DEF ReadEnvelope
    <3> QED
      BY <1>3, <3>1, ConcatEmptySeq
  <2> QED
    BY <1>3, <2>1, <2>2
<1>5. buffer = <<>> => buffer' = <<>>
  <2>1. Len(<<>>) = 0
    BY EmptySeq
  <2> QED
    BY <1>3, <2>1 DEF ReadEnvelope
<1>6. Following'
  BY <1>1, <1>2, <1>4 DEF Following
<1>7. Returned'
  BY <1>1, <1>2 DEF Returned
<1>8. Copying'
  BY <1>1, <1>2, <1>5 DEF Copying
<1> QED
  BY <1>6, <1>7, <1>8 DEF EnvelopesOK

LEMMA PrefixChunkKeeps ==
    ASSUME Typed, Stream, EnvelopesOK, NEW c \in Chunks, PrefixChunk(c)
    PROVE  EnvelopesOK'
<1>1. /\ UNCHANGED <<reader, length, ended, phase, buffer, body, got>> /\ Take(c)
      /\ Envelopes /\ phase = "prefix" /\ Len(prefix) < PrefixLen /\ prefix' = prefix \o c
  BY DEF PrefixChunk
<1>2. Returned /\ Following /\ Copying /\ next' = next
  BY <1>1 DEF EnvelopesOK, next
<1>3. /\ c \in Seq(Sent) /\ Len(c) >= 1
      /\ coming = {c[1]} /\ Gapless(length, c) /\ Joins(length, c, coming')
  BY <1>1, Chunk, ReadOn, LenProperties DEF Typed
<1>4. PrefixLen \in Nat /\ prefix \in Seq(Sent) /\ Len(prefix) \in Nat
  BY FramingAssumption, LenProperties DEF Typed
<1>5. buffer = <<>> /\ prefix \o buffer = prefix /\ prefix' \o buffer = prefix'
  <2>1. buffer = <<>>
    BY <1>1, <1>2, <1>4 DEF Following
  <2>2. prefix \o c \in Seq(Sent)
    BY <1>3, <1>4, ConcatProperties
  <2> QED
    BY <1>1, <1>4, <2>1, <2>2, ConcatEmptySeq
<1>6. Resumes(length, prefix, next, {c[1]})
  BY <1>1, <1>2, <1>3, <1>5 DEF Following
<1>7. Resumes(length, prefix \o c, next, coming')
  BY <1>3, <1>4, <1>6, ResumesLonger
<1>8. Following'
  BY <1>1, <1>2, <1>5, <1>7 DEF Following
<1>9. Returned'
  BY <1>1, <1>2 DEF Returned
<1>10. Copying'
  BY <1>1, <1>2 DEF Copying
<1> QED
  BY <1>8, <1>9, <1>10 DEF EnvelopesOK

\* The byte after a prefix is the first of a body.
LEMMA BodyIsNoStart ==
    ASSUME Typed, NEW p \in Seq(Sent), NEW k, Began(p, k, length)
    PROVE  succ(length, p[PrefixLen]).at # 1
<1>1. PrefixLen \in 1 .. Len(p) /\ PrefixLen \in Nat \ {0} /\ p[PrefixLen].at = PrefixLen
  BY FramingAssumption, LenProperties DEF Began
<1>2. p[PrefixLen] \in Sent
  BY <1>1, ElementOfSeq
<1>3. length[p[PrefixLen].frame] \in BodyLengths
  BY <1>2, ElementOfSeq DEF Sent, Typed
<1>4. length[p[PrefixLen].frame] \in Nat \ {0}
  BY <1>3, Lengths
<1> QED
  BY <1>1, <1>4 DEF succ

LEMMA PrefixReadKeeps ==
    ASSUME Typed, EnvelopesOK, PrefixRead
    PROVE  EnvelopesOK'
<1> DEFINE n == declared(prefix)
           L == Len(prefix)
<1>1. /\ UNCHANGED <<reader, length, wire, ended, got, prefix>>
      /\ Envelopes /\ phase = "prefix" /\ L >= PrefixLen
  BY DEF PrefixRead
<1>2. Returned /\ Following /\ Copying /\ coming' = coming /\ next' = next
  BY <1>1 DEF EnvelopesOK, coming, next
<1>3. /\ PrefixLen \in Nat \ {0} /\ MaxBody \in Nat /\ prefix \in Seq(Sent) /\ L \in Nat
      /\ buffer \in Seq(Sent) /\ n \in Nat \ {0}
  <2>1. prefix \in Seq(Sent) /\ buffer \in Seq(Sent)
    BY DEF Typed
  <2> QED
    BY <1>1, <2>1, FramingAssumption, LenProperties, Declared
<1>4. Returned'
  BY <1>1, <1>2 DEF Returned
<1>5. CASE n > MaxBody
  <2>1. phase' = "failed"
    BY <1>3, <1>5 DEF PrefixRead
  <2> QED
    BY <1>1, <1>2, <1>4, <2>1 DEF EnvelopesOK, Following, Copying
<1>6. CASE n <= MaxBody
  <2>1. /\ \A i \in 1 .. PrefixLen : prefix[i].at = i
        /\ prefix[1] = first(prefix[1].frame)
        /\ prefix[1].frame \in 1 .. Len(length)
        /\ n = length[prefix[1].frame]
    BY <1>1, <1>3, <1>6, Declared DEF first
  <2>2. /\ prefix \o buffer # <<>> /\ (prefix \o buffer)[1] = prefix[1] /\ prefix[1].at = 1
    <3>1. /\ Len(prefix \o buffer) = L + Len(buffer) /\ Len(buffer) \in Nat
          /\ \A i \in 1 .. L + Len(buffer) :
                (prefix \o buffer)[i] = IF i <= L THEN prefix[i] ELSE buffer[i - L]
      BY <1>3, ConcatProperties, LenProperties
    <3>2. Len(<<>>) = 0
      BY EmptySeq
    <3> QED
      BY <1>1, <1>3, <2>1, <3>1, <3>2
  <2>3. /\ prefix[1] = first(next) /\ Gapless(length, prefix \o buffer)
        /\ Joins(length, prefix \o buffer, coming)
    BY <1>1, <1>2, <2>2 DEF Following, Resumes
  <2>4. next = prefix[1].frame /\ n = length[next]
    BY <2>1, <2>3 DEF first
  <2>5. Began(prefix, next, length)
    BY <1>1, <2>1, <2>3, <2>4 DEF Began
  <2>6. buffer = <<>> => Behind(length, SubSeq(prefix, PrefixLen + 1, L), prefix[PrefixLen], coming)
    <3> SUFFICES ASSUME buffer = <<>>
                 PROVE  Behind(length, SubSeq(prefix, PrefixLen + 1, L), prefix[PrefixLen], coming)
      OBVIOUS
    <3>1. prefix \o buffer = prefix
      BY <1>3, ConcatEmptySeq
    <3>2. PrefixLen \in 1 .. Len(prefix)
      BY <1>1, <1>3
    <3> QED
      BY <1>3, <2>3, <3>1, <3>2, Rest
  <2>7. succ(length, prefix[PrefixLen]).at # 1
    BY <1>3, <2>5, BodyIsNoStart
  <2>8. CASE L - PrefixLen >= n
    <3>1. /\ body' = SubSeq(prefix, PrefixLen + 1, PrefixLen + n)
          /\ buffer' = IF L - PrefixLen > n THEN SubSeq(prefix, PrefixLen + n + 1, L) ELSE buffer
          /\ phase' = "decoding"
      BY <1>3, <1>6, <2>8 DEF PrefixRead
    <3>2. buffer = <<>> /\ prefix \o buffer = prefix
      BY <1>1, <1>2, <1>3, <2>8, ConcatEmptySeq DEF Following
    <3>3. /\ Len(body') = n
          /\ \A i \in 1 .. n : body'[i] = prefix[PrefixLen + i]
      <4>1. /\ Len(body') = IF PrefixLen + 1 <= PrefixLen + n
                            THEN (PrefixLen + n) - (PrefixLen + 1) + 1 ELSE 0
            /\ \A i \in 1 .. (PrefixLen + n) - (PrefixLen + 1) + 1 :
                  body'[i] = prefix[(PrefixLen + 1) + i - 1]
        <5>1. PrefixLen + 1 \in Nat \ {0} /\ PrefixLen + n \in Nat /\ PrefixLen + n <= Len(prefix)
          BY <1>3, <2>8
        <5> QED
          BY <1>3, <3>1, <5>1, Cut
      <4> QED
        BY <1>3, <4>1
    <3>4. Behind(length, SubSeq(prefix, PrefixLen + n + 1, L), prefix[PrefixLen + n], coming)
      <4>1. PrefixLen + n \in 1 .. Len(prefix)
        BY <1>3, <2>8
      <4> QED
        BY <1>3, <2>3, <3>2, <4>1, Rest
    <3>5. buffer' = SubSeq(prefix, PrefixLen + n + 1, L)
      <4>1. CASE L - PrefixLen = n
        <5>1. SubSeq(prefix, PrefixLen + n + 1, L) = <<>>
          BY <1>3, <4>1, SubSeqEmpty
        <5> QED
          BY <1>3, <3>1, <3>2, <4>1, <5>1
      <4>2. CASE L - PrefixLen > n
        BY <3>1, <4>2
      <4> QED
        BY <1>3, <2>8, <4>1, <4>2
    <3>6. Behind(length', buffer', body'[Len(body')], coming')
      <4>1. body'[Len(body')] = prefix[PrefixLen + n]
        BY <1>3, <3>3
      <4> QED
        BY <1>1, <1>2, <3>4, <3>5, <4>1
    <3>7. Following'
      BY <1>1, <1>2, <2>4, <2>5, <3>1, <3>3, <3>6 DEF Following
    <3>8. NoStart(body', coming')
      <4>1. body' # <<>> /\ body'[1] = prefix[PrefixLen + 1]
        <5>1. Len(<<>>) = 0 /\ 1 \in 1 .. n
          BY <1>3, EmptySeq
        <5> QED
          BY <1>3, <3>3, <5>1
      <4>2. prefix[PrefixLen + 1] = succ(length, prefix[PrefixLen])
        <5>1. PrefixLen \in 1 .. Len(prefix) - 1
          BY <1>3, <2>8
        <5> QED
          BY <2>3, <3>2, <5>1 DEF Gapless
      <4> QED
        BY <2>7, <4>1, <4>2 DEF NoStart
    <3>9. Copying'
      BY <1>1, <1>2, <3>1, <3>8 DEF Copying
    <3> QED
      BY <1>4, <3>7, <3>9 DEF EnvelopesOK
  <2>9. CASE L - PrefixLen < n
    <3>1. body' = SubSeq(prefix, PrefixLen + 1, L) /\ buffer' = buffer /\ phase' = "body"
      BY <1>3, <1>6, <2>9 DEF PrefixRead
    <3>2. Following'
      BY <1>1, <1>2, <2>5, <3>1 DEF Following
    <3>3. buffer = <<>> => NoStart(body', coming')
      BY <1>2, <2>6, <2>7, <3>1 DEF Behind, NoStart
    <3>4. Copying'
      BY <1>1, <1>2, <3>1, <3>3 DEF Copying
    <3> QED
      BY <1>4, <3>2, <3>4 DEF EnvelopesOK
  <2> QED
    BY <1>3, <2>8, <2>9
<1> QED
  BY <1>3, <1>5, <1>6

LEMMA BodyChunkKeeps ==
    ASSUME Typed, Stream, EnvelopesOK, NEW c \in Chunks, BodyChunk(c)
    PROVE  EnvelopesOK'
<1> DEFINE remaining == declared(prefix) - Len(body)
<1>1. /\ UNCHANGED <<reader, length, ended, prefix, got>> /\ Take(c)
      /\ Envelopes /\ phase = "body"
  BY DEF BodyChunk
<1>2. Returned /\ Following /\ Copying /\ next' = next
  BY <1>1 DEF EnvelopesOK, next
<1>3. /\ c \in Seq(Sent) /\ Len(c) \in Nat \ {0} /\ coming = {c[1]}
  BY <1>1, Chunk, ReadOn, LenProperties DEF Typed
<1>4. Began(prefix, next, length) /\ Len(body) < declared(prefix)
  BY <1>1, <1>2 DEF Following, Typed
<1>5. declared(prefix) = length[next] /\ length[next] \in Nat \ {0}
  <2>1. length[next] \in BodyLengths
    BY <1>4, ElementOfSeq DEF Began, Typed
  <2> QED
    BY <1>4, <2>1, Lengths DEF Began, declared, first
<1>6. /\ Len(body) \in Nat /\ body \in Seq(Sent) /\ remaining \in Nat \ {0}
  BY <1>4, <1>5, LenProperties DEF Typed
<1>7. Returned'
  BY <1>1, <1>2 DEF Returned
<1>8. reader = "FramingReaderState" => (IF body = <<>> THEN c[1].at # 1 ELSE body[1].at # 1)
  BY <1>1, <1>2, <1>3 DEF Copying, NoStart
<1>9. \A d \in Seq(Sent) : Len(d) >= 1 /\ d[1] = c[1] =>
         /\ Len(body \o d) = Len(body) + Len(d)
         /\ (body \o d)[Len(body) + 1] = c[1]
         /\ reader = "FramingReaderState" => body \o d # <<>> /\ (body \o d)[1].at # 1
  <2> SUFFICES ASSUME NEW d \in Seq(Sent), Len(d) >= 1, d[1] = c[1]
               PROVE  /\ Len(body \o d) = Len(body) + Len(d)
                      /\ (body \o d)[Len(body) + 1] = c[1]
                      /\ reader = "FramingReaderState" => body \o d # <<>> /\ (body \o d)[1].at # 1
    OBVIOUS
  <2>1. /\ Len(body \o d) = Len(body) + Len(d) /\ Len(d) \in Nat
        /\ \A i \in 1 .. Len(body) + Len(d) :
              (body \o d)[i] = IF i <= Len(body) THEN body[i] ELSE d[i - Len(body)]
    BY <1>6, ConcatProperties, LenProperties
  <2>2. Len(<<>>) = 0 /\ (body = <<>> <=> Len(body) = 0)
    BY <1>6, EmptySeq
  <2>3. (body \o d)[Len(body) + 1] = c[1]
    BY <1>6, <2>1
  <2>4. (body \o d)[1] = IF body = <<>> THEN c[1] ELSE body[1]
    BY <1>6, <2>1, <2>2
  <2>5. body \o d # <<>>
    BY <1>6, <2>1, <2>2
  <2> QED
    BY <1>8, <2>1, <2>3, <2>4, <2>5
<1>10. CASE Len(c) >= remaining
  <2> DEFINE d == SubSeq(c, 1, remaining)
  <2>1. /\ body' = body \o d /\ buffer' = leftover(c, remaining) /\ phase' = "decoding"
    BY <1>3, <1>6, <1>10 DEF BodyChunk
  <2>2. d \in Seq(Sent) /\ Len(d) = remaining /\ d[1] = c[1]
    <3>1. /\ d \in Seq(Sent) /\ Len(d) = IF 1 <= remaining THEN remaining - 1 + 1 ELSE 0
          /\ \A i \in 1 .. remaining - 1 + 1 : d[i] = c[1 + i - 1]
      BY <1>3, <1>6, <1>10, Cut
    <3> QED
      BY <1>6, <3>1
  <2> HIDE DEF d
  <2>3. /\ Len(body') = length[next] /\ body'[Len(body) + 1] = c[1]
        /\ Len(body) + 1 \in 1 .. Len(body')
        /\ reader = "FramingReaderState" => body' # <<>> /\ body'[1].at # 1
    <3>1. /\ Len(body') = Len(body) + Len(d) /\ body'[Len(body) + 1] = c[1]
          /\ reader = "FramingReaderState" => body' # <<>> /\ body'[1].at # 1
      <4>1. d \in Seq(Sent) /\ Len(d) >= 1 /\ d[1] = c[1]
        BY <1>6, <2>2
      <4> QED
        BY <1>9, <2>1, <4>1
    <3>2. Len(body) + remaining = length[next]
      BY <1>5, <1>6
    <3> QED
      BY <1>6, <2>2, <3>1, <3>2
  <2>4. reader = "FramingReader" => buffer' # <<>> /\ buffer'[1] = c[1]
    <3>1. Len(<<>>) = 0
      BY EmptySeq
    <3> QED
      BY <1>3, <2>1, <3>1 DEF leftover
  <2>5. Following'
    BY <1>1, <1>2, <1>4, <2>1, <2>3, <2>4 DEF Following
  <2>6. Copying'
    BY <1>1, <1>2, <2>1, <2>3 DEF Copying, NoStart
  <2> QED
    BY <1>7, <2>5, <2>6 DEF EnvelopesOK
<1>11. CASE Len(c) < remaining
  <2>1. body' = body \o c /\ UNCHANGED <<phase, buffer>>
    BY <1>3, <1>6, <1>11 DEF BodyChunk
  <2>2. reader = "FramingReaderState" => body' # <<>> /\ body'[1].at # 1
    BY <1>3, <1>9, <2>1
  <2>3. Following'
    BY <1>1, <1>2, <1>4, <2>1 DEF Following
  <2>4. Copying'
    BY <1>1, <1>2, <2>1, <2>2 DEF Copying, NoStart
  <2> QED
    BY <1>7, <2>3, <2>4 DEF EnvelopesOK
<1> QED
  BY <1>3, <1>6, <1>10, <1>11

LEMMA DecodeKeeps ==
    ASSUME Typed, EnvelopesOK, Decode
    PROVE  EnvelopesOK'
<1> DEFINE p == SubSeq(prefix, 1, PrefixLen)
           w == IF reader = "FramingReader" THEN p \o body ELSE body
<1>1. /\ UNCHANGED <<reader, length, wire, ended, buffer, prefix, body>>
      /\ Envelopes /\ phase = "decoding"
  BY DEF Decode
<1>2. Returned /\ Following /\ Copying /\ coming' = coming
  BY <1>1 DEF EnvelopesOK, coming
<1>3. /\ PrefixLen \in Nat \ {0} /\ prefix \in Seq(Sent) /\ body \in Seq(Sent)
      /\ Began(prefix, next, length) /\ Len(body) = length[next]
  BY <1>1, <1>2, FramingAssumption DEF Following, Typed
<1>4. length[next] \in Nat \ {0} /\ length[next] >= PrefixLen /\ next \in Nat \ {0}
  <2>1. length[next] \in BodyLengths
    BY <1>3, ElementOfSeq DEF Began, Typed
  <2> QED
    BY <1>3, <2>1, Lengths, LenProperties DEF Began, Typed
<1>5. CASE ~decodes(w)
  <2>1. phase' = "failed" /\ got' = got
    BY <1>5 DEF Decode
  <2> QED
    BY <1>1, <1>2, <2>1 DEF EnvelopesOK, Returned, Following, Copying
<1>6. CASE decodes(w)
  <2>1. got' = Append(got, w[1].frame) /\ phase' = "idle"
    BY <1>6 DEF Decode
  <2>2. reader = "FramingReader"
    <3> SUFFICES ASSUME reader # "FramingReader" PROVE FALSE
      OBVIOUS
    <3>1. reader = "FramingReaderState" /\ w = body
      BY <1>1 DEF Envelopes
    <3>2. Len(body) >= PrefixLen /\ body[1].at # 1
      <4>1. Len(<<>>) = 0
        BY EmptySeq
      <4> QED
        BY <1>1, <1>2, <1>3, <1>4, <3>1, <4>1 DEF Copying, NoStart
    <3>3. declared(body) > MaxBody /\ declared(body) \in Nat
      BY <1>3, <3>2, Declared
    <3>4. declared(body) <= MaxBody
      BY <1>6, <3>1 DEF decodes
    <3> QED
      BY <3>3, <3>4, FramingAssumption
  <2> DEFINE k == next
             n == length[next]
  <2>3. w = p \o body
    BY <2>2
  <2>4. /\ p \in Seq(Sent) /\ Len(p) = PrefixLen
        /\ \A i \in 1 .. PrefixLen : p[i] = prefix[i]
    <3>1. Len(prefix) \in Nat /\ PrefixLen <= Len(prefix)
      BY <1>3, LenProperties DEF Began
    <3>2. /\ p \in Seq(Sent) /\ Len(p) = IF 1 <= PrefixLen THEN PrefixLen - 1 + 1 ELSE 0
          /\ \A i \in 1 .. PrefixLen - 1 + 1 : p[i] = prefix[1 + i - 1]
      BY <1>3, <3>1, Cut
    <3> QED
      BY <1>3, <3>2
  <2>k. /\ k = next /\ n = length[next] /\ n \in Nat \ {0} /\ k \in Nat \ {0}
        /\ Len(body) = n /\ Began(prefix, k, length)
    BY <1>3, <1>4
  <2> HIDE DEF p, w, k, n
  <2>5. /\ Len(w) = PrefixLen + n
        /\ w[1] = first(k)
        /\ \A i \in 1 .. n : w[PrefixLen + i] = body[i]
    <3>1. /\ Len(w) = Len(p) + Len(body)
          /\ \A i \in 1 .. Len(p) + Len(body) :
                w[i] = IF i <= Len(p) THEN p[i] ELSE body[i - Len(p)]
      BY <1>3, <2>3, <2>4, ConcatProperties
    <3>2. w[1] = prefix[1]
      BY <1>3, <1>4, <2>4, <3>1
    <3>3. \A i \in 1 .. n : w[PrefixLen + i] = body[i]
      <4> SUFFICES ASSUME NEW i \in 1 .. n PROVE w[PrefixLen + i] = body[i]
        OBVIOUS
      <4>1. /\ PrefixLen + i \in 1 .. Len(p) + Len(body) /\ ~(PrefixLen + i <= Len(p))
            /\ (PrefixLen + i) - Len(p) = i
        BY <1>3, <2>k, <2>4
      <4> QED
        BY <3>1, <4>1
    <3> QED
      BY <1>3, <2>k, <2>4, <3>1, <3>2, <3>3 DEF Began
  <2>6. /\ w = frameOf(k, declared(w)) /\ Len(w) = PrefixLen + declared(w)
        /\ w[1].frame = k
    BY <1>6, <2>5 DEF decodes, first
  <2>7. \A i \in 1 .. n : body[i] = [frame |-> k, at |-> PrefixLen + i]
    <3>1. declared(w) \in Nat
      <4>1. w \in Seq(Sent)
        BY <1>3, <2>3, <2>4, ConcatProperties
      <4>2. Len(w) >= PrefixLen
        BY <1>3, <2>k, <2>5
      <4> QED
        BY <4>1, <4>2, Declared
    <3>2. declared(w) = n
      BY <1>3, <2>k, <2>5, <2>6, <3>1
    <3>3. \A i \in 1 .. PrefixLen + n : w[i] = [frame |-> k, at |-> i]
      <4>1. w = frameOf(k, n)
        BY <2>6, <3>2
      <4> QED
        BY <2>k, <4>1, Frame
    <3> SUFFICES ASSUME NEW i \in 1 .. n
                 PROVE  body[i] = [frame |-> k, at |-> PrefixLen + i]
      OBVIOUS
    <3>4. PrefixLen + i \in 1 .. PrefixLen + n
      BY <1>3, <2>k
    <3> QED
      BY <2>5, <3>3, <3>4
  <2>8. Resumes(length, buffer, k + 1, coming)
    <3>1. CASE buffer # <<>> /\ \E i \in 1 .. Len(body) : buffer[1] = body[i]
      <4>1. PICK i \in 1 .. n : buffer[1] = body[i]
        BY <2>k, <3>1
      <4>2. buffer[1].at = PrefixLen + i
        <5>1. body[i] = [frame |-> k, at |-> PrefixLen + i]
          BY <2>7
        <5> QED
          BY <4>1, <5>1
      <4> QED
        BY <1>3, <2>k, <3>1, <4>2 DEF Resumes
    <3>2. CASE Behind(length, buffer, body[Len(body)], coming)
      <4>1. body[Len(body)] = [frame |-> k, at |-> PrefixLen + n]
        BY <2>k, <2>7
      <4>2. succ(length, body[Len(body)]) = first(k + 1)
        BY <1>3, <2>k, <4>1 DEF succ
      <4> QED
        BY <3>2, <4>2 DEF Behind, Resumes
    <3> QED
      BY <1>1, <1>2, <2>2, <3>1, <3>2, <2>k DEF Following
  <2>9. got' = Append(got, k)
    BY <2>1, <2>6 DEF w
  <2>10. Returned' /\ next' = k + 1
    <3>1. got \in Seq(Nat) /\ Len(got) \in Nat /\ \A i \in 1 .. Len(got) : got[i] = i
      BY <1>2, LenProperties DEF Returned
    <3>2. /\ got' \in Seq(Nat) /\ Len(got') = Len(got) + 1
          /\ \A i \in 1 .. Len(got) : got'[i] = got[i]
          /\ got'[Len(got) + 1] = k
      BY <2>k, <2>9, <3>1, AppendProperties
    <3>3. Len(got') <= Len(length)
      BY <2>k, <3>2 DEF Began, next
    <3> QED
      <4>1. k = Len(got) + 1
        BY <2>k DEF next
      <4>2. \A i \in 1 .. Len(got') : got'[i] = i
        BY <3>1, <3>2, <4>1
      <4> QED
        BY <1>1, <3>2, <3>3, <4>1, <4>2 DEF Returned, next
  <2>11. Following'
    BY <1>1, <1>2, <2>1, <2>8, <2>10 DEF Following
  <2>12. Copying'
    BY <1>1, <2>2 DEF Copying
  <2> QED
    BY <2>10, <2>11, <2>12 DEF EnvelopesOK
<1> QED
  BY <1>5, <1>6

LEMMA EnvelopesRead ==
    ASSUME Typed, Stream, EnvelopesOK, Read
    PROVE  EnvelopesOK'
<1>1. CASE ReadEnvelope \/ PrefixRead \/ Decode
  BY <1>1, ReadEnvelopeKeeps, PrefixReadKeeps, DecodeKeeps
<1>2. CASE \E c \in Chunks : PrefixChunk(c) \/ BodyChunk(c)
  BY <1>2, PrefixChunkKeeps, BodyChunkKeeps
<1>3. CASE Truncated
  <2>1. phase' = "failed" /\ UNCHANGED <<reader, length, got>>
    BY <1>3 DEF Truncated
  <2> QED
    BY <2>1 DEF EnvelopesOK, Envelopes, Returned, Following, Copying
<1>4. CASE \E c \in Chunks : \/ BannerLength(c) \/ BannerChunk(c)
                             \/ RequestPrefix(c) \/ RequestBody(c)
  BY <1>4 DEF BannerLength, BannerChunk, RequestPrefix, RequestBody, EnvelopesOK, Envelopes
<1> QED
  BY <1>1, <1>2, <1>3, <1>4 DEF Read

-------------------------------------------------------------------------------
(***************************************************************************)
(* recvBanner.  It reads one frame, the first: what it holds, r, and what  *)
(* is in flight, w, are that frame's bytes, each in its place.             *)
(***************************************************************************)
FirstFrame(len, r, w, e) ==
    IF len = <<>> THEN r = <<>> /\ w = <<>>
    ELSE /\ \A i \in 1 .. Len(r) :
               i <= PrefixLen + len[1] => r[i] = [frame |-> 1, at |-> i]
         /\ \A i \in 1 .. Len(w) :
               Len(r) + i <= PrefixLen + len[1] => w[i] = [frame |-> 1, at |-> Len(r) + i]
         /\ ~e => Len(r) + Len(w) >= PrefixLen + len[1]

BannerOK ==
    reader = "recvBanner" =>
        /\ phase \in {"idle", "body", "done", "failed"}
        /\ IF phase = "done" THEN got \in {<<0>>, <<1>>} /\ (whole => got = <<1>>)
                             ELSE got = <<>>
        /\ phase = "idle" => whole /\ prefix = <<>> /\ body = <<>>
        /\ phase = "body" => Len(prefix) = PrefixLen
        /\ whole /\ phase \in {"idle", "body"}
              => FirstFrame(length, prefix \o body, wire, ended)

LEMMA BannerConnected ==
    ASSUME Typed, BannerOK, End \/ \E n \in BodyLengths : Write(n)
    PROVE  BannerOK'
<1>1. UNCHANGED <<reader, phase, prefix, body, got, whole>>
  BY DEF End, Write, state
<1> DEFINE r == prefix \o body
<1>2. SUFFICES ASSUME FirstFrame(length, r, wire, ended)
               PROVE  FirstFrame(length', r, wire', ended')
  BY <1>1 DEF BannerOK
<1>3. /\ r \in Seq(Sent) /\ Len(r) \in Nat /\ Len(wire) \in Nat /\ Len(length) \in Nat
      /\ PrefixLen \in Nat
  <2>1. r \in Seq(Sent)
    BY ConcatProperties DEF Typed
  <2> QED
    BY <2>1, LenProperties, FramingAssumption DEF Typed
<1> HIDE DEF r
<1>4. CASE End
  <2>1. /\ Len(wire') \in 0 .. Len(wire) /\ \A i \in 1 .. Len(wire') : wire'[i] = wire[i]
        /\ wire' \in Seq(Sent) /\ length' = length /\ ended' = TRUE
    BY <1>4, Cutoff DEF End
  <2>2. wire = <<>> => wire' = <<>>
    <3>1. Len(<<>>) = 0
      BY EmptySeq
    <3> QED
      BY <2>1, <3>1, EmptySeq
  <2> QED
    BY <1>2, <1>3, <2>1, <2>2 DEF FirstFrame
<1>5. CASE \E n \in BodyLengths : Write(n)
  <2>1. PICK n \in BodyLengths : Write(n)
    BY <1>5
  <2>2. n \in Nat \ {0} /\ ended' = ended /\ ~ended
    BY <2>1, Lengths DEF Write
  <2>3. /\ Len(length') = Len(length) + 1
        /\ \A i \in 1 .. Len(length) : length'[i] = length[i]
        /\ length'[Len(length) + 1] = n
        /\ Len(wire') = Len(wire) + PrefixLen + n
        /\ \A i \in 1 .. Len(wire) : wire'[i] = wire[i]
        /\ \A i \in 1 .. PrefixLen + n :
              wire'[Len(wire) + i] = [frame |-> Len(length) + 1, at |-> i]
    BY <2>1, Written
  <2>4. Len(<<>>) = 0 /\ (length = <<>> <=> Len(length) = 0) /\ length' # <<>>
    <3>1. Len(<<>>) = 0
      BY EmptySeq
    <3> QED
      BY <1>3, <2>3, <3>1, EmptySeq DEF Typed
  <2>5. CASE length = <<>>
    <3>1. Len(r) = 0 /\ Len(wire) = 0 /\ Len(length) = 0 /\ length'[1] = n
      BY <1>2, <2>3, <2>4, <2>5 DEF FirstFrame
    <3>2. \A i \in 1 .. PrefixLen + n : wire'[i] = [frame |-> 1, at |-> i]
      <4> SUFFICES ASSUME NEW i \in 1 .. PrefixLen + n PROVE wire'[i] = [frame |-> 1, at |-> i]
        OBVIOUS
      <4>1. wire'[Len(wire) + i] = [frame |-> Len(length) + 1, at |-> i]
        BY <2>3
      <4>2. Len(wire) + i = i /\ Len(length) + 1 = 1
        BY <3>1
      <4> QED
        BY <4>1, <4>2
    <3> QED
      BY <1>3, <2>2, <2>3, <2>4, <3>1, <3>2 DEF FirstFrame
  <2>6. CASE length # <<>>
    <3>1. length'[1] = length[1] /\ Len(r) + Len(wire) >= PrefixLen + length[1]
      BY <1>2, <1>3, <2>2, <2>3, <2>4, <2>6 DEF FirstFrame
    <3>2. length[1] \in Nat
      <4>1. length[1] \in BodyLengths
        BY <1>3, <2>4, <2>6, ElementOfSeq DEF Typed
      <4> QED
        BY <4>1, Lengths
    <3>3. \A i \in 1 .. Len(wire') :
             Len(r) + i <= PrefixLen + length[1] => wire'[i] = [frame |-> 1, at |-> Len(r) + i]
      <4> SUFFICES ASSUME NEW i \in 1 .. Len(wire'), Len(r) + i <= PrefixLen + length[1]
                   PROVE  wire'[i] = [frame |-> 1, at |-> Len(r) + i]
        OBVIOUS
      <4>1. i \in 1 .. Len(wire)
        BY <1>3, <2>2, <2>3, <3>1, <3>2
      <4> QED
        BY <1>2, <2>3, <2>6, <4>1 DEF FirstFrame
    <3>4. Len(r) + Len(wire') >= PrefixLen + length[1]
      BY <1>3, <2>2, <2>3, <3>1, <3>2
    <3> QED
      BY <1>2, <2>4, <2>6, <3>1, <3>3, <3>4 DEF FirstFrame
  <2> QED
    BY <2>5, <2>6
<1> QED
  BY <1>4, <1>5

LEMMA FirstFrameLonger ==
    ASSUME Typed, NEW r \in Seq(Sent), NEW c \in Chunks, Take(c),
           FirstFrame(length, r, wire, ended)
    PROVE  /\ length # <<>> /\ FirstFrame(length, r \o c, wire', ended)
<1>1. /\ c \in Seq(Sent) /\ Len(c) \in 1 .. Len(wire)
      /\ \A i \in 1 .. Len(c) : c[i] = wire[i]
      /\ wire' \in Seq(Sent) /\ Len(wire') = Len(wire) - Len(c)
      /\ \A i \in 1 .. Len(wire) - Len(c) : wire'[i] = wire[Len(c) + i]
  BY Chunk
<1>2. /\ Len(r) \in Nat /\ Len(wire) \in Nat /\ Len(c) \in Nat \ {0} /\ PrefixLen \in Nat
      /\ Len(<<>>) = 0
  BY <1>1, LenProperties, EmptySeq, FramingAssumption DEF Typed
<1>3. length # <<>>
  BY <1>1, <1>2 DEF FirstFrame
<1>4. length[1] \in Nat
  <2>1. Len(length) \in Nat \ {0}
    BY <1>3, EmptySeq DEF Typed
  <2>2. length[1] \in BodyLengths
    BY <2>1, ElementOfSeq DEF Typed
  <2> QED
    BY <2>2, Lengths
<1> DEFINE m == PrefixLen + length[1]
<1>5. /\ \A i \in 1 .. Len(r) : i <= m => r[i] = [frame |-> 1, at |-> i]
      /\ \A i \in 1 .. Len(wire) : Len(r) + i <= m => wire[i] = [frame |-> 1, at |-> Len(r) + i]
      /\ ~ended => Len(r) + Len(wire) >= m
  BY <1>2, <1>3 DEF FirstFrame
<1>6. /\ Len(r \o c) = Len(r) + Len(c)
      /\ \A i \in 1 .. Len(r) + Len(c) :
            (r \o c)[i] = IF i <= Len(r) THEN r[i] ELSE c[i - Len(r)]
  BY <1>1, ConcatProperties
<1>7. m \in Nat
  BY <1>2, <1>4
<1> HIDE DEF m
<1>8. \A i \in 1 .. Len(r \o c) : i <= m => (r \o c)[i] = [frame |-> 1, at |-> i]
  <2> SUFFICES ASSUME NEW i \in 1 .. Len(r \o c), i <= m
               PROVE  (r \o c)[i] = [frame |-> 1, at |-> i]
    OBVIOUS
  <2>1. CASE i <= Len(r)
    BY <1>2, <1>5, <1>6, <2>1
  <2>2. CASE i > Len(r)
    <3> DEFINE j == i - Len(r)
    <3>1. j \in 1 .. Len(c) /\ j \in 1 .. Len(wire) /\ Len(r) + j = i /\ ~(i <= Len(r))
      BY <1>1, <1>2, <1>6, <2>2
    <3>2. (r \o c)[i] = c[j] /\ c[j] = wire[j]
      BY <1>1, <1>6, <3>1
    <3> HIDE DEF j
    <3> QED
      BY <1>5, <3>1, <3>2
  <2> QED
    BY <1>2, <1>6, <2>1, <2>2
<1>9. \A i \in 1 .. Len(wire') :
         Len(r \o c) + i <= m => wire'[i] = [frame |-> 1, at |-> Len(r \o c) + i]
  <2> SUFFICES ASSUME NEW i \in 1 .. Len(wire'), Len(r \o c) + i <= m
               PROVE  wire'[i] = [frame |-> 1, at |-> Len(r \o c) + i]
    OBVIOUS
  <2> DEFINE j == Len(c) + i
  <2>1. j \in 1 .. Len(wire) /\ Len(r) + j = Len(r \o c) + i
    BY <1>1, <1>2, <1>6
  <2>2. wire'[i] = wire[j]
    BY <1>1
  <2> HIDE DEF j
  <2> QED
    BY <1>5, <2>1, <2>2
<1>10. ~ended => Len(r \o c) + Len(wire') >= m
  BY <1>1, <1>2, <1>5, <1>6, <1>7
<1> QED
  BY <1>3, <1>8, <1>9, <1>10 DEF FirstFrame, m

LEMMA BannerRead ==
    ASSUME Typed, BannerOK, Read
    PROVE  BannerOK'
<1>1. CASE reader # "recvBanner"
  BY <1>1 DEF BannerOK, Read, ReadEnvelope, PrefixRead, Decode, Truncated, PrefixChunk, BodyChunk,
              BannerLength, BannerChunk, RequestPrefix, RequestBody
<1>2. CASE reader = "recvBanner"
  <2>1. CASE Truncated
    BY <1>2, <2>1 DEF Truncated, BannerOK, Envelopes
  <2>2. CASE \E c \in Chunks : BannerLength(c)
    <3>1. PICK c \in Chunks : BannerLength(c)
      BY <2>2
    <3>2. /\ UNCHANGED <<reader, length, ended, buffer, body, got>> /\ Take(c) /\ phase = "idle"
          /\ whole' = (Len(c) = PrefixLen)
      BY <3>1 DEF BannerLength
    <3>3. prefix = <<>> /\ body = <<>> /\ got = <<>>
      BY <1>2, <3>2 DEF BannerOK
    <3>4. c \in Seq(Sent) /\ Len(c) \in Nat /\ PrefixLen \in Nat
      BY <3>2, Chunk, LenProperties, FramingAssumption
    <3>5. CASE Len(c) < PrefixLen
      BY <3>1, <3>2, <3>3, <3>4, <3>5 DEF BannerLength, BannerOK
    <3>6. CASE Len(c) >= PrefixLen
      <4>1. prefix' = SubSeq(c, 1, PrefixLen) /\ phase' = "body"
        BY <3>1, <3>4, <3>6 DEF BannerLength
      <4>2. Len(prefix') = PrefixLen
        BY <3>4, <3>6, <4>1, Cut, FramingAssumption
      <4>3. ASSUME whole' PROVE FirstFrame(length, prefix' \o body, wire', ended)
        <5>1. prefix' = c
          BY <3>2, <3>4, <4>1, <4>3, SubSeqFull
        <5>2. c \o <<>> = c /\ <<>> \o c = c /\ <<>> \in Seq(Sent) /\ <<>> \o <<>> = <<>>
          BY <3>4, EmptySeq, ConcatEmptySeq
        <5>3. FirstFrame(length, <<>>, wire, ended)
          <6>1. whole
            BY <1>2, <3>2 DEF BannerOK
          <6> QED
            BY <1>2, <3>2, <3>3, <5>2, <6>1 DEF BannerOK
        <5> QED
          BY <3>2, <3>3, <5>1, <5>2, <5>3, FirstFrameLonger
      <4> QED
        BY <3>2, <3>3, <4>1, <4>2, <4>3 DEF BannerOK
    <3> QED
      BY <3>4, <3>5, <3>6
  <2>3. CASE \E c \in Chunks : BannerChunk(c)
    <3>1. PICK c \in Chunks : BannerChunk(c)
      BY <2>3
    <3> DEFINE n == declared(prefix)
               b == body \o c
               r == prefix \o body
    <3>2. /\ UNCHANGED <<reader, length, ended, prefix, whole>> /\ Take(c) /\ phase = "body"
          /\ body' = b
          /\ \/ Len(b) < n /\ UNCHANGED <<phase, got>>
             \/ /\ Len(b) >= n /\ phase' = "done"
                /\ got' = <<IF prefix \o SubSeq(b, 1, n) = frameOf(1, n) THEN 1 ELSE 0>>
      BY <3>1 DEF BannerChunk
    <3>3. /\ c \in Seq(Sent) /\ prefix \in Seq(Sent) /\ body \in Seq(Sent)
          /\ b \in Seq(Sent) /\ r \in Seq(Sent)
      BY <3>2, Chunk, ConcatProperties DEF Typed
    <3>4. Len(prefix) = PrefixLen /\ got = <<>>
      BY <1>2, <3>2 DEF BannerOK
    <3>5. prefix \o b = r \o c
      <4>1. prefix \in Seq(Sent) /\ body \in Seq(Sent) /\ c \in Seq(Sent)
        BY <3>3
      <4>2. (prefix \o body) \o c = prefix \o (body \o c)
        BY <4>1, ConcatAssociative
      <4> QED
        BY <4>2
    <3>6. whole => length # <<>> /\ FirstFrame(length, prefix \o b, wire', ended)
      <4>1. whole => FirstFrame(length, r, wire, ended)
        BY <1>2, <3>2 DEF BannerOK
      <4> HIDE DEF r, b
      <4> QED
        BY <3>2, <3>3, <3>5, <4>1, FirstFrameLonger
    <3>7. CASE phase' = phase /\ got' = got
      BY <3>2, <3>4, <3>6, <3>7 DEF BannerOK
    <3>8. CASE /\ Len(b) >= n /\ phase' = "done"
               /\ got' = <<IF prefix \o SubSeq(b, 1, n) = frameOf(1, n) THEN 1 ELSE 0>>
      <4>1. ASSUME whole PROVE prefix \o SubSeq(b, 1, n) = frameOf(1, n)
        <5>1. /\ PrefixLen \in Nat \ {0} /\ n \in Nat \ {0} /\ Len(b) \in Nat
              /\ Len(length) \in Nat /\ Len(prefix) \in Nat
          <6>1. PrefixLen \in Nat \ {0} /\ n \in Nat \ {0}
            <7>1. PrefixLen \in Nat \ {0}
              BY FramingAssumption
            <7>2. Len(prefix) >= PrefixLen
              BY <3>4, <7>1
            <7> QED
              BY <3>3, <7>1, <7>2, Declared
          <6>2. Len(b) \in Nat /\ Len(length) \in Nat /\ Len(prefix) \in Nat
            BY <3>3, LenProperties DEF Typed
          <6> QED
            BY <6>1, <6>2
        <5>2. Len(length) \in Nat \ {0} /\ length[1] \in Nat
          <6>1. Len(length) \in Nat \ {0}
            BY <3>6, <4>1, EmptySeq DEF Typed
          <6>2. length[1] \in BodyLengths
            BY <6>1, ElementOfSeq DEF Typed
          <6> QED
            BY <6>1, <6>2, Lengths
        <5>3. /\ Len(prefix \o b) = PrefixLen + Len(b)
              /\ \A i \in 1 .. PrefixLen + Len(b) :
                    (prefix \o b)[i] = IF i <= PrefixLen THEN prefix[i] ELSE b[i - PrefixLen]
          BY <3>3, <3>4, ConcatProperties
        <5>4. \A i \in 1 .. PrefixLen + Len(b) :
                 i <= PrefixLen + length[1] => (prefix \o b)[i] = [frame |-> 1, at |-> i]
          BY <3>6, <4>1, <5>3 DEF FirstFrame
        <5> DEFINE t == prefix \o b
        <5> HIDE DEF b, t
        <5>5. \A i \in 1 .. PrefixLen : prefix[i] = [frame |-> 1, at |-> i]
          <6> SUFFICES ASSUME NEW i \in 1 .. PrefixLen
                       PROVE  prefix[i] = [frame |-> 1, at |-> i]
            OBVIOUS
          <6>1. i \in 1 .. PrefixLen + Len(b) /\ i <= PrefixLen /\ i <= PrefixLen + length[1]
            BY <5>1, <5>2
          <6>2. t[i] = prefix[i] /\ t[i] = [frame |-> 1, at |-> i]
            BY <5>3, <5>4, <6>1 DEF t
          <6> QED
            BY <6>2
        <5>6. n = length[1]
          <6>1. \A i \in 1 .. PrefixLen : prefix[i].at = i
            <7> SUFFICES ASSUME NEW i \in 1 .. PrefixLen PROVE prefix[i].at = i
              OBVIOUS
            <7>1. prefix[i] = [frame |-> 1, at |-> i]
              BY <5>5
            <7> QED
              BY <7>1
          <6>2. prefix[1].frame = 1
            <7>1. prefix[1] = [frame |-> 1, at |-> 1]
              BY <5>1, <5>5
            <7> QED
              BY <7>1
          <6> QED
            BY <6>1, <6>2 DEF declared
        <5> HIDE DEF n
        <5> DEFINE s == SubSeq(b, 1, n)
        <5>7. /\ s \in Seq(Sent) /\ Len(s) = n
              /\ \A i \in 1 .. n : s[i] = b[i]
          <6>1. /\ s \in Seq(Sent) /\ Len(s) = IF 1 <= n THEN n - 1 + 1 ELSE 0
                /\ \A i \in 1 .. n - 1 + 1 : s[i] = b[1 + i - 1]
            BY <3>3, <3>8, <5>1, Cut
          <6> QED
            BY <5>1, <6>1
        <5> HIDE DEF s
        <5> DEFINE q == prefix \o s
        <5>8. /\ q \in Seq(Sent) /\ Len(q) = PrefixLen + n
              /\ \A i \in 1 .. PrefixLen + n :
                    q[i] = IF i <= PrefixLen THEN prefix[i] ELSE s[i - PrefixLen]
          BY <3>3, <3>4, <5>7, ConcatProperties
        <5> HIDE DEF q
        <5>9. \A i \in 1 .. PrefixLen + n : q[i] = [frame |-> 1, at |-> i]
          <6> SUFFICES ASSUME NEW i \in 1 .. PrefixLen + n
                       PROVE  q[i] = [frame |-> 1, at |-> i]
            OBVIOUS
          <6>1. CASE i <= PrefixLen
            <7>1. i \in 1 .. PrefixLen
              BY <5>1, <6>1
            <7> QED
              BY <5>5, <5>8, <6>1, <7>1
          <6>2. CASE ~(i <= PrefixLen)
            <7>1. /\ i - PrefixLen \in 1 .. n /\ i \in 1 .. PrefixLen + Len(b)
                  /\ i <= PrefixLen + length[1]
              BY <3>8, <5>1, <5>6, <6>2
            <7>2. q[i] = t[i]
              BY <5>3, <5>7, <5>8, <6>2, <7>1 DEF t
            <7> QED
              BY <5>4, <7>1, <7>2 DEF t
          <6> QED
            BY <6>1, <6>2
        <5>10. /\ frameOf(1, n) \in Seq([frame : {1}, at : Nat \ {0}])
               /\ Len(frameOf(1, n)) = PrefixLen + n
               /\ \A i \in 1 .. PrefixLen + n : frameOf(1, n)[i] = [frame |-> 1, at |-> i]
          <6>1. n \in Nat /\ 1 \in Nat \ {0}
            BY <5>1
          <6> QED
            BY <6>1, Frame
        <5>11. frameOf(1, n) \in Seq(Sent)
          <6>1. [frame : {1}, at : Nat \ {0}] \subseteq Sent
            BY <5>2 DEF Sent
          <6> QED
            BY <5>10, <6>1, SeqMonotonic
        <5>12. Len(q) = Len(frameOf(1, n)) /\ \A i \in 1 .. Len(q) : q[i] = frameOf(1, n)[i]
          BY <5>8, <5>9, <5>10
        <5>13. q = frameOf(1, n)
          BY <5>8, <5>11, <5>12, SeqEqual
        <5> QED
          BY <5>13 DEF q, s
      <4> QED
        BY <3>2, <3>8, <4>1 DEF BannerOK
    <3> QED
      BY <3>2, <3>7, <3>8
  <2> QED
    BY <1>2, <2>1, <2>2, <2>3
       DEF Read, ReadEnvelope, PrefixRead, Decode, PrefixChunk, BodyChunk,
           RequestPrefix, RequestBody, Envelopes
<1> QED
  BY <1>1, <1>2

-------------------------------------------------------------------------------
(***************************************************************************)
(* handleUnixConnection reads one request, of the only frame there is.     *)
(***************************************************************************)
RequestOK ==
    reader = "handleUnixConnection" =>
        got = <<>> \/ (phase = "done" /\ got = <<1>>)

LEMMA RequestKeeps ==
    ASSUME Typed, RequestOK, Next
    PROVE  RequestOK'
<1>1. CASE reader # "handleUnixConnection"
  <2>1. reader' = reader
    BY DEF Next, Read, End, Write, ReadEnvelope, PrefixRead, Decode, Truncated, PrefixChunk,
           BodyChunk, BannerLength, BannerChunk, RequestPrefix, RequestBody
  <2> QED
    BY <1>1, <2>1 DEF RequestOK
<1>2. CASE reader = "handleUnixConnection"
  <2>1. CASE \E c \in Chunks : RequestBody(c)
    <3>1. PICK c \in Chunks : RequestBody(c)
      BY <2>1
    <3>2. phase = "body" /\ got = <<>>
      BY <1>2, <3>1 DEF RequestBody, RequestOK
    <3>3. prefix[1].frame = 1
      <4>1. prefix \in Seq(Sent) /\ Len(prefix) >= PrefixLen /\ Len(length) <= 1
        BY <1>2, <3>2 DEF Typed
      <4>2. 1 \in 1 .. Len(prefix) /\ Len(length) \in Nat
        BY <4>1, FramingAssumption, LenProperties DEF Typed
      <4>3. prefix[1] \in Sent
        BY <4>1, <4>2, ElementOfSeq
      <4> QED
        BY <4>1, <4>2, <4>3 DEF Sent
    <3> DEFINE good == decodes(prefix \o body')
    <3>4. \/ got' = got
          \/ phase' = (IF good THEN "done" ELSE "failed") /\ got' = (IF good THEN <<1>> ELSE <<>>)
      BY <3>1, <3>3 DEF RequestBody
    <3> HIDE DEF good
    <3>5. CASE got' = got
      BY <3>2, <3>5 DEF RequestOK
    <3>6. CASE phase' = "done" /\ got' = <<1>>
      BY <3>6 DEF RequestOK
    <3>7. CASE got' = <<>>
      BY <3>7 DEF RequestOK
    <3> QED
      BY <3>4, <3>5, <3>6, <3>7
  <2>2. CASE (\E c \in Chunks : RequestPrefix(c)) \/ Truncated
    <3>1. phase # "done" /\ got' = got
      BY <1>2, <2>2 DEF RequestPrefix, Truncated, Envelopes
    <3> QED
      BY <1>2, <3>1 DEF RequestOK
  <2>3. CASE End \/ \E n \in BodyLengths : Write(n)
    BY <1>2, <2>3 DEF End, Write, state, RequestOK
  <2> QED
    BY <1>2, <2>1, <2>2, <2>3
       DEF Next, Read, ReadEnvelope, PrefixRead, Decode, PrefixChunk, BodyChunk,
           BannerLength, BannerChunk, Envelopes
<1> QED
  BY <1>1, <1>2

-------------------------------------------------------------------------------
(***************************************************************************)
(* The invariant of all four.                                              *)
(***************************************************************************)
Inv == Typed /\ Stream /\ EnvelopesOK /\ BannerOK /\ RequestOK

LEMMA StreamRead ==
    ASSUME Typed, Stream, Read
    PROVE  Stream'
<1>1. CASE ReadEnvelope \/ PrefixRead \/ Decode \/ Truncated
  <2>1. UNCHANGED <<length, wire, ended>>
    BY <1>1 DEF ReadEnvelope, PrefixRead, Decode, Truncated
  <2> QED
    BY <2>1 DEF Stream
<1>2. CASE \E c \in Chunks : Take(c) /\ UNCHANGED <<length, ended>>
  BY <1>2, ReadOn
<1> QED
  BY <1>1, <1>2 DEF Read, PrefixChunk, BodyChunk, BannerLength, BannerChunk,
                    RequestPrefix, RequestBody

LEMMA InvInvariant == Spec => []Inv
<1>1. ASSUME Init, Typed PROVE Inv
  <2>1. Len(<<>>) = 0 /\ <<>> \in Seq(Nat) /\ <<>> \o <<>> = <<>>
    BY EmptySeq, ConcatEmptySeq
  <2>2. Stream
    BY <1>1, <2>1 DEF Init, Stream, Gapless
  <2>3. next = 1 /\ coming = {first(1)}
    BY <1>1, <2>1 DEF Init, next, coming
  <2>4. Returned /\ Following /\ Copying
    <3>1. Returned
      BY <1>1, <2>1 DEF Init, Returned
    <3>2. Resumes(length, buffer, next, coming)
      BY <1>1, <2>3 DEF Init, Resumes
    <3>3. phase = "idle" /\ got = <<>> /\ buffer = <<>>
      BY <1>1 DEF Init
    <3> QED
      BY <3>1, <3>2, <3>3 DEF Following, Copying
  <2>5. BannerOK
    <3>1. /\ phase = "idle" /\ got = <<>> /\ whole /\ prefix = <<>> /\ body = <<>>
          /\ length = <<>> /\ wire = <<>>
      BY <1>1 DEF Init
    <3> QED
      BY <2>1, <3>1 DEF BannerOK, FirstFrame
  <2>6. RequestOK
    <3>1. got = <<>>
      BY <1>1 DEF Init
    <3> QED
      BY <3>1 DEF RequestOK
  <2> QED
    BY <1>1, <2>2, <2>4, <2>5, <2>6 DEF Inv, EnvelopesOK
<1>2. Inv /\ Typed' /\ [Next]_vars => Inv'
  <2> SUFFICES ASSUME Inv, Typed', [Next]_vars PROVE Inv'
    OBVIOUS
  <2>1. CASE UNCHANGED vars
    BY <2>1 DEF Inv, vars, state, Stream, EnvelopesOK, Envelopes, Returned, Following, Copying,
                coming, next, BannerOK, RequestOK
  <2>2. CASE Read
    BY <2>2, StreamRead, EnvelopesRead, BannerRead, RequestKeeps DEF Inv, Next
  <2>3. CASE End \/ \E n \in BodyLengths : Write(n)
    BY <2>3, StreamGoesOn, EnvelopesConnected, BannerConnected, RequestKeeps DEF Inv, Next
  <2> QED
    BY <2>1, <2>2, <2>3 DEF Next
<1> QED
  BY <1>1, <1>2, TypedInvariant, PTL DEF Spec

(***************************************************************************)
(* Framing is well typed, for any lengths of prefixes and bodies.          *)
(***************************************************************************)
THEOREM TypeCorrect == Spec => []TypeOK
<1>1. Inv => TypeOK
  <2> SUFFICES ASSUME Inv PROVE TypeOK
    OBVIOUS
  <2>1. Typed
    BY DEF Inv
  <2>2. Sent \subseteq Byte /\ Len(length) \in Nat
    <3>1. Len(length) \in Nat /\ Len(length) <= MaxFrames /\ MaxFrames \in Nat
      BY <2>1, LenProperties, FramingAssumption DEF Typed
    <3> QED
      BY <3>1 DEF Sent, Byte
  <2>3. \A s \in {wire, buffer, prefix, body} : \A i \in DOMAIN s : s[i] \in Byte
    <3> SUFFICES ASSUME NEW s \in {wire, buffer, prefix, body}, NEW i \in DOMAIN s
                 PROVE  s[i] \in Byte
      OBVIOUS
    <3>1. s \in Seq(Sent)
      BY <2>1 DEF Typed
    <3>2. i \in 1 .. Len(s)
      BY <3>1, LenProperties
    <3> QED
      BY <2>2, <3>1, <3>2, ElementOfSeq
  <2>4. \A i \in DOMAIN length : length[i] \in BodyLengths
    BY <2>1, LenProperties, ElementOfSeq DEF Typed
  <2>5. Len(got) <= MaxFrames
    <3>1. MaxFrames \in Nat /\ MaxFrames >= 1
      BY FramingAssumption
    <3>2. CASE Envelopes
      BY <2>1, <2>2, <3>2, FramingAssumption, LenProperties DEF Inv, EnvelopesOK, Returned, Typed
    <3>3. CASE reader \in {"recvBanner", "handleUnixConnection"}
      <4>1. got \in {<<>>, <<0>>, <<1>>}
        BY <3>3 DEF Inv, BannerOK, RequestOK
      <4>2. Len(got) = 0 \/ Len(got) = 1
        BY <4>1
      <4> QED
        BY <3>1, <4>2
    <3> QED
      BY <2>1, <3>2, <3>3, FramingAssumption DEF Typed, Envelopes
  <2> QED
    BY <2>1, <2>3, <2>4, <2>5 DEF Typed, TypeOK
<1> QED
  BY <1>1, InvInvariant, PTL

(***************************************************************************)
(* What a reader returns are the frames that were written, in their order: *)
(* however the stream is cut, it fails on a lost place and never returns a *)
(* frame that was not written or leaves one out.                           *)
(***************************************************************************)
THEOREM FramesInOrder == Spec => []InOrder
<1>1. Inv => InOrder
  <2> SUFFICES ASSUME Inv, reader # "recvBanner" \/ whole, NEW i \in DOMAIN got
               PROVE  got[i] = i
    BY DEF InOrder
  <2>1. CASE Envelopes
    <3>1. got \in Seq(Nat) /\ \A j \in 1 .. Len(got) : got[j] = j
      BY <2>1 DEF Inv, EnvelopesOK, Returned
    <3> QED
      BY <3>1, LenProperties
  <2>2. got \in {<<>>, <<1>>} => got[i] = i
    OBVIOUS
  <2>3. CASE reader = "recvBanner"
    BY <2>2, <2>3 DEF Inv, BannerOK
  <2>4. CASE reader = "handleUnixConnection"
    BY <2>2, <2>4 DEF Inv, RequestOK
  <2> QED
    BY <2>1, <2>3, <2>4, FramingAssumption DEF Inv, Typed, Envelopes
<1> QED
  BY <1>1, InvInvariant, PTL
===============================================================================
