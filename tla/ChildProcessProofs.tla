------------------------- MODULE ChildProcessProofs -------------------------
(***************************************************************************)
(* ChildProcess for every set of children and every bound: the types, what a *)
(* poll and PROC_EXIT promise the parent, the raw mode, and that the output  *)
(* of the children implements ByteStream.                                    *)
(***************************************************************************)
EXTENDS ChildProcess, SequenceTheorems, TLAPS

-----------------------------------------------------------------------------
(* The inductive invariant for the types. *)

\* Empty chunks lie in order between the bytes that are still in the pipe.
GapsInPlace ==
  \A c \in Children :
    /\ \A i \in 1 .. Len(gaps[c]) :
         Len(received[c]) <= gaps[c][i] /\ gaps[c][i] <= Len(received[c]) + Len(out[c])
    /\ \A i, j \in 1 .. Len(gaps[c]) : i < j => gaps[c][i] <= gaps[c][j]

TypeInv == TypeOK /\ GapsInPlace

-----------------------------------------------------------------------------
(* Lemmas about pipes. *)

\* The bounds are numbers.
LEMMA Bounds == Retries \in Nat /\ MaxChunk \in Nat /\ MaxWrites \in Nat
BY ChildAssumption DEF ChildAssumption

\* A chunk is a sequence of bytes.
LEMMA ChunkType ==
  ASSUME NEW w \in 1 .. MaxWrites, NEW n \in 0 .. MaxChunk
  PROVE  Chunk(w, n) \in Seq(Bytes) /\ Len(Chunk(w, n)) = n
<1>1. n \in Nat /\ \A i \in 1 .. n : <<w, i>> \in Bytes
  BY Bounds DEF Bytes
<1>2. Chunk(w, n) \in [1 .. n -> Bytes]
  BY <1>1 DEF Chunk
<1> QED BY <1>1, <1>2

\* A position counted from a later start.
LEMMA Offset ==
  ASSUME NEW g \in Nat, NEW r \in Nat, NEW o \in Nat, r <= g, g <= r + o
  PROVE  g - r \in 0 .. o
OBVIOUS

\* A position more.
LEMMA AppendGap ==
  ASSUME NEW s \in Seq(Nat), NEW g \in Nat
  PROVE  /\ Append(s, g) \in Seq(Nat) /\ Len(Append(s, g)) = Len(s) + 1 /\ Len(s) \in Nat
         /\ \A i \in 1 .. Len(s) : Append(s, g)[i] = s[i]
         /\ Append(s, g)[Len(s) + 1] = g
<1>1. Append(s, g) \in Seq(Nat) /\ Len(Append(s, g)) = Len(s) + 1 /\ Len(s) \in Nat
  OBVIOUS
<1>2. \A i \in 1 .. Len(s) : Append(s, g)[i] = s[i]
  OBVIOUS
<1>3. Append(s, g)[Len(s) + 1] = g
  OBVIOUS
<1> QED BY <1>1, <1>2, <1>3

\* Sums grow.
LEMMA More ==
  ASSUME NEW g \in Nat, NEW r \in Nat, NEW o \in Nat, NEW n \in Nat, g <= r + o
  PROVE  g <= r + (o + n)
OBVIOUS

\* What a read finds is in the pipe.
LEMMA AvailableType ==
  ASSUME TypeInv, NEW c \in Children
  PROVE  /\ out[c] \in Seq(Bytes) /\ gaps[c] \in Seq(Nat) /\ received[c] \in Seq(Bytes)
         /\ Len(out[c]) \in Nat /\ Len(received[c]) \in Nat
         /\ Available(c) \in 0 .. Len(out[c])
<1>1. /\ out[c] \in Seq(Bytes) /\ gaps[c] \in Seq(Nat) /\ received[c] \in Seq(Bytes)
      /\ Len(out[c]) \in Nat /\ Len(received[c]) \in Nat
  BY DEF TypeInv, TypeOK
<1>2. CASE gaps[c] = <<>>
  BY <1>1, <1>2 DEF Available
<1>3. CASE gaps[c] # <<>>
  <2>1. Head(gaps[c]) = gaps[c][1] /\ 1 \in 1 .. Len(gaps[c]) /\ gaps[c][1] \in Nat
    BY <1>1, <1>3
  <2>2. Len(received[c]) <= gaps[c][1] /\ gaps[c][1] <= Len(received[c]) + Len(out[c])
    BY <2>1 DEF TypeInv, GapsInPlace
  <2>3. Available(c) = gaps[c][1] - Len(received[c])
    BY <1>3, <2>1 DEF Available
  <2>4. gaps[c][1] - Len(received[c]) \in 0 .. Len(out[c])
    BY <1>1, <2>1, <2>2, Offset
  <2> QED BY <1>1, <2>3, <2>4
<1> QED BY <1>1, <1>2, <1>3

\* The same one step later.
LEMMA AvailableLater ==
  ASSUME TypeInv', NEW c \in Children
  PROVE  Available(c)' \in Nat
<1>1. /\ out'[c] \in Seq(Bytes) /\ gaps'[c] \in Seq(Nat) /\ received'[c] \in Seq(Bytes)
      /\ Len(out'[c]) \in Nat /\ Len(received'[c]) \in Nat
  BY DEF TypeInv, TypeOK
<1>2. CASE gaps'[c] = <<>>
  BY <1>1, <1>2 DEF Available
<1>3. CASE gaps'[c] # <<>>
  <2>1. Head(gaps'[c]) = gaps'[c][1] /\ 1 \in 1 .. Len(gaps'[c]) /\ gaps'[c][1] \in Nat
    BY <1>1, <1>3
  <2>2. /\ Len(received'[c]) <= gaps'[c][1]
        /\ gaps'[c][1] <= Len(received'[c]) + Len(out'[c])
    BY <2>1 DEF TypeInv, GapsInPlace
  <2>3. Available(c)' = gaps'[c][1] - Len(received'[c])
    BY <1>3, <2>1 DEF Available
  <2>4. gaps'[c][1] - Len(received'[c]) \in 0 .. Len(out'[c])
    BY <1>1, <2>1, <2>2, Offset
  <2>5. \A o \in Nat : 0 .. o \subseteq Nat
    OBVIOUS
  <2> QED BY <1>1, <2>3, <2>4, <2>5
<1> QED BY <1>1, <1>2, <1>3

\* All that was written to a pipe.
LEMMA Written ==
  ASSUME TypeInv, NEW c \in Children
  PROVE  Len(received[c]) + Len(out[c]) \in Nat
<1>1. Len(received[c]) \in Nat /\ Len(out[c]) \in Nat
  BY AvailableType
<1>2. \A r \in Nat, o \in Nat : r + o \in Nat
  OBVIOUS
<1> QED BY <1>1, <1>2, Zenon

\* A pipe cut in two.
LEMMA Cut ==
  ASSUME NEW s \in Seq(Bytes), NEW k \in 0 .. Len(s)
  PROVE  /\ SubSeq(s, 1, k) \in Seq(Bytes) /\ Len(SubSeq(s, 1, k)) = k
         /\ SubSeq(s, k + 1, Len(s)) \in Seq(Bytes)
         /\ Len(SubSeq(s, k + 1, Len(s))) = Len(s) - k
         /\ SubSeq(s, 1, k) \o SubSeq(s, k + 1, Len(s)) = s
<1>1. Len(s) \in Nat /\ k \in Nat /\ k <= Len(s)
  OBVIOUS
<1>2. \A i \in 1 .. Len(s) : s[i] \in Bytes
  OBVIOUS
<1>3. SubSeq(s, 1, k) \in Seq(Bytes) /\ Len(SubSeq(s, 1, k)) = k
  <2>1. \A i \in 1 .. k : s[i] \in Bytes
    BY <1>1, <1>2
  <2> QED BY <1>1, <2>1, SubSeqProperties
<1>4. /\ SubSeq(s, k + 1, Len(s)) \in Seq(Bytes)
      /\ Len(SubSeq(s, k + 1, Len(s))) = Len(s) - k
  <2>1. \A i \in k + 1 .. Len(s) : s[i] \in Bytes
    BY <1>1, <1>2
  <2> QED BY <1>1, <2>1, SubSeqProperties
<1>5. SubSeq(s, 1, k) \o SubSeq(s, k + 1, Len(s)) = SubSeq(s, 1, Len(s))
  <2>1. 1 \in 1 .. Len(s) + 1 /\ k \in 1 - 1 .. Len(s) /\ Len(s) \in k .. Len(s)
    BY <1>1
  <2> QED BY <2>1, ConcatAdjacentSubSeq
<1> QED BY <1>3, <1>4, <1>5, SubSeqFull

\* Two sequences of bytes, one after the other.
LEMMA Glue ==
  ASSUME NEW s \in Seq(Bytes), NEW t \in Seq(Bytes)
  PROVE  s \o t \in Seq(Bytes) /\ Len(s \o t) = Len(s) + Len(t)
<1> HIDE DEF Bytes
<1> QED BY ConcatProperties

\* Three sequences of bytes.
LEMMA GlueAssociative ==
  ASSUME NEW s \in Seq(Bytes), NEW t \in Seq(Bytes), NEW u \in Seq(Bytes)
  PROVE  (s \o t) \o u = s \o (t \o u)
<1> HIDE DEF Bytes
<1> QED BY ConcatAssociative

\* The effect of a read on one pipe.
LEMMA ReadPipe ==
  ASSUME TypeInv, NEW c \in Children, NEW n \in Lengths, Read(c, n)
  PROVE  \E k \in 0 .. Len(out[c]) :
           /\ k = ReadLength(c, n) /\ k <= Available(c)
           /\ received'[c] = received[c] \o SubSeq(out[c], 1, k)
           /\ out'[c] = SubSeq(out[c], k + 1, Len(out[c]))
           /\ received'[c] \in Seq(Bytes) /\ out'[c] \in Seq(Bytes)
           /\ Len(received'[c]) = Len(received[c]) + k
           /\ Len(out'[c]) = Len(out[c]) - k
           /\ received'[c] \o out'[c] = received[c] \o out[c]
           /\ \/ gaps'[c] = gaps[c] /\ (k = n \/ gaps[c] = <<>>)
              \/ k = Available(c) /\ gaps[c] # <<>> /\ gaps'[c] = Tail(gaps[c])
           /\ \A d \in Children \ {c} :
                out'[d] = out[d] /\ received'[d] = received[d] /\ gaps'[d] = gaps[d]
<1> DEFINE k == ReadLength(c, n)
<1>1. n \in Nat \ {0} /\ Available(c) \in 0 .. Len(out[c]) /\ Len(out[c]) \in Nat
  BY AvailableType, Bounds DEF Lengths
<1>2. k \in 0 .. Len(out[c]) /\ k <= Available(c) /\ k <= n /\ (k = n \/ k = Available(c))
  BY <1>1 DEF ReadLength
<1> HIDE DEF k
<1>3. /\ received' = [received EXCEPT ![c] = @ \o SubSeq(out[c], 1, k)]
      /\ out' = [out EXCEPT ![c] = SubSeq(out[c], k + 1, Len(out[c]))]
      /\ gaps' = [gaps EXCEPT ![c] = IF k < n /\ gaps[c] # <<>> THEN Tail(gaps[c]) ELSE gaps[c]]
  BY DEF Read, Rest, GapsLeft, k
<1>4. /\ received'[c] = received[c] \o SubSeq(out[c], 1, k)
      /\ out'[c] = SubSeq(out[c], k + 1, Len(out[c]))
      /\ gaps'[c] = IF k < n /\ gaps[c] # <<>> THEN Tail(gaps[c]) ELSE gaps[c]
      /\ \A d \in Children \ {c} :
           out'[d] = out[d] /\ received'[d] = received[d] /\ gaps'[d] = gaps[d]
  BY <1>3 DEF TypeInv, TypeOK
<1>5. /\ SubSeq(out[c], 1, k) \in Seq(Bytes) /\ Len(SubSeq(out[c], 1, k)) = k
      /\ SubSeq(out[c], k + 1, Len(out[c])) \in Seq(Bytes)
      /\ Len(SubSeq(out[c], k + 1, Len(out[c]))) = Len(out[c]) - k
      /\ SubSeq(out[c], 1, k) \o SubSeq(out[c], k + 1, Len(out[c])) = out[c]
  BY <1>2, Cut, AvailableType
<1>6. /\ received'[c] \in Seq(Bytes) /\ Len(received'[c]) = Len(received[c]) + k
      /\ received'[c] \o out'[c] = received[c] \o out[c]
  <2>1. received[c] \in Seq(Bytes) /\ out[c] \in Seq(Bytes)
    BY AvailableType
  <2> HIDE DEF Bytes
  <2>2. received'[c] \in Seq(Bytes) /\ Len(received'[c]) = Len(received[c]) + k
    BY <1>4, <1>5, <2>1, Glue
  <2> DEFINE r == received[c]
             s == SubSeq(out[c], 1, k)
             t == SubSeq(out[c], k + 1, Len(out[c]))
  <2>3. r \in Seq(Bytes) /\ s \in Seq(Bytes) /\ t \in Seq(Bytes) /\ s \o t = out[c]
    BY <1>5, <2>1
  <2>4. received'[c] = r \o s /\ out'[c] = t
    BY <1>4
  <2>5. out[c] = s \o t /\ received[c] = r
    BY <2>3
  <2> HIDE DEF r, s, t
  <2>6. (r \o s) \o t = r \o (s \o t)
    BY <2>3, GlueAssociative
  <2> QED BY <2>2, <2>4, <2>5, <2>6
<1>7. \/ gaps'[c] = gaps[c] /\ (k = n \/ gaps[c] = <<>>)
      \/ k = Available(c) /\ gaps[c] # <<>> /\ gaps'[c] = Tail(gaps[c])
  BY <1>1, <1>2, <1>4
<1> QED BY <1>2, <1>4, <1>5, <1>6, <1>7 DEF k

\* The effect of a write on one pipe.
LEMMA WritePipe ==
  ASSUME TypeInv, NEW c \in Children, NEW w \in 1 .. MaxWrites,
         NEW n \in 0 .. MaxChunk, WriteChunk(c, w, n)
  PROVE  /\ out'[c] = out[c] \o Chunk(w, n) /\ out'[c] \in Seq(Bytes)
         /\ Len(out'[c]) = Len(out[c]) + n
         /\ \/ n > 0 /\ gaps'[c] = gaps[c] /\ blank'[c] = blank[c]
            \/ /\ n = 0 /\ gaps'[c] = Append(gaps[c], Len(received[c]) + Len(out[c]))
               /\ blank'[c] = TRUE
         /\ \A d \in Children \ {c} :
              out'[d] = out[d] /\ gaps'[d] = gaps[d] /\ blank'[d] = blank[d]
<1>1. Chunk(w, n) \in Seq(Bytes) /\ Len(Chunk(w, n)) = n
  BY ChunkType
<1>2. out[c] \in Seq(Bytes)
  BY AvailableType
<1>3. out[c] \o Chunk(w, n) \in Seq(Bytes) /\ Len(out[c] \o Chunk(w, n)) = Len(out[c]) + n
  BY <1>1, <1>2, Glue
<1>4. /\ out' = [out EXCEPT ![c] = out[c] \o Chunk(w, n)]
      /\ gaps' = [gaps EXCEPT ![c] =
                    IF n = 0 THEN Append(gaps[c], Len(received[c]) + Len(out[c])) ELSE gaps[c]]
      /\ blank' = [blank EXCEPT ![c] = blank[c] \/ n = 0]
  BY DEF WriteChunk
<1>5. out'[c] = out[c] \o Chunk(w, n)
  BY <1>4 DEF TypeInv, TypeOK
<1>6. \/ n > 0 /\ gaps'[c] = gaps[c] /\ blank'[c] = blank[c]
      \/ /\ n = 0 /\ gaps'[c] = Append(gaps[c], Len(received[c]) + Len(out[c]))
         /\ blank'[c] = TRUE
  <2>1. gaps'[c] = IF n = 0 THEN Append(gaps[c], Len(received[c]) + Len(out[c])) ELSE gaps[c]
    BY <1>4 DEF TypeInv, TypeOK
  <2>2. blank'[c] = (blank[c] \/ n = 0) /\ blank[c] \in BOOLEAN
    BY <1>4 DEF TypeInv, TypeOK
  <2>3. n = 0 \/ n > 0
    BY Bounds
  <2>4. n > 0 => n # 0
    BY Bounds
  <2> QED BY <2>1, <2>2, <2>3, <2>4
<1>7. \A d \in Children \ {c} :
        out'[d] = out[d] /\ gaps'[d] = gaps[d] /\ blank'[d] = blank[d]
  BY <1>4 DEF TypeInv, TypeOK
<1> QED BY <1>3, <1>5, <1>6, <1>7

-----------------------------------------------------------------------------
(* The invariant is inductive. *)

\* Pipes after a read are well typed.
LEMMA ReadTypes ==
  ASSUME TypeInv, NEW c \in Children, NEW n \in Lengths, Read(c, n)
  PROVE  /\ out' \in [Children -> Seq(Bytes)] /\ received' \in [Children -> Seq(Bytes)]
         /\ gaps' \in [Children -> Seq(Nat)] /\ promised' \in [Children -> Nat]
         /\ GapsInPlace'
<1>1. PICK k \in 0 .. Len(out[c]) :
           /\ k = ReadLength(c, n) /\ k <= Available(c)
           /\ received'[c] \in Seq(Bytes) /\ out'[c] \in Seq(Bytes)
           /\ Len(received'[c]) = Len(received[c]) + k
           /\ Len(out'[c]) = Len(out[c]) - k
           /\ \/ gaps'[c] = gaps[c]
              \/ k = Available(c) /\ gaps[c] # <<>> /\ gaps'[c] = Tail(gaps[c])
           /\ \A d \in Children \ {c} :
                out'[d] = out[d] /\ received'[d] = received[d] /\ gaps'[d] = gaps[d]
  BY ReadPipe
<1>2. /\ gaps[c] \in Seq(Nat) /\ Len(out[c]) \in Nat /\ Len(received[c]) \in Nat /\ k \in Nat
      /\ Len(gaps[c]) \in Nat /\ Available(c) \in Nat
      /\ \A i \in 1 .. Len(gaps[c]) : gaps[c][i] \in Nat
  <2>1. /\ gaps[c] \in Seq(Nat) /\ Len(out[c]) \in Nat /\ Len(received[c]) \in Nat
        /\ Available(c) \in 0 .. Len(out[c])
    BY AvailableType
  <2>2. k \in Nat /\ Available(c) \in Nat
    BY <1>1, <2>1
  <2>3. Len(gaps[c]) \in Nat /\ \A i \in 1 .. Len(gaps[c]) : gaps[c][i] \in Nat
    BY <2>1
  <2> QED BY <2>1, <2>2, <2>3
<1>3. gaps'[c] \in Seq(Nat)
  <2>1. gaps[c] # <<>> => Tail(gaps[c]) \in Seq(Nat)
    BY <1>2, HeadTailProperties
  <2> QED BY <1>1, <1>2, <2>1
<1>4. out' \in [Children -> Seq(Bytes)] /\ received' \in [Children -> Seq(Bytes)]
      /\ gaps' \in [Children -> Seq(Nat)]
  BY <1>1, <1>3 DEF Read, TypeInv, TypeOK
<1>5. promised' \in [Children -> Nat]
  <2>1. promised' = [promised EXCEPT ![c] = IF @ > k THEN @ - k ELSE 0]
    BY <1>1 DEF Read
  <2> QED BY <1>2, <2>1 DEF TypeInv, TypeOK
<1>6. \A i \in 1 .. Len(gaps[c]) :
         Len(received[c]) + k <= gaps[c][i] /\ gaps[c][i] <= Len(received[c]) + Len(out[c])
  <2>1. CASE gaps[c] = <<>>
    BY <1>2, <2>1
  <2>2. CASE gaps[c] # <<>>
    <3>1. gaps[c][1] = Len(received[c]) + Available(c) /\ 1 \in 1 .. Len(gaps[c])
      BY <1>2, <2>2 DEF Available
    <3>2. \A i \in 1 .. Len(gaps[c]) : gaps[c][1] <= gaps[c][i]
      <4> SUFFICES ASSUME NEW i \in 1 .. Len(gaps[c])
                   PROVE  gaps[c][1] <= gaps[c][i]
        OBVIOUS
      <4>1. i = 1 \/ 1 < i
        OBVIOUS
      <4>2. 1 < i => gaps[c][1] <= gaps[c][i]
        BY <3>1 DEF TypeInv, GapsInPlace
      <4>3. gaps[c][1] <= gaps[c][1]
        BY <1>2, <3>1
      <4> QED BY <4>1, <4>2, <4>3
    <3>3. \A i \in 1 .. Len(gaps[c]) : gaps[c][i] <= Len(received[c]) + Len(out[c])
      BY DEF TypeInv, GapsInPlace
    <3>4. Len(received[c]) + k <= gaps[c][1] /\ gaps[c][1] \in Nat
      BY <1>1, <1>2, <3>1
    <3>5. ASSUME NEW i \in 1 .. Len(gaps[c])
          PROVE  Len(received[c]) + k <= gaps[c][i]
      <4> DEFINE g == gaps[c][i]
                 h == gaps[c][1]
                 r == Len(received[c])
      <4>1. g \in Nat /\ h \in Nat /\ r \in Nat /\ k \in Nat
        BY <1>2, <3>4
      <4>2. h <= g /\ r + k <= h
        BY <3>2, <3>4
      <4> HIDE DEF g, h, r
      <4>3. r + k <= g
        BY <4>1, <4>2
      <4> QED BY <4>3 DEF g, r
    <3> QED BY <3>3, <3>5
  <2> QED BY <2>1, <2>2
<1>7. \A i, j \in 1 .. Len(gaps[c]) : i < j => gaps[c][i] <= gaps[c][j]
  BY DEF TypeInv, GapsInPlace
<1>8. /\ \A i \in 1 .. Len(gaps'[c]) :
           Len(received'[c]) <= gaps'[c][i] /\ gaps'[c][i] <= Len(received'[c]) + Len(out'[c])
      /\ \A i, j \in 1 .. Len(gaps'[c]) : i < j => gaps'[c][i] <= gaps'[c][j]
  <2>1. Len(received'[c]) + Len(out'[c]) = Len(received[c]) + Len(out[c])
    <3> DEFINE o == Len(out[c])
               r == Len(received[c])
    <3>1. o \in Nat /\ r \in Nat /\ k \in Nat /\ Len(received'[c]) = r + k /\ Len(out'[c]) = o - k
      BY <1>1, <1>2
    <3> HIDE DEF o, r
    <3>2. Len(received'[c]) + Len(out'[c]) = r + o
      BY <3>1
    <3> QED BY <3>2 DEF o, r
  <2>2. \A i \in 1 .. Len(gaps[c]) :
          /\ Len(received'[c]) <= gaps[c][i]
          /\ gaps[c][i] <= Len(received'[c]) + Len(out'[c])
    BY <1>1, <1>6, <2>1
  <2>3. CASE gaps'[c] = gaps[c]
    BY <1>7, <2>2, <2>3
  <2>4. CASE gaps[c] # <<>> /\ gaps'[c] = Tail(gaps[c])
    <3>1. /\ Len(gaps'[c]) = Len(gaps[c]) - 1
          /\ \A i \in 1 .. Len(gaps'[c]) : gaps'[c][i] = gaps[c][i + 1]
      BY <1>2, <2>4, HeadTailProperties
    <3>2. \A i \in 1 .. Len(gaps'[c]) : i + 1 \in 1 .. Len(gaps[c])
      BY <1>2, <3>1
    <3>3. \A i \in 1 .. Len(gaps'[c]), j \in 1 .. Len(gaps'[c]) : i < j => i + 1 < j + 1
      OBVIOUS
    <3>4. \A i \in 1 .. Len(gaps'[c]) :
            /\ Len(received'[c]) <= gaps'[c][i]
            /\ gaps'[c][i] <= Len(received'[c]) + Len(out'[c])
      BY <2>2, <3>1, <3>2
    <3>5. \A i, j \in 1 .. Len(gaps'[c]) : i < j => gaps'[c][i] <= gaps'[c][j]
      BY <1>7, <3>1, <3>2, <3>3
    <3> QED BY <3>4, <3>5
  <2> QED BY <1>1, <2>3, <2>4
<1>9. GapsInPlace'
  <2> SUFFICES ASSUME NEW d \in Children, d # c
               PROVE  /\ \A i \in 1 .. Len(gaps'[d]) :
                           Len(received'[d]) <= gaps'[d][i]
                             /\ gaps'[d][i] <= Len(received'[d]) + Len(out'[d])
                      /\ \A i, j \in 1 .. Len(gaps'[d]) : i < j => gaps'[d][i] <= gaps'[d][j]
    BY <1>8 DEF GapsInPlace
  <2>1. out'[d] = out[d] /\ received'[d] = received[d] /\ gaps'[d] = gaps[d]
    BY <1>1
  <2> QED BY <2>1 DEF TypeInv, GapsInPlace
<1> QED BY <1>4, <1>5, <1>9

\* Pipes after a write are well typed.
LEMMA WriteTypes ==
  ASSUME TypeInv, NEW c \in Children, NEW w \in 1 .. MaxWrites,
         NEW n \in 0 .. MaxChunk, WriteChunk(c, w, n), UNCHANGED received
  PROVE  /\ out' \in [Children -> Seq(Bytes)] /\ gaps' \in [Children -> Seq(Nat)]
         /\ blank' \in [Children -> BOOLEAN]
         /\ GapsInPlace'
<1>1. /\ out'[c] \in Seq(Bytes) /\ Len(out'[c]) = Len(out[c]) + n
      /\ \/ gaps'[c] = gaps[c]
         \/ n = 0 /\ gaps'[c] = Append(gaps[c], Len(received[c]) + Len(out[c]))
      /\ \A d \in Children \ {c} : out'[d] = out[d] /\ gaps'[d] = gaps[d]
  BY WritePipe
<1>2. /\ gaps[c] \in Seq(Nat) /\ Len(out[c]) \in Nat /\ Len(received[c]) \in Nat
      /\ n \in Nat /\ Len(gaps[c]) \in Nat
      /\ \A i \in 1 .. Len(gaps[c]) : gaps[c][i] \in Nat
  BY AvailableType, Bounds
<1>3. gaps'[c] \in Seq(Nat)
  <2>1. Append(gaps[c], Len(received[c]) + Len(out[c])) \in Seq(Nat)
    <3>1. Len(received[c]) + Len(out[c]) \in Nat
      BY Written
    <3> QED BY <1>2, <3>1, AppendGap
  <2> QED BY <1>1, <1>2, <2>1
<1>4. /\ out' \in [Children -> Seq(Bytes)] /\ gaps' \in [Children -> Seq(Nat)]
      /\ blank' \in [Children -> BOOLEAN]
  BY <1>1, <1>3 DEF WriteChunk, TypeInv, TypeOK
<1>5. /\ \A i \in 1 .. Len(gaps[c]) :
           Len(received[c]) <= gaps[c][i] /\ gaps[c][i] <= Len(received[c]) + Len(out[c])
      /\ \A i, j \in 1 .. Len(gaps[c]) : i < j => gaps[c][i] <= gaps[c][j]
  BY DEF TypeInv, GapsInPlace
<1>6. /\ \A i \in 1 .. Len(gaps'[c]) :
           Len(received[c]) <= gaps'[c][i] /\ gaps'[c][i] <= Len(received[c]) + Len(out'[c])
      /\ \A i, j \in 1 .. Len(gaps'[c]) : i < j => gaps'[c][i] <= gaps'[c][j]
  <2> DEFINE r == Len(received[c])
             o == Len(out[c])
             m == Len(gaps[c])
  <2>1. CASE gaps'[c] = gaps[c]
    <3>1. \A g \in Nat : g <= r + o => g <= r + (o + n)
      BY <1>2, More
    <3> QED BY <1>1, <1>2, <1>5, <2>1, <3>1
  <2>2. CASE n = 0 /\ gaps'[c] = Append(gaps[c], r + o)
    <3>1. /\ Len(gaps'[c]) = m + 1 /\ m \in Nat
          /\ \A i \in 1 .. m : gaps'[c][i] = gaps[c][i]
          /\ gaps'[c][m + 1] = r + o
      <4>1. r + o \in Nat /\ gaps[c] \in Seq(Nat)
        BY <1>2, Written
      <4> HIDE DEF r, o
      <4>2. gaps'[c] = Append(gaps[c], r + o)
        BY <2>2
      <4> QED BY <4>1, <4>2, AppendGap DEF m
    <3>2. Len(out'[c]) = o /\ r \in Nat /\ o \in Nat
      BY <1>1, <1>2, <2>2
    <3> HIDE DEF r, o, m
    <3>3. \A i \in 1 .. m + 1 : i \in 1 .. m \/ i = m + 1
      BY <3>1
    <3>4. \A i \in 1 .. m + 1 : r <= gaps'[c][i] /\ gaps'[c][i] <= r + o
      <4>1. r <= r + o /\ r + o <= r + o
        BY <3>2
      <4> QED BY <1>5, <3>1, <3>3, <4>1 DEF r, o, m
    <3>5. \A i, j \in 1 .. m + 1 : i < j => i \in 1 .. m
      BY <3>1
    <3>6. \A i, j \in 1 .. m + 1 : i < j => gaps'[c][i] <= gaps'[c][j]
      <4> SUFFICES ASSUME NEW i \in 1 .. m + 1, NEW j \in 1 .. m + 1, i < j
                   PROVE  gaps'[c][i] <= gaps'[c][j]
        OBVIOUS
      <4>1. i \in 1 .. m
        BY <3>5
      <4>2. CASE j \in 1 .. m
        BY <1>5, <3>1, <4>1, <4>2 DEF m
      <4>3. CASE j = m + 1
        BY <3>1, <3>4, <4>3
      <4> QED BY <3>3, <4>2, <4>3
    <3> QED BY <3>1, <3>2, <3>4, <3>6 DEF r, o, m
  <2> QED BY <1>1, <2>1, <2>2
<1>7. GapsInPlace'
  <2> SUFFICES ASSUME NEW d \in Children, d # c
               PROVE  /\ \A i \in 1 .. Len(gaps'[d]) :
                           Len(received'[d]) <= gaps'[d][i]
                             /\ gaps'[d][i] <= Len(received'[d]) + Len(out'[d])
                      /\ \A i, j \in 1 .. Len(gaps'[d]) : i < j => gaps'[d][i] <= gaps'[d][j]
    BY <1>6 DEF GapsInPlace
  <2>1. out'[d] = out[d] /\ received'[d] = received[d] /\ gaps'[d] = gaps[d]
    BY <1>1
  <2> QED BY <2>1 DEF TypeInv, GapsInPlace
<1> QED BY <1>4, <1>7

\* The parent's call by kind.
LEMMA CallCases ==
  ASSUME TypeOK
  PROVE  /\ Idle \in CallTypes
         /\ \A c \in Children :
              [op |-> "exec", of |-> c] \in CallTypes /\ [op |-> "read", of |-> c] \in CallTypes
         /\ \A c \in Children, i \in 0 .. Retries :
              [op |-> "peek", of |-> c, left |-> i] \in CallTypes
         /\ call.op = "peek" => call.left \in 0 .. Retries
<1>1. call.op = "peek" => call.left \in 0 .. Retries
  <2>1. call \in CallTypes
    BY DEF TypeOK
  <2> QED BY <2>1 DEF CallTypes, Idle
<1> QED BY <1>1 DEF CallTypes

\* The types hold at the start.
LEMMA TypeInit == Init => TypeInv
<1> SUFFICES ASSUME Init PROVE TypeInv
  OBVIOUS
<1>1. TypeOK
  BY Bounds DEF Init, TypeOK, CallTypes
<1>2. GapsInPlace
  <2>1. \A c \in Children : gaps[c] = <<>>
    BY DEF Init
  <2>2. 1 .. Len(<<>>) = {}
    OBVIOUS
  <2> QED BY <2>1, <2>2 DEF GapsInPlace
<1> QED BY <1>1, <1>2 DEF TypeInv

\* No step breaks the types.
LEMMA TypeStep ==
  ASSUME TypeInv, [Next]_vars
  PROVE  TypeInv'
<1> USE DEF TypeInv
<1>0. GapsInPlace /\ UNCHANGED <<out, gaps, received>> => GapsInPlace'
  BY DEF GapsInPlace
<1>1. CASE UNCHANGED vars
  BY <1>0, <1>1 DEF vars, childVars, pipeVars, parentVars, historyVars, TypeOK, CallTypes
<1>2. ASSUME NEW c \in Children, Exec(c) PROVE TypeInv'
  BY <1>0, <1>2, CallCases DEF Exec, pipeVars, historyVars, TypeOK
<1>3. ASSUME NEW c \in Children, Started(c) \/ Refused(c) PROVE TypeInv'
  BY <1>0, <1>3, CallCases DEF Started, Refused, ExecReturns, pipeVars, historyVars, TypeOK
<1>4. ASSUME NEW c \in Children, ChildWrite(c) PROVE TypeInv'
  <2>1. writes \in 0 .. MaxWrites /\ writes < MaxWrites /\ writes' = writes + 1
    BY <1>4 DEF ChildWrite, TypeOK
  <2>2. writes + 1 \in 1 .. MaxWrites /\ writes' \in 0 .. MaxWrites
    BY <2>1, Bounds
  <2>3. PICK n \in 0 .. MaxChunk : WriteChunk(c, writes + 1, n)
    BY <1>4 DEF ChildWrite
  <2>4. /\ out' \in [Children -> Seq(Bytes)] /\ gaps' \in [Children -> Seq(Nat)]
        /\ blank' \in [Children -> BOOLEAN] /\ GapsInPlace'
    BY <1>4, <2>2, <2>3, WriteTypes DEF ChildWrite, parentVars
  <2> QED BY <1>4, <2>2, <2>4 DEF ChildWrite, childVars, parentVars, TypeOK
<1>5. ASSUME NEW c \in Children, SetRawMode(c) PROVE TypeInv'
  <2>1. writes' \in 0 .. MaxWrites
    BY <1>5, Bounds DEF SetRawMode, TypeOK
  <2>2. PICK mode \in {"raw", "cooked"} :
           /\ ctl' = [ctl EXCEPT ![c] = Append(@, mode)]
           /\ wanted' = [wanted EXCEPT ![c] = mode]
           /\ askedFor' = [askedFor EXCEPT ![c] = @ \cup {mode}]
           /\ status' = [status EXCEPT ![c] = IF tty = mode THEN "running" ELSE "setting"]
    BY <1>5 DEF SetRawMode
  <2>3. ctl' \in [Children -> Seq(Messages)]
    BY <2>2 DEF TypeOK, Messages
  <2>4. /\ wanted' \in [Children -> {"raw", "cooked"}]
        /\ askedFor' \in [Children -> SUBSET {"raw", "cooked"}]
    BY <2>2 DEF TypeOK
  <2>5. status' \in [Children -> {"none", "loading", "refused", "running", "setting",
                                  "ended", "exited"}]
    BY <2>2 DEF TypeOK
  <2> QED BY <1>0, <1>5, <2>1, <2>3, <2>4, <2>5 DEF SetRawMode, parentVars, TypeOK
<1>6. ASSUME NEW c \in Children, PollMode(c) \/ ChildEnds(c) PROVE TypeInv'
  BY <1>0, <1>6 DEF PollMode, ChildEnds, pipeVars, parentVars, historyVars, TypeOK
<1>7. ASSUME NEW c \in Children, SendExit(c) PROVE TypeInv'
  <2>1. ctl' \in [Children -> Seq(Messages)]
    BY <1>7 DEF SendExit, TypeOK, Messages
  <2> QED BY <1>0, <1>7, <2>1 DEF SendExit, parentVars, historyVars, TypeOK
<1>8. ASSUME NEW c \in Children, HandleControl(c) PROVE TypeInv'
  <2>1. ctl[c] \in Seq(Messages) /\ ctl[c] # <<>>
    BY <1>8 DEF HandleControl, TypeOK
  <2>2. Head(ctl[c]) \in Messages /\ Tail(ctl[c]) \in Seq(Messages)
    BY <2>1, HeadTailProperties
  <2>3. ctl' \in [Children -> Seq(Messages)]
    BY <1>8, <2>2 DEF HandleControl, TypeOK
  <2>4. tty' \in {"raw", "cooked"} /\ told' \in [Children -> BOOLEAN]
    BY <1>8, <2>2 DEF HandleControl, TypeOK, Messages
  <2> QED BY <1>0, <1>8, <2>3, <2>4 DEF HandleControl, childVars, historyVars, TypeOK
<1>9. ASSUME NEW c \in Children, NEW n \in Lengths, Read(c, n) PROVE TypeInv'
  <2>1. /\ out' \in [Children -> Seq(Bytes)] /\ received' \in [Children -> Seq(Bytes)]
        /\ gaps' \in [Children -> Seq(Nat)] /\ promised' \in [Children -> Nat]
        /\ GapsInPlace'
    BY <1>9, ReadTypes
  <2>2. call' \in CallTypes
    BY <1>9, CallCases DEF Read
  <2> QED BY <1>9, <2>1, <2>2 DEF Read, childVars, historyVars, TypeOK
<1>10. ASSUME NEW c \in Children, ReadEmpty(c) PROVE TypeInv'
  BY <1>0, <1>10, CallCases DEF ReadEmpty, childVars, pipeVars, TypeOK
<1>11. ASSUME NEW c \in Children, NEW i \in 0 .. Retries, Look(c, i) PROVE TypeInv'
  <2>1. promised' \in [Children -> Nat]
    <3>1. PICK n \in 0 .. Available(c) : promised' = [promised EXCEPT ![c] = n]
      BY <1>11 DEF Look
    <3>2. n \in Nat
      BY AvailableType
    <3> QED BY <3>1, <3>2 DEF TypeOK
  <2>2. call' \in CallTypes
    BY <1>11, CallCases DEF Look
  <2> QED BY <1>0, <1>11, <2>1, <2>2 DEF Look, childVars, pipeVars, historyVars, TypeOK
<1>12. ASSUME NEW c \in Children, Peek(c) PROVE TypeInv'
  <2>1. Retries \in 0 .. Retries
    BY Bounds
  <2> QED BY <1>11, <1>12, <2>1 DEF Peek
<1>13. ASSUME NEW c \in Children, PeekAgain(c) PROVE TypeInv'
  <2>1. call.left \in 0 .. Retries /\ call.left > 0
    BY <1>13, CallCases DEF PeekAgain
  <2>2. call.left - 1 \in 0 .. Retries
    BY <2>1, Bounds
  <2> QED BY <1>11, <1>13, <2>2 DEF PeekAgain
<1>14. ASSUME NEW c \in Children, PeekEnds(c) PROVE TypeInv'
  BY <1>0, <1>14, CallCases DEF PeekEnds, childVars, pipeVars, historyVars, TypeOK
<1> QED
  BY <1>1, <1>2, <1>3, <1>4, <1>5, <1>6, <1>7, <1>8, <1>9, <1>10, <1>12, <1>13, <1>14
  DEF Next, ChildNext, ParentNext

\* TypeOK: the state of processes and pipes is what the code keeps.
THEOREM TypeCorrect == Spec => []TypeInv /\ []TypeOK
<1>1. Init => TypeInv
  BY TypeInit
<1>2. TypeInv /\ [Next]_vars => TypeInv'
  BY TypeStep
<1>3. TypeInv => TypeOK
  BY DEF TypeInv
<1> QED BY <1>1, <1>2, <1>3, PTL DEF Spec

-----------------------------------------------------------------------------
(* What the parent is promised. *)

\* PollKeepsItsWord: what a poll has announced is there when the parent reads.
LEMMA PollStep ==
  ASSUME TypeInv, PollKeepsItsWord, [Next]_vars
  PROVE  PollKeepsItsWord'
<1>0. TypeInv'
  BY TypeStep
<1>1. ASSUME UNCHANGED <<out, gaps, received, promised>> PROVE PollKeepsItsWord'
  BY <1>1 DEF PollKeepsItsWord, Available
<1>2. ASSUME NEW c \in Children, ChildWrite(c) PROVE PollKeepsItsWord'
  <2>1. writes + 1 \in 1 .. MaxWrites
    BY <1>2, Bounds DEF ChildWrite, TypeInv, TypeOK
  <2>2. PICK n \in 0 .. MaxChunk : WriteChunk(c, writes + 1, n)
    BY <1>2 DEF ChildWrite
  <2>3. UNCHANGED <<received, promised>>
    BY <1>2 DEF ChildWrite, parentVars
  <2>4. /\ Len(out'[c]) = Len(out[c]) + n
        /\ \/ n > 0 /\ gaps'[c] = gaps[c]
           \/ n = 0 /\ gaps'[c] = Append(gaps[c], Len(received[c]) + Len(out[c]))
        /\ \A d \in Children \ {c} : out'[d] = out[d] /\ gaps'[d] = gaps[d]
    BY <2>1, <2>2, WritePipe
  <2>5. Len(out[c]) \in Nat /\ Len(received[c]) \in Nat /\ n \in Nat /\ promised[c] \in Nat
    BY AvailableType, Bounds DEF TypeInv, TypeOK
  <2>6. promised[c] <= Available(c)
    BY DEF PollKeepsItsWord
  <2>7. promised[c] <= Available(c)'
    <3>1. CASE gaps[c] = <<>> /\ gaps'[c] = gaps[c]
      <4>1. Available(c) = Len(out[c]) /\ Available(c)' = Len(out[c]) + n
        BY <2>4, <3>1 DEF Available
      <4>2. \A p, o, m \in Nat : p <= o => p <= o + m
        OBVIOUS
      <4> QED BY <2>5, <2>6, <4>1, <4>2
    <3>2. CASE gaps[c] # <<>> /\ gaps'[c] = gaps[c]
      BY <2>3, <2>6, <3>2 DEF Available
    <3>3. CASE gaps[c] = <<>> /\ gaps'[c] = Append(gaps[c], Len(received[c]) + Len(out[c]))
      <4> DEFINE w == Len(received[c]) + Len(out[c])
      <4>1. w \in Nat
        BY Written
      <4>2. gaps'[c] # <<>> /\ Head(gaps'[c]) = w
        <5> HIDE DEF w
        <5>1. gaps'[c] = <<w>>
          BY <3>3, <4>1 DEF w
        <5> QED BY <5>1
      <4>3. Available(c)' = w - Len(received[c]) /\ Available(c) = Len(out[c])
        BY <2>3, <3>3, <4>2 DEF Available
      <4>4. \A r, o \in Nat : (r + o) - r = o
        OBVIOUS
      <4>5. Available(c)' = Available(c)
        BY <2>5, <4>3, <4>4
      <4> QED BY <2>6, <4>5
    <3>4. CASE gaps[c] # <<>> /\ gaps'[c] = Append(gaps[c], Len(received[c]) + Len(out[c]))
      <4> DEFINE w == Len(received[c]) + Len(out[c])
      <4>1. w \in Nat /\ gaps[c] \in Seq(Nat)
        BY Written, AvailableType
      <4>2. gaps'[c] # <<>> /\ Head(gaps'[c]) = Head(gaps[c])
        <5> HIDE DEF w
        <5>1. gaps'[c] = Append(gaps[c], w) /\ gaps[c] # <<>>
          BY <3>4 DEF w
        <5> QED BY <4>1, <5>1
      <4>3. Available(c)' = Available(c)
        BY <2>3, <3>4, <4>2 DEF Available
      <4> QED BY <2>6, <4>3
    <3> QED BY <2>4, <3>1, <3>2, <3>3, <3>4
  <2>8. ASSUME NEW d \in Children, d # c PROVE promised[d] <= Available(d)'
    BY <2>3, <2>4, <2>8 DEF PollKeepsItsWord, Available
  <2> QED BY <2>3, <2>7, <2>8 DEF PollKeepsItsWord
<1>3. ASSUME NEW c \in Children, NEW n \in Lengths, Read(c, n) PROVE PollKeepsItsWord'
  <2>1. PICK k \in 0 .. Len(out[c]) :
           /\ k = ReadLength(c, n) /\ k <= Available(c)
           /\ Len(received'[c]) = Len(received[c]) + k
           /\ Len(out'[c]) = Len(out[c]) - k
           /\ \/ gaps'[c] = gaps[c]
              \/ k = Available(c)
           /\ \A d \in Children \ {c} :
                out'[d] = out[d] /\ received'[d] = received[d] /\ gaps'[d] = gaps[d]
    BY <1>3, ReadPipe
  <2>2. /\ promised' = [promised EXCEPT ![c] = IF @ > k THEN @ - k ELSE 0]
        /\ promised[c] \in Nat /\ k \in Nat
    BY <1>3, <2>1, AvailableType DEF Read, TypeInv, TypeOK
  <2>3. /\ promised'[c] = IF promised[c] > k THEN promised[c] - k ELSE 0
        /\ \A d \in Children \ {c} : promised'[d] = promised[d]
    BY <2>2 DEF TypeInv, TypeOK
  <2>4. Available(c) \in Nat /\ Available(c)' \in Nat /\ promised[c] <= Available(c)
    BY <1>0, AvailableType, AvailableLater DEF PollKeepsItsWord
  <2>5. CASE k = Available(c)
    <3>1. promised'[c] = 0
      BY <2>2, <2>3, <2>4, <2>5
    <3>2. promised'[c] <= Available(c)'
      BY <2>4, <3>1
    <3>3. ASSUME NEW d \in Children, d # c PROVE promised'[d] <= Available(d)'
      BY <2>1, <2>3, <3>3 DEF PollKeepsItsWord, Available
    <3> QED BY <3>2, <3>3 DEF PollKeepsItsWord
  <2>6. CASE gaps'[c] = gaps[c]
    <3>1. Available(c)' = Available(c) - k
      <4>1. CASE gaps[c] = <<>>
        BY <2>1, <2>6, <4>1 DEF Available
      <4>2. CASE gaps[c] # <<>>
        <5> DEFINE h == Head(gaps[c])
                   r == Len(received[c])
        <5>1. h \in Nat /\ r \in Nat
          BY <4>2, AvailableType
        <5>2. Available(c) = h - r /\ Available(c)' = h - (r + k)
          BY <2>1, <2>6, <4>2 DEF Available
        <5> HIDE DEF h, r
        <5> QED BY <2>2, <5>1, <5>2
      <4> QED BY <4>1, <4>2
    <3>2. promised'[c] <= Available(c)'
      BY <2>1, <2>2, <2>3, <2>4, <3>1
    <3>3. ASSUME NEW d \in Children, d # c PROVE promised'[d] <= Available(d)'
      BY <2>1, <2>3, <3>3 DEF PollKeepsItsWord, Available
    <3> QED BY <3>2, <3>3 DEF PollKeepsItsWord
  <2> QED BY <2>1, <2>5, <2>6
<1>4. ASSUME NEW c \in Children, NEW i, Look(c, i) PROVE PollKeepsItsWord'
  <2>1. PICK n \in 0 .. Available(c) : promised' = [promised EXCEPT ![c] = n]
    BY <1>4 DEF Look
  <2>2. UNCHANGED <<out, gaps, received>>
    BY <1>4 DEF Look, pipeVars
  <2>3. n <= Available(c)
    BY AvailableType
  <2>4. \A d \in Children : promised'[d] = IF d = c THEN n ELSE promised[d]
    BY <2>1 DEF TypeInv, TypeOK
  <2> QED BY <2>2, <2>3, <2>4 DEF PollKeepsItsWord, Available
<1>5. CASE UNCHANGED vars
  BY <1>1, <1>5 DEF vars, pipeVars, parentVars
<1>6. ASSUME NEW c \in Children, ChildNext(c) PROVE PollKeepsItsWord'
  BY <1>1, <1>2, <1>6
  DEF ChildNext, Started, Refused, SetRawMode, PollMode, ChildEnds, SendExit, pipeVars, parentVars
<1>7. ASSUME NEW c \in Children, ParentNext(c) PROVE PollKeepsItsWord'
  BY <1>1, <1>3, <1>4, <1>7
  DEF ParentNext, Exec, HandleControl, ReadEmpty, Peek, PeekAgain, PeekEnds, pipeVars
<1> QED BY <1>5, <1>6, <1>7 DEF Next

\* PollKeepsItsWord holds for every number of children and of writes.
THEOREM PollsHold == Spec => []PollKeepsItsWord
<1>1. Init => PollKeepsItsWord
  <2> SUFFICES ASSUME Init PROVE PollKeepsItsWord
    OBVIOUS
  <2>1. Len(<<>>) = 0
    OBVIOUS
  <2>2. \A c \in Children : promised[c] = 0 /\ Available(c) = 0
    BY <2>1 DEF Init, Available
  <2>3. 0 <= 0
    OBVIOUS
  <2> QED BY <2>2, <2>3 DEF PollKeepsItsWord
<1>2. TypeInv /\ PollKeepsItsWord /\ [Next]_vars => PollKeepsItsWord'
  BY PollStep
<1> QED BY <1>1, <1>2, TypeCorrect, PTL DEF Spec

\* What the parent knows of a child that has ended.  A child exits before it
\* says so, and then writes no more; without empty chunks a read that comes
\* back empty has found all there was.
Ends ==
  \A c \in Children :
    /\ told[c] => status[c] = "exited"
    /\ \A i \in 1 .. Len(ctl[c]) : ctl[c][i] = "exit" => status[c] = "exited"
    /\ drained[c] => told[c]
    /\ ~blank[c] => gaps[c] = <<>>
    /\ told[c] /\ ~blank[c] /\ (drained[c] \/ call = [op |-> "read", of |-> c])
         => out[c] = <<>>

\* A message more, a message less.
LEMMA Messaging ==
  ASSUME NEW s \in Seq(Messages)
  PROVE  /\ Len(s) \in Nat
         /\ \A m \in Messages :
              /\ Append(s, m) \in Seq(Messages) /\ Len(Append(s, m)) = Len(s) + 1
              /\ \A i \in 1 .. Len(s) : Append(s, m)[i] = s[i]
              /\ Append(s, m)[Len(s) + 1] = m
              /\ \A i \in 1 .. Len(Append(s, m)) : i \in 1 .. Len(s) \/ i = Len(s) + 1
         /\ s # <<>> =>
              /\ Len(s) >= 1 /\ Head(s) \in Messages /\ Head(s) = s[1]
              /\ Tail(s) \in Seq(Messages) /\ Len(Tail(s)) = Len(s) - 1
              /\ \A i \in 1 .. Len(Tail(s)) : i + 1 \in 1 .. Len(s) /\ Tail(s)[i] = s[i + 1]
<1> HIDE DEF Messages
<1>1. Len(s) \in Nat
  OBVIOUS
<1>2. ASSUME NEW m \in Messages
      PROVE  /\ Append(s, m) \in Seq(Messages) /\ Len(Append(s, m)) = Len(s) + 1
             /\ \A i \in 1 .. Len(s) : Append(s, m)[i] = s[i]
             /\ Append(s, m)[Len(s) + 1] = m
  OBVIOUS
<1>3. \A i \in 1 .. Len(s) + 1 : i \in 1 .. Len(s) \/ i = Len(s) + 1
  BY <1>1
<1>4. ASSUME s # <<>>
      PROVE  /\ Len(s) >= 1 /\ Head(s) \in Messages /\ Head(s) = s[1]
             /\ Tail(s) \in Seq(Messages) /\ Len(Tail(s)) = Len(s) - 1
             /\ \A i \in 1 .. Len(Tail(s)) : i + 1 \in 1 .. Len(s) /\ Tail(s)[i] = s[i + 1]
  BY <1>4, HeadTailProperties
<1> QED BY <1>1, <1>2, <1>3, <1>4

\* What the parent knows stays true.
LEMMA EndsStep ==
  ASSUME TypeInv, Ends, [Next]_vars
  PROVE  Ends'
<1> DEFINE Reading(c) == call = [op |-> "read", of |-> c]
<1>0. ASSUME UNCHANGED <<told, drained, blank, gaps, out, ctl>>,
             \A c \in Children : Reading(c)' => Reading(c),
             \A c \in Children : status[c] = "exited" => status'[c] = "exited"
      PROVE  Ends'
  BY <1>0 DEF Ends
<1>1. CASE UNCHANGED vars
  BY <1>0, <1>1 DEF vars, childVars, pipeVars, parentVars, historyVars
<1>2. ASSUME NEW c \in Children, Exec(c) PROVE Ends'
  BY <1>0, <1>2 DEF Exec, pipeVars, historyVars, Idle, TypeInv, TypeOK
<1>3. ASSUME NEW c \in Children, Started(c) \/ Refused(c) PROVE Ends'
  BY <1>0, <1>3 DEF Started, Refused, ExecReturns, pipeVars, historyVars, Idle, TypeInv, TypeOK
<1>4. ASSUME NEW c \in Children, ChildWrite(c) PROVE Ends'
  <2>1. writes + 1 \in 1 .. MaxWrites
    BY <1>4, Bounds DEF ChildWrite, TypeInv, TypeOK
  <2>2. PICK n \in 0 .. MaxChunk : WriteChunk(c, writes + 1, n)
    BY <1>4 DEF ChildWrite
  <2>3. UNCHANGED <<status, ctl, told, drained, call>> /\ status[c] = "running"
    BY <1>4 DEF ChildWrite, childVars, parentVars
  <2>4. /\ \/ gaps'[c] = gaps[c] /\ blank'[c] = blank[c]
           \/ blank'[c] = TRUE
        /\ \A d \in Children \ {c} :
             out'[d] = out[d] /\ gaps'[d] = gaps[d] /\ blank'[d] = blank[d]
    BY <2>1, <2>2, WritePipe
  <2>5. ~told[c]
    BY <2>3 DEF Ends
  <2> QED BY <2>3, <2>4, <2>5 DEF Ends
<1>5. ASSUME NEW c \in Children, SetRawMode(c) PROVE Ends'
  <2>1. PICK mode \in {"raw", "cooked"} :
           /\ ctl' = [ctl EXCEPT ![c] = Append(@, mode)]
           /\ status' = [status EXCEPT ![c] = IF tty = mode THEN "running" ELSE "setting"]
    BY <1>5 DEF SetRawMode
  <2>2. UNCHANGED <<out, gaps, told, drained, blank, call>> /\ status[c] = "running"
    BY <1>5 DEF SetRawMode, parentVars
  <2>3. /\ ctl'[c] = Append(ctl[c], mode) /\ mode \in Messages /\ mode # "exit"
        /\ \A d \in Children \ {c} : ctl'[d] = ctl[d] /\ status'[d] = status[d]
    BY <2>1 DEF TypeInv, TypeOK, Messages
  <2>4. ctl[c] \in Seq(Messages)
    BY DEF TypeInv, TypeOK
  <2>5. \A i \in 1 .. Len(ctl'[c]) : ctl'[c][i] # "exit"
    <3>1. \A i \in 1 .. Len(ctl[c]) : ctl[c][i] # "exit"
      BY <2>2 DEF Ends
    <3> QED BY <2>3, <2>4, <3>1, Messaging
  <2>6. ~told[c]
    BY <2>2 DEF Ends
  <2> QED BY <2>2, <2>3, <2>5, <2>6 DEF Ends
<1>6. ASSUME NEW c \in Children, PollMode(c) \/ ChildEnds(c) PROVE Ends'
  BY <1>0, <1>6
  DEF PollMode, ChildEnds, pipeVars, parentVars, historyVars, TypeInv, TypeOK
<1>7. ASSUME NEW c \in Children, SendExit(c) PROVE Ends'
  <2>1. /\ status' = [status EXCEPT ![c] = "exited"]
        /\ ctl' = [ctl EXCEPT ![c] = Append(@, "exit")]
        /\ UNCHANGED <<out, gaps, told, drained, blank, call>>
    BY <1>7 DEF SendExit, parentVars, historyVars
  <2>2. /\ status'[c] = "exited"
        /\ \A d \in Children \ {c} : ctl'[d] = ctl[d] /\ status'[d] = status[d]
    BY <2>1 DEF TypeInv, TypeOK
  <2> QED BY <2>1, <2>2 DEF Ends
<1>8. ASSUME NEW c \in Children, HandleControl(c) PROVE Ends'
  <2>1. /\ call = Idle /\ ctl[c] # <<>> /\ ctl' = [ctl EXCEPT ![c] = Tail(@)]
        /\ UNCHANGED <<status, out, gaps, call, drained, blank>>
        /\ \/ told' = told
           \/ told' = [told EXCEPT ![c] = TRUE] /\ Head(ctl[c]) = "exit"
    BY <1>8 DEF HandleControl, childVars, historyVars
  <2>2. /\ ctl[c] \in Seq(Messages) /\ ctl'[c] = Tail(ctl[c])
        /\ \A d \in Children \ {c} : ctl'[d] = ctl[d] /\ told'[d] = told[d]
        /\ told'[c] = told[c] \/ (told'[c] = TRUE /\ ctl[c][1] = "exit")
    BY <2>1, Messaging DEF TypeInv, TypeOK
  <2>3. \A i \in 1 .. Len(ctl'[c]) : ctl'[c][i] = "exit" => status'[c] = "exited"
    BY <2>1, <2>2, Messaging DEF Ends
  <2>4. told'[c] = told[c] \/ (told'[c] = TRUE /\ status'[c] = "exited")
    <3>1. 1 \in 1 .. Len(ctl[c])
      BY <2>1, <2>2, Messaging
    <3> QED BY <2>1, <2>2, <3>1 DEF Ends
  <2>5. \A d \in Children : ~Reading(d) /\ ~Reading(d)'
    BY <2>1 DEF Idle
  <2>6. drained[c] => told[c] /\ told'[c]
    BY <2>4 DEF Ends
  <2> QED BY <2>1, <2>2, <2>3, <2>4, <2>5, <2>6 DEF Ends
<1>9. ASSUME NEW c \in Children, NEW n \in Lengths, Read(c, n) PROVE Ends'
  <2>1. PICK k \in 0 .. Len(out[c]) :
           /\ k = ReadLength(c, n)
           /\ out'[c] \in Seq(Bytes) /\ Len(out'[c]) = Len(out[c]) - k
           /\ \/ gaps'[c] = gaps[c] /\ (k = n \/ gaps[c] = <<>>)
              \/ gaps[c] # <<>>
           /\ \A d \in Children \ {c} : out'[d] = out[d] /\ gaps'[d] = gaps[d]
    BY <1>9, ReadPipe
  <2>2. /\ UNCHANGED <<status, ctl, told, drained, blank>>
        /\ call = Idle
        /\ call' = IF k = 0 THEN [op |-> "read", of |-> c] ELSE Idle
    BY <1>9, <2>1 DEF Read, childVars, historyVars
  <2>3. ~blank[c] => gaps[c] = <<>> /\ gaps'[c] = <<>>
    BY <2>1 DEF Ends
  <2>4. out[c] \in Seq(Bytes) /\ Len(out[c]) \in Nat /\ n \in Nat \ {0}
    BY AvailableType, Bounds DEF Lengths
  <2>5. out[c] = <<>> => out'[c] = <<>>
    <3>1. ASSUME out[c] = <<>> PROVE Len(out'[c]) = 0
      <4>1. Len(out[c]) = 0
        BY <3>1
      <4> QED BY <2>1, <4>1
    <3> QED BY <2>1, <3>1, EmptySeq
  <2>6. k = 0 /\ gaps[c] = <<>> => out'[c] = <<>>
    <3>1. ASSUME k = 0, gaps[c] = <<>> PROVE Len(out'[c]) = 0
      <4>1. Available(c) = Len(out[c])
        BY <3>1 DEF Available
      <4> QED BY <2>1, <2>4, <3>1, <4>1 DEF ReadLength
    <3> QED BY <2>1, <3>1, EmptySeq
  <2>7. \A d \in Children \ {c} : ~Reading(d)'
    BY <2>2 DEF Idle
  <2>8. told'[c] /\ ~blank'[c] /\ (drained'[c] \/ Reading(c)') => out'[c] = <<>>
    <3>1. Reading(c)' => k = 0
      BY <2>2 DEF Idle
    <3> QED BY <2>2, <2>3, <2>5, <2>6, <3>1 DEF Ends
  <2>9. ASSUME NEW d \in Children, d # c
        PROVE  told'[d] /\ ~blank'[d] /\ (drained'[d] \/ Reading(d)') => out'[d] = <<>>
    BY <2>1, <2>2, <2>7, <2>9 DEF Ends
  <2>10. \A d \in Children : ~blank'[d] => gaps'[d] = <<>>
    BY <2>1, <2>2, <2>3 DEF Ends
  <2>11. \A d \in Children :
           /\ told'[d] => status'[d] = "exited"
           /\ \A i \in 1 .. Len(ctl'[d]) : ctl'[d][i] = "exit" => status'[d] = "exited"
           /\ drained'[d] => told'[d]
    BY <2>2 DEF Ends
  <2> QED BY <2>8, <2>9, <2>10, <2>11 DEF Ends
<1>10. ASSUME NEW c \in Children, ReadEmpty(c) PROVE Ends'
  <2>1. /\ Reading(c) /\ call' = Idle
        /\ drained' = [drained EXCEPT ![c] = drained[c] \/ told[c]]
        /\ UNCHANGED <<status, out, gaps, ctl, told, blank>>
    BY <1>10 DEF ReadEmpty, childVars, pipeVars
  <2>2. /\ drained'[c] => drained[c] \/ told[c]
        /\ \A d \in Children \ {c} : drained'[d] = drained[d]
    BY <2>1 DEF TypeInv, TypeOK
  <2>3. \A d \in Children : ~Reading(d)'
    BY <2>1 DEF Idle
  <2> QED BY <2>1, <2>2, <2>3 DEF Ends
<1>11. ASSUME NEW c \in Children, NEW i, Look(c, i) PROVE Ends'
  <2>1. \A d \in Children : ~Reading(d)'
    <3>1. call' = Idle \/ call' = [op |-> "peek", of |-> c, left |-> i]
      BY <1>11 DEF Look
    <3>2. call'.op # "read"
      BY <3>1 DEF Idle
    <3> QED BY <3>2
  <2> QED BY <1>0, <1>11, <2>1 DEF Look, childVars, pipeVars, historyVars
<1>12. ASSUME NEW c \in Children, PeekEnds(c) PROVE Ends'
  BY <1>0, <1>12 DEF PeekEnds, childVars, pipeVars, historyVars, Idle
<1> QED
  BY <1>1, <1>2, <1>3, <1>4, <1>5, <1>6, <1>7, <1>8, <1>9, <1>10, <1>11, <1>12
  DEF Next, ChildNext, ParentNext, Peek, PeekAgain

\* NothingLeftBehind: a parent that was told of the end and then finds nothing
\* to read has all the output, if the child wrote no empty chunk.
THEOREM NothingIsLeftBehind == Spec => []Ends /\ []NothingLeftBehind
<1>1. Init => Ends
  <2> SUFFICES ASSUME Init PROVE Ends
    OBVIOUS
  <2>1. 1 .. Len(<<>>) = {}
    OBVIOUS
  <2> QED BY <2>1 DEF Init, Ends
<1>2. TypeInv /\ Ends /\ [Next]_vars => Ends'
  BY EndsStep
<1>3. Ends => NothingLeftBehind
  BY DEF Ends, NothingLeftBehind
<1> QED BY <1>1, <1>2, <1>3, TypeCorrect, PTL DEF Spec

-----------------------------------------------------------------------------
(* The raw mode. *)

\* The requests of child c, and the messages of its control pipe, one by one.
Requests ==
  \A c \in Children :
    /\ status[c] \in {"none", "loading", "refused"} => askedFor[c] = {} /\ ctl[c] = <<>>
    /\ \A i \in 1 .. Len(ctl[c]) : ctl[c][i] \in askedFor[c] \cup {"exit"}
    /\ askedFor[c] # {} => wanted[c] \in askedFor[c]

\* The terminal of a child that goes on has its mode, and its messages do not
\* change it; that of a child that waits has it, or will have it after the last
\* of its messages.
Settled(c) ==
  /\ tty = wanted[c]
  /\ \A i \in 1 .. Len(ctl[c]) : ctl[c][i] \in {wanted[c], "exit"}

Underway(c) ==
  /\ tty # wanted[c]
  /\ ctl[c] # <<>>
  /\ ctl[c][Len(ctl[c])] = wanted[c]
  /\ \A i \in 1 .. Len(ctl[c]) - 1 : ctl[c][i] = tty

ModeInv ==
  ~Contended =>
    \A c \in Children :
      askedFor[c] # {} => Settled(c) \/ (status[c] = "setting" /\ Underway(c))

\* Requests stay those of the children.
LEMMA RequestsStep ==
  ASSUME TypeInv, Ends, Requests, [Next]_vars
  PROVE  Requests'
<1>1. ASSUME UNCHANGED <<wanted, askedFor>>,
             \A c \in Children : ctl'[c] = ctl[c] \/ status[c] = "ended",
             \A c \in Children : ctl'[c] = ctl[c] \/ ctl'[c] = Append(ctl[c], "exit"),
             \A c \in Children :
               \/ status'[c] = status[c] \/ status'[c] \in {"running", "ended", "exited"}
               \/ status[c] \in {"none", "loading"}
      PROVE  Requests'
  <2> SUFFICES ASSUME NEW c \in Children
               PROVE  /\ status'[c] \in {"none", "loading", "refused"}
                           => askedFor[c] = {} /\ ctl'[c] = <<>>
                      /\ \A i \in 1 .. Len(ctl'[c]) : ctl'[c][i] \in askedFor[c] \cup {"exit"}
                      /\ askedFor[c] # {} => wanted[c] \in askedFor[c]
    BY <1>1 DEF Requests
  <2>1. ctl[c] \in Seq(Messages) /\ "exit" \in Messages
    BY DEF TypeInv, TypeOK, Messages
  <2>2. \A i \in 1 .. Len(ctl'[c]) : ctl'[c][i] \in askedFor[c] \cup {"exit"}
    <3>1. \A i \in 1 .. Len(ctl[c]) : ctl[c][i] \in askedFor[c] \cup {"exit"}
      BY DEF Requests
    <3>2. CASE ctl'[c] = ctl[c]
      BY <3>1, <3>2
    <3>3. CASE ctl'[c] = Append(ctl[c], "exit")
      BY <2>1, <3>1, <3>3, Messaging
    <3> QED BY <1>1, <3>2, <3>3
  <2>3. status'[c] \in {"none", "loading", "refused"} => askedFor[c] = {} /\ ctl'[c] = <<>>
    BY <1>1 DEF Requests
  <2> QED BY <2>2, <2>3 DEF Requests
<1>2. ASSUME NEW c \in Children, SetRawMode(c) PROVE Requests'
  <2>1. PICK mode \in {"raw", "cooked"} :
           /\ ctl' = [ctl EXCEPT ![c] = Append(@, mode)]
           /\ wanted' = [wanted EXCEPT ![c] = mode]
           /\ askedFor' = [askedFor EXCEPT ![c] = @ \cup {mode}]
           /\ status' = [status EXCEPT ![c] = IF tty = mode THEN "running" ELSE "setting"]
    BY <1>2 DEF SetRawMode
  <2>2. /\ ctl'[c] = Append(ctl[c], mode) /\ wanted'[c] = mode
        /\ askedFor'[c] = askedFor[c] \cup {mode}
        /\ status'[c] \in {"running", "setting"}
        /\ ctl[c] \in Seq(Messages) /\ mode \in Messages
        /\ \A d \in Children \ {c} :
             /\ ctl'[d] = ctl[d] /\ wanted'[d] = wanted[d]
             /\ askedFor'[d] = askedFor[d] /\ status'[d] = status[d]
    BY <2>1 DEF TypeInv, TypeOK, Messages
  <2>3. \A i \in 1 .. Len(ctl'[c]) : ctl'[c][i] \in askedFor'[c] \cup {"exit"}
    BY <2>2, Messaging DEF Requests
  <2> QED BY <2>2, <2>3 DEF Requests
<1>3. ASSUME NEW c \in Children, HandleControl(c) PROVE Requests'
  <2>1. /\ UNCHANGED <<status, wanted, askedFor>>
        /\ ctl[c] # <<>> /\ ctl'[c] = Tail(ctl[c]) /\ ctl[c] \in Seq(Messages)
        /\ \A d \in Children \ {c} : ctl'[d] = ctl[d]
    BY <1>3 DEF HandleControl, childVars, historyVars, TypeInv, TypeOK
  <2>2. \A i \in 1 .. Len(ctl'[c]) : ctl'[c][i] \in askedFor[c] \cup {"exit"}
    BY <2>1, Messaging DEF Requests
  <2> QED BY <2>1, <2>2 DEF Requests
<1>4. ASSUME NEW c \in Children, SendExit(c) PROVE Requests'
  BY <1>1, <1>4 DEF SendExit, historyVars, TypeInv, TypeOK
<1>5. ASSUME NEW c \in Children, Exec(c) \/ Started(c) \/ Refused(c) PROVE Requests'
  BY <1>1, <1>5 DEF Exec, Started, Refused, pipeVars, historyVars, TypeInv, TypeOK
<1>6. ASSUME NEW c \in Children, ChildWrite(c) \/ PollMode(c) \/ ChildEnds(c) PROVE Requests'
  BY <1>1, <1>6
  DEF ChildWrite, PollMode, ChildEnds, childVars, pipeVars, historyVars, TypeInv, TypeOK
<1>7. ASSUME UNCHANGED <<status, wanted, ctl, askedFor>> PROVE Requests'
  BY <1>7 DEF Requests
<1> QED
  BY <1>2, <1>3, <1>4, <1>5, <1>6, <1>7
  DEF Next, ChildNext, ParentNext, Read, ReadEmpty, Peek, PeekAgain, Look, PeekEnds,
      vars, childVars, pipeVars, historyVars

\* Where nobody contends for the terminal, all requests are for one mode.
LEMMA OneMode ==
  ASSUME ~Contended, NEW c \in Children, NEW d \in Children, c # d,
         NEW m \in askedFor[c], NEW n \in askedFor[d]
  PROVE  m = n
BY DEF Contended

\* Contention does not go away.
LEMMA ContendedStays ==
  ASSUME TypeInv, [Next]_vars, Contended
  PROVE  Contended'
<1>1. \A c \in Children : askedFor[c] \subseteq askedFor'[c]
  BY DEF Next, ChildNext, ParentNext, Exec, Started, Refused, ChildWrite, SetRawMode, PollMode,
         ChildEnds, SendExit, Read, ReadEmpty, Peek, PeekAgain, Look, PeekEnds, HandleControl,
         vars, historyVars, TypeInv, TypeOK
<1> QED BY <1>1 DEF Contended

\* A child that sets the mode.
LEMMA SetRawModeStep ==
  ASSUME TypeInv, Ends, Requests, ModeInv, NEW c \in Children, SetRawMode(c),
         ~Contended, ~Contended'
  PROVE  ModeInv'
<1>1. PICK mode \in {"raw", "cooked"} :
         /\ ctl' = [ctl EXCEPT ![c] = Append(@, mode)]
         /\ wanted' = [wanted EXCEPT ![c] = mode]
         /\ askedFor' = [askedFor EXCEPT ![c] = @ \cup {mode}]
         /\ status' = [status EXCEPT ![c] = IF tty = mode THEN "running" ELSE "setting"]
  BY DEF SetRawMode
<1>2. status[c] = "running" /\ tty' = tty
  BY DEF SetRawMode, parentVars
<1>3. /\ ctl'[c] = Append(ctl[c], mode) /\ wanted'[c] = mode
      /\ askedFor'[c] = askedFor[c] \cup {mode}
      /\ status'[c] = IF tty = mode THEN "running" ELSE "setting"
      /\ ctl[c] \in Seq(Messages) /\ mode \in Messages
      /\ \A d \in Children \ {c} :
           /\ ctl'[d] = ctl[d] /\ wanted'[d] = wanted[d]
           /\ askedFor'[d] = askedFor[d] /\ status'[d] = status[d]
  BY <1>1 DEF TypeInv, TypeOK, Messages
<1>4. \A i \in 1 .. Len(ctl[c]) : ctl[c][i] = tty
  <2>1. \A i \in 1 .. Len(ctl[c]) : ctl[c][i] # "exit" /\ ctl[c][i] \in askedFor[c]
    BY <1>2 DEF Ends, Requests
  <2>2. askedFor[c] # {} => Settled(c)
    BY <1>2 DEF ModeInv
  <2> QED BY <2>1, <2>2 DEF Settled
<1>5. /\ Len(ctl'[c]) = Len(ctl[c]) + 1 /\ Len(ctl[c]) \in Nat
      /\ \A i \in 1 .. Len(ctl[c]) : ctl'[c][i] = tty
      /\ ctl'[c][Len(ctl[c]) + 1] = mode
      /\ \A i \in 1 .. Len(ctl'[c]) : i \in 1 .. Len(ctl[c]) \/ i = Len(ctl[c]) + 1
  BY <1>3, <1>4, Messaging
<1>6. CASE tty = mode
  <2>1. Settled(c)'
    BY <1>2, <1>3, <1>5, <1>6 DEF Settled
  <2>2. ASSUME NEW d \in Children, d # c, askedFor[d] # {}
        PROVE  Settled(d)' \/ (status'[d] = "setting" /\ Underway(d)')
    BY <1>2, <1>3, <2>2 DEF ModeInv, Settled, Underway
  <2> QED BY <1>3, <2>1, <2>2 DEF ModeInv
<1>7. CASE tty # mode
  <2>1. Len(ctl'[c]) - 1 = Len(ctl[c]) /\ Len(ctl'[c]) # 0
    BY <1>5
  <2>2. ctl'[c] # <<>>
    <3>1. Len(<<>>) = 0
      OBVIOUS
    <3> QED BY <2>1, <3>1
  <2>3. Underway(c)' /\ status'[c] = "setting"
    BY <1>2, <1>3, <1>5, <1>7, <2>1, <2>2 DEF Underway
  <2>4. ASSUME NEW d \in Children, d # c, askedFor[d] # {}
        PROVE  Settled(d)' \/ (status'[d] = "setting" /\ Underway(d)')
    BY <1>2, <1>3, <2>4 DEF ModeInv, Settled, Underway
  <2> QED BY <1>3, <2>3, <2>4 DEF ModeInv
<1> QED BY <1>6, <1>7

\* A parent that handles a control message.
LEMMA HandleControlStep ==
  ASSUME TypeInv, Ends, Requests, ModeInv, NEW c \in Children, HandleControl(c),
         ~Contended
  PROVE  ModeInv'
<1>1. /\ UNCHANGED <<status, wanted, askedFor>>
      /\ ctl[c] # <<>> /\ ctl'[c] = Tail(ctl[c]) /\ ctl[c] \in Seq(Messages)
      /\ \A d \in Children \ {c} : ctl'[d] = ctl[d]
  BY DEF HandleControl, childVars, historyVars, TypeInv, TypeOK
<1>2. /\ Len(ctl[c]) \in Nat /\ Len(ctl[c]) >= 1 /\ Head(ctl[c]) = ctl[c][1]
      /\ Len(ctl'[c]) = Len(ctl[c]) - 1
      /\ \A i \in 1 .. Len(ctl'[c]) : i + 1 \in 1 .. Len(ctl[c]) /\ ctl'[c][i] = ctl[c][i + 1]
      /\ 1 \in 1 .. Len(ctl[c])
  BY <1>1, Messaging
<1> DEFINE h == ctl[c][1]
<1>3. (h = "exit" /\ tty' = tty) \/ (h # "exit" /\ tty' = h)
  BY <1>2 DEF HandleControl
<1>4. \A d \in Children : wanted[d] # "exit"
  BY DEF TypeInv, TypeOK
<1>5. tty # "exit"
  BY DEF TypeInv, TypeOK
<1>6. ASSUME askedFor[c] # {}
      PROVE  Settled(c)' \/ (status'[c] = "setting" /\ Underway(c)')
  <2>1. CASE Settled(c)
    <3>1. tty' = tty
      BY <1>2, <1>3, <2>1 DEF Settled
    <3> QED BY <1>1, <1>2, <2>1, <3>1 DEF Settled
  <2>2. CASE status[c] = "setting" /\ Underway(c)
    <3>1. CASE Len(ctl[c]) = 1
      <4>1. h = wanted[c] /\ tty' = h
        BY <1>3, <1>4, <2>2, <3>1 DEF Underway
      <4>2. 1 .. Len(ctl'[c]) = {}
        BY <1>2, <3>1
      <4> QED BY <1>1, <4>1, <4>2 DEF Settled
    <3>2. CASE Len(ctl[c]) # 1
      <4>1. 1 \in 1 .. Len(ctl[c]) - 1 /\ Len(ctl'[c]) \in 1 .. Len(ctl'[c])
        <5>1. \A l \in Nat : l >= 1 /\ l # 1 => 1 \in 1 .. l - 1 /\ l - 1 \in 1 .. l - 1
          OBVIOUS
        <5> QED BY <1>2, <3>2, <5>1
      <4>2. tty' = tty
        BY <1>3, <2>2, <4>1 DEF Underway
      <4>3. ctl'[c] # <<>>
        <5>1. Len(ctl'[c]) # 0 /\ Len(<<>>) = 0
          BY <1>2, <3>2
        <5> QED BY <5>1
      <4>4. ctl'[c][Len(ctl'[c])] = wanted[c]
        <5>1. Len(ctl'[c]) + 1 = Len(ctl[c])
          BY <1>2
        <5> QED BY <1>2, <2>2, <4>1, <5>1 DEF Underway
      <4>5. \A i \in 1 .. Len(ctl'[c]) - 1 :
              i \in 1 .. Len(ctl'[c]) /\ i + 1 \in 1 .. Len(ctl[c]) - 1
        BY <1>2
      <4>6. \A i \in 1 .. Len(ctl'[c]) - 1 : ctl'[c][i] = tty
        BY <1>2, <2>2, <4>5 DEF Underway
      <4> QED BY <1>1, <2>2, <4>2, <4>3, <4>4, <4>6 DEF Underway
    <3> QED BY <3>1, <3>2
  <2> QED BY <1>6, <2>1, <2>2 DEF ModeInv
<1>7. ASSUME NEW d \in Children, d # c, askedFor[d] # {}
      PROVE  Settled(d)' \/ (status'[d] = "setting" /\ Underway(d)')
  <2>1. CASE tty' = tty
    BY <1>1, <1>7, <2>1 DEF ModeInv, Settled, Underway
  <2>2. CASE h # "exit" /\ tty' = h
    <3>1. h \in askedFor[c]
      BY <1>2, <2>2 DEF Requests
    <3>2. \A m \in askedFor[d] : m = h
      BY <1>7, <3>1, OneMode
    <3>3. wanted[d] = h
      BY <1>7, <3>2 DEF Requests
    <3>4. \A i \in 1 .. Len(ctl[d]) : ctl[d][i] \in {h, "exit"}
      BY <3>2 DEF Requests
    <3> QED BY <1>1, <1>7, <2>2, <3>3, <3>4 DEF Settled
  <2> QED BY <1>3, <2>1, <2>2
<1> QED BY <1>1, <1>6, <1>7 DEF ModeInv

\* The terminal keeps the mode of the children.
LEMMA ModeStep ==
  ASSUME TypeInv, Ends, Requests, ModeInv, [Next]_vars
  PROVE  ModeInv'
<1> SUFFICES ASSUME ~Contended, ~Contended' PROVE ModeInv'
  BY ContendedStays DEF ModeInv
<1>1. ASSUME UNCHANGED <<tty, wanted, ctl, askedFor>>,
             \A c \in Children :
               status'[c] = status[c] \/ status[c] # "setting" \/ tty = wanted[c]
      PROVE  ModeInv'
  BY <1>1 DEF ModeInv, Settled, Underway
<1>2. ASSUME NEW c \in Children, SetRawMode(c) PROVE ModeInv'
  BY <1>2, SetRawModeStep
<1>3. ASSUME NEW c \in Children, HandleControl(c) PROVE ModeInv'
  BY <1>3, HandleControlStep
<1>4. ASSUME NEW c \in Children, SendExit(c) PROVE ModeInv'
  <2>1. /\ status[c] = "ended" /\ UNCHANGED <<tty, wanted, askedFor>>
        /\ ctl'[c] = Append(ctl[c], "exit") /\ ctl[c] \in Seq(Messages)
        /\ \A d \in Children \ {c} : ctl'[d] = ctl[d] /\ status'[d] = status[d]
    BY <1>4 DEF SendExit, parentVars, historyVars, TypeInv, TypeOK
  <2>2. ASSUME askedFor[c] # {} PROVE Settled(c)'
    <3>1. Settled(c)
      BY <2>1, <2>2 DEF ModeInv
    <3>2. \A i \in 1 .. Len(ctl'[c]) : ctl'[c][i] \in {wanted[c], "exit"}
      <4>1. "exit" \in Messages
        BY DEF Messages
      <4> QED BY <2>1, <3>1, <4>1, Messaging DEF Settled
    <3> QED BY <2>1, <3>1, <3>2 DEF Settled
  <2>3. ASSUME NEW d \in Children, d # c, askedFor[d] # {}
        PROVE  Settled(d)' \/ (status'[d] = "setting" /\ Underway(d)')
    BY <2>1, <2>3 DEF ModeInv, Settled, Underway
  <2> QED BY <2>1, <2>2, <2>3 DEF ModeInv
<1>5. ASSUME NEW c \in Children, Exec(c) \/ Started(c) \/ Refused(c) PROVE ModeInv'
  BY <1>1, <1>5 DEF Exec, Started, Refused, pipeVars, historyVars, TypeInv, TypeOK
<1>6. ASSUME NEW c \in Children, ChildWrite(c) \/ PollMode(c) \/ ChildEnds(c) PROVE ModeInv'
  BY <1>1, <1>6
  DEF ChildWrite, PollMode, ChildEnds, childVars, pipeVars, parentVars, historyVars, TypeInv, TypeOK
<1>7. ASSUME UNCHANGED <<status, wanted, ctl, tty, askedFor>> PROVE ModeInv'
  BY <1>1, <1>7
<1> QED
  BY <1>2, <1>3, <1>4, <1>5, <1>6, <1>7
  DEF Next, ChildNext, ParentNext, Read, ReadEmpty, Peek, PeekAgain, Look, PeekEnds,
      vars, childVars, pipeVars, parentVars, historyVars

\* ModeHolds: the terminal of a child that has set its mode and goes on has this
\* mode, whatever the order of its requests and of the parent's reads.
THEOREM ModesHold == Spec => []ModeHolds
<1>1. Init => Requests /\ ModeInv
  <2> SUFFICES ASSUME Init PROVE Requests /\ ModeInv
    OBVIOUS
  <2>1. 1 .. Len(<<>>) = {}
    OBVIOUS
  <2> QED BY <2>1 DEF Init, Requests, ModeInv
<1>2. TypeInv /\ Ends /\ Requests /\ ModeInv /\ [Next]_vars => Requests' /\ ModeInv'
  BY RequestsStep, ModeStep
<1>3. ModeInv => ModeHolds
  BY DEF ModeInv, ModeHolds, Settled
<1> QED BY <1>1, <1>2, <1>3, TypeCorrect, NothingIsLeftBehind, PTL DEF Spec

-----------------------------------------------------------------------------
(* The output is a byte stream. *)

\* What was sent is a beginning of what will have been sent.
LEMMA PrefixOfMore ==
  ASSUME NEW s \in Seq(Bytes), NEW t \in Seq(Bytes)
  PROVE  Output!IsPrefix(s, s \o t)
<1> HIDE DEF Bytes
<1>1. /\ Len(s) \in Nat /\ Len(t) \in Nat /\ Len(s \o t) = Len(s) + Len(t)
      /\ s \o t \in Seq(Bytes) /\ \A i \in 1 .. Len(s) : (s \o t)[i] = s[i]
  BY ConcatProperties
<1>2. Len(s) <= Len(s \o t) /\ 1 .. Len(s) \subseteq 1 .. Len(s \o t)
  BY <1>1
<1>3. SubSeq(s, 1, Len(s)) = s
  BY SubSeqFull
<1>4. SubSeq(s \o t, 1, Len(s)) = s
  <2>1. \A i \in 1 .. Len(s) : (s \o t)[i] \in Bytes
    BY <1>1
  <2>2. /\ SubSeq(s \o t, 1, Len(s)) \in Seq(Bytes)
        /\ Len(SubSeq(s \o t, 1, Len(s))) = Len(s)
        /\ \A i \in 1 .. Len(s) : SubSeq(s \o t, 1, Len(s))[i] = (s \o t)[i]
    BY <1>1, <1>2
  <2> QED BY <1>1, <2>2, SeqEqual
<1> QED BY <1>2, <1>3, <1>4 DEF Output!IsPrefix

\* Every step of parent and children is one of the streams, or changes none.
LEMMA StreamStep ==
  ASSUME TypeInv, Ends, [Next]_vars
  PROVE  [Output!Next]_(Output!vars)
<1> DEFINE Sent(c) == received[c] \o out[c]
           Closed(c) == status[c] \in {"ended", "exited"}
<1> USE DEF Output!vars
<1>1. ASSUME UNCHANGED <<received, out, told>>,
             \A c \in Children : Closed(c)' = Closed(c)
      PROVE  UNCHANGED Output!vars
  BY <1>1
<1>2. ASSUME NEW c \in Children, Exec(c) \/ Started(c) \/ Refused(c) \/ PollMode(c)
      PROVE  UNCHANGED Output!vars
  <2>1. UNCHANGED <<received, out, told>>
    BY <1>2 DEF Exec, Started, Refused, PollMode, pipeVars, parentVars
  <2>2. PICK to \in {"loading", "running", "refused"} : status' = [status EXCEPT ![c] = to]
    BY <1>2 DEF Exec, Started, Refused, PollMode
  <2>3. status[c] \in {"none", "loading", "setting"}
    BY <1>2 DEF Exec, Started, Refused, PollMode
  <2>4. \A d \in Children : Closed(d)' = Closed(d)
    BY <2>2, <2>3 DEF TypeInv, TypeOK
  <2> QED BY <1>1, <2>1, <2>4
<1>3. ASSUME NEW c \in Children, SendExit(c) PROVE UNCHANGED Output!vars
  BY SMTT(20), <1>1, <1>3 DEF SendExit, parentVars, TypeInv, TypeOK
<1>4. ASSUME NEW c \in Children, SetRawMode(c) PROVE UNCHANGED Output!vars
  <2>1. PICK mode \in {"raw", "cooked"} :
           status' = [status EXCEPT ![c] = IF tty = mode THEN "running" ELSE "setting"]
    BY <1>4 DEF SetRawMode
  <2>2. status[c] = "running" /\ UNCHANGED <<received, out, told>>
    BY <1>4 DEF SetRawMode, parentVars
  <2> QED BY <1>1, <2>1, <2>2 DEF TypeInv, TypeOK
<1>5. ASSUME NEW c \in Children, ChildEnds(c) PROVE Output!Next
  <2>1. status' = [status EXCEPT ![c] = "ended"] /\ UNCHANGED <<received, out, told>>
    BY <1>5 DEF ChildEnds, pipeVars, parentVars
  <2>2. [d \in Children |-> Closed(d)]' = [[d \in Children |-> Closed(d)] EXCEPT ![c] = TRUE]
    BY <2>1 DEF TypeInv, TypeOK
  <2>3. Output!Close(c)
    BY <2>1, <2>2 DEF Output!Close
  <2> QED BY <2>3 DEF Output!Next
<1>6. ASSUME NEW c \in Children, ChildWrite(c) PROVE Output!Next
  <2>1. writes + 1 \in 1 .. MaxWrites
    BY <1>6, Bounds DEF ChildWrite, TypeInv, TypeOK
  <2>2. PICK n \in 0 .. MaxChunk : WriteChunk(c, writes + 1, n)
    BY <1>6 DEF ChildWrite
  <2>3. UNCHANGED <<status, received, told>> /\ status[c] = "running"
    BY <1>6 DEF ChildWrite, childVars, parentVars
  <2> DEFINE more == Chunk(writes + 1, n)
  <2>4. /\ out'[c] = out[c] \o more /\ more \in Seq(Bytes)
        /\ \A d \in Children \ {c} : out'[d] = out[d]
    BY <2>1, <2>2, WritePipe, ChunkType
  <2> HIDE DEF more
  <2>5. Sent(c)' = Sent(c) \o more
    <3>1. received[c] \in Seq(Bytes) /\ out[c] \in Seq(Bytes)
      BY AvailableType
    <3>2. (received[c] \o out[c]) \o more = received[c] \o (out[c] \o more)
      BY <2>4, <3>1, GlueAssociative
    <3> QED BY <2>3, <2>4, <3>2
  <2>6. Output!IsPrefix(Sent(c), Sent(c)')
    BY <2>4, <2>5, AvailableType, Glue, PrefixOfMore
  <2>7. [d \in Children |-> Sent(d)]' = [[d \in Children |-> Sent(d)] EXCEPT ![c] = Sent(c)']
    BY <2>3, <2>4
  <2>8. Output!Send(c)
    BY <2>3, <2>6, <2>7 DEF Output!Send
  <2> QED BY <2>8 DEF Output!Next
<1>7. ASSUME NEW c \in Children, NEW n \in Lengths, Read(c, n) PROVE Output!Next
  <2>1. PICK k \in 0 .. Len(out[c]) :
           /\ received'[c] = received[c] \o SubSeq(out[c], 1, k)
           /\ received'[c] \in Seq(Bytes) /\ out'[c] \in Seq(Bytes)
           /\ Sent(c)' = Sent(c)
           /\ \A d \in Children \ {c} : out'[d] = out[d] /\ received'[d] = received[d]
    BY <1>7, ReadPipe
  <2>2. UNCHANGED <<status, told>> /\ received' = [received EXCEPT ![c] = received'[c]]
    BY <1>7, <2>1 DEF Read, childVars, TypeInv, TypeOK
  <2>3. [d \in Children |-> Sent(d)]' = [d \in Children |-> Sent(d)]
    BY <2>1
  <2>4. Output!IsPrefix(received[c], received'[c])
    BY <2>1, AvailableType, Cut, PrefixOfMore
  <2>5. Output!IsPrefix(received'[c], Sent(c))
    <3>1. Output!IsPrefix(received'[c], received'[c] \o out'[c])
      BY <2>1, PrefixOfMore
    <3> QED BY <2>1, <3>1
  <2>6. Output!Receive(c)
    BY <2>2, <2>3, <2>4, <2>5 DEF Output!Receive
  <2> QED BY <2>6 DEF Output!Next
<1>8. ASSUME NEW c \in Children, HandleControl(c) PROVE [Output!Next]_(Output!vars)
  <2>1. /\ UNCHANGED <<status, out, received>> /\ ctl[c] # <<>> /\ ctl[c] \in Seq(Messages)
        /\ \/ UNCHANGED told
           \/ Head(ctl[c]) = "exit" /\ told' = [told EXCEPT ![c] = TRUE]
    BY <1>8 DEF HandleControl, childVars, TypeInv, TypeOK
  <2>2. CASE UNCHANGED told
    BY <1>1, <2>1, <2>2
  <2>3. CASE Head(ctl[c]) = "exit" /\ told' = [told EXCEPT ![c] = TRUE]
    <3>1. Closed(c)
      <4>1. 1 \in 1 .. Len(ctl[c]) /\ ctl[c][1] = "exit"
        BY <2>1, <2>3, Messaging
      <4> QED BY <4>1 DEF Ends
    <3>2. Output!Learn(c)
      BY <2>1, <2>3, <3>1 DEF Output!Learn
    <3> QED BY <3>2 DEF Output!Next
  <2> QED BY <2>1, <2>2, <2>3
<1>9. ASSUME UNCHANGED <<status, received, out, told>> PROVE UNCHANGED Output!vars
  BY <1>1, <1>9
<1> QED
  BY <1>2, <1>3, <1>4, <1>5, <1>6, <1>7, <1>8, <1>9
  DEF Next, ChildNext, ParentNext, ReadEmpty, Peek, PeekAgain, Look, PeekEnds,
      vars, childVars, pipeVars, parentVars

\* ImplementsByteStream: the output of every child is a stream that arrives whole
\* and in order, and is over when the parent is told so.
THEOREM OutputIsAStream == Spec => ImplementsByteStream
<1>1. Init => Output!Init
  <2> SUFFICES ASSUME Init PROVE Output!Init
    OBVIOUS
  <2>1. <<>> \o <<>> = <<>>
    OBVIOUS
  <2>2. \A c \in Children : received[c] \o out[c] = <<>>
    BY <2>1 DEF Init
  <2>3. \A c \in Children : (status[c] \in {"ended", "exited"}) = FALSE
    <3>1. \A c \in Children : status[c] = "none"
      BY DEF Init
    <3>2. ("none" \in {"ended", "exited"}) = FALSE
      OBVIOUS
    <3> QED BY <3>1, <3>2, Zenon
  <2>4. received = [c \in Children |-> <<>>] /\ told = [c \in Children |-> FALSE]
    BY DEF Init
  <2> QED BY <2>2, <2>3, <2>4 DEF Output!Init
<1>2. TypeInv /\ Ends /\ [Next]_vars => [Output!Next]_(Output!vars)
  BY StreamStep
<1> QED
  BY <1>1, <1>2, TypeCorrect, NothingIsLeftBehind, PTL DEF Spec, ImplementsByteStream, Output!Spec
=============================================================================
