------------------------- MODULE ValueStream_proofs -------------------------
(***************************************************************************)
(* Theorems about ValueStream, for any values and any batches of them: what  *)
(* the frames of a message say of its values, and what decoding them gives.  *)
(***************************************************************************)
EXTENDS ValueStream, WellFoundedInduction, TLAPS

-----------------------------------------------------------------------------
(* Induction up to a number, and functions defined by recursion up to it.  *)

LEMMA Least ==
  ASSUME NEW T, T \subseteq Nat, T # {}
  PROVE  \E x \in T : \A y \in T : x <= y
<1> DEFINE R == OpToRel(<, Nat)
<1>1. IsWellFoundedOn(R, Nat)
  BY NatLessThanWellFounded
<1>2. \A x, y \in Nat : <<y, x>> \in R <=> y < x
  BY DEF OpToRel
<1> HIDE DEF R
<1>3. PICK x \in T : \A y \in T : ~ (<<y, x>> \in R)
  BY <1>1, WFMin
<1>4. \A y \in T : ~ (y < x)
  BY <1>2, <1>3
<1>5. \A y \in T : x <= y
  BY <1>4
<1> QED
  BY <1>5

(* A set of numbers that has zero and with a number the next one has all. *)
LEMMA Induction ==
  ASSUME NEW T, 0 \in T, NEW N \in Nat, \A k \in 0..N : k \in T /\ k < N => k + 1 \in T
  PROVE  \A k \in 0..N : k \in T
<1> DEFINE Rest == {k \in 0..N : k \notin T}
<1> SUFFICES ASSUME Rest # {} PROVE FALSE
  OBVIOUS
<1>1. Rest \subseteq Nat
  OBVIOUS
<1> HIDE DEF Rest
<1>2. PICK k \in Rest : \A m \in Rest : k <= m
  BY <1>1, Least
<1> USE DEF Rest
<1>3. k # 0 /\ k \in 0..N
  BY <1>2
<1>4. k - 1 \in 0..N /\ k - 1 \notin Rest /\ k - 1 < N /\ (k - 1) + 1 = k
  BY <1>2, <1>3
<1>5. k - 1 \in T
  BY <1>4
<1>6. (k - 1) + 1 \in T
  BY <1>4, <1>5
<1> QED
  BY <1>2, <1>4, <1>6

(* A function that is defined by recursion exists.                          *)
Defines(D, first, N, step, f) ==
  f = [k \in 0..N |-> IF k = 0 THEN first ELSE step[f[k - 1]][k]]

LEMMA Recursion ==
  ASSUME NEW D, NEW first \in D, NEW N \in Nat, NEW step, \A s \in D, k \in 1..N : step[s][k] \in D
  PROVE  \E f \in [0..N -> D] : Defines(D, first, N, step, f)
<1> DEFINE Run(n, f) == f[0] = first /\ \A k \in 1..n : f[k] = step[f[k - 1]][k]
           T == {n \in 0..N : \E f \in [0..n -> D] : Run(n, f)}
<1>1. 0 \in T
  <2> DEFINE f == [k \in 0..0 |-> first]
  <2>1. f \in [0..0 -> D] /\ f[0] = first
    OBVIOUS
  <2> HIDE DEF f
  <2>2. Run(0, f) /\ 0 \in 0..N
    BY <2>1
  <2> QED
    BY <2>1, <2>2
<1>2. ASSUME NEW n \in T, n < N
      PROVE  n + 1 \in T
  <2>1. PICK f \in [0..n -> D] : Run(n, f)
    OBVIOUS
  <2> DEFINE last == step[f[n]][n + 1]
             g == [k \in 0..(n + 1) |-> IF k <= n THEN f[k] ELSE last]
  <2>2. n \in 0..N /\ n + 1 \in 1..N /\ n \in 0..n
    BY <1>2
  <2>3. last \in D
    BY <2>1, <2>2
  <2> HIDE DEF last
  <2>4. /\ \A k \in 0..n : g[k] = f[k]
        /\ g[n + 1] = last /\ g \in [0..(n + 1) -> D]
    BY <2>2, <2>3
  <2>5. g[0] = first
    BY <2>1, <2>2, <2>4
  <2>6. \A k \in 1..n : g[k] = step[g[k - 1]][k]
    <3>1. \A k \in 1..n : k \in 0..n /\ k - 1 \in 0..n
      BY <2>2
    <3> QED
      BY <2>1, <2>4, <3>1
  <2>7. g[n + 1] = step[g[n]][n + 1] /\ (n + 1) - 1 = n
    BY <2>2, <2>4 DEF last
  <2> HIDE DEF g
  <2>8. \A k \in 1..(n + 1) : g[k] = step[g[k - 1]][k]
    <3>1. \A k \in 1..(n + 1) : k \in 1..n \/ k = n + 1
      BY <2>2
    <3> QED
      BY <2>6, <2>7, <3>1
  <2> QED
    BY <2>2, <2>4, <2>5, <2>8
<1>3. N \in T
  <2> HIDE DEF T
  <2>1. \A k \in 0..N : k \in T /\ k < N => k + 1 \in T
    BY <1>2
  <2>2. \A k \in 0..N : k \in T
    BY <1>1, <2>1, Induction
  <2> QED
    BY <2>2
<1>4. PICK f \in [0..N -> D] : Run(N, f)
  BY <1>3
<1>5. f = [k \in 0..N |-> f[k]]
  BY <1>4
<1>6. \A k \in 0..N : f[k] = IF k = 0 THEN first ELSE step[f[k - 1]][k]
  BY <1>4
<1> QED
  BY <1>4, <1>5, <1>6 DEF Defines

-----------------------------------------------------------------------------
(* Encoding: types.                                                        *)

(* What the loop of getDeltaChangesValueFrame() works on. *)
Encoder == [frames: Seq(Frame), whole: Seq(Values), value: Values \cup {NoValue}, lost: BOOLEAN, thrown: BOOLEAN]

LEMMA FieldsType == \A v \in Types : FieldsOf(v) \subseteq Fields
  BY DEF FieldsOf, Types, Fields, Scalars, Arrays, NumArrays, Enums, AlarmFields, DisplayFields

LEMMA FrameType ==
  ASSUME NEW v \in Values, NEW old
  PROVE  FrameOf(v, old) \in Frame
<1>1. v \in Value
  BY ValuesAssumption
<1> QED
  BY <1>1, FieldsType DEF FrameOf, Frame, Value

LEMMA EncodeType ==
  ASSUME NEW s \in Encoder, NEW v \in Values
  PROVE  Encode(s, v) \in Encoder
<1>1. FrameOf(v, s.value) \in Frame
  BY FrameType
<1> DEFINE f == FrameOf(v, s.value)
<1> HIDE DEF f
<1>2. Append(s.frames, f) \in Seq(Frame) /\ Append(s.whole, v) \in Seq(Values)
  BY <1>1 DEF Encoder, f
<1> QED
  BY <1>2 DEF Encoder, Encode, f

LEMMA EncodingSteps ==
  ASSUME TypeOK, NEW batch \in Seq(Values)
  PROVE  /\ Encoding(batch) \in [0..Len(batch) -> Encoder]
         /\ Encoding(batch)[0] =
              [frames |-> <<>>, whole |-> <<>>, value |-> value, lost |-> dropped, thrown |-> FALSE]
         /\ \A k \in 1..Len(batch) : Encoding(batch)[k] = Encode(Encoding(batch)[k - 1], batch[k])
<1> DEFINE first == [frames |-> <<>>, whole |-> <<>>, value |-> value, lost |-> dropped, thrown |-> FALSE]
           step  == [s \in Encoder |-> [k \in 1..Len(batch) |-> Encode(s, batch[k])]]
           Run(f) == f = [k \in 0..Len(batch) |-> IF k = 0 THEN first ELSE Encode(f[k - 1], batch[k])]
<1>0. Len(batch) \in Nat /\ \A k \in 1..Len(batch) : batch[k] \in Values
  OBVIOUS
<1>1. first \in Encoder
  BY DEF TypeOK, Encoder
<1>2. \A s \in Encoder, k \in 1..Len(batch) : step[s][k] = Encode(s, batch[k]) /\ step[s][k] \in Encoder
  BY <1>0, EncodeType
<1>7. \A s \in Encoder, k \in 1..Len(batch) : step[s][k] \in Encoder
  BY <1>2
<1> HIDE DEF first, step
<1>3. PICK f \in [0..Len(batch) -> Encoder] :
        f = [k \in 0..Len(batch) |-> IF k = 0 THEN first ELSE step[f[k - 1]][k]]
  <2>1. \E f \in [0..Len(batch) -> Encoder] : Defines(Encoder, first, Len(batch), step, f)
    BY <1>0, <1>1, <1>7, Recursion
  <2> QED
    BY <2>1 DEF Defines
<1>4. Run(f)
  <2>1. \A k \in 1..Len(batch) : k - 1 \in 0..Len(batch)
    BY <1>0
  <2>2. \A k \in 1..Len(batch) : step[f[k - 1]][k] = Encode(f[k - 1], batch[k])
    BY <1>2, <1>3, <2>1
  <2>3. \A k \in 0..Len(batch) : k # 0 => k \in 1..Len(batch)
    BY <1>0
  <2> QED
    BY <1>3, <2>2, <2>3
<1>5. Encoding(batch) = CHOOSE g : Run(g)
  BY DEF Encoding, first
<1>6. Run(Encoding(batch))
  BY <1>4, <1>5
<1> DEFINE g == Encoding(batch)
<1> HIDE DEF g
<1>8. /\ g[0] = first
      /\ \A k \in 1..Len(batch) : g[k] = Encode(g[k - 1], batch[k])
  BY <1>0, <1>6 DEF g
<1>9. g \in [0..Len(batch) -> Encoder]
  <2> DEFINE T == {k \in 0..Len(batch) : g[k] \in Encoder}
  <2>1. 0 \in T
    BY <1>0, <1>1, <1>8
  <2>2. ASSUME NEW k \in 0..Len(batch), k \in T, k < Len(batch)
        PROVE  k + 1 \in T
    <3>1. k + 1 \in 1..Len(batch) /\ (k + 1) - 1 = k /\ g[k] \in Encoder
      BY <1>0, <2>2
    <3>2. g[k + 1] = Encode(g[k], batch[k + 1]) /\ batch[k + 1] \in Values
      BY <1>0, <1>8, <3>1
    <3> QED
      BY <3>1, <3>2, EncodeType
  <2> HIDE DEF T
  <2>3. \A k \in 0..Len(batch) : k \in T
    BY <1>0, <2>1, <2>2, Induction
  <2>4. \A k \in 0..Len(batch) : g[k] \in Encoder
    BY <2>3 DEF T
  <2>5. g = [k \in 0..Len(batch) |-> g[k]]
    BY <1>6 DEF g
  <2> QED
    BY <2>4, <2>5
<1> QED
  BY <1>8, <1>9 DEF first, g

-----------------------------------------------------------------------------
(* Decoding: types.                                                        *)

(* What processSingleValueBinary() works on. *)
Decoder == [value: Shown \cup {NoValue, Garbled}, all: Seq(Shown), start: Nat,
            thrown: BOOLEAN, missed: BOOLEAN]

LEMMA WidthType == \A type \in Types : Width(type) \in {0, 1, 2, 4, 8}
  BY DEF Width, Types, Scalars, Arrays, NumArrays, Enums

LEMMA BinaryLengthType ==
  ASSUME NEW type \in Types, NEW len \in Nat
  PROVE  BinaryLength(type, len) \in Nat
<1>1. Width(type) \in {0, 1, 2, 4, 8}
  BY WidthType
<1>2. \A n \in Nat : 0 * n \in Nat /\ 1 * n \in Nat /\ 2 * n \in Nat /\ 4 * n \in Nat /\ 8 * n \in Nat
  OBVIOUS
<1>3. \A n \in Nat : Width(type) * n \in Nat
  BY <1>1, <1>2
<1> QED
  BY <1>3 DEF BinaryLength

LEMMA ShownTypes ==
  /\ \A shown \in Shown : shown.type \in Types /\ shown # NoValue /\ shown # Garbled
  /\ NoValue.type \notin Types /\ Garbled.type \notin Types /\ NoType \notin Types /\ NoValue # Garbled
<1>1. /\ NoValue.type = "null" /\ Garbled.type = "garbled"
      /\ "null" \notin Types /\ "garbled" \notin Types
  BY DEF NoValue, Garbled, Types, Scalars, Arrays, NumArrays, Enums
<1>2. \A shown \in Shown : shown.type \in Types
  BY DEF Shown
<1> QED
  BY <1>1, <1>2 DEF NoType

LEMMA BlankType == \A type \in Types : Blank(type) \in Shown /\ Blank(type).type = type
  BY DEF Blank, Shown

(* What a frame makes of a value of its type.                              *)
LEMMA OverrideType ==
  ASSUME NEW base \in Shown, NEW f \in Frame
  PROVE  /\ JsonPart(base, f) \in Shown /\ Override(base, f) \in Shown
         /\ JsonPart(base, f).type = base.type
         /\ Override(base, f).type = base.type /\ Override(base, f).len = f.len
         /\ \A g \in Fields :
              Override(base, f).meta[g] = IF g \in f.fields THEN f.meta[g] ELSE base.meta[g]
         /\ base.type = "VString" \/ BinaryLength(base.type, f.len) # 0 => Override(base, f).data = f.data
<1> DEFINE meta == [g \in Fields |-> IF g \in f.fields THEN f.meta[g] ELSE base.meta[g]]
<1>1. meta \in [Fields -> Level \cup {"null"}]
  BY DEF Frame, Shown
<1>2. \A g \in Fields : meta[g] = IF g \in f.fields THEN f.meta[g] ELSE base.meta[g]
  OBVIOUS
<1> HIDE DEF meta
<1>3. JsonPart(base, f) = [base EXCEPT !.len = f.len, !.meta = meta]
  BY DEF JsonPart, meta
<1> DEFINE json == JsonPart(base, f)
<1>4. /\ json \in Shown /\ json.type = base.type /\ json.len = f.len /\ json.meta = meta
      /\ json.data = base.data
  BY <1>1, <1>3 DEF Shown, Frame
<1> HIDE DEF json
<1>5. /\ Override(base, f) \in Shown /\ Override(base, f).type = base.type
      /\ Override(base, f).len = f.len /\ Override(base, f).meta = meta
      /\ base.type = "VString" \/ BinaryLength(base.type, f.len) # 0 => Override(base, f).data = f.data
  BY <1>4 DEF Override, Shown, Frame, json
<1> QED
  BY <1>2, <1>4, <1>5 DEF json

(* The cases of Decode(): nothing is done after an exception; one is thrown    *)
(* before the value has changed, or within it, or between two types; or the    *)
(* value is read.                                                          *)
Fails(s, d) ==
  /\ d.thrown /\ d.missed
  /\ d.value = s.value \/ (s.value \in Shown /\ d.value \in Shown /\ d.value.type = s.value.type)
Garbles(s, f, d) ==
  d.thrown /\ d.missed = s.missed /\ d.value = Garbled /\ Base(f, s.value).type # f.of
Reads(s, f, d) ==
  LET base == Base(f, s.value)
  IN  /\ base \in Shown /\ base.type = f.of
      /\ f.type # NoType => CanCreate(f.type)
      /\ d.value = Override(base, f) /\ d.all = Append(s.all, d.value)
      /\ d.start = (s.start + BinaryLength(f.of, f.len)) % 8
      /\ d.thrown = FALSE /\ d.missed = (s.missed /\ f.type = NoType)

(* What there is to read a frame. *)
Legible(s, f) ==
  /\ Base(f, s.value).type = f.of
  /\ f.type # NoType => CanCreate(f.type)
  /\ Parses(f, s.start) /\ Fits(f, s.start)

LEMMA BaseType ==
  ASSUME NEW s \in Decoder, NEW f \in Frame
  PROVE  /\ Base(f, s.value) \in Shown \cup {NoValue, Garbled}
         /\ Base(f, s.value).type = f.of => Base(f, s.value) \in Shown
         /\ f.of \in Types
<1>1. f.type # NoType => Base(f, s.value) \in Shown
  BY BlankType DEF Base, Frame
<1>2. f.type = NoType => Base(f, s.value) = s.value
  BY DEF Base
<1>3. s.value \in Shown \cup {NoValue, Garbled} /\ f.of \in Types
  BY DEF Decoder, Frame
<1> QED
  BY <1>1, <1>2, <1>3, ShownTypes

LEMMA DecodeCases ==
  ASSUME NEW s \in Decoder, NEW f \in Frame, NEW d, d = Decode(s, f)
  PROVE  /\ d \in Decoder
         /\ s.thrown => d = s
         /\ ~s.thrown => Fails(s, d) \/ Garbles(s, f, d) \/ Reads(s, f, d)
         /\ ~s.thrown /\ Legible(s, f) => Reads(s, f, d)
<1> DEFINE base == Base(f, s.value)
           bad  == base = NoValue \/ (f.type # NoType /\ ~CanCreate(f.type)) \/ ~Parses(f, s.start)
           next == Override(base, f)
           length == BinaryLength(f.of, f.len)
<1>1. /\ base \in Shown \cup {NoValue, Garbled} /\ f.of \in Types
      /\ base.type = f.of => base \in Shown
  BY BaseType
<1>2. base \in Shown => JsonPart(base, f) \in Shown /\ JsonPart(base, f).type = base.type /\ next \in Shown
  BY OverrideType
<1>3. length \in Nat
  BY BinaryLengthType DEF Frame
<1>4. f.type = NoType => base = s.value
  BY DEF Base
<1> HIDE DEF next, length
<1>5. Legible(s, f) => ~bad /\ base.type = f.of /\ Fits(f, s.start)
  BY <1>1, ShownTypes DEF Legible
<1>6. CASE s.thrown
  BY <1>6 DEF Decode
<1>7. CASE ~s.thrown /\ bad
  <2>1. d = [s EXCEPT !.thrown = TRUE, !.missed = TRUE]
    BY <1>7 DEF Decode
  <2> QED
    BY <1>5, <1>7, <2>1 DEF Decoder, Fails
<1>8. CASE ~s.thrown /\ ~bad /\ base.type # f.of
  <2>1. d = [s EXCEPT !.thrown = TRUE, !.value = Garbled]
    BY <1>8 DEF Decode
  <2> QED
    BY <1>5, <1>8, <2>1 DEF Decoder, Garbles
<1>9. CASE ~s.thrown /\ ~bad /\ base.type = f.of /\ ~Fits(f, s.start)
  <2>1. d = [s EXCEPT !.thrown = TRUE, !.missed = TRUE,
                      !.value = IF f.type = NoType THEN JsonPart(base, f) ELSE @]
    BY <1>9 DEF Decode, Decoder
  <2>2. d \in Decoder
    BY <1>1, <1>2, <1>9, <2>1 DEF Decoder
  <2>3. Fails(s, d)
    BY <1>1, <1>2, <1>4, <1>9, <2>1 DEF Decoder, Fails
  <2> QED
    BY <1>5, <1>9, <2>2, <2>3
<1>10. CASE ~s.thrown /\ ~bad /\ base.type = f.of /\ Fits(f, s.start)
  <2>1. d = [s EXCEPT !.value = next, !.all = Append(@, next), !.start = (@ + length) % 8,
                      !.missed = @ /\ f.type = NoType]
    BY <1>10 DEF Decode, next, length
  <2>2. next \in Shown /\ Append(s.all, next) \in Seq(Shown) /\ (s.start + length) % 8 \in Nat
    BY <1>1, <1>2, <1>3, <1>10 DEF Decoder
  <2>3. d \in Decoder
    BY <2>1, <2>2 DEF Decoder
  <2>4. Reads(s, f, d)
    BY <1>1, <1>10, <2>1 DEF Decoder, Reads, next, length
  <2> QED
    BY <1>10, <2>3, <2>4
<1> QED
  BY <1>6, <1>7, <1>8, <1>9, <1>10

(* The loop over the frames of a message.                                  *)
LEMMA DecodingSteps ==
  ASSUME TypeOK, NEW message \in Message
  PROVE  /\ Decoding(message) \in [0..Len(message.frames) -> Decoder]
         /\ Decoding(message)[0] =
              [value |-> client, all |-> EmptyBuffered, start |-> 0, thrown |-> FALSE,
               missed |-> missed \/ message.gap]
         /\ \A k \in 1..Len(message.frames) :
              Decoding(message)[k] = Decode(Decoding(message)[k - 1], message.frames[k])
<1> DEFINE frames == message.frames
           first == [value |-> client, all |-> EmptyBuffered, start |-> 0, thrown |-> FALSE,
                     missed |-> missed \/ message.gap]
           step  == [s \in Decoder |-> [k \in 1..Len(frames) |-> Decode(s, frames[k])]]
           Run(f) == f = [k \in 0..Len(frames) |-> IF k = 0 THEN first ELSE Decode(f[k - 1], frames[k])]
<1>0. Len(frames) \in Nat /\ \A k \in 1..Len(frames) : frames[k] \in Frame
  BY DEF Message
<1>1. first \in Decoder
  BY DEF TypeOK, Decoder, EmptyBuffered, Message
<1>2. \A s \in Decoder, k \in 1..Len(frames) :
        step[s][k] = Decode(s, frames[k]) /\ Decode(s, frames[k]) \in Decoder
  BY <1>0, DecodeCases
<1>7. \A s \in Decoder, k \in 1..Len(frames) : step[s][k] \in Decoder
  BY <1>2
<1> HIDE DEF first, step, frames
<1>3. PICK f \in [0..Len(frames) -> Decoder] :
        f = [k \in 0..Len(frames) |-> IF k = 0 THEN first ELSE step[f[k - 1]][k]]
  <2>1. \E f \in [0..Len(frames) -> Decoder] : Defines(Decoder, first, Len(frames), step, f)
    BY <1>0, <1>1, <1>7, Recursion
  <2> QED
    BY <2>1 DEF Defines
<1>4. Run(f)
  <2>1. \A k \in 1..Len(frames) : k - 1 \in 0..Len(frames)
    BY <1>0
  <2>2. \A k \in 1..Len(frames) : step[f[k - 1]][k] = Decode(f[k - 1], frames[k])
    BY <1>2, <1>3, <2>1
  <2>3. \A k \in 0..Len(frames) : k # 0 => k \in 1..Len(frames)
    BY <1>0
  <2> QED
    BY <1>3, <2>2, <2>3
<1>5. Decoding(message) = CHOOSE g : Run(g)
  BY DEF Decoding, first, frames
<1>6. Run(Decoding(message))
  BY <1>4, <1>5
<1> DEFINE g == Decoding(message)
<1> HIDE DEF g
<1>8. /\ g[0] = first
      /\ \A k \in 1..Len(frames) : g[k] = Decode(g[k - 1], frames[k])
  BY <1>0, <1>6 DEF g
<1>9. g \in [0..Len(frames) -> Decoder]
  <2> DEFINE T == {k \in 0..Len(frames) : g[k] \in Decoder}
  <2>1. 0 \in T
    BY <1>0, <1>1, <1>8
  <2>2. ASSUME NEW k \in 0..Len(frames), k \in T, k < Len(frames)
        PROVE  k + 1 \in T
    <3>1. k + 1 \in 1..Len(frames) /\ (k + 1) - 1 = k /\ g[k] \in Decoder
      BY <1>0, <2>2
    <3>2. g[k + 1] = Decode(g[k], frames[k + 1]) /\ frames[k + 1] \in Frame
      BY <1>0, <1>8, <3>1
    <3> QED
      BY <3>1, <3>2, DecodeCases
  <2> HIDE DEF T
  <2>3. \A k \in 0..Len(frames) : k \in T
    BY <1>0, <2>1, <2>2, Induction
  <2>4. \A k \in 0..Len(frames) : g[k] \in Decoder
    BY <2>3 DEF T
  <2>5. g = [k \in 0..Len(frames) |-> g[k]]
    BY <1>6 DEF g
  <2> QED
    BY <2>4, <2>5
<1> QED
  BY <1>8, <1>9 DEF first, g, frames

-----------------------------------------------------------------------------
(* The inductive invariant.                                                *)

(* All fields but the upper display limit, which is compared with another one. *)
Meant == Fields \ {"dh"}

(* A frame has what its value has; it leaves out the type, and then fields,    *)
(* only where they are those of the value before.                          *)
Carries(f, v) ==
  /\ f.of = v.type /\ f.len = v.len /\ f.data = v.data /\ f.meta = v.meta
  /\ f.type \in {NoType, f.of}
  /\ f.type # NoType => f.fields = FieldsOf(f.of)
Follows(f, old) ==
  f.type = NoType =>
    /\ old.type = f.of
    /\ \A g \in (FieldsOf(f.of) \cap Meant) \ f.fields : old.meta[g] = f.meta[g]

(* The frames of a message carry its values, each on top of the one before.    *)
Sound(frames, whole) ==
  /\ Len(frames) = Len(whole)
  /\ \A k \in 1..Len(whole) :
       Carries(frames[k], whole[k]) /\ (k > 1 => Follows(frames[k], whole[k - 1]))

(* The first frame of a message follows the last value of the message before   *)
(* it, or what the client shows, unless a value was dropped between them.      *)
Chain ==
  \A n \in 1..Len(toClient) :
    /\ Sound(toClient[n].frames, toClient[n].whole) /\ toClient[n].whole # <<>>
    /\ ~toClient[n].gap =>
         IF n = 1 THEN missed \/ Follows(toClient[1].frames[1], client)
         ELSE Follows(toClient[n].frames[1], Last(toClient[n - 1].whole))

(* The PV's last value is the last of the last message, or what the client shows. *)
Latest ==
  ~dropped /\ value # NoValue =>
    IF toClient = <<>> THEN missed \/ Shows(client, value, Meant)
    ELSE value = Last(toClient[Len(toClient)].whole)

(* The client's value is of a type that it can create.                     *)
Clean == (missed \/ client # Garbled) /\ (client \in Shown => CanCreate(client.type))

IInv == TypeOK /\ Chain /\ Latest /\ Clean

-----------------------------------------------------------------------------
(* Encoding.                                                               *)

(* vTypeToValueFrame() leaves out only what the old value has.             *)
LEMMA FrameCarries ==
  ASSUME NEW v \in Values, NEW old \in Values \cup {NoValue}
  PROVE  Carries(FrameOf(v, old), v) /\ Follows(FrameOf(v, old), old)
<1> DEFINE f == FrameOf(v, old)
<1>1. v.type \in Types /\ NoType \notin Types
  BY ValuesAssumption, ShownTypes DEF Value
<1>2. /\ f.type = IF KnownType(v, old) THEN NoType ELSE v.type
      /\ f.of = v.type /\ f.len = v.len /\ f.data = v.data /\ f.meta = v.meta
      /\ f.fields = {g \in FieldsOf(v.type) :
                       KnownType(v, old) => old.meta[ComparedWith(g)] # v.meta[ComparedWith(g)]}
  BY DEF FrameOf
<1> HIDE DEF f
<1>3. Carries(f, v)
  BY <1>1, <1>2 DEF Carries
<1>4. f.type = NoType => KnownType(v, old)
  BY <1>1, <1>2
<1>5. \A g \in Meant : ComparedWith(g) = g
  BY DEF Meant, ComparedWith
<1>6. Follows(f, old)
  BY <1>2, <1>4, <1>5 DEF Follows, KnownType
<1> QED
  BY <1>3, <1>6 DEF f

(* The loop of getDeltaChangesValueFrame() after k values.                 *)
Encodes(s, k) ==
  /\ Sound(s.frames, s.whole)
  /\ s.whole # <<>> => s.value = Last(s.whole)
  /\ s.whole # <<>> /\ ~s.lost => Follows(s.frames[1], value)
  /\ s.whole = <<>> => s.value = value \/ s.lost
  /\ k > 0 => s.whole # <<>> \/ s.lost
  /\ s.thrown => s.whole # <<>>
  /\ dropped => s.lost

LEMMA EncodeStep ==
  ASSUME NEW s \in Encoder, NEW v \in Values, NEW k \in Nat, Encodes(s, k)
  PROVE  Encodes(Encode(s, v), k + 1)
<1> DEFINE f == FrameOf(v, s.value)
           frames == Append(s.frames, f)
           whole  == Append(s.whole, v)
<1>1. CASE s.thrown
  BY <1>1 DEF Encode, Encodes
<1>2. CASE ~s.thrown /\ v.wrapped
  <2>1. f \in Frame /\ Carries(f, v) /\ Follows(f, s.value)
    BY FrameType, FrameCarries DEF Encoder
  <2> HIDE DEF f
  <2>2. s.frames \in Seq(Frame) /\ s.whole \in Seq(Values) /\ Len(s.frames) = Len(s.whole) /\ Len(s.whole) \in Nat
    BY DEF Encoder, Encodes, Sound
  <2>3. /\ Len(frames) = Len(s.whole) + 1 /\ Len(whole) = Len(s.whole) + 1
        /\ \A j \in 1..Len(s.whole) : frames[j] = s.frames[j] /\ whole[j] = s.whole[j]
        /\ frames[Len(s.whole) + 1] = f /\ whole[Len(s.whole) + 1] = v /\ whole # <<>>
    BY <2>1, <2>2
  <2> HIDE DEF frames, whole
  <2>4. s.whole # <<>> => Len(s.whole) \in 1..Len(s.whole)
    BY <2>2
  <2>5. Sound(frames, whole)
    <3> SUFFICES ASSUME NEW j \in 1..Len(whole)
                 PROVE  Carries(frames[j], whole[j]) /\ (j > 1 => Follows(frames[j], whole[j - 1]))
      BY <2>3 DEF Sound
    <3>1. CASE j \in 1..Len(s.whole)
      <4>1. j > 1 => j - 1 \in 1..Len(s.whole)
        BY <3>1
      <4> QED
        BY <2>3, <3>1, <4>1 DEF Encodes, Sound
    <3>2. CASE j = Len(s.whole) + 1
      <4>1. j > 1 => j - 1 = Len(s.whole) /\ j - 1 \in 1..Len(s.whole) /\ s.whole # <<>>
        BY <2>2, <3>2
      <4>2. j > 1 => whole[j - 1] = s.value
        BY <2>3, <4>1 DEF Encodes, Last
      <4> QED
        BY <2>1, <2>3, <3>2, <4>2
    <3> QED
      BY <2>2, <2>3, <3>1, <3>2
  <2>6. Last(whole) = v
    BY <2>3 DEF Last
  <2>7. ~s.lost => Follows(frames[1], value)
    <3>1. CASE s.whole = <<>>
      BY <2>1, <2>3, <3>1 DEF Encodes
    <3>2. CASE s.whole # <<>>
      <4>1. 1 \in 1..Len(s.whole)
        BY <2>2, <2>4, <3>2
      <4> QED
        BY <2>3, <3>2, <4>1 DEF Encodes
    <3> QED
      BY <3>1, <3>2
  <2>8. Encode(s, v) = [s EXCEPT !.frames = frames, !.whole = whole, !.value = v]
    BY <1>2 DEF Encode, frames, whole, f
  <2>9. /\ Encode(s, v).frames = frames /\ Encode(s, v).whole = whole /\ Encode(s, v).value = v
        /\ Encode(s, v).lost = s.lost /\ Encode(s, v).thrown = s.thrown
    BY <2>8 DEF Encoder
  <2> QED
    BY <1>2, <2>3, <2>5, <2>6, <2>7, <2>9 DEF Encodes
<1>3. CASE ~s.thrown /\ ~v.wrapped /\ s.frames = <<>>
  <2>1. s.whole = <<>>
    BY <1>3 DEF Encodes, Sound, Encoder
  <2>2. Encode(s, v) = [s EXCEPT !.value = v, !.lost = TRUE]
    BY <1>3 DEF Encode
  <2>3. /\ Encode(s, v).frames = s.frames /\ Encode(s, v).whole = s.whole
        /\ Encode(s, v).lost = TRUE /\ Encode(s, v).thrown = s.thrown
    BY <2>2 DEF Encoder
  <2> QED
    BY <1>3, <2>1, <2>3 DEF Encodes
<1>4. CASE ~s.thrown /\ ~v.wrapped /\ s.frames # <<>>
  <2>1. s.whole # <<>>
    BY <1>4 DEF Encodes, Sound, Encoder
  <2>2. Encode(s, v) = [s EXCEPT !.thrown = TRUE]
    BY <1>4 DEF Encode
  <2>3. /\ Encode(s, v).frames = s.frames /\ Encode(s, v).whole = s.whole
        /\ Encode(s, v).lost = s.lost /\ Encode(s, v).value = s.value
    BY <2>2 DEF Encoder
  <2> QED
    BY <2>1, <2>3 DEF Encodes
<1> QED
  BY <1>1, <1>2, <1>3, <1>4

LEMMA EncodingSound ==
  ASSUME TypeOK, NEW batch \in Seq(Values)
  PROVE  /\ Encoding(batch)[Len(batch)] \in Encoder
         /\ Encodes(Encoding(batch)[Len(batch)], Len(batch))
<1> DEFINE after == Encoding(batch)
           T == {k \in 0..Len(batch) : Encodes(after[k], k)}
<1>0. Len(batch) \in Nat /\ \A k \in 1..Len(batch) : batch[k] \in Values
  OBVIOUS
<1>1. /\ after \in [0..Len(batch) -> Encoder]
      /\ after[0] = [frames |-> <<>>, whole |-> <<>>, value |-> value, lost |-> dropped, thrown |-> FALSE]
      /\ \A k \in 1..Len(batch) : after[k] = Encode(after[k - 1], batch[k])
  BY EncodingSteps
<1> HIDE DEF after
<1>2. 0 \in T
  <2>1. Sound(<<>>, <<>>)
    <3>1. \A k \in 1..Len(<<>>) : FALSE
      OBVIOUS
    <3> QED
      BY <3>1 DEF Sound
  <2> QED
    BY <1>0, <1>1, <2>1 DEF Encodes
<1>3. ASSUME NEW k \in 0..Len(batch), k \in T, k < Len(batch)
      PROVE  k + 1 \in T
  <2>1. k + 1 \in 1..Len(batch) /\ (k + 1) - 1 = k /\ k \in Nat /\ Encodes(after[k], k) /\ after[k] \in Encoder
    BY <1>0, <1>1, <1>3
  <2>2. after[k + 1] = Encode(after[k], batch[k + 1]) /\ batch[k + 1] \in Values
    BY <1>0, <1>1, <2>1
  <2>3. Encodes(after[k + 1], k + 1)
    BY <2>1, <2>2, EncodeStep
  <2> QED
    BY <1>0, <2>1, <2>3
<1> HIDE DEF T
<1>4. \A k \in 0..Len(batch) : k \in T
  BY <1>0, <1>2, <1>3, Induction
<1> QED
  BY <1>0, <1>1, <1>4 DEF T, after

-----------------------------------------------------------------------------
(* Decoding.                                                               *)

LEMMA FollowsShown ==
  ASSUME NEW f, NEW v, NEW shown, Shows(shown, v, Meant), Follows(f, v)
  PROVE  Follows(f, shown)
  BY DEF Shows, Follows

(* A value that the client can create has a binary part, if it is not a string   *)
(* or an empty array.                                                      *)
LEMMA BinaryPart ==
  ASSUME NEW type \in Types, CanCreate(type), type # "VString", NEW len \in Nat,
         ~(type \in Arrays /\ len = 0)
  PROVE  BinaryLength(type, len) # 0
<1>1. Width(type) \in {1, 2, 4, 8}
  BY DEF Width, Types, Scalars, Arrays, NumArrays, Enums, CanCreate
<1> DEFINE n == IF type \in Arrays THEN len ELSE 1
<1>2. n \in Nat /\ n # 0
  OBVIOUS
<1> HIDE DEF n
<1>3. 1 * n # 0 /\ 2 * n # 0 /\ 4 * n # 0 /\ 8 * n # 0
  BY <1>2
<1>4. BinaryLength(type, len) = Width(type) * n
  BY DEF BinaryLength, n
<1> QED
  BY <1>1, <1>3, <1>4

(* What was left out is what the client had.                               *)
LEMMA ReadsShows ==
  ASSUME NEW s \in Decoder, NEW f \in Frame, NEW v \in Values, NEW d,
         Carries(f, v), Reads(s, f, d),
         s.value \in Shown => CanCreate(s.value.type)
  PROVE  /\ d.value \in Shown /\ CanCreate(d.value.type)
         /\ Follows(f, s.value) => Shows(d.value, v, Meant)
<1> DEFINE base == Base(f, s.value)
<1>1. base \in Shown /\ base.type = f.of /\ d.value = Override(base, f)
  BY DEF Reads
<1>2. IF f.type = NoType THEN base = s.value ELSE base = Blank(f.type)
  BY DEF Base
<1>3. CanCreate(base.type)
  <2>1. CASE f.type = NoType
    BY <1>1, <1>2, <2>1
  <2>2. CASE f.type # NoType
    BY <1>1, <2>2 DEF Reads, Carries
  <2> QED
    BY <2>1, <2>2
<1> HIDE DEF base
<1>4. /\ d.value \in Shown /\ d.value.type = base.type /\ d.value.len = f.len
      /\ \A g \in Fields : d.value.meta[g] = IF g \in f.fields THEN f.meta[g] ELSE base.meta[g]
      /\ base.type = "VString" \/ BinaryLength(base.type, f.len) # 0 => d.value.data = f.data
  BY <1>1, OverrideType
<1>5. f.of \in Types /\ f.len \in Nat
  BY DEF Frame
<1>6. (f.of \in Arrays /\ f.len = 0) \/ d.value.data = f.data
  BY <1>1, <1>3, <1>4, <1>5, BinaryPart
<1>7. ASSUME Follows(f, s.value)
      PROVE  Shows(d.value, v, Meant)
  <2>1. \A g \in Meant \cap FieldsOf(f.of) : d.value.meta[g] = f.meta[g]
    <3>1. CASE f.type # NoType
      BY <1>4, <3>1 DEF Carries, Meant
    <3>2. CASE f.type = NoType
      BY <1>2, <1>4, <1>7, <3>2 DEF Follows, Meant
    <3> QED
      BY <3>1, <3>2
  <2> QED
    BY <1>1, <1>4, <1>6, <2>1 DEF Shows, Carries
<1> QED
  BY <1>3, <1>4, <1>7

(* The loop over the frames, when it has given the value v.                *)
Decodes(d, v) ==
  /\ d.missed \/ (~d.thrown /\ Shows(d.value, v, Meant))
  /\ d.missed \/ d.value # Garbled
  /\ d.value \in Shown => CanCreate(d.value.type)

LEMMA DecodeStep ==
  ASSUME NEW s \in Decoder, NEW f \in Frame, NEW v \in Values,
         Carries(f, v),
         s.missed \/ (~s.thrown /\ Follows(f, s.value)),
         s.value \in Shown => CanCreate(s.value.type)
  PROVE  Decodes(Decode(s, f), v)
<1> DEFINE d == Decode(s, f)
<1> SUFFICES Decodes(d, v)
  OBVIOUS
<1>1. /\ d \in Decoder
      /\ s.thrown => d = s
      /\ ~s.thrown => Fails(s, d) \/ Garbles(s, f, d) \/ Reads(s, f, d)
  BY DecodeCases
<1> HIDE DEF d
<1>6. /\ s.missed \in BOOLEAN /\ s.thrown \in BOOLEAN
      /\ d.missed \in BOOLEAN /\ d.thrown \in BOOLEAN
  BY <1>1 DEF Decoder
<1>2. CASE s.thrown
  <2>1. d.missed = TRUE
    BY <1>1, <1>2, <1>6
  <2> QED
    BY <1>1, <1>2, <2>1 DEF Decodes
<1>3. CASE Fails(s, d)
  <2>1. d.missed = TRUE
    BY <1>3, <1>6 DEF Fails
  <2> QED
    BY <1>3, <2>1 DEF Fails, Decodes
<1>4. CASE ~s.thrown /\ Garbles(s, f, d)
  <2>1. Base(f, s.value).type # f.of
    BY <1>4 DEF Garbles
  <2>2. f.type = NoType
    BY <2>1, BlankType DEF Base, Carries, Frame
  <2>3. d.missed = TRUE
    BY <1>4, <1>6, <2>1, <2>2 DEF Base, Follows, Garbles
  <2>4. d.value \notin Shown
    BY <1>4, ShownTypes DEF Garbles
  <2> QED
    BY <2>3, <2>4 DEF Decodes
<1>5. CASE Reads(s, f, d)
  <2>1. /\ d.value \in Shown /\ CanCreate(d.value.type)
        /\ Follows(f, s.value) => Shows(d.value, v, Meant)
    BY <1>5, ReadsShows
  <2>2. d.missed = TRUE \/ Follows(f, s.value)
    BY <1>5, <1>6 DEF Reads, Follows
  <2>3. d.thrown = FALSE /\ d.value # Garbled
    BY <1>5, <2>1, ShownTypes DEF Reads
  <2> QED
    BY <2>1, <2>2, <2>3 DEF Decodes
<1> QED
  BY <1>1, <1>2, <1>3, <1>4, <1>5

LEMMA DecodingSound ==
  ASSUME TypeOK, Clean, NEW message \in Message, Sound(message.frames, message.whole),
         missed \/ message.gap \/ Follows(message.frames[1], client)
  PROVE  \A k \in 1..Len(message.frames) : Decodes(Decoding(message)[k], message.whole[k])
<1> DEFINE frames == message.frames
           whole  == message.whole
           after  == Decoding(message)
           T == {k \in 0..Len(frames) : k > 0 => Decodes(after[k], whole[k])}
<1>0. /\ Len(frames) \in Nat /\ Len(frames) = Len(whole)
      /\ \A k \in 1..Len(frames) : frames[k] \in Frame /\ whole[k] \in Values
  BY DEF Message, Sound
<1>1. /\ after \in [0..Len(frames) -> Decoder]
      /\ after[0] = [value |-> client, all |-> EmptyBuffered, start |-> 0, thrown |-> FALSE,
                     missed |-> missed \/ message.gap]
      /\ \A k \in 1..Len(frames) : after[k] = Decode(after[k - 1], frames[k])
  BY DecodingSteps
<1>7. \A k \in 1..Len(frames) :
        Carries(frames[k], whole[k]) /\ (k > 1 => Follows(frames[k], whole[k - 1]))
  BY <1>0 DEF Sound
<1>8. missed \/ message.gap \/ Follows(frames[1], client)
  OBVIOUS
<1> HIDE DEF after, frames, whole
<1>2. 0 \in T
  BY <1>0
<1>3. ASSUME NEW k \in 0..Len(frames), k \in T, k < Len(frames)
      PROVE  k + 1 \in T
  <2>1. k + 1 \in 1..Len(frames) /\ (k + 1) - 1 = k /\ after[k] \in Decoder
    BY <1>0, <1>1, <1>3
  <2>2. after[k + 1] = Decode(after[k], frames[k + 1])
    BY <1>1, <2>1
  <2>3. frames[k + 1] \in Frame /\ whole[k + 1] \in Values /\ Carries(frames[k + 1], whole[k + 1])
    BY <1>0, <1>7, <2>1
  <2>4. /\ after[k].missed \/ (~after[k].thrown /\ Follows(frames[k + 1], after[k].value))
        /\ after[k].value \in Shown => CanCreate(after[k].value.type)
    <3>1. CASE k = 0
      <4>1. after[k].value = client /\ after[k].thrown = FALSE /\ after[k].missed = (missed \/ message.gap)
        BY <1>1, <3>1
      <4>2. frames[k + 1] = frames[1]
        BY <3>1
      <4>3. CASE missed \/ message.gap
        BY <4>1, <4>3 DEF Clean
      <4>4. CASE ~(missed \/ message.gap)
        BY <1>8, <4>1, <4>2, <4>4 DEF Clean
      <4> QED
        BY <4>3, <4>4
    <3>2. CASE k > 0
      <4>3. Decodes(after[k], whole[k])
        BY <1>3, <3>2
      <4>4. k + 1 > 1
        BY <1>0, <3>2
      <4>1. Decodes(after[k], whole[k]) /\ Follows(frames[k + 1], whole[k])
        BY <1>7, <2>1, <4>3, <4>4
      <4>2. Shows(after[k].value, whole[k], Meant) => Follows(frames[k + 1], after[k].value)
        BY <4>1, FollowsShown
      <4> QED
        BY <4>1, <4>2 DEF Decodes
    <3> QED
      BY <1>0, <3>1, <3>2
  <2>5. Decodes(after[k + 1], whole[k + 1])
    BY <2>1, <2>2, <2>3, <2>4, DecodeStep
  <2> QED
    BY <1>0, <2>1, <2>5
<1> HIDE DEF T
<1>4. \A k \in 0..Len(frames) : k \in T
  BY <1>0, <1>2, <1>3, Induction
<1>5. \A k \in 1..Len(frames) : k \in 0..Len(frames) /\ k > 0
  BY <1>0
<1> QED
  BY <1>4, <1>5 DEF T, after, frames, whole

-----------------------------------------------------------------------------
(* The invariant is inductive.                                             *)

LEMMA InitInv == Init => IInv
<1> SUFFICES ASSUME Init PROVE IInv
  OBVIOUS
<1>1. toClient = <<>> /\ Len(toClient) = 0 /\ Range(toClient) = {}
  <2>1. DOMAIN <<>> = {}
    OBVIOUS
  <2> QED
    BY <2>1 DEF Init, Range
<1>2. TypeOK
  <2>1. 0 \in 0..MaxValues
    BY BoundsAssumption
  <2>2. toClient \in Seq(Message) /\ buffered \in Seq(Shown)
    BY DEF Init
  <2> QED
    BY <1>1, <2>1, <2>2 DEF Init, TypeOK
<1>3. \A n \in 1..Len(toClient) : FALSE
  BY <1>1
<1> QED
  BY <1>2, <1>3, ShownTypes DEF IInv, Init, Chain, Latest, Clean

(* A message is typed as TypeOK says if it is sound.                       *)
LEMMA MessagesTyped ==
  ASSUME NEW messages \in Seq(Message),
         \A n \in 1..Len(messages) : Sound(messages[n].frames, messages[n].whole)
  PROVE  \A message \in Range(messages) :
           /\ Len(message.frames) = Len(message.whole)
           /\ \A f \in Range(message.frames) : f.type # NoType => f.fields = FieldsOf(f.of)
<1> SUFFICES ASSUME NEW message \in Range(messages)
             PROVE  /\ Len(message.frames) = Len(message.whole)
                    /\ \A f \in Range(message.frames) : f.type # NoType => f.fields = FieldsOf(f.of)
  OBVIOUS
<1>1. message \in Message /\ Sound(message.frames, message.whole)
  BY DEF Range
<1>2. message.frames \in Seq(Frame) /\ Len(message.frames) = Len(message.whole)
  BY <1>1 DEF Message, Sound
<1>3. ASSUME NEW f \in Range(message.frames)
      PROVE  f.type # NoType => f.fields = FieldsOf(f.of)
  <2>1. PICK k \in 1..Len(message.frames) : f = message.frames[k]
    BY <1>2 DEF Range
  <2> QED
    BY <1>1, <1>2, <2>1 DEF Sound, Carries
<1> QED
  BY <1>2, <1>3

LEMMA NoValueChangedInv == ASSUME IInv, NoValueChanged PROVE IInv'
<1>1. count + 1 \in 0..MaxValues
  BY BoundsAssumption DEF IInv, TypeOK, NoValueChanged
<1>2. TypeOK'
  BY <1>1 DEF IInv, TypeOK, NoValueChanged
<1>3. Chain'
  BY DEF IInv, Chain, NoValueChanged
<1> QED
  BY <1>2, <1>3 DEF IInv, Latest, Clean, NoValueChanged

LEMMA BatchTypes ==
  ASSUME NEW batch \in Batches
  PROVE  batch \in Seq(Values) /\ Len(batch) \in Nat /\ Len(batch) > 0
<1>1. PICK n \in Nat \ {0} : batch \in [1..n -> Values]
  BY BoundsAssumption DEF Batches
<1> QED
  BY <1>1

LEMMA ValueChangedInv ==
  ASSUME IInv, NEW batch \in Batches, ValueChanged(batch)
  PROVE  IInv'
<1> DEFINE s == Encoding(batch)[Len(batch)]
           sent == ~s.thrown /\ s.frames # <<>>
           message == [frames |-> s.frames, whole |-> s.whole, gap |-> s.lost]
<1>0. batch \in Seq(Values) /\ Len(batch) \in Nat /\ Len(batch) > 0
  BY BatchTypes
<1>1. s \in Encoder /\ Encodes(s, Len(batch))
  BY <1>0, EncodingSound DEF IInv
<1>2. /\ count + Len(batch) <= MaxValues /\ count' = count + Len(batch)
      /\ value' = s.value
      /\ toClient' = IF sent THEN Append(toClient, message) ELSE toClient
      /\ dropped' = (~sent /\ (s.lost \/ s.thrown))
      /\ UNCHANGED <<valueBuffered, client, buffered, missed>>
  BY DEF ValueChanged
<1> HIDE DEF s
<1>3. message \in Message
  BY <1>1 DEF Encoder, Message
<1>4. /\ Sound(s.frames, s.whole) /\ Len(s.whole) \in Nat
      /\ s.frames = <<>> <=> s.whole = <<>>
  BY <1>1 DEF Encoder, Encodes, Sound
<1>5. toClient \in Seq(Message) /\ Len(toClient) \in Nat
  BY DEF IInv, TypeOK
<1> DEFINE gapped == message
<1>6. CASE sent
  <2>1. /\ message.frames = s.frames /\ message.whole = s.whole /\ message.gap = s.lost
        /\ s.whole # <<>> /\ dropped' = FALSE
    BY <1>2, <1>4, <1>6
  <2> HIDE DEF message
  <2>2. /\ toClient' \in Seq(Message) /\ Len(toClient') = Len(toClient) + 1 /\ toClient' # <<>>
        /\ \A n \in 1..Len(toClient) : toClient'[n] = toClient[n]
        /\ toClient'[Len(toClient) + 1] = message
    BY <1>2, <1>3, <1>5, <1>6
  <2>3. toClient # <<>> => Len(toClient) \in 1..Len(toClient)
    BY <1>5
  <2>4. s.value = Last(s.whole)
    BY <1>1, <2>1 DEF Encodes
  <2>5. ~s.lost => ~dropped /\ Follows(s.frames[1], value)
    BY <1>1, <2>1 DEF Encodes
  <2>6. Follows(s.frames[1], NoValue) => \A old : Follows(s.frames[1], old)
    <3>1. 1 \in 1..Len(s.whole) /\ s.frames[1] \in Frame
      BY <1>1, <1>4, <2>1 DEF Encoder, Sound
    <3>2. s.frames[1].of # NoValue.type
      BY <3>1, ShownTypes DEF Frame
    <3> QED
      BY <3>2 DEF Follows
  <2>7. ~s.lost => IF toClient = <<>> THEN missed \/ Follows(s.frames[1], client)
                   ELSE Follows(s.frames[1], Last(toClient[Len(toClient)].whole))
    <3> SUFFICES ASSUME ~s.lost
                 PROVE  IF toClient = <<>> THEN missed \/ Follows(s.frames[1], client)
                        ELSE Follows(s.frames[1], Last(toClient[Len(toClient)].whole))
      OBVIOUS
    <3>1. CASE value = NoValue
      BY <2>5, <2>6, <3>1
    <3>2. CASE value # NoValue /\ toClient = <<>>
      <4>1. missed \/ Shows(client, value, Meant)
        BY <2>5, <3>2 DEF IInv, Latest
      <4> QED
        BY <2>5, <3>2, <4>1, FollowsShown
    <3>3. CASE value # NoValue /\ toClient # <<>>
      BY <2>5, <3>3 DEF IInv, Latest
    <3> QED
      BY <3>1, <3>2, <3>3
  <2>8. Chain'
    <3> SUFFICES ASSUME NEW n \in 1..(Len(toClient) + 1)
                 PROVE  /\ Sound(toClient'[n].frames, toClient'[n].whole) /\ toClient'[n].whole # <<>>
                        /\ ~toClient'[n].gap =>
                             IF n = 1 THEN missed \/ Follows(toClient'[1].frames[1], client)
                             ELSE Follows(toClient'[n].frames[1], Last(toClient'[n - 1].whole))
      BY <1>2, <2>2 DEF Chain
    <3>1. CASE n \in 1..Len(toClient)
      <4>1. n # 1 => n - 1 \in 1..Len(toClient)
        BY <3>1
      <4> QED
        BY <2>2, <3>1, <4>1 DEF IInv, Chain
    <3>2. CASE n = Len(toClient) + 1
      <4>1. n # 1 => n - 1 = Len(toClient) /\ n - 1 \in 1..Len(toClient) /\ toClient # <<>>
        BY <1>5, <3>2
      <4>2. n = 1 => toClient = <<>>
        BY <1>5, <3>2
      <4> QED
        BY <1>4, <2>1, <2>2, <2>7, <3>2, <4>1, <4>2
    <3> QED
      BY <1>5, <3>1, <3>2
  <2>9. Latest'
    BY <1>2, <2>1, <2>2, <2>4 DEF Latest
  <2>10. TypeOK'
    <3>1. \A n \in 1..Len(toClient') : Sound(toClient'[n].frames, toClient'[n].whole)
      BY <2>8 DEF Chain
    <3>2. \A m \in Range(toClient') :
            /\ Len(m.frames) = Len(m.whole)
            /\ \A f \in Range(m.frames) : f.type # NoType => f.fields = FieldsOf(f.of)
      BY <2>2, <3>1, MessagesTyped
    <3>3. count' \in 0..MaxValues /\ value' \in Values \cup {NoValue} /\ dropped' \in BOOLEAN
      BY <1>0, <1>1, <1>2, <2>1, BoundsAssumption DEF IInv, TypeOK, Encoder
    <3> QED
      BY <1>2, <2>2, <3>2, <3>3 DEF IInv, TypeOK
  <2> QED
    BY <1>2, <2>8, <2>9, <2>10 DEF IInv, Clean
<1>7. CASE ~sent
  <2>1. s.lost \/ s.thrown
    BY <1>0, <1>1, <1>4, <1>7 DEF Encodes
  <2>2. dropped' = TRUE /\ toClient' = toClient
    BY <1>2, <1>7, <2>1
  <2>3. Chain'
    BY <1>2, <2>2 DEF IInv, Chain
  <2>4. count' \in 0..MaxValues /\ value' \in Values \cup {NoValue}
    BY <1>0, <1>1, <1>2, BoundsAssumption DEF IInv, TypeOK, Encoder
  <2>5. TypeOK'
    BY <1>2, <2>2, <2>4 DEF IInv, TypeOK
  <2> QED
    BY <1>2, <2>2, <2>3, <2>5 DEF IInv, Latest, Clean
<1> QED
  BY <1>6, <1>7

(* Of the messages that remain, the first follows what the client shows now.   *)
LEMMA DeliverInv == ASSUME IInv, Deliver PROVE IInv'
<1> DEFINE message == Head(toClient)
           frames  == message.frames
           s       == Decoding(message)[Len(frames)]
<1>1. /\ toClient # <<>> /\ toClient' = Tail(toClient)
      /\ \/ /\ client' = s.value /\ missed' = s.missed
            /\ buffered' = IF valueBuffered THEN s.all ELSE buffered
         \/ missed' = TRUE /\ UNCHANGED <<client, buffered>>
      /\ UNCHANGED <<valueBuffered, value, count, dropped>>
  BY DEF Deliver
<1>2. /\ toClient \in Seq(Message) /\ message = toClient[1] /\ message \in Message
      /\ 1 \in 1..Len(toClient) /\ Len(toClient) \in Nat
      /\ toClient' \in Seq(Message) /\ Len(toClient') = Len(toClient) - 1
      /\ \A n \in 1..Len(toClient') : n + 1 \in 1..Len(toClient) /\ toClient'[n] = toClient[n + 1]
  BY <1>1 DEF IInv, TypeOK
<1> HIDE DEF message
<1>3. /\ Sound(frames, message.whole) /\ message.whole # <<>>
      /\ missed \/ message.gap \/ Follows(frames[1], client)
  BY <1>2 DEF IInv, Chain
<1>4. Len(frames) \in Nat /\ Len(frames) = Len(message.whole) /\ Len(frames) \in 1..Len(frames)
  BY <1>2, <1>3 DEF Sound, Message
<1>5. s \in Decoder /\ Decodes(s, Last(message.whole))
  <2>1. Decodes(s, message.whole[Len(frames)])
    BY <1>2, <1>3, <1>4, DecodingSound DEF IInv
  <2>2. s \in Decoder
    <3>1. Decoding(message) \in [0..Len(frames) -> Decoder]
      BY <1>2, DecodingSteps DEF IInv
    <3> QED
      BY <1>4, <3>1
  <2> QED
    BY <1>4, <2>1, <2>2 DEF Last
<1> HIDE DEF s, frames
<1>6. /\ missed' \in BOOLEAN
      /\ client' \in Shown \cup {NoValue, Garbled} /\ buffered' \in Seq(Shown)
  BY <1>1, <1>5 DEF Decoder, IInv, TypeOK
<1>7. missed' = TRUE \/ Shows(client', Last(message.whole), Meant)
  BY <1>1, <1>5, <1>6 DEF Decodes
<1>8. Clean'
  <2>1. CASE client' = s.value /\ missed' = s.missed
    BY <1>5, <2>1 DEF Clean, Decodes
  <2>2. CASE missed' = TRUE /\ client' = client
    BY <2>2 DEF Clean, IInv
  <2> QED
    BY <1>1, <2>1, <2>2
<1>9. Chain'
  <2> SUFFICES ASSUME NEW n \in 1..Len(toClient')
               PROVE  /\ Sound(toClient'[n].frames, toClient'[n].whole) /\ toClient'[n].whole # <<>>
                      /\ ~toClient'[n].gap =>
                           IF n = 1 THEN missed' \/ Follows(toClient'[1].frames[1], client')
                           ELSE Follows(toClient'[n].frames[1], Last(toClient'[n - 1].whole))
    BY DEF Chain
  <2>1. /\ n + 1 \in 1..Len(toClient) /\ n + 1 # 1 /\ (n + 1) - 1 = n
        /\ toClient'[n] = toClient[n + 1]
    <3>1. n \in Nat /\ n # 0
      OBVIOUS
    <3>2. n + 1 \in 1..Len(toClient) /\ toClient'[n] = toClient[n + 1]
      BY <1>2
    <3> QED
      BY <3>1, <3>2
  <2>2. /\ Sound(toClient'[n].frames, toClient'[n].whole) /\ toClient'[n].whole # <<>>
        /\ ~toClient'[n].gap => Follows(toClient'[n].frames[1], Last(toClient[n].whole))
    BY <2>1 DEF IInv, Chain
  <2>3. CASE n = 1
    <3>1. Last(toClient[n].whole) = Last(message.whole)
      BY <1>2, <2>3
    <3> QED
      BY <1>6, <1>7, <2>2, <2>3, <3>1, FollowsShown
  <2>4. CASE n # 1
    <3>1. n - 1 \in 1..Len(toClient') /\ (n - 1) + 1 = n
      BY <2>4
    <3>2. toClient'[n - 1] = toClient[n]
      BY <1>2, <3>1
    <3> QED
      BY <2>2, <2>4, <3>2
  <2> QED
    BY <2>3, <2>4
<1>10. Latest'
  <2> SUFFICES ASSUME ~dropped, value # NoValue
               PROVE  IF toClient' = <<>> THEN missed' \/ Shows(client', value, Meant)
                      ELSE value = Last(toClient'[Len(toClient')].whole)
    BY <1>1 DEF Latest
  <2>1. value = Last(toClient[Len(toClient)].whole)
    BY <1>1 DEF IInv, Latest
  <2>2. CASE toClient' = <<>>
    <3>1. Len(toClient) = 1
      BY <1>2, <2>2
    <3>2. value = Last(message.whole)
      BY <1>2, <2>1, <3>1
    <3> QED
      BY <1>6, <1>7, <2>2, <3>2
  <2>3. CASE toClient' # <<>>
    <3>1. Len(toClient') \in 1..Len(toClient') /\ Len(toClient') + 1 = Len(toClient)
      BY <1>2, <2>3
    <3>2. toClient'[Len(toClient')] = toClient[Len(toClient)]
      BY <1>2, <3>1
    <3> QED
      BY <2>1, <2>3, <3>2
  <2> QED
    BY <2>2, <2>3
<1>11. TypeOK'
  <2>1. \A n \in 1..Len(toClient') : Sound(toClient'[n].frames, toClient'[n].whole)
    BY <1>9 DEF Chain
  <2>2. \A m \in Range(toClient') :
          /\ Len(m.frames) = Len(m.whole)
          /\ \A f \in Range(m.frames) : f.type # NoType => f.fields = FieldsOf(f.of)
    BY <1>2, <2>1, MessagesTyped
  <2> QED
    BY <1>1, <1>2, <1>6, <2>2 DEF IInv, TypeOK
<1> QED
  BY <1>8, <1>9, <1>10, <1>11 DEF IInv

LEMMA Invariance == Spec => []IInv
<1>1. ASSUME IInv, [Next]_vars
      PROVE  IInv'
  <2>1. CASE NoValueChanged
    BY <1>1, <2>1, NoValueChangedInv
  <2>2. CASE \E batch \in Batches : ValueChanged(batch)
    BY <1>1, <2>2, ValueChangedInv
  <2>3. CASE Deliver
    BY <1>1, <2>3, DeliverInv
  <2>4. CASE UNCHANGED vars
    BY <1>1, <2>4 DEF vars, IInv, TypeOK, Chain, Latest, Clean
  <2> QED
    BY <1>1, <2>1, <2>2, <2>3, <2>4 DEF Next
<1> QED
  BY <1>1, InitInv, PTL DEF Spec

(* TypeOK: variables keep their types, a message has a frame for each of its   *)
(* values, and a frame with a type all the fields of the type.             *)
THEOREM Typing == Spec => []TypeOK
<1>1. IInv => TypeOK
  BY DEF IInv
<1> QED
  BY <1>1, Invariance, PTL

(* InStep: with no message on its way the client shows the PV's last value, the  *)
(* fields that its frame left out included.                                *)
THEOREM InStepHolds == Spec => []InStep
<1>1. IInv => InStep
  BY DEF IInv, Latest, InStep, Meant
<1> QED
  BY <1>1, Invariance, PTL

(* NeverGarbled: a value of one type is never read as another while nothing has  *)
(* been dropped, although only the first frame after another type has its type. *)
THEOREM NeverGarbledHolds == Spec => []NeverGarbled
<1>1. IInv => NeverGarbled
  BY DEF IInv, Clean, NeverGarbled
<1> QED
  BY <1>1, Invariance, PTL

-----------------------------------------------------------------------------
(* Messages that the client's typed arrays can read.                       *)

LEMMA OffsetSteps ==
  ASSUME NEW frames \in Seq(Frame)
  PROVE  /\ Offset(frames) \in [0..Len(frames) -> Nat]
         /\ Offset(frames)[0] = 0
         /\ \A k \in 1..Len(frames) :
              Offset(frames)[k] = Offset(frames)[k - 1] + BinaryLength(frames[k].of, frames[k].len)
<1> DEFINE length(k) == BinaryLength(frames[k].of, frames[k].len)
           step   == [n \in Nat |-> [k \in 1..Len(frames) |-> n + length(k)]]
           Run(f) == f = [k \in 0..Len(frames) |-> IF k = 0 THEN 0 ELSE f[k - 1] + length(k)]
<1>0. Len(frames) \in Nat /\ \A k \in 1..Len(frames) : frames[k].of \in Types /\ frames[k].len \in Nat
  <2>1. Len(frames) \in Nat /\ \A k \in 1..Len(frames) : frames[k] \in Frame
    OBVIOUS
  <2>2. \A f \in Frame : f.of \in Types /\ f.len \in Nat
    BY DEF Frame
  <2> QED
    BY <2>1, <2>2
<1>1. \A k \in 1..Len(frames) : length(k) \in Nat
  BY <1>0, BinaryLengthType
<1> HIDE DEF length
<1>2. \A n \in Nat, k \in 1..Len(frames) : step[n][k] = n + length(k)
  OBVIOUS
<1> HIDE DEF step
<1>7. \A n \in Nat, k \in 1..Len(frames) : step[n][k] \in Nat
  BY <1>1, <1>2
<1>3. PICK f \in [0..Len(frames) -> Nat] :
        f = [k \in 0..Len(frames) |-> IF k = 0 THEN 0 ELSE step[f[k - 1]][k]]
  <2>1. \E f \in [0..Len(frames) -> Nat] : Defines(Nat, 0, Len(frames), step, f)
    BY <1>0, <1>7, Recursion
  <2> QED
    BY <2>1 DEF Defines
<1>4. Run(f)
  <2>1. \A k \in 1..Len(frames) : k - 1 \in 0..Len(frames)
    BY <1>0
  <2>2. \A k \in 1..Len(frames) : step[f[k - 1]][k] = f[k - 1] + length(k)
    BY <1>2, <1>3, <2>1
  <2>3. \A k \in 0..Len(frames) : k # 0 => k \in 1..Len(frames)
    BY <1>0
  <2> QED
    BY <1>3, <2>2, <2>3
<1>5. Offset(frames) = CHOOSE g : Run(g)
  BY DEF Offset, length
<1>6. Run(Offset(frames))
  BY <1>4, <1>5
<1> DEFINE g == Offset(frames)
<1> HIDE DEF g
<1>8. /\ g[0] = 0
      /\ \A k \in 1..Len(frames) : g[k] = g[k - 1] + length(k)
  <2>1. \A k \in 0..Len(frames) : g[k] = IF k = 0 THEN 0 ELSE g[k - 1] + length(k)
    BY <1>6, Zenon DEF g
  <2>2. 0 \in 0..Len(frames) /\ \A k \in 1..Len(frames) : k \in 0..Len(frames) /\ k # 0
    BY <1>0
  <2> QED
    BY <2>1, <2>2
<1>9. g \in [0..Len(frames) -> Nat]
  <2> DEFINE T == {k \in 0..Len(frames) : g[k] \in Nat}
  <2>1. 0 \in T
    BY <1>0, <1>8
  <2>2. ASSUME NEW k \in 0..Len(frames), k \in T, k < Len(frames)
        PROVE  k + 1 \in T
    <3>1. k + 1 \in 1..Len(frames) /\ (k + 1) - 1 = k /\ g[k] \in Nat
      BY <1>0, <2>2
    <3>2. g[k + 1] = g[k] + length(k + 1) /\ length(k + 1) \in Nat
      BY <1>1, <1>8, <3>1
    <3> QED
      BY <3>1, <3>2
  <2> HIDE DEF T
  <2>3. \A k \in 0..Len(frames) : k \in T
    BY <1>0, <2>1, <2>2, Induction
  <2>4. \A k \in 0..Len(frames) : g[k] \in Nat
    BY <2>3 DEF T
  <2>5. g = [k \in 0..Len(frames) |-> g[k]]
    BY <1>6 DEF g
  <2> QED
    BY <2>4, <2>5
<1> QED
  BY <1>8, <1>9 DEF g, length

(* Modulo 8 is enough to know where elements of 1, 2, 4 or 8 bytes may begin. *)
LEMMA Modulo ==
  ASSUME NEW a \in Nat, NEW b \in Nat
  PROVE  /\ ((a % 8) + b) % 8 = (a + b) % 8
         /\ \A w \in {1, 2, 4, 8} : (a % 8) % w = a % w
<1>1. PICK q \in Nat, r \in 0..7 : a = 8 * q + r
  <2>1. a \div 8 \in Nat
    OBVIOUS
  <2>2. a % 8 \in 0..7
    OBVIOUS
  <2>3. a = 8 * (a \div 8) + (a % 8)
    OBVIOUS
  <2> QED
    BY <2>1, <2>2, <2>3
<1>2. a % 8 = r
  BY <1>1
<1>3. (r + b) % 8 = (8 * q + r + b) % 8
  BY <1>1
<1>4. a % 1 = r % 1 /\ a % 2 = r % 2 /\ a % 4 = r % 4 /\ a % 8 = r % 8
  BY <1>1
<1> QED
  BY <1>1, <1>2, <1>3, <1>4

LEMMA FitsModulo ==
  ASSUME NEW f \in Frame, NEW start \in Nat
  PROVE  /\ Parses(f, start) => Parses(f, start % 8)
         /\ Fits(f, start) => Fits(f, start % 8)
<1>1. \A w \in {1, 2, 4, 8} : (start % 8) % w = start % w
  BY Modulo
<1>2. f.of \in Types /\ Width(f.of) \in {0, 1, 2, 4, 8}
  BY WidthType DEF Frame
<1>3. CASE Width(f.of) = 0
  <2>1. \A n \in Nat : 0 * n = 0
    OBVIOUS
  <2>2. BinaryLength(f.of, f.len) = 0
    BY <1>3, <2>1 DEF BinaryLength, Frame
  <2> QED
    BY <1>1, <2>2 DEF Parses, Fits
<1>4. CASE Width(f.of) # 0
  BY <1>1, <1>2, <1>4 DEF Parses, Fits
<1> QED
  BY <1>3, <1>4

(* The loop over the frames of a readable message after k values.          *)
DecodesAll(d, message, k) ==
  /\ d.missed = FALSE /\ d.thrown = FALSE
  /\ d.start = Offset(message.frames)[k] % 8
  /\ Len(d.all) = k /\ \A j \in 1..k : Shows(d.all[j], message.whole[j], Meant)

LEMMA DecodingWhole ==
  ASSUME TypeOK, Clean, NEW message \in Message, Sound(message.frames, message.whole),
         Follows(message.frames[1], client), Readable(message), ~missed, ~message.gap
  PROVE  \A k \in 0..Len(message.frames) : DecodesAll(Decoding(message)[k], message, k)
<1> DEFINE frames == message.frames
           whole  == message.whole
           after  == Decoding(message)
           T == {k \in 0..Len(frames) : DecodesAll(after[k], message, k)}
<1>0. /\ Len(frames) \in Nat /\ Len(frames) = Len(whole) /\ frames \in Seq(Frame)
      /\ \A k \in 1..Len(frames) : frames[k] \in Frame /\ whole[k] \in Values
  BY DEF Message, Sound
<1>1. /\ after \in [0..Len(frames) -> Decoder]
      /\ after[0] = [value |-> client, all |-> EmptyBuffered, start |-> 0, thrown |-> FALSE,
                     missed |-> missed \/ message.gap]
      /\ \A k \in 1..Len(frames) : after[k] = Decode(after[k - 1], frames[k])
  BY DecodingSteps
<1>2. \A k \in 1..Len(frames) :
        Carries(frames[k], whole[k]) /\ (k > 1 => Follows(frames[k], whole[k - 1]))
  BY <1>0 DEF Sound
<1>3. \A k \in 1..Len(frames) : Decodes(after[k], whole[k])
  BY DecodingSound
<1>4. /\ Offset(frames) \in [0..Len(frames) -> Nat] /\ Offset(frames)[0] = 0
      /\ \A k \in 1..Len(frames) :
           Offset(frames)[k] = Offset(frames)[k - 1] + BinaryLength(frames[k].of, frames[k].len)
  BY <1>0, OffsetSteps
<1>5. \A k \in 1..Len(frames) :
        /\ CanCreate(frames[k].of)
        /\ Parses(frames[k], Offset(frames)[k - 1]) /\ Fits(frames[k], Offset(frames)[k - 1])
  BY <1>0 DEF Readable
<1>6. Follows(frames[1], client) /\ missed \in BOOLEAN /\ message.gap \in BOOLEAN
  BY DEF TypeOK, Message
<1> HIDE DEF after
<1>7. 0 \in T
  <2>1. /\ after[0].missed = FALSE /\ after[0].thrown = FALSE /\ after[0].start = 0
        /\ after[0].all = <<>>
    BY <1>1, <1>6 DEF EmptyBuffered
  <2>2. Len(after[0].all) = 0 /\ \A j \in 1..0 : FALSE
    BY <2>1
  <2> QED
    BY <1>0, <1>4, <2>1, <2>2 DEF DecodesAll
<1>8. ASSUME NEW k \in 0..Len(frames), k \in T, k < Len(frames)
      PROVE  k + 1 \in T
  <2> DEFINE s == after[k]
             d == after[k + 1]
             f == frames[k + 1]
  <2>1. /\ k + 1 \in 1..Len(frames) /\ (k + 1) - 1 = k /\ k + 1 \in 0..Len(frames)
        /\ s \in Decoder /\ DecodesAll(s, message, k)
    BY <1>0, <1>1, <1>8
  <2>2. d = Decode(s, f) /\ f \in Frame /\ Carries(f, whole[k + 1])
    BY <1>0, <1>1, <1>2, <2>1
  <2>3. Offset(frames)[k] \in Nat /\ Offset(frames)[k + 1] = Offset(frames)[k] + BinaryLength(f.of, f.len)
    BY <1>4, <2>1
  <2>4. CanCreate(f.of) /\ Parses(f, s.start) /\ Fits(f, s.start)
    <3>1. CanCreate(f.of) /\ Parses(f, Offset(frames)[k]) /\ Fits(f, Offset(frames)[k])
      BY <1>5, <2>1
    <3> QED
      BY <2>1, <2>2, <2>3, <3>1, FitsModulo DEF DecodesAll
  <2>5. Follows(f, s.value)
    <3>1. CASE k = 0
      <4>1. s.value = client /\ f = frames[1]
        BY <1>1, <3>1
      <4> QED
        BY <1>6, <4>1
    <3>2. CASE k # 0
      <4>1. k \in 1..Len(frames) /\ k + 1 > 1
        BY <1>0, <3>2
      <4>2. Follows(f, whole[k])
        BY <1>2, <2>1, <4>1
      <4>3. Shows(s.value, whole[k], Meant)
        BY <1>3, <2>1, <4>1 DEF DecodesAll, Decodes
      <4> QED
        BY <4>2, <4>3, FollowsShown
    <3> QED
      BY <3>1, <3>2
  <2>6. Shows(d.value, whole[k + 1], Meant) \/ d.missed
    BY <1>3, <2>1 DEF Decodes
  <2> HIDE DEF s, d, f
  <2>7. Legible(s, f)
    <3>1. Base(f, s.value).type = f.of
      BY <2>2, <2>5, BlankType DEF Base, Follows, Carries, Frame
    <3> QED
      BY <2>2, <2>4, <3>1 DEF Legible, Carries
  <2>8. Reads(s, f, d)
    BY <2>1, <2>2, <2>7, DecodeCases DEF DecodesAll
  <2>9. /\ d.missed = FALSE /\ d.thrown = FALSE /\ d.all = Append(s.all, d.value)
        /\ d.start = (s.start + BinaryLength(f.of, f.len)) % 8
    BY <2>1, <2>8 DEF Reads, DecodesAll
  <2>10. d.start = Offset(frames)[k + 1] % 8
    <3>1. BinaryLength(f.of, f.len) \in Nat
      BY <2>2, BinaryLengthType DEF Frame
    <3>2. s.start = Offset(frames)[k] % 8
      BY <2>1 DEF DecodesAll
    <3> QED
      BY <2>3, <2>9, <3>1, <3>2, Modulo
  <2>11. Len(d.all) = k + 1 /\ \A j \in 1..(k + 1) : Shows(d.all[j], whole[j], Meant)
    <3>1. s.all \in Seq(Shown) /\ Len(s.all) = k /\ \A j \in 1..k : Shows(s.all[j], whole[j], Meant)
      BY <2>1 DEF Decoder, DecodesAll
    <3>2. /\ Len(d.all) = k + 1 /\ d.all[k + 1] = d.value
          /\ \A j \in 1..k : d.all[j] = s.all[j]
      BY <2>9, <3>1
    <3>3. Shows(d.value, whole[k + 1], Meant)
      BY <2>6, <2>9
    <3>4. \A j \in 1..(k + 1) : j \in 1..k \/ j = k + 1
      OBVIOUS
    <3> QED
      BY <3>1, <3>2, <3>3, <3>4
  <2> QED
    BY <2>1, <2>9, <2>10, <2>11 DEF DecodesAll, d
<1> HIDE DEF T
<1>9. \A k \in 0..Len(frames) : k \in T
  BY <1>0, <1>7, <1>8, Induction
<1> QED
  BY <1>9 DEF T, after

WholeStep ==
  LET message == Head(toClient)
      whole   == message.whole
  IN  Len(toClient') < Len(toClient) /\ ~missed /\ ~message.gap /\ Readable(message) =>
        /\ ~missed' /\ Shows(client', Last(whole), Fields \ {"dh"})
        /\ valueBuffered =>
             /\ Len(buffered') = Len(whole)
             /\ \A k \in DOMAIN whole : Shows(buffered'[k], whole[k], Fields \ {"dh"})

LEMMA DeliversWhole == ASSUME IInv, Deliver PROVE WholeStep
<1> DEFINE message == Head(toClient)
           frames  == message.frames
           whole   == message.whole
           s       == Decoding(message)[Len(frames)]
<1> SUFFICES ASSUME ~missed, ~message.gap, Readable(message)
             PROVE  /\ ~missed' /\ Shows(client', Last(whole), Meant)
                    /\ valueBuffered =>
                         /\ Len(buffered') = Len(whole)
                         /\ \A k \in DOMAIN whole : Shows(buffered'[k], whole[k], Meant)
  BY DEF WholeStep, Meant
<1>1. /\ toClient # <<>> /\ toClient \in Seq(Message) /\ message = toClient[1] /\ message \in Message
      /\ 1 \in 1..Len(toClient)
  BY DEF Deliver, IInv, TypeOK
<1>2. client' = s.value /\ missed' = s.missed /\ buffered' = IF valueBuffered THEN s.all ELSE buffered
  BY DEF Deliver, Readable
<1>3. /\ Sound(frames, whole) /\ whole # <<>>
      /\ missed \/ message.gap \/ Follows(frames[1], client)
  BY <1>1 DEF IInv, Chain
<1>4. /\ Len(frames) \in Nat /\ Len(frames) = Len(whole) /\ Len(frames) \in 1..Len(frames)
      /\ Len(frames) \in 0..Len(frames) /\ whole \in Seq(Values)
  BY <1>1, <1>3 DEF Sound, Message
<1>5. DecodesAll(s, message, Len(frames))
  <2>1. Follows(frames[1], client)
    BY <1>3
  <2>2. \A k \in 0..Len(frames) : DecodesAll(Decoding(message)[k], message, k)
    BY <1>1, <1>3, <2>1, DecodingWhole DEF IInv
  <2> QED
    BY <1>4, <2>2
<1>6. Decodes(s, whole[Len(frames)])
  BY <1>1, <1>3, <1>4, DecodingSound DEF IInv
<1> QED
  BY <1>2, <1>4, <1>5, <1>6 DEF DecodesAll, Decodes, Last

(* ShowsWhole: a message that the typed arrays of the client can read is decoded *)
(* whole, wherever its values stand: the client shows the last of them and, when *)
(* buffering, all of them in order.                                        *)
THEOREM ShowsWholeHolds == Spec => ShowsWhole
<1>1. ASSUME IInv, [Next]_vars
      PROVE  [WholeStep]_vars
  <2>1. CASE NoValueChanged
    BY <2>1 DEF NoValueChanged, WholeStep, IInv, TypeOK
  <2>2. CASE \E batch \in Batches : ValueChanged(batch)
    <3>1. ASSUME NEW m
          PROVE  ~(Len(Append(toClient, m)) < Len(toClient)) /\ ~(Len(toClient) < Len(toClient))
      BY <1>1 DEF IInv, TypeOK
    <3> QED
      BY <2>2, <3>1 DEF ValueChanged, WholeStep
  <2>3. CASE Deliver
    BY <1>1, <2>3, DeliversWhole
  <2> QED
    BY <1>1, <2>1, <2>2, <2>3 DEF Next
<1>2. [][WholeStep]_vars <=> ShowsWhole
  BY PTL DEF ShowsWhole, WholeStep
<1> QED
  BY <1>1, <1>2, Invariance, PTL DEF Spec

=============================================================================
