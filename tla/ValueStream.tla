----------------------------- MODULE ValueStream -----------------------------
(***************************************************************************)
(* The values of one PV on their way to one client: PVManagerPV encodes each *)
(* against the last one (getDeltaChangesValueFrame, VTypeJsonHelper), and    *)
(* webpda-cs.js decodes each on top of the last one (processJsonForPV).      *)
(* Only the first value, or one of another type, is sent whole; of the       *)
(* others the fields that have changed.  A buffering PV sends the values of  *)
(* one update period in one message.                                        *)
(*                                                                         *)
(* The JSON part of a frame, with its length and padding, is a multiple of   *)
(* 8 bytes long; of its own length only that much is kept, and whether it is *)
(* more than the client can read (32767).                                   *)
(***************************************************************************)
EXTENDS Naturals, Sequences, SequencesExt, FiniteSets, Functions

CONSTANTS
  Values,     \* the values that the control system may have
  MaxBatch,   \* bound: values in one update period
  MaxValues   \* bound: values of the PV, no value included

(* The client knows VLong and VLongArray too, as doubles; the types of the       *)
(* library that the server is built with (epics-vtype 2.3) have no such values.  *)
(* VTable is one of those that the client cannot create.                         *)
Scalars   == {"VDouble", "VFloat", "VInt", "VShort", "VByte"}
NumArrays == {"VDoubleArray", "VFloatArray", "VIntArray", "VShortArray", "VByteArray"}
Enums     == {"VEnum", "VEnumArray"}
Arrays    == NumArrays \cup {"VEnumArray", "VStringArray"}
Types     == Scalars \cup Arrays \cup {"VString", "VEnum", "VTable"}

AlarmFields   == {"sev", "an"}
DisplayFields == {"dl", "dh", "wl", "wh", "al", "ah", "prec", "units"}
Fields        == AlarmFields \cup DisplayFields \cup {"labels"}

(* Which fields a type has: Alarm, Display, Enum. *)
FieldsOf(type) ==
  CASE type \in Scalars \cup NumArrays -> AlarmFields \cup DisplayFields
    [] type \in Enums                  -> AlarmFields \cup {"labels"}
    [] type = "VTable"                 -> {}
    [] OTHER                           -> AlarmFields

(* Bytes of an element in the binary part; strings have none. *)
Width(type) ==
  CASE type \in {"VDouble", "VDoubleArray"}           -> 8
    [] type \in {"VFloat", "VFloatArray", "VInt", "VIntArray"} \cup Enums -> 4
    [] type \in {"VShort", "VShortArray"}             -> 2
    [] type \in {"VByte", "VByteArray"}               -> 1
    [] OTHER                                          -> 0

BinaryLength(type, len) == Width(type) * (IF type \in Arrays THEN len ELSE 1)

(* A value: "wrapped" if the numbers of an array lie in a primitive array; other *)
(* values cannot be encoded. "data" is the value proper and its time stamp; a    *)
(* "long" text makes a JSON part that is longer than 32767 bytes.                *)
Level == {"low", "high"}
Value == [type: Types, wrapped: BOOLEAN, long: BOOLEAN, len: Nat, data: Level, meta: [Fields -> Level]]
ASSUME ValuesAssumption == Values \subseteq Value /\ \A v \in Values : v.long => v.type = "VString"
ASSUME BoundsAssumption ==
  MaxBatch \in Nat \ {0} /\ MaxValues \in Nat

NoValue == [type |-> "null"]
NoType  == "null"

VARIABLES
  valueBuffered, \* PVManagerPV.valueBuffered: it never changes
  value,     \* PVManagerPV.value: the last one a delta was computed for
  toClient,  \* messages on their way
  client,    \* internalPV.value
  buffered,  \* internalPV.allBufferedValues
  count,     \* number of values
  dropped,   \* history: a value was dropped since the last message
  missed     \* history: the client misses a value since it was last sent a type

vars == <<valueBuffered, value, toClient, client, buffered, count, dropped, missed>>

(* What the client has: null is a field that has never been sent. *)
Shown == [type: Types, len: Nat, data: Level \cup {"null"}, meta: [Fields -> Level \cup {"null"}]]
Garbled == [type |-> "garbled"]

Frame   == [type: Types \cup {NoType}, of: Types, long: BOOLEAN, len: Nat, data: Level,
            fields: SUBSET Fields, meta: [Fields -> Level]]
Message == [frames: Seq(Frame), whole: Seq(Values), gap: BOOLEAN]

(* Types, and: a frame has one value, and with a type all the fields of the type. *)
TypeOK ==
  /\ valueBuffered \in BOOLEAN /\ value \in Values \cup {NoValue}
  /\ toClient \in Seq(Message)
  /\ \A message \in Range(toClient) :
       /\ Len(message.frames) = Len(message.whole)
       /\ \A f \in Range(message.frames) : f.type # NoType => f.fields = FieldsOf(f.of)
  /\ client \in Shown \cup {NoValue, Garbled}
  /\ buffered \in Seq(Shown)
  /\ count \in 0..MaxValues /\ dropped \in BOOLEAN /\ missed \in BOOLEAN

Init ==
  /\ valueBuffered \in BOOLEAN
  /\ value = NoValue /\ toClient = <<>> /\ client = NoValue /\ buffered = <<>>
  /\ count = 0 /\ dropped = FALSE /\ missed = FALSE

-----------------------------------------------------------------------------
(* The server. *)

(* Mutant: the type is sent with the first value only. *)
KnownTypeOnce(v, old) == old # NoValue

(* oldValue is of the type of the new one. *)
KnownType(v, old) == old # NoValue /\ old.type = v.type

(* writeDisplayToJson() looks at the upper alarm limit to decide about the upper *)
(* display limit; all other fields are compared with themselves.                 *)
ComparedWith(f) == IF f = "dh" THEN "ah" ELSE f

(* Mutant: the old value is not forgotten when the type is another. *)
FrameKeepsOld(v, old) ==
  [type   |-> IF KnownType(v, old) THEN NoType ELSE v.type,
   of     |-> v.type,
   long   |-> v.long,
   len    |-> v.len,
   data   |-> v.data,
   fields |-> {f \in FieldsOf(v.type) :
                 old # NoValue => old.meta[ComparedWith(f)] # v.meta[ComparedWith(f)]},
   meta   |-> v.meta]

(* vTypeToValueFrame(): which fields are written, in the JSON part of a frame.   *)
(* An array has its length, never its strings.                                   *)
FrameOf(v, old) ==
  [type   |-> IF KnownType(v, old) THEN NoType ELSE v.type,
   of     |-> v.type,
   long   |-> v.long,
   len    |-> v.len,
   data   |-> v.data,
   fields |-> {f \in FieldsOf(v.type) :
                 KnownType(v, old) => old.meta[ComparedWith(f)] # v.meta[ComparedWith(f)]},
   meta   |-> v.meta]

(* Mutant: the last value is only the first one. *)
EncodeStale(s, v) ==
  IF s.thrown THEN s
  ELSE IF v.wrapped
    THEN [s EXCEPT !.frames = Append(@, FrameOf(v, s.value)), !.whole = Append(@, v),
                   !.value = IF @ = NoValue THEN v ELSE @]
  ELSE IF s.frames = <<>> THEN [s EXCEPT !.value = v, !.lost = TRUE]
  ELSE [s EXCEPT !.thrown = TRUE]

(* The loop of getDeltaChangesValueFrame(): a value that cannot be encoded gives *)
(* null, which is skipped at the beginning, and later ends the loop (r.addValue  *)
(* throws) with nothing sent.                                                    *)
Encode(s, v) ==
  IF s.thrown THEN s
  ELSE IF v.wrapped
    THEN [s EXCEPT !.frames = Append(@, FrameOf(v, s.value)), !.whole = Append(@, v), !.value = v]
  ELSE IF s.frames = <<>> THEN [s EXCEPT !.value = v, !.lost = TRUE]
  ELSE [s EXCEPT !.thrown = TRUE]

Encoding(batch) ==
  LET after[k \in 0..Len(batch)] ==
        IF k = 0 THEN [frames |-> <<>>, whole |-> <<>>, value |-> value, lost |-> dropped, thrown |-> FALSE]
        ELSE Encode(after[k - 1], batch[k])
  IN  after

(* valueChanged() of a PV without a value, or that has been stopped: nothing is  *)
(* sent, and the next delta is computed against null.                            *)
NoValueChanged ==
  /\ count < MaxValues /\ count' = count + 1
  /\ value' = NoValue
  /\ UNCHANGED <<valueBuffered, toClient, client, buffered, dropped, missed>>

(* valueChanged(): the frames of the values are sent in one message. *)
ValueChanged(batch) ==
  LET s    == Encoding(batch)[Len(batch)]
      sent == ~s.thrown /\ s.frames # <<>>
  IN  /\ count + Len(batch) <= MaxValues /\ count' = count + Len(batch)
      /\ value' = s.value
      /\ toClient' = IF sent THEN Append(toClient, [frames |-> s.frames, whole |-> s.whole, gap |-> s.lost])
                             ELSE toClient
      /\ dropped' = (~sent /\ (s.lost \/ s.thrown))
      /\ UNCHANGED <<valueBuffered, client, buffered, missed>>

-----------------------------------------------------------------------------
(* The client. *)

(* createValue(type); VStringArray() refers to a variable that does not exist,   *)
(* and other types are not known.                                                *)
CanCreate(type) == type \notin {"VStringArray", "VTable"}
Blank(type) == [type |-> type, len |-> 0, data |-> "null", meta |-> [f \in Fields |-> "null"]]

Base(f, current) == IF f.type = NoType THEN current ELSE Blank(f.type)

(* The fields of the JSON part of a frame override those of the value ... *)
JsonPart(base, f) ==
  [base EXCEPT !.len = f.len, !.meta = [g \in Fields |-> IF g \in f.fields THEN f.meta[g] ELSE base.meta[g]]]

(* ... and so does the value; an empty array has no binary part, and its         *)
(* elements stay.                                                                *)
Override(base, f) ==
  [JsonPart(base, f) EXCEPT
     !.data = IF base.type # "VString" /\ BinaryLength(base.type, f.len) = 0 THEN @ ELSE f.data]

(* Typed arrays begin at a multiple of their element's width, and the length of  *)
(* the JSON part, which has 4 bytes, is read from 2 of them, with a sign: of a    *)
(* longer one nothing can be parsed.                                             *)
Parses(f, start) == start % 2 = 0 /\ ~f.long
Fits(f, start) == BinaryLength(f.of, f.len) > 0 => start % Width(f.of) = 0

(* processSingleValueBinary(), at "start" (modulo 8), throws before or after it  *)
(* has changed the current value in place. A frame that belongs on a value of    *)
(* another type leaves garbage, and what follows it is not where it is looked for. *)
Decode(s, f) ==
  LET base   == Base(f, s.value)
      failed == [s EXCEPT !.thrown = TRUE, !.missed = TRUE]
  IN  IF s.thrown THEN s
      ELSE IF base = NoValue \/ (f.type # NoType /\ ~CanCreate(f.type)) \/ ~Parses(f, s.start) THEN failed
      ELSE IF base.type # f.of THEN [s EXCEPT !.thrown = TRUE, !.value = Garbled]
      ELSE IF ~Fits(f, s.start) THEN [failed EXCEPT !.value = IF f.type = NoType THEN JsonPart(base, f) ELSE @]
      ELSE [s EXCEPT !.value = Override(base, f), !.all = Append(@, Override(base, f)),
                     !.start = (@ + BinaryLength(f.of, f.len)) % 8,
                     !.missed = @ /\ f.type = NoType]

(* Where the binary part of each frame begins, after those before it. *)
Offset(frames) ==
  LET after[k \in 0..Len(frames)] ==
        IF k = 0 THEN 0 ELSE after[k - 1] + BinaryLength(frames[k].of, frames[k].len)
  IN  after

(* preprocessBytesArray(): new Int32Array(data) of bytes that are no multiple of *)
(* 4 throws.                                                                     *)
Bytes(frames) == Offset(frames)[Len(frames)]

(* Mutant: allBufferedValues is not emptied. *)
KeepBuffered == buffered

(* allBufferedValues = [] *)
EmptyBuffered == <<>>

(* processJsonForPV(): the values of a message one after another. *)
Decoding(message) ==
  LET after[k \in 0..Len(message.frames)] ==
        IF k = 0 THEN [value |-> client, all |-> EmptyBuffered, start |-> 0, thrown |-> FALSE,
                       missed |-> missed \/ message.gap]
        ELSE Decode(after[k - 1], message.frames[k])
  IN  after

(* websocket.onmessage of a binary message, up to processJsonForPV(). *)
Deliver ==
  LET message == Head(toClient)
      s       == Decoding(message)[Len(message.frames)]
  IN  /\ toClient # <<>> /\ toClient' = Tail(toClient)
      /\ \/ /\ Bytes(message.frames) % 4 = 0
            /\ client' = s.value /\ missed' = s.missed
            /\ buffered' = IF valueBuffered THEN s.all ELSE buffered
         \/ /\ Bytes(message.frames) % 4 # 0
            /\ missed' = TRUE /\ UNCHANGED <<client, buffered>>
      /\ UNCHANGED <<valueBuffered, value, count, dropped>>

Batches == UNION {[1..n -> Values] : n \in 1..(IF valueBuffered THEN MaxBatch ELSE 1)}

Next == NoValueChanged \/ (\E batch \in Batches : ValueChanged(batch)) \/ Deliver

Spec == Init /\ [][Next]_vars

-----------------------------------------------------------------------------
(* The client shows a value: of an empty array it may show anything. *)
Shows(shown, v, fields) ==
  /\ shown.type = v.type /\ shown.len = v.len
  /\ (v.type \in Arrays /\ v.len = 0) \/ shown.data = v.data
  /\ \A f \in fields \cap FieldsOf(v.type) : shown.meta[f] = v.meta[f]

(* Deltas add up: with no message on its way the client shows the last value of  *)
(* the PV, its fields not sent for long included, if no value was dropped since  *)
(* it was last sent a type.  The upper display limit is left out: the code sends *)
(* it only when the upper alarm limit changes (VTypeJsonHelper.java:198).        *)
InStep ==
  toClient = <<>> /\ ~missed /\ ~dropped /\ value # NoValue => Shows(client, value, Fields \ {"dh"})

(* The bytes of the values of a message suit the client, wherever they stand.    *)
Readable(message) ==
  /\ Bytes(message.frames) % 4 = 0
  /\ \A k \in DOMAIN message.frames :
       LET f     == message.frames[k]
           start == Offset(message.frames)[k - 1]
       IN  CanCreate(f.of) /\ Parses(f, start) /\ Fits(f, start)

(* The client decodes every message that its typed arrays can read, after which  *)
(* it shows the last of the values and, when buffering, all of them in order.    *)
ShowsWhole ==
  [][ LET message == Head(toClient)
          whole   == message.whole
      IN  Len(toClient') < Len(toClient) /\ ~missed /\ ~message.gap /\ Readable(message) =>
            /\ ~missed' /\ Shows(client', Last(whole), Fields \ {"dh"})
            /\ valueBuffered =>
                 /\ Len(buffered') = Len(whole)
                 /\ \A k \in DOMAIN whole : Shows(buffered'[k], whole[k], Fields \ {"dh"})
    ]_vars

(* A value of one type is never read as another while nothing has been dropped:  *)
(* the type is sent with each value that needs it.                               *)
NeverGarbled == missed \/ client # Garbled

=============================================================================
