----------------------------- MODULE SensorSettings -----------------------------
(***************************************************************************)
(* The settings of the two 55AA sensors, the encoder and the eddy current  *)
(* sensor: a command writes a setting, another asks for it, and the value  *)
(* of the reply is shown.  A sensor keeps the bytes it is sent and returns *)
(* them (external); a float is the integer its four bytes are.  The frames *)
(* are in FrameReaders.  One setting is followed at a time: two settings   *)
(* share the link and the byte order, and both are here.  Gain is the same *)
(* register as the fit parameters, zero the same as the interpolation.     *)
(* Left out: the uploads, the compensation tables and the version text,    *)
(* which are sent or shown and never compared with anything.               *)
(***************************************************************************)
EXTENDS Naturals, Sequences

CONSTANTS Requests,    \* the writes of each setting a caller asks for
          MaxUnderWay  \* bound on the replies under way

\* Settings that are lists of integers: their width and how many there are.
Lists == [serial |-> [width |-> 4, least |-> 1, most |-> 1],
          ips    |-> [width |-> 2, least |-> 8, most |-> 8],
          range  |-> [width |-> 4, least |-> 2, most |-> 2],
          fit    |-> [width |-> 4, least |-> 2, most |-> 24]]
Settings == DOMAIN Lists \cup {"resolution", "protocol"}
Orders == {"little", "big"}
ASSUME SettingsAssumption ==
    /\ DOMAIN Requests = Settings /\ MaxUnderWay \in Nat
    /\ \A s \in Settings : \A r \in Requests[s] :
           /\ r.values \in Seq(Nat)
           /\ IF s \in DOMAIN Lists THEN r.as = "list"
              ELSE \/ r.as \in {"plain", "u16"} /\ Len(r.values) = 1
                   \/ r.as = "pair" /\ s = "resolution" /\ Len(r.values) = 2

VARIABLES
    setting,   \* the setting that is followed
    sensorLink,\* the port is open
    byteOrder, \* byteOrder_
    kept,      \* what the sensor keeps: the bytes, what they were meant to say,
               \* their form, and the order they were written in
    replies,   \* replies of the sensor under way
    shown55,   \* the setting in state_, <<>> before the first reply
    lastAck,   \* status.lastAck.ok
    answered   \* history: what the sensor kept when it sent the last reply
               \* to a read that has arrived, and the order it was read in
settingVars == <<setting, sensorLink, byteOrder, kept, replies, shown55, lastAck, answered>>

Factory == [bytes |-> <<>>, meant |-> <<>>, form |-> "none", order |-> "little"]

SettingInit ==
    /\ setting \in Settings
    /\ sensorLink = FALSE /\ byteOrder = "little"
    /\ kept = Factory /\ replies = <<>>
    /\ shown55 = <<>> /\ lastAck = "none"
    /\ answered = [what |-> Factory, order |-> "little"]

(* ------------------------------ the encodings ------------------------------ *)

\* appendUInt16, appendUInt32, appendFloat; readUInt16, readUInt32, readFloat
Weights == <<1, 256, 65536, 16777216>>
Place(i, width, order) == IF order = "little" THEN i ELSE width + 1 - i
IntBytes(v, width, order) ==
    [i \in 1..width |-> (v \div Weights[Place(i, width, order)]) % 256]
IntOf(bytes, order) ==
    LET digit(i) == IF i > Len(bytes) THEN 0 ELSE bytes[Place(i, Len(bytes), order)]
    IN  digit(1) + 256 * digit(2) + 65536 * digit(3) + 16777216 * digit(4)
\* appendUInt16Values, appendUInt32Values, appendFloatValues
ListBytes(values, width, order) ==
    [k \in 1..(Len(values) * width) |->
        IntBytes(values[((k - 1) \div width) + 1], width, order)[((k - 1) % width) + 1]]
\* parseUInt16List, parseUInt32List, parseFloatList
IntsOf(bytes, width, order) ==
    [i \in 1..(Len(bytes) \div width) |->
        IntOf([j \in 1..width |-> bytes[(i - 1) * width + j]], order)]

\* variantTo..., normalizeVariantList and the counts of append...Values
Accepts(r) ==
    CASE r.as = "list" -> /\ Len(r.values) \in Lists[setting].least..Lists[setting].most
                          /\ \A i \in DOMAIN r.values :
                                 r.values[i] \div Weights[Lists[setting].width] < 256
      [] r.as = "pair" -> \E i \in {1, 2} : r.values[i] < 256
      [] OTHER -> r.values[1] < 65536

\* A half of the resolution that is missing or too large is the other half.
Halves(p) == [i \in {1, 2} |-> IF p[i] < 256 THEN p[i] ELSE p[3 - i]]

\* Mutant: the word of a resolution or a protocol goes out in a fixed order.
LittleWord(v) == IntBytes(v, 2, "little")
Word(v) == IntBytes(v, 2, byteOrder)

\* A number goes out as a word when that is asked for or it needs one.
Form(r) ==
    CASE r.as = "list" -> "list"
      [] r.as = "u16" \/ (r.as = "plain" /\ r.values[1] > 255) -> "word"
      [] OTHER -> "bytes"

Content(r) ==
    CASE Form(r) = "word" -> Word(r.values[1])
      [] Form(r) = "bytes" /\ r.as = "pair" -> <<Halves(r.values)[1], Halves(r.values)[2]>>
      [] Form(r) = "bytes" /\ r.as = "plain" ->
            IF setting = "resolution" THEN <<r.values[1], r.values[1]>> ELSE r.values
      [] Form(r) = "list" ->
            ListBytes(r.values, Lists[setting].width, byteOrder)

\* The caller's value, in the shape in which it is shown: outer and inner.
Meant(r) ==
    IF setting = "resolution" /\ r.as # "pair" THEN <<r.values[1], r.values[1]>>
    ELSE r.values

\* Two bytes that look like the resolutions of old sensors are taken for them.
LooksLikePair(bytes) == \A i \in DOMAIN bytes : bytes[i] \in 8..32

\* handlePayload for the replies to a read.
ValueOf(bytes, order) ==
    CASE setting = "resolution" ->
            IF LooksLikePair(bytes) THEN bytes
            ELSE <<IntOf(bytes, order), IntOf(bytes, order)>>
      [] setting = "protocol" -> <<IntOf(bytes, order)>>
      [] OTHER -> IntsOf(bytes, Lists[setting].width, order)

(* ------------------------------ the bridge ------------------------------ *)

\* connectSerial: what was open is closed, and the byte order is taken from
\* the options, or stays, before the port is opened.
ConnectSensor(order, ok) ==
    /\ sensorLink' = ok /\ byteOrder' = order
    /\ replies' = <<>>
    /\ UNCHANGED <<setting, kept, shown55, lastAck, answered>>

\* disconnectDevice, by the user or after a resource error.
DisconnectSensor ==
    /\ sensorLink' = FALSE
    /\ replies' = <<>>
    /\ UNCHANGED <<setting, byteOrder, kept, shown55, lastAck, answered>>

\* A write command; the sensor keeps the bytes or refuses them.
WriteSetting(r, taken) ==
    /\ sensorLink /\ Accepts(r) /\ Len(replies) < MaxUnderWay
    /\ kept' = IF taken THEN [bytes |-> Content(r), meant |-> Meant(r), form |-> Form(r),
                                order |-> byteOrder]
               ELSE kept
    /\ replies' = Append(replies, [of |-> "write", what |-> kept,
                                   bytes |-> <<IF taken THEN 1 ELSE 0>>])
    /\ UNCHANGED <<setting, sensorLink, byteOrder, shown55, lastAck, answered>>

ReadSetting ==
    /\ sensorLink /\ kept # Factory /\ Len(replies) < MaxUnderWay
    /\ replies' = Append(replies, [of |-> "read", what |-> kept, bytes |-> kept.bytes])
    /\ UNCHANGED <<setting, sensorLink, byteOrder, kept, shown55, lastAck, answered>>

\* One byte, 0 or 1, is an acknowledgement, whatever command it answers.
IsAck(bytes) == bytes \in {<<0>>, <<1>>}

ReplyArrives ==
    /\ sensorLink /\ replies # <<>>
    /\ LET reply == Head(replies)
       IN  /\ lastAck' = IF IsAck(reply.bytes) THEN reply.bytes[1] ELSE lastAck
           /\ shown55' = IF reply.of = "read" /\ ~IsAck(reply.bytes)
                         THEN ValueOf(reply.bytes, byteOrder) ELSE shown55
           /\ answered' = IF reply.of = "read"
                          THEN [what |-> reply.what, order |-> byteOrder] ELSE answered
    /\ replies' = Tail(replies)
    /\ UNCHANGED <<setting, sensorLink, byteOrder, kept>>

SettingNext ==
    \/ \E order \in Orders, ok \in BOOLEAN : ConnectSensor(order, ok)
    \/ DisconnectSensor
    \/ \E r \in Requests[setting], taken \in BOOLEAN : WriteSetting(r, taken)
    \/ ReadSetting \/ ReplyArrives
SettingSpec == SettingInit /\ [][SettingNext]_settingVars

-----------------------------------------------------------------------------
(* A reply shows what the caller wrote, whatever was written, read and    *)
(* connected in between.  The exceptions are the code's own: another byte  *)
(* order was chosen in between; a protocol number 0 or 1 in one byte is    *)
(* taken for an acknowledgement and not shown; two bytes of a resolution   *)
(* are read as a pair if both look like one and as a word otherwise,       *)
(* whatever they were written as; a half of a resolution that does not fit *)
(* a byte was replaced by the other half.                                  *)
Misread(what) ==
    \/ setting = "protocol" /\ IsAck(what.bytes)
    \/ setting = "resolution" /\ (what.form = "bytes") # LooksLikePair(what.bytes)
    \/ setting = "resolution" /\ what.form = "bytes" /\ what.bytes # what.meant
ReadBackIsWritten ==
    answered.what # Factory /\ answered.order = answered.what.order =>
        shown55 = answered.what.meant \/ Misread(answered.what)
=============================================================================
