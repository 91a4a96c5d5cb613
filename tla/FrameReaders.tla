----------------------------- MODULE FrameReaders -----------------------------
(***************************************************************************)
(* The reading side of the three serial bridges, at the level of bytes:    *)
(* the fast mirror's consumeBuffer with its two inner loops ("fm"), the    *)
(* 55AA bridge's consumeFrames ("aa") and the turntable's consumeBuffer    *)
(* ("tt").  The device sends the items of a wire one after the other; the  *)
(* operating system cuts them into reads anywhere; readyRead appends a     *)
(* read to the buffer and runs the loop, one action per iteration.         *)
(***************************************************************************)
EXTENDS Integers, Sequences, FiniteSetsExt, SequencesExt

CONSTANT Wires    \* what a device may send and how its bridge is configured

(* -------------------------- reading the bytes -------------------------- *)

Sum8(b) == FoldLeft(LAMBDA s, x : (s + x) % 256, 0, b)
Sum16(b) == FoldLeft(LAMBDA s, x : (s + x) % 65536, 0, b)
LittleEndian(b, at) == b[at] + 256 * b[at + 1]
BigEndian(b, at) == 256 * b[at] + b[at + 1]
Drop(b, n) == SubSeq(b, n + 1, Len(b))
Take(b, n) == SubSeq(b, 1, n)
Sealed(frame) == Last(frame) = Sum8(Front(frame))
Starts(b, x, y) == Len(b) >= 2 /\ b[1] = x /\ b[2] = y
HasHeader(b) == Starts(b, 85, 170)
(* the buffer from its first header on, the empty sequence if it has none *)
FromHeader(b) ==
    LET at == {i \in 1..(Len(b) - 1) : b[i] = 85 /\ b[i + 1] = 170}
    IN IF at = {} THEN <<>> ELSE SubSeq(b, Min(at), Len(b))

(* verifyLegacyChecksum and the frame lengths of the old protocol, for     *)
(* samples of 16 or of 32 bits                                             *)
ParamCommands == (160..171) \cup {173, 176, 177}
SystemEam == 231
LegacyLength(command, bits) ==
    CASE command \in {178, 180, 181, 183, 179, 229, SystemEam} -> IF bits = 32 THEN 20 ELSE 16
      [] command \in {43, 44} -> 23
      [] command = 185 -> 2038
      [] OTHER -> 7

(* resolveFrameLength: 0 when no reading of the field is plausible *)
Plausible(n) == n > 0 /\ n <= 4096
FrameLength(b, order) ==
    LET le == LittleEndian(b, 3)
        be == BigEndian(b, 3)
        known == IF order = "little" \/ (order = "auto" /\ Plausible(le)) THEN le ELSE be
    IN IF Plausible(known) THEN known ELSE 0

UpgradeAck == <<126, 170, 85, 80, 68, 65, 84, 65, 32, 79, 75, 0, 161>>
\* Mutant: an acknowledgement is recognised only when all of it is there.
AckWhole(b) == IsPrefix(UpgradeAck, b)
AckPrefix(b) == \A i \in 1..13 : i <= Len(b) => b[i] = UpgradeAck[i]

(* validateChecksum: the sum over the frame, or over what follows its header *)
TurntableSealed(frame) ==
    Last(frame) \in {Sum8(Front(frame)), Sum8(Drop(Front(frame), 2))}

(* ------------------------------ the wire ------------------------------ *)

(* A wire: the bridge that reads it, the byte order it was told to read    *)
(* lengths in, the one the device writes them in, the width of the samples *)
(* that was set (fm), the bytes the device sends, and the items they are:  *)
(* frames, frames with a wrong sum, and noise, each of which begins where  *)
(* the one before it ends.                                                 *)
Byte == 0..255
Kinds == {"legacy", "mirror", "iap", "ack", "status", "frame", "damaged", "noise"}
Wire == [reader : {"fm", "aa", "tt"}, order : {"little", "big", "auto"}, device : {"little", "big"},
         bits : {16, 32}, bytes : Seq(Byte), items : Seq([kind : Kinds, end : Nat])]

Items(w) == 1..Len(w.items)
End(w, k) == IF k = 0 THEN 0 ELSE w.items[k].end
Kind(w, k) == w.items[k].kind
IsFrame(w, k) == Kind(w, k) \notin {"damaged", "noise"}
Piece(w, from, to) == SubSeq(w.bytes, from + 1, to)
Item(w, k) == Piece(w, End(w, k - 1), End(w, k))
(* p cuts item k after its first bytes *)
Cuts(w, p, k) == End(w, k - 1) < p /\ p < End(w, k)

(* What each of them looks like.  No byte of noise, and none in a frame    *)
(* with a wrong sum, can be taken for the first one of a frame: such bytes *)
(* would be looked at as one, and what follows them lost.  A device of the *)
(* 55AA kind writes lengths in the order its bridge was told, or "auto",   *)
(* a fast mirror sends samples of the width its bridge was told.           *)
Long(b, least, most) == least <= Len(b) /\ Len(b) <= most
Quiet(b, from) == \A i \in from..Len(b) : b[i] \notin {85, 126}
IapLead(b) == Starts(b, 126, SystemEam)
MirrorLook(b) == HasHeader(b) /\ Long(b, 6, 261) /\ LittleEndian(b, 3) = Len(b) - 5
IapLook(b) ==
    /\ IapLead(b) /\ Long(b, 10, 4102) /\ LittleEndian(b, 3) = Len(b) - 6
    /\ Sum16(Take(b, Len(b) - 2)) = LittleEndian(b, Len(b) - 1)
LegacyLook(b, bits) ==
    /\ Len(b) >= 2 /\ b[1] = 126 /\ ~AckPrefix(b) /\ Sealed(b)
    /\ IF b[2] \in ParamCommands THEN Long(b, 9, 8192) /\ Len(b) = 5 + LittleEndian(b, 3)
       ELSE Len(b) = LegacyLength(b[2], bits)
TurntableLook(b) == HasHeader(b) /\ Len(b) > 4 /\ b[3] = Len(b) - 4 /\ TurntableSealed(b)
FrameLook(b, device) ==
    /\ HasHeader(b) /\ Long(b, 6, 4101) /\ Sealed(b)
    /\ IF device = "little" THEN LittleEndian(b, 3) = Len(b) - 5 ELSE BigEndian(b, 3) = Len(b) - 5
Looks(w, kind, b) ==
    /\ kind = "noise" => Quiet(b, 1)
    /\ kind = "mirror" => MirrorLook(b) /\ Sealed(b)
    /\ kind = "damaged" => MirrorLook(b) /\ ~Sealed(b) /\ Quiet(b, 3)
    /\ kind = "iap" => IapLook(b)
    /\ kind = "ack" => b = UpgradeAck
    /\ kind = "status" => Len(b) = 19 /\ b[1] = 85 /\ b[2] # 170
    /\ kind = "legacy" => LegacyLook(b, w.bits)
    /\ kind = "frame" => IF w.reader = "tt" THEN TurntableLook(b) ELSE FrameLook(b, w.device)

ASSUME WiresAssumption ==
    \A w \in Wires :
        /\ w \in Wire
        /\ w.reader = "aa" => w.order \in {"auto", w.device}
        /\ End(w, Len(w.items)) = Len(w.bytes)
        /\ \A j, k \in 0..Len(w.items) : j < k => End(w, j) < End(w, k)
        /\ \A k \in Items(w) : /\ (Kind(w, k) \in {"frame", "noise"}) \/ w.reader = "fm"
                               /\ Kind(w, k) = "frame" => w.reader # "fm"
                               /\ Looks(w, Kind(w, k), Item(w, k))

VARIABLES
    wire,      \* the wire being read
    pos,       \* bytes of it received
    buffer,    \* buffer_, serialBuffer_
    loop,      \* "idle", in the "outer" loop, in consume"legacy", consume"mirror", in a "spin"
    entered,   \* size of the buffer when the inner loop was entered
    got,       \* the frames handed to the parser
    arrived,   \* history: the frames received whole
    orderly    \* history: no read so far met one of the known weaknesses
readerVars == <<wire, pos, buffer, loop, entered, got, arrived, orderly>>

(* The reads the readers are known not to survive: for fm, anything behind *)
(* a legacy or 55AA frame that is not of its kind, a lone 0x55 behind a    *)
(* 55AA frame, and a legacy frame of command E7, whose first two bytes are *)
(* those of an IAP frame; for the others, a read that ends with the lone   *)
(* 0x55 of a header.                                                       *)
Batch(w, from, to) == {k \in Items(w) : End(w, k) > from /\ End(w, k - 1) < to}
Survives(w, from, to) ==
    IF w.reader = "fm"
    THEN \A k \in Batch(w, from, to) :
            /\ ~(Kind(w, k) = "legacy" /\ IapLead(Item(w, k)))
            /\ \A j \in Batch(w, from, to) :
                  j < k => \/ Kind(w, j) \notin {"legacy", "mirror", "damaged"}
                           \/ /\ Kind(w, j) = Kind(w, k)
                              /\ Kind(w, j) = "mirror" => to # End(w, k - 1) + 1
    ELSE \A k \in Items(w) : IsFrame(w, k) => to # End(w, k - 1) + 1

(* resolveFrameLength prefers the little-endian reading, and a length in   *)
(* the other order may be plausible that way round, too: all up to 16 are. *)
Misguessed(w) ==
    /\ w.order = "auto" /\ w.device = "big"
    /\ \E k \in Items(w) :
           LET le == LittleEndian(Item(w, k), 3)
           IN  Kind(w, k) = "frame" /\ Plausible(le) /\ le # Len(Item(w, k)) - 5

(* ------------------------------- actions ------------------------------- *)

ReaderInit ==
    /\ wire \in Wires
    /\ pos = 0 /\ buffer = <<>> /\ loop = "idle" /\ entered = 0
    /\ got = <<>> /\ arrived = {}
    /\ orderly = ~Misguessed(wire)

(* readyRead: some of the bytes that are on their way *)
Read ==
    /\ loop = "idle"
    /\ pos' \in (pos + 1)..Len(wire.bytes)
    /\ buffer' = buffer \o Piece(wire, pos, pos')
    /\ arrived' = arrived \cup {k \in Items(wire) :
                             IsFrame(wire, k) /\ pos < End(wire, k) /\ End(wire, k) <= pos'}
    /\ orderly' = (orderly /\ Survives(wire, pos - Len(buffer), pos'))
    /\ loop' = "outer"
    /\ UNCHANGED <<wire, entered, got>>

(* The link goes down inside an item and comes up again: the rest of the   *)
(* item is lost.  Connecting clears the buffer, the turntable's stays.     *)
Relink ==
    /\ loop = "idle"
    /\ \E k \in Items(wire) : Cuts(wire, pos, k) /\ pos' = End(wire, k)
    /\ IF wire.reader = "tt"
       THEN buffer' = buffer /\ orderly' = (orderly /\ buffer = <<>>)
       ELSE buffer' = <<>> /\ orderly' = orderly
    /\ UNCHANGED <<wire, loop, entered, got, arrived>>

(* One iteration ends: the loop goes on at "to" with the rest of the buffer *)
Goes(to, rest, frames) ==
    /\ loop' = to
    /\ buffer' = rest
    /\ got' = got \o frames
    /\ UNCHANGED <<wire, pos, arrived, orderly>>
In(reader, where) == wire.reader = reader /\ loop = where

(* ------------------------- 55AA and turntable -------------------------- *)

AaIterate ==
    LET c == FromHeader(buffer)
        n == 5 + FrameLength(c, wire.order)
    IN /\ In("aa", "outer")
       /\ entered' = entered
       /\ IF Len(c) < 5 \/ (n > 5 /\ Len(c) < n) THEN Goes("idle", c, <<>>)
          ELSE IF n = 5 THEN Goes("outer", Tail(c), <<>>)
          ELSE Goes("outer", Drop(c, n), IF Sealed(Take(c, n)) THEN <<Take(c, n)>> ELSE <<>>)

TtIterate ==
    LET c == FromHeader(buffer)
        n == 4 + c[3]
    IN /\ In("tt", "outer")
       /\ entered' = entered
       /\ IF Len(c) < 4 THEN Goes("idle", c, <<>>)
          ELSE IF n = 4 THEN Goes("outer", Drop(c, 2), <<>>)
          ELSE IF Len(c) < n THEN Goes("idle", c, <<>>)
          ELSE Goes("outer", Drop(c, n), IF TurntableSealed(Take(c, n)) THEN <<Take(c, n)>> ELSE <<>>)

(* ----------------------------- fast mirror ----------------------------- *)

AckLead(b) == b[1] = 126 /\ ~IapLead(b) /\ AckPrefix(b)
StatusLead(b) == Len(b) >= 2 /\ b[1] = 85 /\ b[2] # 170

FmEmpty == In("fm", "outer") /\ buffer = <<>> /\ entered' = entered /\ Goes("idle", <<>>, <<>>)

(* tryConsumeIapFrame *)
FmIap ==
    /\ In("fm", "outer") /\ IapLead(buffer)
    /\ entered' = entered
    /\ LET b == buffer
           n == 6 + LittleEndian(b, 3)
       IN IF Len(b) < 8 THEN Goes("idle", b, <<>>)
          ELSE IF n < 10 \/ n > 4102 THEN Goes("outer", Tail(b), <<>>)
          ELSE IF Len(b) < n THEN Goes("idle", b, <<>>)
          ELSE Goes("outer", Drop(b, n),
                    IF Sum16(Take(b, n - 2)) = LittleEndian(b, n - 1) THEN <<Take(b, n)>> ELSE <<>>)

(* A frame of fixed size in front: wait for all of it, then take it *)
FmTake(n) ==
    /\ entered' = entered
    /\ IF Len(buffer) < n THEN Goes("idle", buffer, <<>>)
       ELSE Goes("outer", Drop(buffer, n), <<Take(buffer, n)>>)
FmAck == In("fm", "outer") /\ buffer # <<>> /\ AckLead(buffer) /\ FmTake(13)
FmStatus == In("fm", "outer") /\ buffer # <<>> /\ StatusLead(buffer) /\ FmTake(19)

(* The calls of consumeLegacy and consume55AA, a lone 0x55, anything else *)
FmEnter ==
    /\ In("fm", "outer") /\ buffer # <<>>
    /\ ~IapLead(buffer) /\ ~AckLead(buffer) /\ ~StatusLead(buffer)
    /\ entered' = Len(buffer)
    /\ IF buffer[1] = 126 THEN Goes("legacy", buffer, <<>>)
       ELSE IF HasHeader(buffer) THEN Goes("mirror", buffer, <<>>)
       ELSE IF buffer = <<85>> THEN Goes("idle", buffer, <<>>)
       ELSE Goes("outer", Tail(buffer), <<>>)

(* An inner loop returns: unless a header is in front one byte is dropped, *)
(* and the outer loop goes on.  With nothing consumed since it was entered *)
(* the outer loop meets the same buffer again, for ever.                   *)
Returns(b) ==
    LET rest == IF b # <<>> /\ b[1] # 126 /\ ~HasHeader(b) THEN Tail(b) ELSE b
    IN Goes(IF Len(rest) = entered THEN "spin" ELSE "outer", rest, <<>>)

(* consumeLegacy *)
FmLegacy ==
    LET b == buffer
        param == Len(b) >= 2 /\ b[2] \in ParamCommands
        n == IF param THEN 5 + LittleEndian(b, 3) ELSE LegacyLength(b[2], wire.bits)
    IN /\ In("fm", "legacy")
       /\ entered' = entered
       /\ IF Len(b) < 2 \/ b[1] # 126 \/ (param /\ Len(b) < 4) THEN Returns(b)
          ELSE IF param /\ (n < 9 \/ n > 8192) THEN Goes("legacy", Tail(b), <<>>)
          ELSE IF Len(b) < n THEN Returns(b)
          ELSE IF ~Sealed(Take(b, n)) THEN Goes("legacy", Tail(b), <<>>)
          ELSE Goes("legacy", Drop(b, n), <<Take(b, n)>>)

(* consume55AA.  The second checksum it tries compares the same byte as    *)
(* the first, so it never succeeds; but it asks for one more byte.         *)
FmMirror ==
    LET c == FromHeader(buffer)
        length == LittleEndian(c, 3)
        n == 5 + length
    IN /\ In("fm", "mirror")
       /\ entered' = entered
       /\ IF c = <<>> THEN Returns(buffer)
          ELSE IF Len(c) < 4 THEN Returns(c)
          ELSE IF length = 0 \/ length > 256 THEN Goes("mirror", Tail(c), <<>>)
          ELSE IF Len(c) < n THEN Returns(c)
          ELSE IF Sealed(Take(c, n)) THEN Goes("mirror", Drop(c, n), <<Take(c, n)>>)
          ELSE IF Len(c) = n THEN Returns(c)
          ELSE Goes("mirror", Tail(c), <<>>)

ReaderNext ==
    \/ Read \/ Relink
    \/ AaIterate \/ TtIterate
    \/ FmEmpty \/ FmIap \/ FmAck \/ FmStatus \/ FmEnter \/ FmLegacy \/ FmMirror
ReaderSpec == ReaderInit /\ [][ReaderNext]_readerVars

(* ----------------------------- properties ------------------------------ *)

(* the buffer ends inside a frame only an inner loop waits for *)
Stuck ==
    /\ wire.reader = "fm" /\ buffer # <<>>
    /\ \E k \in Items(wire) :
          \/ /\ Kind(wire, k) \in {"legacy", "mirror", "damaged"}
             /\ End(wire, k - 1) + 2 <= pos /\ pos < End(wire, k)
             /\ ~AckPrefix(Piece(wire, End(wire, k - 1), pos))
          \/ Kind(wire, k) = "damaged" /\ pos = End(wire, k)

(* out is these items of w, each once and in order *)
Handed(w, out, these) ==
    \E nth \in [1..Len(out) -> these] :
        /\ \A i, j \in 1..Len(out) : i < j => nth[i] < nth[j]
        /\ \A k \in these : \E i \in 1..Len(out) : nth[i] = k
        /\ \A i \in 1..Len(out) : out[i] = Item(w, nth[i])

(* Where the operating system cuts the stream makes no difference: at rest *)
(* exactly the frames received whole have been handed over, in order and   *)
(* once -- and the fast mirror's reader never comes to rest when a read    *)
(* ends inside a legacy or 55AA frame or behind a 55AA frame with a wrong  *)
(* sum: its outer loop then spins on the main thread.  Exempt are the      *)
(* streams in which a read met a weakness that Survives names.             *)
ReadsAreExact ==
    orderly /\ loop \in {"idle", "spin"} =>
        /\ Handed(wire, got, arrived)
        /\ (loop = "spin") = Stuck

=============================================================================
