------------------------------ MODULE TurntableLink ------------------------------
(***************************************************************************)
(* The link to the turntable: a serial port or a UDP socket, the address   *)
(* the commands go to, and the counter that numbers them.  A frame is its  *)
(* counter; command, angles and reserved bytes are left out.  The frames   *)
(* that come in are in FrameReaders, all but the sender of a datagram,     *)
(* which is here.  Everything runs on the main thread.                     *)
(***************************************************************************)
EXTENDS Naturals, Sequences

CONSTANTS Hosts,      \* addresses that parse
          RawCounters,\* counters in the frames a user types in
          MaxOut      \* bound on the frames of a connection
ASSUME TurntableAssumption == RawCounters \subseteq 0..255 /\ MaxOut \in Nat

Null == "null"        \* QHostAddress()
ASSUME NullAssumption == Null \notin Hosts

VARIABLES
    linkType,   \* linkType_
    remote,     \* remoteAddress_
    txCounter,  \* txCounter_
    named,      \* history: the address the user gave, Null if it does not parse
    first,      \* history: the first sender of this connection
    out         \* history: the frames of this connection that were put on the
                \* line or may have been, with their destination and outcome
turntableVars == <<linkType, remote, txCounter, named, first, out>>

TurntableInit ==
    /\ linkType = "none" /\ remote = Null /\ txCounter = 0
    /\ named = Null /\ first = Null /\ out = <<>>

TtDisconnect ==
    /\ linkType' = "none" /\ remote' = Null
    /\ named' = Null /\ first' = Null /\ out' = <<>>
    /\ UNCHANGED txCounter

\* What was open is closed first, also when the new connection fails.
TtConnectSerial ==
    /\ linkType' = "serial" /\ remote' = Null
    /\ named' = Null /\ first' = Null /\ out' = <<>>
    /\ UNCHANGED txCounter
TtConnectUdp(host) ==
    /\ linkType' = "udp" /\ remote' = host
    /\ named' = host /\ first' = Null /\ out' = <<>>
    /\ UNCHANGED txCounter

\* Mutant: whoever sent last is answered.
LastSender(sender) == sender
Addressee(sender) == IF remote = Null THEN sender ELSE remote

Datagram(sender) ==
    /\ linkType = "udp"
    /\ remote' = Addressee(sender)
    /\ first' = IF first = Null THEN sender ELSE first
    /\ UNCHANGED <<linkType, txCounter, named, out>>

\* sendFrame.  On the serial port a frame that is not out within 500 ms has
\* failed and may go out all the same.
SendFrame(counter, raw, ok) ==
    /\ linkType = "serial" \/ (linkType = "udp" /\ remote # Null)
    /\ Len(out) < MaxOut
    /\ out' = Append(out, [counter |-> counter, raw |-> raw, ok |-> ok, to |-> remote])
    /\ txCounter' = IF ok THEN counter ELSE txCounter
    /\ UNCHANGED <<linkType, remote, named, first>>

\* turntable.send.stop, -enable and -command
SendTurntable(ok) == SendFrame((txCounter + 1) % 256, FALSE, ok)
\* send.raw.hex: the frame is taken as it is and its counter becomes the last.
SendRaw(counter, ok) == SendFrame(counter, TRUE, ok)

TurntableNext ==
    \/ TtDisconnect \/ TtConnectSerial
    \/ \E host \in Hosts \cup {Null} : TtConnectUdp(host)
    \/ \E sender \in Hosts : Datagram(sender)
    \/ \E ok \in BOOLEAN :
        \/ SendTurntable(ok)
        \/ \E counter \in RawCounters : SendRaw(counter, ok)
TurntableSpec == TurntableInit /\ [][TurntableNext]_turntableVars

-----------------------------------------------------------------------------
(* All frames of a connection go to one device: the one that was named, or *)
(* the first that sent anything when the name was no address.  And the     *)
(* device can tell them apart: each carries the next counter, unless the   *)
(* one before was typed in, or was reported as failed -- then it went out  *)
(* or not, and the next carries the same counter.                          *)
OneDeviceInOrder ==
    /\ \A i \in DOMAIN out :
           out[i].to = (IF named # Null \/ linkType = "serial" THEN named ELSE first)
    /\ \A i \in 1..(Len(out) - 1) :
           LET this == out[i]
               next == out[i + 1]
           IN  \/ next.raw
               \/ next.counter = (this.counter + 1) % 256
               \/ ~this.ok /\ (this.raw \/ next.counter = this.counter)
=============================================================================
