---------------------------- MODULE MCDeviceBridges ----------------------------
(***************************************************************************)
(* The parts of the device bridges, one at a time: "unit" says which, the  *)
(* variables of the others keep one of their initial values.  They share   *)
(* nothing but the main thread, and each step of theirs is one event.      *)
(***************************************************************************)
EXTENDS FrameReaders, MirrorUpgrade, MirrorAging, SensorSettings, TurntableLink

(* Wires: all pairs of the things a device sends, in each configuration.   *)
Seal(b) == Append(b, Sum8(b))
Zeros(n) == [i \in 1..n |-> 0]
Little(n) == <<n % 256, n \div 256>>
Big(n) == <<n \div 256, n % 256>>
Sent(kind, bytes) == [kind |-> kind, bytes |-> bytes]

Noise == Sent("noise", <<0>>)
Header == <<85, 170>>
Mirror == Seal(Header \o Little(12) \o <<2>> \o Zeros(11))
IapBody == <<126, 231>> \o Little(5) \o <<48, 100>> \o Little(259) \o <<0>>
MirrorItems == {
    Sent("legacy", Seal(<<126, 183>> \o Zeros(13))),
    Sent("legacy", Seal(<<126, 204, 0, 0, 0, 0>>)),
    Sent("legacy", Seal(<<126, 170, 6, 0, 1, 2, 0, 0, 0, 0>>)),
    Sent("mirror", Mirror),
    Sent("damaged", Append(Front(Mirror), 0)),
    Sent("iap", IapBody \o Little(Sum16(IapBody))),
    Sent("ack", UpgradeAck),
    Sent("status", <<85, 1, 0, 0, 0, 34>> \o Zeros(13)),
    Noise}
SystemEamItem(n) == Sent("legacy", Seal(<<126, 231>> \o Zeros(n)))
WideItems == {Noise, SystemEamItem(17), Sent("legacy", Seal(<<126, 179>> \o Zeros(17)))}
LittleItems == {Noise} \cup
    {Sent("frame", Seal(Header \o Little(Len(p)) \o p)) : p \in {<<243, 85, 170, 1>>, <<244, 1>>}}
BigItems ==
    {Sent("frame", Seal(Header \o Big(Len(p)) \o p)) : p \in {<<243>> \o Zeros(16), <<244, 1>>}}
TurntableItems == {Noise} \cup
    {Sent("frame", Seal(Header \o p)) : p \in {<<4, 17, 1, 2, 3>>, <<5, 17, 85, 170, 3, 1>>}}
WiresOf(reader, bits, orders, device, items) ==
    {[reader |-> reader, order |-> o, device |-> device, bits |-> bits, bytes |-> i.bytes \o j.bytes,
      items |-> <<[kind |-> i.kind, end |-> Len(i.bytes)],
                  [kind |-> j.kind, end |-> Len(i.bytes) + Len(j.bytes)]>>] :
        o \in orders, i, j \in items}
MCWires ==
    WiresOf("fm", 16, {"little"}, "little", MirrorItems \cup {SystemEamItem(13)})
    \cup WiresOf("fm", 32, {"little"}, "little", WideItems)
    \cup WiresOf("aa", 16, {"little", "auto"}, "little", LittleItems)
    \cup WiresOf("aa", 16, {"big", "auto"}, "big", BigItems)
    \cup WiresOf("tt", 16, {"little"}, "little", TurntableItems)

(* Requests: values of one and of several bytes, lists of every permitted  *)
(* and of a forbidden length, and the numbers the special cases are about. *)
Ask(as, values) == [as |-> as, values |-> values]
MCRequests ==
    [serial     |-> {Ask("list", v) : v \in {<<16909060>>, <<7>>}},
     ips        |-> {Ask("list", v) : v \in {<<1, 258, 3, 4, 5, 6, 7, 8>>, <<1, 2>>,
                                             <<70000, 2, 3, 4, 5, 6, 7, 8>>}},
     range      |-> {Ask("list", v) : v \in {<<1, 33619968>>, <<1, 2, 3>>}},
     fit        |-> {Ask("list", v) : v \in {<<5, 6>>, <<5>>, <<1, 2, 3>>}},
     resolution |-> {Ask("pair", v) : v \in {<<24, 17>>, <<40, 17>>, <<300, 24>>}}
                    \cup {Ask("plain", <<n>>) : n \in {20, 64, 4113, 70000}}
                    \cup {Ask("u16", <<64>>)},
     protocol   |-> {Ask("plain", <<n>>) : n \in {1, 2, 300}} \cup {Ask("u16", <<1>>)}]

VARIABLE unit
vars == <<unit, readerVars, upgradeVars, agingVars, settingVars, turntableVars>>

MCInit ==
    /\ unit \in {"reader", "upgrade", "aging", "settings", "turntable"}
    /\ ReaderInit /\ (unit # "reader" => wire = CHOOSE w \in Wires : TRUE)
    /\ UpgradeInit
    /\ AgingInit /\ (unit # "aging" => table = 0)
    /\ SettingInit /\ (unit # "settings" => setting = "serial")
    /\ TurntableInit

MCNext ==
    /\ unit' = unit
    /\ \/ /\ unit = "reader" /\ ReaderNext
          /\ UNCHANGED <<upgradeVars, agingVars, settingVars, turntableVars>>
       \/ /\ unit = "upgrade" /\ UpgradeNext
          /\ UNCHANGED <<readerVars, agingVars, settingVars, turntableVars>>
       \/ /\ unit = "aging" /\ AgingNext
          /\ UNCHANGED <<readerVars, upgradeVars, settingVars, turntableVars>>
       \/ /\ unit = "settings" /\ SettingNext
          /\ UNCHANGED <<readerVars, upgradeVars, agingVars, turntableVars>>
       \/ /\ unit = "turntable" /\ TurntableNext
          /\ UNCHANGED <<readerVars, upgradeVars, agingVars, settingVars>>
MCSpec == MCInit /\ [][MCNext]_vars
=============================================================================
