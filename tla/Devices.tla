------------------------------ MODULE Devices ------------------------------
(***************************************************************************)
(* DevFS and the drivers behind it: the table of drivers                   *)
(* (CommonCode/fs_devfs2.c), the PCI bus with its nodes and ports          *)
(* (CommonCode/drv_pci.c), and the nodes of the IDE, floppy, terminal,     *)
(* VESA, mouse and NE2000 drivers.                                         *)
(*                                                                         *)
(* A node is a tuple that says where it lives.  Ports are counted in units *)
(* of the smallest range a card decodes.                                   *)
(***************************************************************************)
EXTENDS Integers, Sequences, FiniteSets, SequencesExt, FiniteSetsExt

CONSTANTS
    Disks,          \* the disks that answer, in order
    Tables,         \* partition tables a disk may have: sets of places in 1 .. 4
    Floppies,       \* the floppy drives the CMOS knows
    Terminals,      \* the names of the terminals
    Bus,            \* functions on the PCI bus: [bus, slot, fcn, many, kind]
    Decodes,        \* Decodes[kind]: how many ports such a card decodes, and aligns to
    Wants,          \* Wants[kind]: how many its driver asks for
    Ports,          \* the I/O ports, 0 ..
    Reserved,       \* MAX_RESERVED_PORT
    MaxDrivers,     \* MAX_DRIVERS
    Loadable,       \* names of drivers that are loaded as modules
    Unloads,        \* those that go from the table when they are unloaded
    None

ASSUME DevicesConstants ==
    /\ Range(Disks) \subseteq 0 .. 3 /\ Tables \subseteq SUBSET (1 .. 4)
    /\ Floppies \subseteq {"0", "1"}
    /\ \A f \in Bus : f.fcn \in 0 .. 7 /\ f.kind \in DOMAIN Decodes \cup {"bridge", "other"}
    /\ MaxDrivers \in Nat \ {0}

VARIABLES
    parts,          \* parts[d]: the partitions of disk d in use, in 1 .. 4
    drivers,        \* devfs_drivers
    impl,           \* impl[n]: rootNode.impl of driver n
    cache,          \* inode_cache: the nodes on it, first the head
    ports           \* what the cards were assigned, and gaPCI_PortBitmap

deviceVars == <<parts, drivers, impl, cache, ports>>

Builtin == {"ide", "vterm", "pci", "vesa", "ps2mouse", "ne2000"}
DriverNames == Builtin \cup Loadable
DriverIds == 0 .. MaxDrivers - 1
-----------------------------------------------------------------------------
(* The PCI bus                                                             *)

(* PCI_Install() asks ten slots of a bus, and the functions of a slot if   *)
(* there is no first one, or it says there are more; and as many buses as  *)
(* it has met bridges.                                                     *)
Answers(f) ==
    /\ f.slot < 10
    /\ f.fcn # 0 => \A g \in Bus : g.bus = f.bus /\ g.slot = f.slot /\ g.fcn = 0 => g.many

BridgesBelow(b) == Cardinality({f \in Bus : f.bus < b /\ Answers(f) /\ f.kind = "bridge"})
IsScanned(b) == \A c \in 1 .. b : c <= BridgesBelow(c)

Earlier(f, g) ==
    \/ f.bus < g.bus
    \/ f.bus = g.bus /\ f.slot < g.slot
    \/ f.bus = g.bus /\ f.slot = g.slot /\ f.fcn < g.fcn

PciDevices == SetToSortSeq({f \in Bus : Answers(f) /\ IsScanned(f.bus)}, Earlier)
PciIds == 0 .. Len(PciDevices) - 1
Device(i) == PciDevices[i + 1]

(* PCI_CountDevices() and PCI_GetDevice(), for Ne2k_Install(): the cards.  *)
Cards == SelectSeq([k \in 1 .. Len(PciDevices) |-> k - 1], LAMBDA i : Device(i).kind = "ne2000" /\ Device(i).fcn = 0)

(* PCI_AssignPort(): the first range that is not marked; the port 0 means  *)
(* there was none.  Of the range only the first port is marked.            *)
Range0(from, n) == from .. from + n - 1
FreeAt(marked, i) ==
    {from \in Ports : from % Decodes[Device(i).kind] = 0 /\ Range0(from, Wants[Device(i).kind]) \cap marked = {}}

Base(marked, i) == IF FreeAt(marked, i) = {} THEN 0 ELSE Min(FreeAt(marked, i))

NoMark(s, from) == s.marked
Marked(s, from) == IF from = 0 THEN s.marked ELSE s.marked \cup {from}

AssignPort(s, i) ==
    LET from == Base(s.marked, i)
    IN  [marked |-> Marked(s, from), at |-> [s.at EXCEPT ![i] = from]]

NoPorts == [marked |-> 0 .. Reserved - 1, at |-> [i \in PciIds |-> 0]]
-----------------------------------------------------------------------------
(* Nodes of drivers                                                        *)

Letter(d) == <<"A", "B", "C", "D">>[d + 1]
Small(d) == <<"a", "b", "c", "d">>[d + 1]
Digit(k) == <<"1", "2", "3", "4">>[k]
CardName(k) == <<"0", "1", "2", "3">>[k]

(* hdd_installFS(): a disk, and as many partitions as it has, numbered on, *)
(* whichever places of the table they are in.                              *)
IdeNames(d) == <<Letter(d)>> \o [k \in 1 .. Cardinality(parts[d]) |-> Letter(d) \o Digit(k)]

(* A driver's directory, by position, with None an empty place; <<>> for a *)
(* driver that is a file.                                                  *)
Names(n) ==
    CASE n = "ide" -> FlattenSeq([k \in DOMAIN Disks |-> IdeNames(Disks[k])])
      [] n = "fdd" -> [k \in 1 .. 2 |-> IF CardName(k) \in Floppies THEN CardName(k) ELSE None]
      [] n = "vterm" -> Terminals
      [] n = "ne2000" -> [k \in 1 .. Len(Cards) |-> CardName(k)]
      [] OTHER -> <<>>

Driver(n) == <<"driver", n>>
Node(n, name) == <<"node", n, name>>
Pci(i) == <<"pci", i>>

IsDirectory(n) == n \in {"ide", "fdd", "vterm", "pci", "ne2000"}

(* node->impl: the nodes of disks and floppies have their driver's, the    *)
(* others were zeroed.                                                     *)
Impl(node) ==
    CASE node[1] = "driver" -> impl[node[2]]
      [] node[1] = "node" /\ node[2] \in {"ide", "fdd"} -> impl[node[2]]
      [] OTHER -> 0

(* devfs_ioctl()                                                           *)
IoctlGoesTo(node) == IF Impl(node) \in DriverIds THEN drivers[Impl(node)] ELSE None
HasImpl(node) ==
    \/ node[1] = "driver"
    \/ node[1] = "node" /\ node[2] \in {"ide", "fdd"}

(* node->mode: what the owner, the group and others may do.                *)
DeviceMode(node) ==
    CASE node = Driver("vterm") -> <<7, 7, 1>>
      [] node \in {Driver("vesa"), Driver("bochsvbe")} -> <<6, 6, 4>>
      [] node = Driver("ps2mouse") -> <<4, 4, 4>>
      [] node[1] = "driver" -> <<1, 1, 1>>
      [] node[1] = "pci" -> <<6, 4, 4>>
      [] node[2] = "ide" -> <<6, 6, 4>>
      [] node[2] = "fdd" -> <<1, 1, 1>>
      [] OTHER -> <<6, 6, 6>>
-----------------------------------------------------------------------------
(* Nodes of the PCI bus, in the inode cache: named means their name has    *)
(* not been freed.  One node of a file (OtherNode) stands for what file    *)
(* systems have there.                                                     *)

OtherNode == -1

At(s, i) == {k \in DOMAIN s : s[k].id = i}

(* PCI_ReadDirRoot()                                                       *)
WithPci(s, i) == IF At(s, i) # {} THEN s ELSE <<[id |-> i, named |-> TRUE]>> \o s

(* PCI_CloseDevice(): "0 < inode" lets only the first device pass, whose   *)
(* name is freed, and its node, unless it is the head of the list.         *)
Passes(i) == i = 0

FreeName(s, i) == [k \in DOMAIN s |-> IF s[k].id = i THEN [s[k] EXCEPT !.named = FALSE] ELSE s[k]]
Closed(s, i) ==
    IF ~ Passes(i) THEN s
    ELSE IF At(s, i) = {1} THEN FreeName(s, i)
    ELSE SelectSeq(s, LAMBDA e : e.id # i)

IsHead(s, i) == s # <<>> /\ s[1].id = i
-----------------------------------------------------------------------------
(* Drivers                                                                 *)

FreeIds == {k \in DriverIds : drivers[k] = None}

(* dev_addDevice(), and impl from it                                       *)
AddDevice(n) ==
    IF FreeIds = {} THEN drivers' = drivers /\ impl' = [impl EXCEPT ![n] = -1]
    ELSE /\ drivers' = [drivers EXCEPT ![Min(FreeIds)] = n]
         /\ impl' = [impl EXCEPT ![n] = Min(FreeIds)]

(* A driver is installed at boot or loaded: Ne2k_Install() finds ports for *)
(* its cards.                                                              *)
Install(n) ==
    /\ AddDevice(n)
    /\ ports' = IF n = "ne2000" THEN FoldLeft(AssignPort, ports, Cards) ELSE ports
    /\ UNCHANGED <<parts, cache>>

(* dev_delDevice()                                                         *)
DelDevice(k) ==
    /\ drivers' = [drivers EXCEPT ![k] = None]
    /\ UNCHANGED <<parts, impl, cache, ports>>

(* Static data is zero.                                                    *)
DevicesInit ==
    /\ parts \in [Range(Disks) -> Tables]
    /\ drivers = [k \in DriverIds |-> None]
    /\ impl = [n \in DriverNames |-> 0]
    /\ cache = <<>>
    /\ ports = NoPorts

DevicesTypeOK ==
    /\ parts \in [Range(Disks) -> Tables]
    /\ drivers \in [DriverIds -> DriverNames \cup {None}]
    /\ impl \in [DriverNames -> DriverIds \cup {-1}]
    /\ \A k \in DOMAIN cache : cache[k].id \in PciIds \cup {OtherNode}
    /\ \A k, l \in DOMAIN cache : k # l => cache[k].id # cache[l].id
    /\ ports.marked \subseteq Ports

(* The ports of a card are nobody else's, nor the machine's own.           *)
PortsOf(i) == IF ports.at[i] = 0 THEN {} ELSE Range0(ports.at[i], Decodes[Device(i).kind])
PortsApart ==
    \A i, j \in PciIds :
        PortsOf(i) \cap 0 .. Reserved - 1 = {} /\ (i # j => PortsOf(i) \cap PortsOf(j) = {})
============================================================================
