----------------------------- MODULE Namespace -----------------------------
(***************************************************************************)
(* The tree of names: mounts and paths (CommonCode/vfs.c), RootFS          *)
(* (CommonCode/fs_internal.c) and DevFS with its drivers (module Devices), *)
(* from the boot on.  A path is the sequence of the names in it, and a FAT *)
(* volume a directory of a few files: how it is read is in module Fat.     *)
(*                                                                         *)
(* A call of the VFS is one step; what processes do to each other inside   *)
(* vfs_open() is in module Files.                                          *)
(***************************************************************************)
EXTENDS Devices

CONSTANTS
    Users,          \* whose the handles are: [uid, gid] of each
    Modes,          \* what for: sets of "r", "w" and "x"
    Paths,          \* the paths that are looked at
    Opened,         \* what each opens: [at, mode]
    Asked,          \* the paths whose true path is asked
    FatDevices,     \* devices with a FAT volume
    FatFiles,       \* the names of the files on one
    Later,          \* calls of vfs_mknod() and vfs_mount() after the boot
    MaxRoot,        \* MAX_ROOT
    ChildStep,      \* CHILD_ARR_STEP
    MaxMounts,      \* MAX_MOUNTS, which the kernel panics at
    Alike,          \* pairs of a path and a mount point whose first characters that differ are 47 apart
    Before          \* what is in memory where mounts[-1].mountPointLen would be

VARIABLES
    step,           \* calls the boot has made
    mounts,         \* mounts
    files,          \* rootfs2Files: inode i is files[i + 1], and 0 among its children a free place
    fats,           \* fat_disks: the device of each volume
    handle,         \* open handles
    tree            \* history: what each path leads to

treeVars == <<step, mounts, files, fats, tree>>
Handles == DOMAIN Users
vars == <<deviceVars, treeVars, handle>>
-----------------------------------------------------------------------------
(* Nodes                                                                   *)

Root(i) == <<"root", i>>
DevRoot == <<"devfs">>
Volume(k) == <<"fat", k>>
File(k, name) == <<"file", k, name>>

IsDir(node) ==
    \/ node[1] \in {"root", "devfs", "fat"}
    \/ node[1] = "driver" /\ IsDirectory(node[2])

(* readdir by position, where None is NULLNode: an empty place.            *)
Named(n) == [k \in DOMAIN Names(n) |-> IF Names(n)[k] = None THEN None ELSE Node(n, Names(n)[k])]

Entries(node) ==
    CASE node[1] = "root" -> [k \in DOMAIN files[node[2] + 1].kids |->
                                 IF files[node[2] + 1].kids[k] = 0 THEN None ELSE Root(files[node[2] + 1].kids[k])]
      [] node[1] = "devfs" -> [k \in 1 .. MaxDrivers |-> IF drivers[k - 1] = None THEN None ELSE Driver(drivers[k - 1])]
      [] node = Driver("pci") -> [k \in 1 .. Len(PciDevices) |-> Pci(k - 1)]
      [] node[1] = "driver" -> Named(node[2])
      [] node[1] = "fat" -> [k \in DOMAIN FatFiles |-> File(node[2], FatFiles[k])]

NameOf(node) ==
    CASE node[1] = "root" -> files[node[2] + 1].name
      [] node[1] = "pci" -> Device(node[2]).name
      [] node[1] = "driver" -> node[2]
      [] OTHER -> node[3]

(* finddir: the first of that name, if any.                                *)
Is(node, name) == node # None /\ NameOf(node) = name
First(nodes, name) == {nodes[k] : k \in {j \in DOMAIN nodes : Is(nodes[j], name) /\ \A i \in 1 .. j - 1 : ~ Is(nodes[i], name)}}
Child(node, name) == IF IsDir(node) THEN UNION {First(e, name) : e \in {Entries(node)}} ELSE {}

(* Where names lead from a node, name by name: one node, or none.          *)
Walk(node, names) ==
    LET reached[k \in 0 .. Len(names)] ==
            IF k = 0 THEN {node} ELSE UNION {Child(n, names[k]) : n \in reached[k - 1]}
    IN  reached[Len(names)]

The(nodes) == IF nodes = {} THEN None ELSE CHOOSE n \in nodes : TRUE

Mode(node) ==
    CASE node[1] = "root" -> <<7, 7, 5>>
      [] node[1] = "devfs" -> <<1, 1, 1>>
      [] node[1] \in {"fat", "file"} -> <<7, 7, 7>>
      [] OTHER -> DeviceMode(node)

(* vfs_checkPerms(): every node here is the superuser's.                   *)
Bit(b) == CASE b = "r" -> 4 [] b = "w" -> 2 [] b = "x" -> 1
Allows(u, node, mode) ==
    \/ u.uid = 0
    \/ \A b \in mode : (Mode(node)[IF u.gid = 0 THEN 2 ELSE 3] \div Bit(b)) % 2 = 1
-----------------------------------------------------------------------------
(* vfs_open()                                                              *)

Above(p, q) == IsPrefix(p, q)
Upto(p, k) == SubSeq(p, 1, k)
From(p, k) == SubSeq(p, k + 1, Len(p))
Kernel == [uid |-> 0, gid |-> 0]

MountsAt(p) == {m \in DOMAIN mounts : mounts[m].at = p}
IsBelow(p, at) == at # <<>> /\ (IsStrictPrefix(at, p) \/ <<p, at>> \in Alike)

(* The first of the longest mount points the path is below; with none yet, *)
(* what is compared with lies before the array.                            *)
Candidates(p) == {m \in DOMAIN mounts : IsBelow(p, mounts[m].at) /\ Len(mounts[m].at) > Before}
FirstBelow(p) == Min(Candidates(p) \cup {m \in {1} : Candidates(p) = {}})
MountOf(p) ==
    LET all == Candidates(p)
    IN  IF all = {} THEN 1
        ELSE Min({m \in all : \A n \in all : Len(mounts[n].at) <= Len(mounts[m].at)})

(* With a mount point that is not above it the rest of the path means      *)
(* nothing.                                                                *)
Rest(p, m) == IF Above(mounts[m].at, p) THEN From(p, Len(mounts[m].at)) ELSE <<None>>

(* Every directory on the way must let the user through.                   *)
Through(p, u) ==
    LET m == MountOf(p)
        rest == Rest(p, m)
    IN  \A k \in 0 .. Len(rest) - 1 :
            \A n \in Walk(mounts[m].root, Upto(rest, k)) : Allows(u, n, {"x"})

(* What is found, what mount it is in.                                     *)
Lookup(p, u) ==
    IF MountsAt(p) # {} THEN [mount |-> Min(MountsAt(p)), node |-> mounts[Min(MountsAt(p))].root]
    ELSE [mount |-> MountOf(p),
          node |-> IF Through(p, u) THEN The(Walk(mounts[MountOf(p)].root, Rest(p, MountOf(p)))) ELSE None]

(* VFS_GetTruePath(): as far as directories lead.                          *)
TruePath(p) ==
    LET m == MountOf(p)
        rest == Rest(p, m)
        node(k) == Walk(mounts[m].root, Upto(rest, k))
        stops == {k \in 0 .. Len(rest) : \A n \in node(k) : ~ IsDir(n)} \cup {Len(rest)}
    IN  IF MountsAt(p) # {} THEN p
        ELSE IF node(Min(stops)) = {} THEN None
        ELSE mounts[m].at \o Upto(rest, Min(stops))

(* Found on the PCI bus, a node is in the cache.                           *)
Cached(node) == IF node # None /\ node[1] = "pci" THEN WithPci(cache, node[2]) ELSE cache

Free == [node |-> None, mount |-> 0, mode |-> {}, pos |-> 0, seen |-> <<>>, due |-> {}]

Children(node) == IF IsDir(node) THEN {n \in Range(Entries(node)) : n # None} ELSE {}
Booted == step[1] = step[2]

(* The root of a mount is put into the handle before permission is asked.  *)
Open(h, p, mode) ==
    LET u == Users[h]
        found == Lookup(p, u)
        mine == [node |-> found.node, mount |-> found.mount, mode |-> mode, pos |-> 0,
                 seen |-> <<>>, due |-> Children(found.node)]
    IN  /\ Booted
        /\ handle[h] = Free
        /\ found.node # None
        /\ cache' = Cached(found.node)
        /\ handle' = IF MountsAt(p) # {} \/ Allows(u, found.node, mode) THEN [handle EXCEPT ![h] = mine] ELSE handle
        /\ UNCHANGED <<parts, drivers, impl, ports, treeVars>>

(* The loader asks for the true path.                                      *)
AskTruePath(p) ==
    /\ Booted
    /\ TruePath(p) # None
    /\ cache' = Cached(Lookup(p, Kernel).node)
    /\ UNCHANGED <<parts, drivers, impl, ports, treeVars, handle>>

(* A file of a volume is opened, or closed.                                *)
UseFile ==
    /\ Booted
    /\ fats # <<>>
    /\ cache' = IF At(cache, OtherNode) = {} THEN <<[id |-> OtherNode, named |-> TRUE]>> \o cache
                ELSE IF IsHead(cache, OtherNode) THEN cache
                ELSE SelectSeq(cache, LAMBDA e : e.id # OtherNode)
    /\ UNCHANGED <<parts, drivers, impl, ports, treeVars, handle>>

ClosedNode(node) == IF node # None /\ node[1] = "pci" THEN Closed(cache, node[2]) ELSE cache

Close(h) ==
    /\ handle[h].node # None
    /\ cache' = ClosedNode(handle[h].node)
    /\ handle' = [handle EXCEPT ![h] = Free]
    /\ UNCHANGED <<parts, drivers, impl, ports, treeVars>>

(* vfs_readdir(): the next entry that is there, whose node is closed again.*)
Ahead(h) == {k \in DOMAIN Entries(handle[h].node) : k > handle[h].pos /\ Entries(handle[h].node)[k] # None}

Listed(h, node) == IF node[1] = "pci" THEN Closed(WithPci(cache, node[2]), node[2]) ELSE cache

Readdir(h) ==
    /\ handle[h].node # None
    /\ IsDir(handle[h].node) /\ "x" \in handle[h].mode
    /\ handle[h].node # Driver("ne2000")
    /\ IF Ahead(h) = {}
       THEN /\ handle' = [handle EXCEPT ![h].pos = Len(Entries(handle[h].node))]
            /\ UNCHANGED cache
       ELSE LET k == Min(Ahead(h))
                node == Entries(handle[h].node)[k]
            IN  /\ handle' = [handle EXCEPT ![h].pos = k, ![h].seen = Append(@, node)]
                /\ cache' = Listed(h, node)
    /\ UNCHANGED <<parts, drivers, impl, ports, treeVars>>
-----------------------------------------------------------------------------
(* vfs_mknod() and vfs_mount()                                             *)

(* rootfs_mknod(): the next inode, in the first free place of the          *)
(* directory, which grows by ChildStep places.                             *)
Places(i) == files[i + 1].kids
FreePlaces(i) == {k \in DOMAIN Places(i) : Places(i)[k] = 0}

Grown(i) ==
    IF FreePlaces(i) # {} THEN Places(i)
    ELSE Places(i) \o [k \in 1 .. ChildStep |-> 0]

FirstPlace(i) == 1
Place(i) == IF FreePlaces(i) # {} THEN Min(FreePlaces(i)) ELSE Len(Places(i)) + 1

NeverFull == FALSE
Full == Len(files) = MaxRoot

MakeIn(i, name) ==
    IF Full THEN files
    ELSE Append([files EXCEPT ![i + 1].kids = [Grown(i) EXCEPT ![Place(i)] = Len(files)]],
                [name |-> name, kids |-> <<>>])

(* Only RootFS makes nodes: FAT_Mknod() does not, and DevFS and drivers    *)
(* have no such function, which is called all the same.                    *)
Mknod(p) ==
    LET dir == Lookup(Front(p), Kernel).node
    IN  /\ dir # None => dir[1] \in {"root", "fat"}
        /\ files' = IF dir # None /\ dir[1] = "root" THEN MakeIn(dir[2], Last(p)) ELSE files
        /\ UNCHANGED <<mounts, fats>>

(* The root node a file system gives; FAT's opens the device, and keeps it *)
(* open.                                                                   *)
RootOf(c) ==
    CASE c.fs = "rootfs" -> Root(0)
      [] c.fs = "devfs" -> DevRoot
      [] c.fs = "fat" -> IF Lookup(c.device, Kernel).node \in FatDevices THEN Volume(Len(fats)) ELSE None

Mount(c) ==
    LET root == RootOf(c)
    IN  /\ Len(mounts) < MaxMounts
        /\ mounts' = IF root = None THEN mounts ELSE Append(mounts, [at |-> c.at, fs |-> c.fs, root |-> root])
        /\ fats' = IF c.fs = "fat" /\ root # None THEN Append(fats, Lookup(c.device, Kernel).node) ELSE fats
        /\ files' = IF c.fs = "rootfs" THEN <<[name |-> "", kids |-> [k \in 1 .. ChildStep |-> 0]]>> ELSE files

Does(c) ==
    CASE c.do = "mknod" -> Mknod(c.at) /\ UNCHANGED deviceVars
      [] c.do = "mount" -> Mount(c) /\ UNCHANGED deviceVars
      [] c.do = "driver" -> Install(c.name) /\ UNCHANGED <<mounts, files, fats>>
-----------------------------------------------------------------------------
(* Where a path should lead: from the longest mount point above it, down.  *)
MountPoint(p) == Max({k \in 0 .. Len(p) : MountsAt(Upto(p, k)) # {}})
Reaches(p) ==
    IF mounts = <<>> THEN None
    ELSE The(UNION {Walk(mounts[Min(MountsAt(Upto(p, k)))].root, From(p, k)) : k \in {MountPoint(p)}})

Leads == tree' = [p \in Paths |-> Reaches(p)']
-----------------------------------------------------------------------------
(* The boot                                                                *)

MakeDir(p) == [do |-> "mknod", at |-> p]
MountOn(p, fs, device) == [do |-> "mount", at |-> p, fs |-> fs, device |-> device]
Load(n) == [do |-> "driver", name |-> n]

Core == <<MountOn(<<>>, "rootfs", <<>>), MakeDir(<<"Devices">>), MakeDir(<<"Mount">>), MountOn(<<"Devices">>, "devfs", <<>>)>>

(* setup_disks(): for every partition in use, by its place in the table.   *)
Automount(d, k) ==
    LET at == <<"Mount", "hd" \o Small(d) \o Digit(k)>>
    IN  <<MakeDir(at), MountOn(at, "fat", <<"Devices", "ide", Letter(d) \o Digit(k)>>)>>

Automounts ==
    LET used == SetToSortSeq({<<d, k>> \in Range(Disks) \X (1 .. 4) : k \in parts[d]},
                             LAMBDA x, y : 4 * x[1] + x[2] < 4 * y[1] + y[2])
    IN  FlattenSeq([i \in DOMAIN used |-> Automount(used[i][1], used[i][2])])

(* vfs_install(), setup_disks() and the rest of kmain(); the build leaves  *)
(* the floppy driver to be loaded as a module.                             *)
Script ==
    Core \o <<Load("ide")>> \o Automounts
    \o <<Load("vterm"), Load("pci"), Load("vesa"), Load("ps2mouse"), Load("ne2000")>>

Boot ==
    /\ ~ Booted
    /\ Does(Script[step[1] + 1])
    /\ step' = [step EXCEPT ![1] = @ + 1]
    /\ Leads
    /\ UNCHANGED handle

After(c) ==
    /\ Booted
    /\ Does(c)
    /\ Leads
    /\ UNCHANGED <<step, handle>>

LoadModule(n) ==
    /\ Booted
    /\ n \notin Range(drivers)
    /\ Install(n)
    /\ UNCHANGED <<step, mounts, files, fats, handle>>
    /\ Leads

UnloadModule(k) ==
    /\ Booted
    /\ drivers[k] \in Unloads
    /\ DelDevice(k)
    /\ UNCHANGED <<step, mounts, files, fats, handle>>
    /\ Leads

Init ==
    /\ DevicesInit
    /\ step = <<0, Len(Script)>>
    /\ mounts = <<>>
    /\ files = <<>>
    /\ fats = <<>>
    /\ handle = [h \in Handles |-> Free]
    /\ tree = [p \in Paths |-> None]

Next ==
    \/ Boot
    \/ \E c \in Later : After(c)
    \/ \E n \in Loadable : LoadModule(n)
    \/ \E k \in DriverIds : UnloadModule(k)
    \/ UseFile
    \/ \E p \in Asked : AskTruePath(p)
    \/ \E h \in Handles :
          \/ \E o \in Opened[h] : Open(h, o.at, o.mode)
          \/ Close(h)
          \/ Readdir(h)

Spec == Init /\ [][Next]_vars
(* The cases it handles: the first PCI device's node is closed only where  *)
(* another is above it in the cache and nobody else has it; the root of a  *)
(* mount is opened only by those who may; a driver goes when nobody has    *)
(* one of its nodes or a listing of them all.                              *)
OpenOn(node) == {h \in Handles : handle[h].node = node}
MayClose(i, hs) == ~ Passes(i) \/ (OpenOn(Pci(i)) \subseteq hs /\ ~ IsHead(WithPci(cache, i), i))

QuietOpen(h, p, mode) ==
    /\ MountsAt(p) # {} => Allows(Users[h], Lookup(p, Users[h]).node, mode)
    /\ Open(h, p, mode)

QuietClose(h) == (handle[h].node # None /\ handle[h].node[1] = "pci" => MayClose(handle[h].node[2], {h})) /\ Close(h)

QuietReaddir(h) ==
    /\ handle[h].node = Driver("pci") => \A k \in Ahead(h) : k = 1 => MayClose(0, {})
    /\ Readdir(h)

QuietUnload(k) ==
    /\ \A h \in Handles : handle[h].node \notin {DevRoot, Driver(drivers[k])}
    /\ UnloadModule(k)

QuietNext ==
    \/ Boot
    \/ \E c \in Later : After(c)
    \/ \E n \in Loadable : LoadModule(n)
    \/ \E k \in DriverIds : QuietUnload(k)
    \/ UseFile
    \/ \E p \in Asked : AskTruePath(p)
    \/ \E h \in Handles :
          \/ \E o \in Opened[h] : QuietOpen(h, o.at, o.mode)
          \/ QuietClose(h)
          \/ QuietReaddir(h)

QuietSpec == Init /\ [][QuietNext]_vars
-----------------------------------------------------------------------------
TypeOK ==
    /\ DevicesTypeOK
    /\ step[1] \in 0 .. step[2]
    /\ \A m \in DOMAIN mounts : mounts[m].root = Volume(Len(fats) - 1) \/ mounts[m].root # None
    /\ Len(files) <= MaxRoot
    /\ \A i \in DOMAIN files : Len(files[i].kids) % ChildStep = 0 /\ Range(files[i].kids) \subseteq 0 .. Len(files) - 1
    /\ \A h \in Handles : handle[h].node # None => handle[h].mount \in DOMAIN mounts /\ handle[h].mode \in Modes

(* What a path leads to changes only when something is made, mounted or    *)
(* loaded there or above, and what vfs_open() opens is what its path leads *)
(* to, with permission.                                                    *)
Tree == INSTANCE NameTree WITH
    Nothing <- None,
    NoHandle <- None,
    leads <- tree,
    opened <- [h \in Handles |-> IF handle[h].node = None THEN None
                                 ELSE [node |-> handle[h].node, mode |-> handle[h].mode]]
TreeKept == Tree!Spec

(* Nodes in the cache keep their names as long as they are there, and are  *)
(* there as long as they are open; a call of ioctl reaches the driver whose*)
(* node it is made on, where nodes carry their driver; and cards' ports are*)
(* nobody else's.                                                          *)
OwnerIs(node) == node[2]
DevicesSound ==
    /\ \A k \in DOMAIN cache : cache[k].named
    /\ \A h \in Handles :
          LET node == handle[h].node
          IN  node # None =>
                /\ node[1] = "pci" => At(cache, node[2]) # {}
                /\ HasImpl(node) => IoctlGoesTo(node) = OwnerIs(node)
    /\ PortsApart

(* A directory that is listed to its end has given every node that was in  *)
(* it when it was opened, and none twice; and what VFS_GetTruePath() gives *)
(* for a path that leads somewhere is that path.                           *)
NamesRight ==
    /\ \A h \in Handles :
          handle[h].node # None =>
              /\ IsInjective(handle[h].seen)
              /\ IsDir(handle[h].node) /\ handle[h].node # Driver("ne2000") /\ Ahead(h) = {} => handle[h].due \subseteq Range(handle[h].seen)
    /\ mounts # <<>> /\ (\A h \in Handles : handle[h] = Free) => \A p \in Paths : tree[p] # None => TruePath(p) = p
=============================================================================
