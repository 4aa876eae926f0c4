---------------------------- MODULE MCNamespace ----------------------------
(***************************************************************************)
(* An instance of Namespace for TLC: a disk whose partition table has a   *)
(* gap, one floppy drive, a PCI bus with a bridge and two cards, and room  *)
(* for one more mount and one more driver than the boot needs.             *)
(***************************************************************************)
EXTENDS Namespace, TLC

Function(b, s, f, many, kind, name) == [bus |-> b, slot |-> s, fcn |-> f, many |-> many, kind |-> kind, name |-> name]
MCBus == {Function(0, 1, 0, FALSE, "ne2000", "00.01:0"), Function(0, 2, 0, FALSE, "bridge", "00.02:0"),
          Function(1, 3, 0, TRUE, "ne2000", "01.03:0")}
MCDisks == <<0>>
MCTerminals == <<"1">>
MCFatFiles == <<"sh">>
MCCards == "ne2000" :> 2
MCUsers == <<[uid |-> 0, gid |-> 0], [uid |-> 1, gid |-> 1]>>
To(p, mode) == [at |-> p, mode |-> mode]
MCOpened ==
    <<{To(<<"Devices", "pci">>, {"x"}), To(<<"Devices", "pci", "01.03:0">>, {"r"})},
      {To(<<"Devices">>, {"x"}), To(<<"Devices">>, {"w"}), To(<<"Devices", "pci", "00.01:0">>, {"w"}), To(<<"Devices", "pci", "00.01:0">>, {"r"})}>>
MCPaths ==
    {<<>>, <<"Devices">>, <<"Mount">>, <<"Devices", "pci">>, <<"Devices", "pci", "00.01:0">>, <<"Devices", "pci", "01.03:0">>,
     <<"Devices", "ide", "A1">>, <<"Devices", "fdd">>, <<"Devices", "bochsvbe">>, <<"Mount", "hda1">>, <<"Mount", "hda3">>, <<"Mount", "x">>, <<"Mount", "hda1", "sh">>, <<"Mount", "hda1", "x">>, <<"Mount", "hda1", "x", "sh">>}
MCAsked == {<<"Devices", "pci", "01.03:0">>}
MCLater ==
    {MountOn(<<"Mount", "hda1", "x">>, "fat", <<"Devices", "fdd", "0">>)}
MCFatDevices == {Node("ide", "A1"), Node("ide", "A2"), Node("fdd", "0")}
MCPorts == 0 .. 9
MCModes == {{"x"}, {"r"}, {"w"}}
=============================================================================
