-------------------------------- MODULE Storage --------------------------------
(***************************************************************************)
(* Disks on the controllers that PCI enumeration finds.                    *)
(***************************************************************************)
EXTENDS Pci, Ahci

\* The value of ProbeOrder: the controllers in the order of list_pci_devices, their ports in
\* the order of probe_port.
Probed ==
  LET controllers == SelectSeq(Reverse(enumerate_pci), IsController)
      PortsOf(c)  == SetToSortSeq({p \in Ports : p[1] = c}, LAMBDA p, q : p[2] < q[2])
  IN  FlattenSeq([k \in DOMAIN controllers |-> PortsOf(controllers[k])])

\* When boot is over, the drives are the SATA drives on controllers of bus 0, each once,
\* although get_class_code (pci.h:167) reads the subclass and the test of ahci.c:57 lets other
\* devices through.  Not with a host controller of several functions, where enumerate_pci
\* finds nothing.
DisksFound ==
  call = Idle /\ probe = <<>> /\ ~ MultiFunction(<<0, 0, 0>>) =>
    /\ Cardinality(Range(drives)) = Len(drives)
    /\ Range(drives) = {p \in Ports : /\ Kind[p] = "sata" /\ p[1][1] = 0
                                       /\ Config[p[1]][CLASS_CODE] = 1 /\ Config[p[1]][SUBCLASS] = 6}
================================================================================
