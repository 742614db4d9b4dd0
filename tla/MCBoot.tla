------------------------------- MODULE MCBoot -------------------------------
(* Instances of Boot for TLC: machines with their memory maps, their ACPI  *)
(* tables, their controllers and the file init.kef.                        *)
EXTENDS Boot

(* Memory maps: ordinary memory from page 0, which is skipped; from page   *)
(* 1, so that the trampoline's page is handed out; in two pieces, so that  *)
(* a heap or the code meets the gap; too little of it.                     *)
Piece(type, start, pages) == [type |-> type, start |-> start, pages |-> pages]
MCMemoryMaps ==
    {<<Piece("conventional", 0, 3), Piece("acpi", 3, 1), Piece("conventional", 8, 26),
       Piece("loader", 40, 1)>>,
     <<Piece("boot", 0, 1), Piece("conventional", 1, 5), Piece("acpi", 6, 1),
       Piece("conventional", 8, 26), Piece("loader", 40, 1)>>,
     <<Piece("loader", 0, 4), Piece("conventional", 4, 5), Piece("loader", 40, 1)>>}
    \cup {<<Piece("loader", 0, 4), Piece("conventional", 4, n), Piece("reserved", 33, 2),
            Piece("conventional", 36, 4), Piece("loader", 40, 1)>> : n \in {19, 20, 24, 28}}
(* RSDPs: none, one with a wrong checksum, an XSDT, an RSDT only, an empty *)
(* XSDT address, tables that init_paging does not map.                     *)
NoTable == [page |-> 0, tables |-> <<>>]
Sdt(page, signature) == [page |-> page, signature |-> signature]
RootAt(page, sdts) == [page |-> page, tables |-> sdts]
Rsdp(page, checksum, revision, xsdt, rsdt) ==
    [page |-> page, checksum |-> checksum, revision |-> revision, xsdt |-> xsdt, rsdt |-> rsdt]
MCRsdps ==
    LET both == RootAt(3, <<Sdt(3, "APIC"), Sdt(3, "FACP")>>)
        low == RootAt(6, <<Sdt(6, "FACP"), Sdt(6, "APIC")>>)
    IN  {Rsdp(0, TRUE, 2, NoTable, NoTable), Rsdp(3, FALSE, 2, both, NoTable),
         Rsdp(3, TRUE, 2, both, RootAt(34, <<>>)), Rsdp(7, TRUE, 2, low, NoTable),
         Rsdp(6, TRUE, 0, RootAt(33, <<>>), low), Rsdp(3, TRUE, 2, NoTable, RootAt(3, <<Sdt(3, "FACP")>>)),
         Rsdp(3, TRUE, 2, RootAt(3, <<Sdt(33, "APIC")>>), NoTable)}
MCFound == {{"xhci"}, {"nvme"}, {"nvme", "xhci", "ethernet"}}
MCFramebuffer == <<60>>
MCDevicePages == [nvme |-> <<61>>, xhci |-> <<61, 59>>, ethernet |-> <<58>>]
MCApicPages == <<62, 63>>
MCKernelStack == <<40>>
Kef(magic, pages, whole) == [magic |-> magic, pages |-> pages, whole |-> whole]
MCFiles == {Kef(TRUE, 1, TRUE), Kef(TRUE, 2, TRUE), Kef(TRUE, 2, FALSE), Kef(TRUE, 0, TRUE),
            Kef(FALSE, 1, TRUE)}
=============================================================================
