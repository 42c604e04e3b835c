------------------------------- MODULE PageTables -------------------------------
(***************************************************************************)
(* The guest's address space as host/src/vm.c sets it up: page tables      *)
(* below 0x8000, the image from there on.  Guest memory is looked at in    *)
(* frames of 4 KiB; of its contents only the page tables matter, so        *)
(* tables[f] is the frame f read as 512 entries.                           *)
(***************************************************************************)
EXTENDS Integers

VARIABLES
    tables,     \* guest memory up to the first frame of the image; <<>> before vm_init
    sregs       \* struct kvm_sregs

PAGE_SIZE_4K == 4 * 1024
PAGE_SIZE_2M == 2 * 1024 * 1024
PAGE_TABLE_ENTRIES == 512

(* Mutant: the image is loaded one page lower. *)
StartsOnePageLower == 28672     \* 0x7000

GUEST_START_ADDR == 32768       \* 0x8000

Frame(address) == address \div PAGE_SIZE_4K
Index == 0..PAGE_TABLE_ENTRIES - 1
LowFrames == 0..Frame(GUEST_START_ADDR)

(* Entries: not present, a pointer to a frame, a 2 MiB page, or bytes of   *)
(* something else.                                                         *)
NotPresent == [kind |-> "not present", frame |-> 0]
PointsTo(frame) == [kind |-> "present", frame |-> frame]
LargePage(frame) == [kind |-> "large", frame |-> frame]
Garbage == [kind |-> "garbage", frame |-> 0]

Zeroed == [f \in LowFrames |-> [i \in Index |-> NotPresent]]
ResetSregs == [cr3 |-> 0, long |-> FALSE, cs64 |-> FALSE]
---------------------------------------------------------------------------
PML4 == 1
PDPT == 2
PD == 3
FirstPT == 4

page_table_count(memSize) == memSize \div PAGE_SIZE_2M

(* setup_page_tables_4k. *)
DirectoryOf4k(memSize) ==
    [i \in Index |-> IF i < page_table_count(memSize) THEN PointsTo(FirstPT + i) ELSE tables[PD][i]]
TableOf4k(n) == [i \in Index |-> PointsTo(n * PAGE_TABLE_ENTRIES + i)]

(* setup_page_tables_2m. *)
DirectoryOf2m(memSize) ==
    [i \in Index |->
        IF i < memSize \div PAGE_SIZE_2M
        THEN LargePage(i * (PAGE_SIZE_2M \div PAGE_SIZE_4K)) ELSE tables[PD][i]]

(* setup_long_mode, with setup_segments_64. *)
SetupLongMode(memSize, pageSize) ==
    LET small == pageSize = PAGE_SIZE_4K
        pts == IF small THEN FirstPT..FirstPT + page_table_count(memSize) - 1 ELSE {}
    IN  /\ tables' =
            [f \in LowFrames |->
                CASE f = PML4 -> [tables[f] EXCEPT ![0] = PointsTo(PDPT)]
                  [] f = PDPT -> [tables[f] EXCEPT ![0] = PointsTo(PD)]
                  [] f = PD -> IF small THEN DirectoryOf4k(memSize) ELSE DirectoryOf2m(memSize)
                  [] f \in pts -> TableOf4k(f - FirstPT)
                  [] OTHER -> tables[f]]
        /\ sregs' = [cr3 |-> PML4, long |-> TRUE, cs64 |-> TRUE]

(* Mutant: the load address is not taken off. *)
FitsFromZero(memSize, fileSize) == fileSize <= memSize

(* load_guest_image: the image is read to GUEST_START_ADDR if it fits. *)
ImageFits(memSize, fileSize) == fileSize <= memSize - GUEST_START_ADDR
ImageFrames(fileSize) ==
    {f \in LowFrames : /\ f >= Frame(GUEST_START_ADDR)
                       /\ f * PAGE_SIZE_4K < GUEST_START_ADDR + fileSize}
LoadImage(fileSize) ==
    tables' = [f \in LowFrames |->
                 IF f \in ImageFrames(fileSize) THEN [i \in Index |-> Garbage] ELSE tables[f]]
---------------------------------------------------------------------------
(* The processor's walk (external) for the guest page p, in the first GiB: *)
(* the frame it finds, or -1 for a fault.                                  *)
Present(entry) == entry.kind \in {"present", "large"}
EntryIn(frame, i) == IF frame \in LowFrames THEN tables[frame][i] ELSE Garbage
Walk(p) ==
    LET pml4e == EntryIn(sregs.cr3, 0)
        pdpte == EntryIn(pml4e.frame, 0)
        pde == EntryIn(pdpte.frame, p \div PAGE_TABLE_ENTRIES)
        pte == EntryIn(pde.frame, p % PAGE_TABLE_ENTRIES)
    IN  CASE ~Present(pml4e) \/ ~Present(pdpte) \/ ~Present(pde) -> -1
          [] pde.kind = "large" -> pde.frame + (p % PAGE_TABLE_ENTRIES)
          [] OTHER -> IF pte.kind = "present" THEN pte.frame ELSE -1
=============================================================================
