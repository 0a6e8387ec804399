----------------------------- MODULE UefiLoader -----------------------------
(***************************************************************************)
(* UefiMain (UEFIBIOS/OpenFerainOSPkg/entry.c): find a physical, writable  *)
(* disk, read the kernel from it, fetch the memory map and leave boot      *)
(* services.  One action per boot service call with the tests on its       *)
(* result, so that the firmware can act between two calls.                 *)
(*                                                                         *)
(* The firmware (external) is what the calls can observe of it: which      *)
(* handles it has, which calls it fails, and a memory map that every       *)
(* allocation, every release and every event of its own changes.           *)
(***************************************************************************)
EXTENDS Integers

CONSTANTS
  HandleCount,   \* block devices
  MapSize,       \* descriptors in the memory map at the start
  MaxEvents      \* bound: firmware events that change the map

ASSUME FirmwareAssumption ==
  HandleCount \in Nat /\ MapSize \in Nat \ {0} /\ MaxEvents \in Nat

VARIABLES
  pc, Index,
  BlockIo,       \* the disk selected, or NULL
  MemMapSize,    \* size the program knows of
  MemMapKey,     \* key the program holds
  held,          \* allocations not yet released
  wild,          \* something was released that was not held
  loaded,        \* the kernel is in the page buffer
  version,       \* firmware: the current map's key
  size,          \* firmware: the current map's size
  events,        \* firmware events so far
  services       \* firmware: boot services are available

vars == <<pc, Index, BlockIo, MemMapSize, MemMapKey, held, wild, loaded,
          version, size, events, services>>
firmware == <<version, size, events, services>>
program == <<Index, BlockIo, MemMapSize, MemMapKey, loaded>>

NULL == 0

Init ==
  /\ pc = "locate" /\ Index = 0 /\ BlockIo = NULL
  /\ MemMapSize = 0 /\ MemMapKey = 0
  /\ held = {} /\ wild = FALSE /\ loaded = FALSE
  /\ version = 1 /\ size = MapSize /\ events = 0 /\ services = TRUE

-----------------------------------------------------------------------------
(* Firmware: a call that changes the memory map, with or without one more  *)
(* descriptor.                                                             *)
MapChanges ==
  /\ version' = version + 1
  /\ size' \in {size, size + 1}
  /\ UNCHANGED <<events, services>>

Allocate(r) == held' = held \cup {r} /\ UNCHANGED wild /\ MapChanges

Release(rs) ==
  /\ held' = held \ rs
  /\ wild' = (wild \/ ~(rs \subseteq held))
  /\ IF rs = {} THEN UNCHANGED firmware ELSE MapChanges

NoAllocation == UNCHANGED <<held, wild, firmware>>

-----------------------------------------------------------------------------
LocateHandleBuffer ==
  /\ pc = "locate"
  /\ \/ Allocate("Handles") /\ pc' = "scan"
     \/ NoAllocation /\ pc' = "returned"
  /\ UNCHANGED program

(* Mutant: the loop runs one handle too far.                               *)
ScanHandle_OneTooFar ==
  /\ pc = "scan" /\ Index <= HandleCount
  /\ \/ BlockIo' = NULL /\ Index' = Index + 1 /\ pc' = "scan"
     \/ BlockIo' = Index + 1 /\ pc' = "free" /\ UNCHANGED Index
  /\ UNCHANGED <<MemMapSize, MemMapKey, loaded>>
  /\ NoAllocation

(* One round of the loop over the handles: HandleProtocol fails, or the    *)
(* device is a partition or read-only, or it is the disk.                  *)
ScanHandle ==
  /\ pc = "scan" /\ Index < HandleCount
  /\ \/ BlockIo' = NULL /\ Index' = Index + 1 /\ pc' = "scan"
     \/ BlockIo' = Index + 1 /\ pc' = "free" /\ UNCHANGED Index
  /\ UNCHANGED <<MemMapSize, MemMapKey, loaded>>
  /\ NoAllocation

ScanDone ==
  /\ pc = "scan" /\ Index = HandleCount
  /\ pc' = "free"
  /\ UNCHANGED program
  /\ NoAllocation

(* Mutant: the handles are released only when a disk was found.            *)
FreeHandles_OnlyIfFound ==
  /\ pc = "free"
  /\ Release(IF BlockIo = NULL THEN {} ELSE {"Handles"})
  /\ pc' = IF BlockIo = NULL THEN "returned" ELSE "pages"
  /\ UNCHANGED program

(* FreePool(Handles), then the test for NULL.                              *)
FreeHandles ==
  /\ pc = "free"
  /\ Release({"Handles"})
  /\ pc' = IF BlockIo = NULL THEN "returned" ELSE "pages"
  /\ UNCHANGED program

AllocatePages ==
  /\ pc = "pages"
  /\ \/ Allocate("Pages") /\ pc' = "read"
     \/ NoAllocation /\ pc' = "returned"
  /\ UNCHANGED program

(* Mutant: a failed read falls through.                                    *)
ReadBlocks_NoTest ==
  /\ pc = "read"
  /\ loaded' \in BOOLEAN
  /\ pc' = "size"
  /\ NoAllocation
  /\ UNCHANGED <<Index, BlockIo, MemMapSize, MemMapKey>>

ReadBlocks ==
  /\ pc = "read"
  /\ \/ loaded' = TRUE /\ pc' = "size" /\ NoAllocation
     \/ loaded' = FALSE /\ pc' = "returned" /\ Release({"Pages"})
  /\ UNCHANGED <<Index, BlockIo, MemMapSize, MemMapKey>>

(* Mutant: the clean-up releases MemMap without a test for NULL.           *)
GetMemoryMapSize_FreesNull ==
  /\ pc = "size"
  /\ \/ MemMapSize' = size /\ pc' = "pool" /\ NoAllocation
     \/ UNCHANGED MemMapSize /\ pc' = "returned" /\ Release({"Pages", "MemMap"})
  /\ UNCHANGED <<Index, BlockIo, MemMapKey, loaded>>

(* The first GetMemoryMap, with a size of 0: BUFFER_TOO_SMALL and the size *)
(* needed at this moment, or another error, with MemMap still NULL.        *)
GetMemoryMapSize ==
  /\ pc = "size"
  /\ \/ MemMapSize' = size /\ pc' = "pool" /\ NoAllocation
     \/ UNCHANGED MemMapSize /\ pc' = "returned" /\ Release({"Pages"})
  /\ UNCHANGED <<Index, BlockIo, MemMapKey, loaded>>

AllocatePool ==
  /\ pc = "pool"
  /\ \/ Allocate("MemMap") /\ pc' = "map"
     \/ Release({"Pages"}) /\ pc' = "returned"
  /\ UNCHANGED program

(* Mutant: BUFFER_TOO_SMALL is retried with the same buffer.               *)
GetMemoryMap_Retries ==
  /\ pc = "map"
  /\ \/ /\ size <= MemMapSize
        /\ MemMapKey' = version /\ pc' = "exit"
     \/ /\ size > MemMapSize
        /\ UNCHANGED <<MemMapKey, pc>>
  /\ NoAllocation
  /\ UNCHANGED <<Index, BlockIo, MemMapSize, loaded>>

(* The second GetMemoryMap fails if the map has outgrown the buffer, and   *)
(* may fail otherwise.                                                     *)
GetMemoryMap ==
  /\ pc = "map"
  /\ \/ /\ size <= MemMapSize /\ MemMapSize' = size
        /\ MemMapKey' = version /\ pc' = "exit"
        /\ NoAllocation
     \/ /\ MemMapSize' \in {size, MemMapSize}
        /\ UNCHANGED MemMapKey /\ pc' = "returned"
        /\ Release({"Pages", "MemMap"})
  /\ UNCHANGED <<Index, BlockIo, loaded>>

(* ExitBootServices fails when the map has changed since.                  *)
ExitBootServices ==
  /\ pc = "exit"
  /\ \/ /\ MemMapKey = version
        /\ services' = FALSE /\ pc' = "asm"
        /\ UNCHANGED <<held, wild, version, size, events>>
     \/ /\ MemMapKey # version
        /\ pc' = "returned"
        /\ Release({"Pages", "MemMap"})
  /\ UNCHANGED program

(* asm() starts the kernel and does not return.                            *)
StartKernel ==
  /\ pc = "asm"
  /\ pc' = "kernel"
  /\ UNCHANGED program
  /\ NoAllocation

(* A timer or notification of the firmware, while boot services run.       *)
FirmwareEvent ==
  /\ services /\ pc # "returned" /\ events < MaxEvents
  /\ version' = version + 1
  /\ size' \in {size, size + 1}
  /\ events' = events + 1
  /\ UNCHANGED <<pc, program, held, wild, services>>

Step ==
  \/ LocateHandleBuffer \/ ScanHandle \/ ScanDone \/ FreeHandles
  \/ AllocatePages \/ ReadBlocks \/ GetMemoryMapSize \/ AllocatePool
  \/ GetMemoryMap \/ ExitBootServices \/ StartKernel

Next == Step \/ FirmwareEvent

Spec == Init /\ [][Next]_vars

(* The firmware returns from every call and the program is not preempted   *)
(* for ever.                                                               *)
FairSpec == Spec /\ WF_vars(Step)

-----------------------------------------------------------------------------
(* The types of the variables; the scan never reads behind the handles.    *)
TypeOK ==
  /\ pc \in {"locate", "scan", "free", "pages", "read", "size", "pool", "map",
             "exit", "asm", "kernel", "returned"}
  /\ Index \in 0 .. HandleCount
  /\ BlockIo \in 0 .. HandleCount
  /\ MemMapSize \in Nat /\ MemMapKey \in Nat
  /\ held \subseteq {"Handles", "Pages", "MemMap"}
  /\ wild \in BOOLEAN /\ loaded \in BOOLEAN /\ services \in BOOLEAN
  /\ version \in Nat /\ size \in Nat /\ events \in 0 .. MaxEvents

(* Whichever call fails, UefiMain returns with everything it allocated     *)
(* released, and with boot services still there for the next boot option.  *)
ReturnsClean == pc = "returned" => held = {} /\ services

(* No error path releases twice or releases a buffer it never got.         *)
NoWildFree == ~wild

(* The kernel starts only from a disk that was selected, read in full into *)
(* pages that are still allocated, and after boot services have ended with *)
(* the key of the memory map as it then was.                               *)
KernelStartSound ==
  pc \in {"asm", "kernel"} =>
    /\ BlockIo # NULL /\ loaded /\ "Pages" \in held
    /\ ~services /\ MemMapKey = version

(* UefiMain either starts the kernel or returns, whatever fails and        *)
(* however often the map changes under it.                                 *)
Terminates == <>(pc \in {"kernel", "returned"})
=============================================================================
