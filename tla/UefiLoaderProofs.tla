-------------------------- MODULE UefiLoaderProofs --------------------------
(***************************************************************************)
(* UefiMain's resources, for any number of handles, any memory map and any *)
(* number of firmware events.                                              *)
(***************************************************************************)
EXTENDS UefiLoader, TLAPS

(* What UefiMain holds is determined by how far it has come.               *)
HeldAt ==
  /\ pc \in {"locate", "pages", "returned"} => held = {}
  /\ pc \in {"scan", "free"} => held = {"Handles"}
  /\ pc \in {"read", "size", "pool"} => held = {"Pages"}
  /\ pc \in {"map", "exit", "asm", "kernel"} => held = {"Pages", "MemMap"}

(* What it knows by then.                                                  *)
Progress ==
  /\ pc \in {"pages", "read", "size", "pool", "map", "exit", "asm", "kernel"}
       => BlockIo # NULL
  /\ pc \in {"size", "pool", "map", "exit", "asm", "kernel"} => loaded = TRUE
  /\ pc \notin {"asm", "kernel"} => services = TRUE
  /\ pc \in {"asm", "kernel"} => services = FALSE /\ MemMapKey = version

IInv == TypeOK /\ HeldAt /\ Progress /\ NoWildFree

FirmwareType ==
  version \in Nat /\ size \in Nat /\ events \in 0 .. MaxEvents

LEMMA Firmware ==
  ASSUME TypeOK, MapChanges \/ UNCHANGED firmware
  PROVE  FirmwareType' /\ services' = services
BY DEF TypeOK, MapChanges, firmware, FirmwareType

(* A release of what is held is no wild one.                               *)
LEMMA ReleaseHeld ==
  ASSUME TypeOK, NoWildFree, NEW rs, rs \subseteq held, Release(rs)
  PROVE  /\ held' = held \ rs /\ wild' = FALSE
         /\ FirmwareType' /\ services' = services
<1>1. held' = held \ rs /\ wild' = (wild \/ ~(rs \subseteq held))
  BY DEF Release
<1>2. wild' = FALSE
  BY <1>1, Zenon DEF NoWildFree
<1>3. MapChanges \/ UNCHANGED firmware
  BY DEF Release
<1> QED BY <1>1, <1>2, <1>3, Firmware

LEMMA Allocated ==
  ASSUME TypeOK, NoWildFree, NEW r, Allocate(r)
  PROVE  /\ held' = held \cup {r} /\ wild' = FALSE
         /\ FirmwareType' /\ services' = services
<1>1. wild = FALSE
  BY Zenon DEF TypeOK, NoWildFree
<1> QED BY <1>1, Firmware DEF Allocate

LEMMA NothingAllocated ==
  ASSUME TypeOK, NoWildFree, NoAllocation
  PROVE  /\ held' = held /\ wild' = FALSE
         /\ FirmwareType' /\ services' = services
<1>1. wild = FALSE
  BY Zenon DEF TypeOK, NoWildFree
<1> QED BY <1>1, Firmware DEF NoAllocation

LEMMA InitIInv == Init => IInv
<1> SUFFICES ASSUME Init PROVE IInv
  OBVIOUS
<1>1. TypeOK
  <2>1. /\ 0 \in 0 .. HandleCount /\ 0 \in Nat /\ 1 \in Nat /\ MapSize \in Nat
        /\ 0 \in 0 .. MaxEvents
    BY FirmwareAssumption
  <2>2. held \subseteq {"Handles", "Pages", "MemMap"}
    BY DEF Init
  <2> QED BY <2>1, <2>2 DEF Init, TypeOK, NULL
<1>2. HeldAt /\ NoWildFree
  BY DEF Init, HeldAt, NoWildFree
<1>3. Progress
  BY DEF Init, Progress
<1> QED BY <1>1, <1>2, <1>3 DEF IInv

(* One step of the program: IInv from what became of the resources.        *)
LEMMA StepIInv ==
  ASSUME IInv, Step
  PROVE  IInv'
<1>1. TypeOK /\ HeldAt /\ Progress /\ NoWildFree
  BY DEF IInv
<1>2. ASSUME TypeOK', HeldAt', Progress', wild' = FALSE
      PROVE  IInv'
  BY <1>2 DEF IInv, NoWildFree
<1>3. CASE LocateHandleBuffer
  <2>1. CASE Allocate("Handles") /\ pc' = "scan"
    BY <1>1, <1>2, <1>3, <2>1, Allocated DEF LocateHandleBuffer, TypeOK, HeldAt,
       Progress, program, FirmwareType
  <2>2. CASE NoAllocation /\ pc' = "returned"
    BY <1>1, <1>2, <1>3, <2>2, NothingAllocated DEF LocateHandleBuffer, TypeOK,
       HeldAt, Progress, program, FirmwareType
  <2> QED BY <1>3, <2>1, <2>2 DEF LocateHandleBuffer
<1>4. CASE ScanHandle
  <2>1. held' = held /\ wild' = FALSE /\ FirmwareType' /\ services' = services
    BY <1>1, <1>4, NothingAllocated DEF ScanHandle
  <2>2. /\ Index' \in 0 .. HandleCount /\ BlockIo' \in 0 .. HandleCount
        /\ pc = "scan" /\ pc' \in {"scan", "free"}
    BY <1>1, <1>4, FirmwareAssumption DEF ScanHandle, TypeOK, NULL
  <2>3. UNCHANGED <<MemMapSize, MemMapKey, loaded>>
    BY <1>4 DEF ScanHandle
  <2>4. TypeOK'
    BY <1>1, <2>1, <2>2, <2>3 DEF TypeOK, FirmwareType
  <2> QED BY <1>1, <1>2, <2>1, <2>2, <2>4 DEF HeldAt, Progress
<1>5. CASE ScanDone
  BY <1>1, <1>2, <1>5, NothingAllocated DEF ScanDone, TypeOK, HeldAt, Progress,
     program, FirmwareType
<1>6. CASE FreeHandles
  <2>1. held' = {} /\ wild' = FALSE /\ FirmwareType' /\ services' = services
    BY <1>1, <1>6, ReleaseHeld DEF FreeHandles, HeldAt
  <2> QED BY <1>1, <1>2, <1>6, <2>1 DEF FreeHandles, TypeOK, HeldAt, Progress,
                program, FirmwareType
<1>7. CASE AllocatePages
  <2>1. CASE Allocate("Pages") /\ pc' = "read"
    BY <1>1, <1>2, <1>7, <2>1, Allocated DEF AllocatePages, TypeOK, HeldAt,
       Progress, program, FirmwareType
  <2>2. CASE NoAllocation /\ pc' = "returned"
    BY <1>1, <1>2, <1>7, <2>2, NothingAllocated DEF AllocatePages, TypeOK,
       HeldAt, Progress, program, FirmwareType
  <2> QED BY <1>7, <2>1, <2>2 DEF AllocatePages
<1>8. CASE ReadBlocks
  <2>1. CASE loaded' = TRUE /\ pc' = "size" /\ NoAllocation
    BY <1>1, <1>2, <1>8, <2>1, NothingAllocated DEF ReadBlocks, TypeOK, HeldAt,
       Progress, FirmwareType
  <2>2. CASE loaded' = FALSE /\ pc' = "returned" /\ Release({"Pages"})
    <3>1. held' = {} /\ wild' = FALSE /\ FirmwareType' /\ services' = services
      BY <1>1, <1>8, <2>2, ReleaseHeld DEF ReadBlocks, HeldAt
    <3> QED BY <1>1, <1>2, <1>8, <2>2, <3>1 DEF ReadBlocks, TypeOK, HeldAt,
                  Progress, FirmwareType
  <2> QED BY <1>8, <2>1, <2>2 DEF ReadBlocks
<1>9. CASE GetMemoryMapSize
  <2>1. CASE MemMapSize' = size /\ pc' = "pool" /\ NoAllocation
    BY <1>1, <1>2, <1>9, <2>1, NothingAllocated DEF GetMemoryMapSize, TypeOK,
       HeldAt, Progress, FirmwareType
  <2>2. CASE UNCHANGED MemMapSize /\ pc' = "returned" /\ Release({"Pages"})
    <3>1. held' = {} /\ wild' = FALSE /\ FirmwareType' /\ services' = services
      BY <1>1, <1>9, <2>2, ReleaseHeld DEF GetMemoryMapSize, HeldAt
    <3> QED BY <1>1, <1>2, <1>9, <2>2, <3>1 DEF GetMemoryMapSize, TypeOK,
                  HeldAt, Progress, FirmwareType
  <2> QED BY <1>9, <2>1, <2>2 DEF GetMemoryMapSize
<1>10. CASE AllocatePool
  <2>1. CASE Allocate("MemMap") /\ pc' = "map"
    <3>1. /\ held' = {"Pages", "MemMap"} /\ wild' = FALSE
          /\ FirmwareType' /\ services' = services
      BY <1>1, <1>10, <2>1, Allocated DEF AllocatePool, HeldAt
    <3> QED BY <1>1, <1>2, <1>10, <2>1, <3>1 DEF AllocatePool, TypeOK, HeldAt,
                  Progress, program, FirmwareType
  <2>2. CASE Release({"Pages"}) /\ pc' = "returned"
    <3>1. held' = {} /\ wild' = FALSE /\ FirmwareType' /\ services' = services
      BY <1>1, <1>10, <2>2, ReleaseHeld DEF AllocatePool, HeldAt
    <3> QED BY <1>1, <1>2, <1>10, <2>2, <3>1 DEF AllocatePool, TypeOK, HeldAt,
                  Progress, program, FirmwareType
  <2> QED BY <1>10, <2>1, <2>2 DEF AllocatePool
<1>11. CASE GetMemoryMap
  <2>1. CASE MemMapKey' = version /\ pc' = "exit" /\ NoAllocation
    BY <1>1, <1>2, <1>11, <2>1, NothingAllocated DEF GetMemoryMap, TypeOK,
       HeldAt, Progress, FirmwareType
  <2>2. CASE UNCHANGED MemMapKey /\ pc' = "returned"
             /\ Release({"Pages", "MemMap"})
    <3>1. held' = {} /\ wild' = FALSE /\ FirmwareType' /\ services' = services
      BY <1>1, <1>11, <2>2, ReleaseHeld DEF GetMemoryMap, HeldAt
    <3> QED BY <1>1, <1>2, <1>11, <2>2, <3>1 DEF GetMemoryMap, TypeOK, HeldAt,
                  Progress, FirmwareType
  <2> QED BY <1>11, <2>1, <2>2 DEF GetMemoryMap
<1>12. CASE ExitBootServices
  <2>1. CASE /\ MemMapKey = version /\ services' = FALSE /\ pc' = "asm"
             /\ UNCHANGED <<held, wild, version, size, events>>
    <3>1. wild' = FALSE
      BY <1>1, <2>1, Zenon DEF TypeOK, NoWildFree
    <3> QED BY <1>1, <1>2, <1>12, <2>1, <3>1 DEF ExitBootServices, TypeOK,
                  HeldAt, Progress, program
  <2>2. CASE pc' = "returned" /\ Release({"Pages", "MemMap"})
    <3>1. held' = {} /\ wild' = FALSE /\ FirmwareType' /\ services' = services
      BY <1>1, <1>12, <2>2, ReleaseHeld DEF ExitBootServices, HeldAt
    <3> QED BY <1>1, <1>2, <1>12, <2>2, <3>1 DEF ExitBootServices, TypeOK,
                  HeldAt, Progress, program, FirmwareType
  <2> QED BY <1>12, <2>1, <2>2 DEF ExitBootServices
<1>13. CASE StartKernel
  <2>1. version' = version
    BY <1>13 DEF StartKernel, NoAllocation, firmware
  <2> QED BY <1>1, <1>2, <1>13, <2>1, NothingAllocated DEF StartKernel, TypeOK,
                HeldAt, Progress, program, FirmwareType
<1> QED BY <1>3, <1>4, <1>5, <1>6, <1>7, <1>8, <1>9, <1>10, <1>11, <1>12, <1>13
           DEF Step

LEMMA NextIInv == IInv /\ [Next]_vars => IInv'
<1> SUFFICES ASSUME IInv, [Next]_vars PROVE IInv'
  OBVIOUS
<1>1. CASE FirmwareEvent
  BY <1>1, FirmwareAssumption DEF FirmwareEvent, program, IInv, TypeOK, HeldAt,
     Progress, NoWildFree
<1>2. CASE UNCHANGED vars
  BY <1>2 DEF vars, IInv, TypeOK, HeldAt, Progress, NoWildFree
<1> QED BY <1>1, <1>2, StepIInv DEF Next

(* What UefiMain holds and has achieved at every point of the program.     *)
THEOREM LoaderInvariant == Spec => []IInv
BY InitIInv, NextIInv, PTL DEF Spec

(* Every error path of UefiMain releases what was allocated.               *)
THEOREM AlwaysReturnsClean == Spec => []ReturnsClean
<1>1. IInv => ReturnsClean
  BY DEF IInv, HeldAt, Progress, ReturnsClean
<1> QED BY <1>1, LoaderInvariant, PTL

(* No error path releases anything twice.                                  *)
THEOREM NeverWildFree == Spec => []NoWildFree
<1>1. IInv => NoWildFree
  BY DEF IInv
<1> QED BY <1>1, LoaderInvariant, PTL

(* The kernel starts loaded, from a chosen disk, with boot services ended. *)
THEOREM KernelStartsSound == Spec => []KernelStartSound
<1>1. IInv => KernelStartSound
  BY DEF IInv, HeldAt, Progress, KernelStartSound
<1> QED BY <1>1, LoaderInvariant, PTL

(* UefiMain: the variables of every step of the loader have their types.   *)
THEOREM TypeCorrect == Spec => []TypeOK
<1>1. IInv => TypeOK
  BY DEF IInv
<1> QED BY <1>1, LoaderInvariant, PTL
=============================================================================
