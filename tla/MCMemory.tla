------------------------------ MODULE MCMemory ------------------------------
(***************************************************************************)
(* Model checking of memory: the frame allocator, the kernel heap, one     *)
(* user address space, and the ownership of the address spaces.            *)
(*                                                                         *)
(* As in MCServices the four are checked side by side: `part` says which   *)
(* of them runs, and the others rest in their initial states.              *)
(***************************************************************************)
EXTENDS AddressSpace, Uvm, Pmm, Heap, TLC

CONSTANTS frame1, frame2

VARIABLE part

memoryVars == <<part, asVars, uvmVars, pmmVars, heapVars>>

FrameSymmetry == Permutations({frame1, frame2})

MemoryInit ==
    /\ part \in {"pmm", "heap", "uvm", "owners"}
    /\ PmmInit /\ HeapInit /\ uvm_init /\ AsInit
    /\ part # "heap" => heap_end = PageUnits

MemoryNext ==
    /\ UNCHANGED part
    /\ \/ part = "pmm" /\ PmmNext /\ UNCHANGED <<heapVars, uvmVars, asVars>>
       \/ part = "heap" /\ HeapNext /\ UNCHANGED <<pmmVars, uvmVars, asVars>>
       \/ part = "uvm" /\ UvmNext /\ UNCHANGED <<pmmVars, heapVars, asVars>>
       \/ part = "owners" /\ AsNext /\ UNCHANGED <<pmmVars, heapVars, uvmVars>>

MemorySpec == MemoryInit /\ [][MemoryNext]_memoryVars
=============================================================================
