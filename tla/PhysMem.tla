------------------------------- MODULE PhysMem -------------------------------
(***************************************************************************)
(* Physical memory: the page allocator (pmm.c) and the kernel's heap       *)
(* (malloc.c), from the return of pmm_init on.  The heap is charged with   *)
(* pages; it is not made of them.  Nothing is ever freed.                  *)
(*                                                                         *)
(* kmalloc is called by fat32_init at boot, and by the keyboard's handler  *)
(* when a Stellar file is run.  The handler cannot be interrupted; main(), *)
(* which allocates one page, can.  The kernel is built without             *)
(* optimisation, so |= and -- load and store in separate instructions.     *)
(***************************************************************************)
EXTENDS Integers, Sequences, FiniteSets

CONSTANTS
  total_pages,  \* 32768
  PAGE_SIZE,    \* 4096
  BITMAP_SIZE,  \* total_pages / 8, in bytes
  ByteBits,     \* 8: pages in a byte of the bitmap
  CountMod,     \* 2^64: free_pages is unsigned
  KernelStart,  \* 0x100000
  kernel_end,   \* where the linker puts the end of the kernel
  HEAP_START,   \* 0x1000000
  BootSize,     \* 512: what fat32_init allocates
  RunSizes,     \* <<1024, 1024, 512>>: run_stellar_from_disk allocates its
                \*   buffers and fat32_find_file_cluster the directory
  MaxRuns       \* bound: Stellar files run

used_pages == (kernel_end + BITMAP_SIZE - KernelStart) \div PAGE_SIZE + 1

ASSUME MemoryAssumption ==
  /\ total_pages \in Nat /\ PAGE_SIZE \in Nat \ {0} /\ ByteBits \in Nat \ {0}
  /\ BITMAP_SIZE \in Nat /\ KernelStart \in Nat /\ kernel_end \in Nat
  /\ KernelStart <= kernel_end /\ used_pages \in 1 .. total_pages
  /\ CountMod \in Nat /\ total_pages < CountMod
  /\ HEAP_START \in Nat /\ HEAP_START % 8 = 0
  /\ BootSize \in Nat /\ RunSizes \in Seq(Nat) /\ MaxRuns \in Nat

VARIABLES
  bitmap,         \* the pages whose bit is set
  free_pages,
  heap_current, heap_mapped_limit,
  todo,           \* sizes of the kmallocs to come, before main() goes on
  main,           \* where main() is in its pmm_alloc_page
  i, byte, count, \* there: the loop's variable, what it has loaded
  page,           \* the page main() has got; 0 is NULL
  blocks,         \* history: what kmalloc has returned
  charged,        \* history: pages allocated for the heap
  raced,          \* history: main() was interrupted between test and count
  runs            \* files run

heapVars   == <<heap_current, heap_mapped_limit, todo, blocks, charged>>
mainVars   == <<main, i, byte, count, page>>
memoryVars == <<bitmap, free_pages, heapVars, mainVars, raced, runs>>

Pages == 0 .. total_pages - 1
Free  == Pages \ bitmap

(* pmm_init, and main() on its way.                                        *)
Init ==
  /\ bitmap = 0 .. used_pages - 1
  /\ free_pages = total_pages - used_pages
  /\ heap_current = HEAP_START /\ heap_mapped_limit = HEAP_START
  /\ todo = <<BootSize>>
  /\ main = "scan" /\ i = 0 /\ byte = {} /\ count = 0 /\ page = 0
  /\ blocks = {} /\ charged = {}
  /\ raced = FALSE /\ runs = 0

-----------------------------------------------------------------------------
(* kmalloc, in the handler.                                                *)

Align(size) == ((size + 7) \div 8) * 8

(* Mutant: the count is signed.                                            *)
DecrementedSigned(n) == n - 1

Decremented(n) == (n - 1) % CountMod

FirstFree(p) == p \in Free /\ \A q \in Free : p <= q

(* Mutant: the page is not counted.                                        *)
TakePageUncounted ==
  \/ Free = {} /\ UNCHANGED <<bitmap, free_pages, charged>>
  \/ \E p \in Pages :
       /\ FirstFree(p)
       /\ bitmap' = bitmap \cup {p} /\ charged' = charged \cup {p}
       /\ UNCHANGED free_pages

(* pmm_alloc_page, uninterrupted; kmalloc does not look at the result.     *)
TakePage ==
  \/ Free = {} /\ UNCHANGED <<bitmap, free_pages, charged>>
  \/ \E p \in Pages :
       /\ FirstFree(p)
       /\ bitmap' = bitmap \cup {p} /\ charged' = charged \cup {p}
       /\ free_pages' = Decremented(free_pages)

Charging == heap_current > heap_mapped_limit
Busy     == Charging \/ todo # << >>

(* A block is cut off, and then paid for, a page at a time.                *)
Bump ==
  /\ ~Charging /\ todo # << >>
  /\ LET size == Align(Head(todo))
     IN /\ blocks' = blocks \cup {[start |-> heap_current, size |-> size]}
        /\ heap_current' = heap_current + size
  /\ todo' = Tail(todo)
  /\ UNCHANGED <<bitmap, free_pages, heap_mapped_limit, charged, mainVars,
                 raced, runs>>

(* Mutant: the limit is set a page beyond the pointer.                     *)
ChargeFromHere ==
  /\ Charging
  /\ TakePage
  /\ heap_mapped_limit' = heap_current + PAGE_SIZE
  /\ UNCHANGED <<heap_current, todo, blocks, mainVars, raced, runs>>

Charge ==
  /\ Charging
  /\ TakePage
  /\ heap_mapped_limit' = heap_mapped_limit + PAGE_SIZE
  /\ UNCHANGED <<heap_current, todo, blocks, mainVars, raced, runs>>

(* A file is run: found or not, all three buffers are allocated.           *)
Window == {"load", "store", "count", "save"}

RunFile ==
  /\ ~Busy /\ runs < MaxRuns
  /\ todo' = RunSizes
  /\ raced' = (raced \/ main \in Window)
  /\ runs' = runs + 1
  /\ UNCHANGED <<bitmap, free_pages, heap_current, heap_mapped_limit, blocks,
                 charged, mainVars>>

-----------------------------------------------------------------------------
(* pmm_alloc_page in main(), a load or a store at a time.                  *)

At(label) == ~Busy /\ main = label

Scan ==
  /\ At("scan")
  /\ \/ i = total_pages /\ main' = "done" /\ UNCHANGED i
     \/ i \in bitmap /\ i' = i + 1 /\ UNCHANGED main
     \/ i \in Free /\ main' = "load" /\ UNCHANGED i
  /\ UNCHANGED <<bitmap, free_pages, heapVars, byte, count, page, raced, runs>>

SameByte == {p \in Pages : p \div ByteBits = i \div ByteBits}

LoadByte ==
  /\ At("load")
  /\ byte' = bitmap \cap SameByte
  /\ main' = "store"
  /\ UNCHANGED <<bitmap, free_pages, heapVars, i, count, page, raced, runs>>

(* Mutant: the byte is written back as it was.                             *)
StoreByteUnmarked ==
  /\ At("store")
  /\ bitmap' = (bitmap \ SameByte) \cup byte
  /\ main' = "count"
  /\ UNCHANGED <<free_pages, heapVars, i, byte, count, page, raced, runs>>

StoreByte ==
  /\ At("store")
  /\ bitmap' = (bitmap \ SameByte) \cup byte \cup {i}
  /\ main' = "count"
  /\ UNCHANGED <<free_pages, heapVars, i, byte, count, page, raced, runs>>

LoadCount ==
  /\ At("count")
  /\ count' = free_pages
  /\ main' = "save"
  /\ UNCHANGED <<bitmap, free_pages, heapVars, i, byte, page, raced, runs>>

StoreCount ==
  /\ At("save")
  /\ free_pages' = Decremented(count)
  /\ page' = i
  /\ main' = "done"
  /\ UNCHANGED <<bitmap, heapVars, i, byte, count, raced, runs>>

Next == \/ Bump \/ Charge \/ RunFile
        \/ Scan \/ LoadByte \/ StoreByte \/ LoadCount \/ StoreCount

Spec == Init /\ [][Next]_memoryVars

-----------------------------------------------------------------------------
PhysTypeOK ==
  /\ bitmap \subseteq Pages /\ charged \subseteq Pages
  /\ free_pages \in 0 .. CountMod - 1 /\ count \in 0 .. CountMod - 1
  /\ heap_current \in Nat /\ heap_mapped_limit \in Nat
  /\ todo \in Seq(Nat)
  /\ main \in {"scan", "done"} \cup Window
  /\ i \in 0 .. total_pages /\ (main \in Window => i \in Pages)
  /\ byte \subseteq Pages /\ page \in 0 .. total_pages
  /\ blocks \subseteq [start : Nat, size : Nat]
  /\ raced \in BOOLEAN /\ runs \in 0 .. MaxRuns

(* The blocks of the heap do not overlap and begin at multiples of 8.      *)
(* Never are more pages charged for them than they reach into, even if     *)
(* main() was interrupted.  And they are paid for to the page whenever     *)
(* nobody is in kmalloc, as long as memory is not exhausted (kmalloc does  *)
(* not look at what pmm_alloc_page returns, and raises its limit anyhow)   *)
(* and main() was not interrupted (it may then write over the bits of      *)
(* pages that were charged, and they are charged again).                   *)
Apart(a, b) == a.start + a.size <= b.start \/ b.start + b.size <= a.start

Laid ==
  /\ \A a, b \in blocks : a # b => Apart(a, b)
  /\ \A a \in blocks : /\ a.start % 8 = 0 /\ HEAP_START <= a.start
                       /\ a.start + a.size <= heap_current

Paid == PAGE_SIZE * Cardinality(charged)

HeapSound ==
  /\ Laid
  /\ HEAP_START + Paid < heap_current + PAGE_SIZE
  /\ ~Charging /\ ~raced /\ Free # {} => heap_current <= HEAP_START + Paid

(* What neofetch shows as free is what is free, whenever neither main()    *)
(* nor the handler is allocating.                                          *)
CountExact ==
  main \notin Window => free_pages = total_pages - Cardinality(bitmap)

(* That is so if main() was not interrupted while it allocated; and then   *)
(* the page it got is not one the heap was charged with.                   *)
CountExactUnraced == ~raced => CountExact

PageOwned == ~raced /\ page # 0 => page \in bitmap \ charged
=============================================================================
