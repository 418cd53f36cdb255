----------------------------- MODULE DiskProofs -----------------------------
(***************************************************************************)
(* Theorems about memory, for every size of it and every size of block,    *)
(* and about the disk that stands on it, for every size of a sector and of *)
(* a directory, every disk and every name typed.                           *)
(***************************************************************************)
EXTENDS DiskProps, FiniteSetTheorems, SequenceTheorems, WellFoundedInduction,
        TLAPS

-----------------------------------------------------------------------------
(* Memory: the heap and the bitmap of pages.                               *)

(* A size is rounded up to a multiple of 8.                                *)
LEMMA AlignFacts ==
  ASSUME NEW size \in Nat
  PROVE  Align(size) \in Nat /\ Align(size) % 8 = 0 /\ size <= Align(size)
  BY DEF Align

LEMMA DecrementedType ==
  ASSUME NEW n \in Int
  PROVE  /\ Decremented(n) \in 0 .. CountMod - 1
         /\ n \in 1 .. CountMod => Decremented(n) = n - 1
<1>1. CountMod \in Nat \ {0}  BY MemoryAssumption
<1>2. \A d \in Nat \ {0}, m \in Int :
        m % d \in 0 .. d - 1 /\ (m \in 0 .. d - 1 => m % d = m)
  OBVIOUS
<1>3. n - 1 \in Int  OBVIOUS
<1>4. /\ (n - 1) % CountMod \in 0 .. CountMod - 1
      /\ n - 1 \in 0 .. CountMod - 1 => (n - 1) % CountMod = n - 1
  BY <1>1, <1>2, <1>3
<1>5. n \in 1 .. CountMod => n - 1 \in 0 .. CountMod - 1  BY <1>1
<1> QED  BY <1>4, <1>5 DEF Decremented

LEMMA PagesFinite == IsFiniteSet(Pages) /\ Cardinality(Pages) = total_pages
<1>1. total_pages \in Nat  BY MemoryAssumption
<1>2. 0 \in Int /\ total_pages - 1 \in Int  BY <1>1
<1>3. IsFiniteSet(0 .. total_pages - 1)
      /\ Cardinality(0 .. total_pages - 1) =
           IF 0 > total_pages - 1 THEN 0 ELSE total_pages - 1 - 0 + 1
  BY <1>2, FS_Interval
<1> QED  BY <1>1, <1>3 DEF Pages

(* A page more is one more in the count, and there is room for it.         *)
LEMMA OneMore ==
  ASSUME NEW S \in SUBSET Pages, NEW p \in Pages \ S
  PROVE  /\ Cardinality(S) \in Nat /\ Cardinality(S) + 1 <= total_pages
         /\ Cardinality(S \cup {p}) = Cardinality(S) + 1
<1>1. IsFiniteSet(S)  BY PagesFinite, FS_Subset
<1>2. Cardinality(S) \in Nat  BY <1>1, FS_CardinalityType
<1>3. Cardinality(S \cup {p}) = Cardinality(S) + 1  BY <1>1, FS_AddElement
<1>4. S \cup {p} \in SUBSET Pages  OBVIOUS
<1>5. Cardinality(S \cup {p}) <= total_pages  BY <1>4, PagesFinite, FS_Subset
<1> QED  BY <1>2, <1>3, <1>5

-----------------------------------------------------------------------------
(* Type correctness.                                                       *)

LEMMA TypeInit == Init => PhysTypeOK
<1> SUFFICES ASSUME Init PROVE PhysTypeOK  OBVIOUS
<1> USE MemoryAssumption
<1>1. used_pages \in 1 .. total_pages  OBVIOUS
<1>2. bitmap \subseteq Pages  BY <1>1 DEF Init, Pages
<1>3. /\ free_pages \in 0 .. CountMod - 1 /\ count \in 0 .. CountMod - 1
      /\ i \in 0 .. total_pages /\ page \in 0 .. total_pages
      /\ runs \in 0 .. MaxRuns
  BY <1>1 DEF Init
<1>4. todo \in Seq(Nat)  BY DEF Init
<1> QED  BY <1>2, <1>3, <1>4 DEF Init, PhysTypeOK, Pages, Window

LEMMA TypeStep == PhysTypeOK /\ [Next]_memoryVars => PhysTypeOK'
<1> SUFFICES ASSUME PhysTypeOK, [Next]_memoryVars PROVE PhysTypeOK'  OBVIOUS
<1> USE DEF PhysTypeOK, mainVars, heapVars
<1>1. CASE Bump
  <2>1. Head(todo) \in Nat /\ Tail(todo) \in Seq(Nat)  BY <1>1 DEF Bump
  <2>2. Align(Head(todo)) \in Nat  BY <2>1, AlignFacts
  <2>3. heap_current' \in Nat  BY <1>1, <2>2 DEF Bump
  <2>4. blocks' \subseteq [start : Nat, size : Nat]  BY <1>1, <2>2 DEF Bump
  <2> QED  BY <1>1, <2>1, <2>3, <2>4 DEF Bump
<1>2. CASE Charge
  <2>1. heap_mapped_limit' \in Nat  BY <1>2, MemoryAssumption DEF Charge
  <2>2. /\ bitmap' \subseteq Pages /\ charged' \subseteq Pages
        /\ free_pages' \in 0 .. CountMod - 1
    <3>1. free_pages \in Int  BY MemoryAssumption
    <3> QED  BY <1>2, <3>1, DecrementedType DEF Charge, TakePage
  <2> QED  BY <1>2, <2>1, <2>2 DEF Charge
<1>3. CASE RunFile
  <2>1. todo' \in Seq(Nat)  BY <1>3, MemoryAssumption DEF RunFile
  <2>2. runs' \in 0 .. MaxRuns  BY <1>3, MemoryAssumption DEF RunFile
  <2>3. raced' \in BOOLEAN  BY <1>3 DEF RunFile
  <2> QED  BY <1>3, <2>1, <2>2, <2>3 DEF RunFile
<1>4. CASE Scan
  <2>1. i' \in 0 .. total_pages
    BY <1>4, MemoryAssumption DEF Scan, Pages, Free
  <2>2. main' \in Window => i' \in Pages
    BY <1>4 DEF Scan, At, Pages, Free, Window
  <2> QED  BY <1>4, <2>1, <2>2 DEF Scan, Window
<1>5. CASE LoadByte
  BY <1>5 DEF LoadByte, At, Window
<1>6. CASE StoreByte
  <2>1. i \in Pages  BY <1>6 DEF StoreByte, At, Window
  <2>2. bitmap' \subseteq Pages  BY <1>6, <2>1 DEF StoreByte, SameByte
  <2> QED  BY <1>6, <2>1, <2>2 DEF StoreByte, Window
<1>7. CASE LoadCount
  BY <1>7 DEF LoadCount, At, Window
<1>8. CASE StoreCount
  <2>1. count \in Int  BY MemoryAssumption
  <2> QED  BY <1>8, <2>1, DecrementedType DEF StoreCount, Window
<1>9. CASE UNCHANGED memoryVars
  BY <1>9 DEF memoryVars
<1> QED  BY <1>1, <1>2, <1>3, <1>4, <1>5, <1>6, <1>7, <1>8, <1>9 DEF Next

(* No step ever leaves the types.                                          *)
THEOREM TypeCorrect == Spec => []PhysTypeOK
  BY TypeInit, TypeStep, PTL DEF Spec

-----------------------------------------------------------------------------
(* The heap.  Its pointer stays a multiple of 8 above its start, and its   *)
(* limit is less than a page beyond it and never short of what was paid:   *)
(* without that HeapSound is not inductive.                                *)

HeapInv ==
  /\ Laid
  /\ heap_mapped_limit < heap_current + PAGE_SIZE
  /\ heap_current % 8 = 0 /\ HEAP_START <= heap_current
  /\ HEAP_START + Paid <= heap_mapped_limit

LEMMA PaidType == PhysTypeOK => Paid \in Nat
<1> SUFFICES ASSUME PhysTypeOK PROVE Paid \in Nat  OBVIOUS
<1>1. Cardinality(charged) \in Nat
  BY PagesFinite, FS_Subset, FS_CardinalityType DEF PhysTypeOK
<1>2. PAGE_SIZE \in Nat  BY MemoryAssumption
<1>3. \A m, n \in Nat : m * n \in Nat  OBVIOUS
<1> QED  BY <1>1, <1>2, <1>3 DEF Paid

(* A page that was charged before costs nothing, another one PAGE_SIZE.    *)
LEMMA PaidMore ==
  ASSUME PhysTypeOK, NEW p \in Pages, charged' = charged \cup {p}
  PROVE  /\ p \in charged => Paid' = Paid
         /\ p \notin charged => Paid' = Paid + PAGE_SIZE
<1>1. p \in charged => charged' = charged  OBVIOUS
<1>2. ASSUME p \notin charged
      PROVE  Paid' = Paid + PAGE_SIZE
  <2>1. charged \in SUBSET Pages /\ p \in Pages \ charged
    BY <1>2 DEF PhysTypeOK
  <2>2. /\ Cardinality(charged) \in Nat
        /\ Cardinality(charged') = Cardinality(charged) + 1
    BY <2>1, OneMore
  <2>3. \A n \in Nat : PAGE_SIZE * (n + 1) = PAGE_SIZE * n + PAGE_SIZE
    BY MemoryAssumption
  <2> QED  BY <2>2, <2>3 DEF Paid
<1> QED  BY <1>1, <1>2 DEF Paid

LEMMA HeapInit == Init => HeapInv
<1> SUFFICES ASSUME Init PROVE HeapInv  OBVIOUS
<1>1. Cardinality(charged) = 0  BY FS_EmptySet DEF Init
<1>2. Paid = 0  BY <1>1, MemoryAssumption DEF Paid
<1> QED  BY <1>2, MemoryAssumption DEF Init, HeapInv, Laid

LEMMA BumpKeepsHeap ==
  ASSUME PhysTypeOK, HeapInv, Bump
  PROVE  HeapInv'
<1> DEFINE size  == Align(Head(todo))
           block == [start |-> heap_current, size |-> size]
<1>1. size \in Nat /\ size % 8 = 0
  <2>1. Head(todo) \in Nat  BY DEF PhysTypeOK, Bump
  <2> QED  BY <2>1, AlignFacts
<1>2. /\ heap_current \in Nat /\ heap_mapped_limit \in Nat
      /\ blocks \subseteq [start : Nat, size : Nat]
  BY DEF PhysTypeOK
<1>3. /\ blocks' = blocks \cup {block} /\ heap_current' = heap_current + size
      /\ heap_mapped_limit' = heap_mapped_limit
      /\ heap_current <= heap_mapped_limit
  <2>1. heap_current <= heap_mapped_limit  BY <1>2 DEF Bump, Charging
  <2> QED  BY <2>1 DEF Bump
<1> HIDE DEF size
<1>4. block.start = heap_current /\ block.size = size  OBVIOUS
<1>5. \A a \in blocks : Apart(a, block) /\ Apart(block, a)
  <2> TAKE a \in blocks
  <2>1. a.start \in Nat /\ a.size \in Nat /\ a.start + a.size <= heap_current
    BY <1>2 DEF HeapInv, Laid
  <2> QED  BY <1>4, <2>1 DEF Apart
<1> HIDE DEF block
<1>6. \A a, b \in blocks' : a # b => Apart(a, b)
  BY <1>3, <1>5 DEF HeapInv, Laid
<1>7. \A a \in blocks' : /\ a.start % 8 = 0 /\ HEAP_START <= a.start
                         /\ a.start + a.size <= heap_current'
  <2> TAKE a \in blocks'
  <2>1. CASE a \in blocks
    <3>1. a.start \in Nat /\ a.size \in Nat /\ a.start + a.size <= heap_current
      BY <1>2, <2>1 DEF HeapInv, Laid
    <3> QED  BY <1>1, <1>2, <1>3, <2>1, <3>1 DEF HeapInv, Laid
  <2>2. CASE a = block
    BY <1>1, <1>2, <1>3, <1>4, <2>2 DEF HeapInv
  <2> QED  BY <1>3, <2>1, <2>2
<1>8. heap_mapped_limit' < heap_current' + PAGE_SIZE
  BY <1>1, <1>2, <1>3, MemoryAssumption DEF HeapInv, Laid
<1>9. heap_current' % 8 = 0 /\ HEAP_START <= heap_current'
  <2>1. \A m, n \in Nat : m % 8 = 0 /\ n % 8 = 0 => (m + n) % 8 = 0
    OBVIOUS
  <2>2. heap_current' % 8 = 0  BY <1>1, <1>2, <1>3, <2>1 DEF HeapInv
  <2>3. HEAP_START <= heap_current'
    BY <1>1, <1>2, <1>3, MemoryAssumption DEF HeapInv
  <2> QED  BY <2>2, <2>3
<1>10. HEAP_START + Paid' <= heap_mapped_limit'
  <2>1. Paid' = Paid  BY DEF Bump, Paid
  <2> QED  BY <1>3, <2>1 DEF HeapInv
<1> QED  BY <1>6, <1>7, <1>8, <1>9, <1>10 DEF HeapInv, Laid

LEMMA HeapStep == PhysTypeOK /\ HeapInv /\ [Next]_memoryVars => HeapInv'
<1> SUFFICES ASSUME PhysTypeOK, HeapInv, [Next]_memoryVars PROVE HeapInv'
  OBVIOUS
<1>1. CASE Bump
  BY <1>1, BumpKeepsHeap
<1>2. CASE Charge
  <2>1. /\ heap_current \in Nat /\ heap_mapped_limit \in Nat
        /\ PAGE_SIZE \in Nat /\ HEAP_START \in Nat /\ Paid \in Nat
    BY MemoryAssumption, PaidType DEF PhysTypeOK
  <2>2. /\ heap_mapped_limit' = heap_mapped_limit + PAGE_SIZE
        /\ heap_mapped_limit < heap_current
        /\ UNCHANGED <<heap_current, blocks>>
    BY <1>2, <2>1 DEF Charge, Charging
  <2>3. heap_mapped_limit' < heap_current' + PAGE_SIZE  BY <2>1, <2>2
  <2>4. Paid' \in {Paid, Paid + PAGE_SIZE}
    <3>1. CASE UNCHANGED charged
      BY <3>1 DEF Paid
    <3>2. CASE \E p \in Pages : charged' = charged \cup {p}
      BY <3>2, PaidMore
    <3> QED  BY <1>2, <3>1, <3>2 DEF Charge, TakePage
  <2>5. HEAP_START + Paid <= heap_mapped_limit  BY DEF HeapInv
  <2>6. HEAP_START + Paid' <= heap_mapped_limit'
    <3>1. CASE Paid' = Paid
      BY <2>1, <2>2, <2>5, <3>1
    <3>2. CASE Paid' = Paid + PAGE_SIZE
      BY <2>1, <2>2, <2>5, <3>2
    <3> QED  BY <2>4, <3>1, <3>2
  <2> QED  BY <2>2, <2>3, <2>6 DEF HeapInv, Laid
<1>3. CASE UNCHANGED <<heap_current, heap_mapped_limit, blocks, charged>>
  BY <1>3 DEF HeapInv, Laid, Paid
<1> QED
  BY <1>1, <1>2, <1>3 DEF Next, RunFile, Scan, LoadByte, StoreByte, LoadCount,
                          StoreCount, memoryVars, heapVars

-----------------------------------------------------------------------------
(* The count.  While main() has stored its bit and not its count, the      *)
(* count is one more than what is free; what it has loaded is current as   *)
(* long as nobody interrupts.                                              *)

Owed == IF main \in {"count", "save"} THEN 1 ELSE 0

CountInv ==
  /\ main \in Window => ~Busy
  /\ main \in {"load", "store"} => i \in Free
  /\ main = "store" => byte = bitmap \cap SameByte
  /\ main = "save" => count = free_pages
  /\ free_pages = total_pages - Cardinality(bitmap) + Owed

OwnInv ==
  /\ charged \subseteq bitmap
  /\ main \in {"count", "save"} => i \in bitmap \ charged
  /\ page # 0 => page \in bitmap \ charged

UnracedInv == ~raced => CountInv /\ OwnInv

LEMMA UnracedInit == Init => UnracedInv
<1> SUFFICES ASSUME Init PROVE CountInv /\ OwnInv  BY DEF UnracedInv
<1>1. Cardinality(bitmap) = used_pages
  <2>1. used_pages \in Nat \ {0}  BY MemoryAssumption
  <2>2. Cardinality(0 .. used_pages - 1)
          = IF 0 > used_pages - 1 THEN 0 ELSE used_pages - 1 - 0 + 1
    BY <2>1, FS_Interval
  <2> QED  BY <2>1, <2>2 DEF Init
<1>2. free_pages = total_pages - Cardinality(bitmap) + Owed
  BY <1>1, MemoryAssumption DEF Init, Owed
<1> QED  BY <1>2 DEF Init, CountInv, OwnInv, Window

LEMMA UnracedStep ==
  PhysTypeOK /\ UnracedInv /\ [Next]_memoryVars => UnracedInv'
<1> SUFFICES ASSUME PhysTypeOK, UnracedInv, [Next]_memoryVars, ~raced'
             PROVE  CountInv' /\ OwnInv'
  BY DEF UnracedInv
<1>0. ~raced /\ CountInv /\ OwnInv
  <2>1. raced => raced'
    BY DEF Next, Bump, Charge, RunFile, Scan, LoadByte, StoreByte, LoadCount,
           StoreCount, memoryVars
  <2> QED  BY <2>1 DEF UnracedInv
<1> USE DEF heapVars, mainVars
<1>1. CASE Bump
  <2>1. main \notin Window  BY <1>0, <1>1 DEF Bump, CountInv, Busy
  <2> QED
    BY <1>0, <1>1, <2>1 DEF Bump, CountInv, OwnInv, Owed, Window
<1>2. CASE Charge
  <2>1. main \notin Window /\ main' = main
    BY <1>0, <1>2 DEF Charge, CountInv, Busy
  <2>2. CASE UNCHANGED <<bitmap, free_pages, charged>>
    BY <1>0, <1>2, <2>1, <2>2 DEF Charge, CountInv, OwnInv, Owed, Window
  <2>3. ASSUME NEW p \in Pages, p \in Free,
               bitmap' = bitmap \cup {p}, charged' = charged \cup {p},
               free_pages' = Decremented(free_pages)
        PROVE  CountInv' /\ OwnInv'
    <3>1. bitmap \in SUBSET Pages /\ p \in Pages \ bitmap
      BY <2>3 DEF PhysTypeOK, Free
    <3>2. /\ Cardinality(bitmap) \in Nat /\ Cardinality(bitmap) + 1 <= total_pages
          /\ Cardinality(bitmap') = Cardinality(bitmap) + 1
      BY <2>3, <3>1, OneMore
    <3>3. free_pages = total_pages - Cardinality(bitmap)
      BY <1>0, <2>1, <3>2, MemoryAssumption DEF CountInv, Owed, Window
    <3>4. free_pages \in 1 .. CountMod  BY <3>2, <3>3, MemoryAssumption
    <3>5. free_pages' = free_pages - 1  BY <2>3, <3>4, DecrementedType
    <3>6. free_pages' = total_pages - Cardinality(bitmap') + Owed'
      BY <2>1, <3>2, <3>3, <3>5, MemoryAssumption DEF Owed, Window
    <3>7. (page' = page /\ p # page) \/ page = 0
      BY <1>0, <1>2, <3>1 DEF Charge, OwnInv
    <3>8. OwnInv'
      BY <1>0, <1>2, <2>1, <2>3, <3>1, <3>7 DEF Charge, OwnInv, Window
    <3> QED  BY <2>1, <3>6, <3>8 DEF CountInv, Window
  <2> QED  BY <1>2, <2>2, <2>3 DEF Charge, TakePage, FirstFree
<1>3. CASE RunFile
  <2>1. main \notin Window /\ main' = main  BY <1>3 DEF RunFile
  <2> QED  BY <1>0, <1>3, <2>1 DEF RunFile, CountInv, OwnInv, Owed, Window
<1>4. CASE Scan
  <2>1. Busy' = Busy  BY <1>4 DEF Scan, Busy, Charging
  <2>2. main \notin {"count", "save"} /\ main' \notin {"store", "count", "save"}
    BY <1>4 DEF Scan, At
  <2>3. main' = "load" => i' \in Free'  BY <1>4 DEF Scan, At, Free
  <2>4. Owed' = Owed  BY <2>2 DEF Owed
  <2>5. CountInv'
    BY <1>0, <1>4, <2>1, <2>2, <2>3, <2>4 DEF Scan, At, CountInv, Window
  <2> QED  BY <1>0, <1>4, <2>2, <2>5 DEF Scan, OwnInv
<1>5. CASE LoadByte
  <2>1. /\ main = "load" /\ main' = "store" /\ Busy' = Busy /\ ~Busy
        /\ Free' = Free /\ SameByte' = SameByte /\ Owed' = Owed
    BY <1>5 DEF LoadByte, At, Busy, Charging, Free, SameByte, Owed
  <2>2. CountInv'  BY <1>0, <1>5, <2>1 DEF LoadByte, CountInv
  <2> QED  BY <1>0, <1>5, <2>1, <2>2 DEF LoadByte, OwnInv
<1>6. CASE StoreByte
  <2>1. main = "store" /\ main' = "count" /\ Busy' = Busy /\ ~Busy /\ i' = i
    BY <1>6 DEF StoreByte, At, Busy, Charging
  <2>2. bitmap' = bitmap \cup {i}
    BY <1>0, <1>6, <2>1 DEF StoreByte, CountInv
  <2>3. bitmap \in SUBSET Pages /\ i \in Pages \ bitmap
    BY <1>0, <2>1 DEF PhysTypeOK, CountInv, Free
  <2>4. /\ Cardinality(bitmap) \in Nat
        /\ Cardinality(bitmap') = Cardinality(bitmap) + 1
    BY <2>2, <2>3, OneMore
  <2>5. free_pages' = total_pages - Cardinality(bitmap') + Owed'
    BY <1>0, <1>6, <2>1, <2>4, MemoryAssumption DEF StoreByte, CountInv, Owed
  <2>6. CountInv'  BY <1>6, <2>1, <2>5 DEF CountInv
  <2> QED  BY <1>0, <1>6, <2>1, <2>2, <2>3, <2>6 DEF StoreByte, OwnInv
<1>7. CASE LoadCount
  <2>1. main = "count" /\ main' = "save" /\ Busy' = Busy /\ ~Busy /\ Owed' = Owed
    BY <1>7 DEF LoadCount, At, Busy, Charging, Owed
  <2>2. CountInv'  BY <1>0, <1>7, <2>1 DEF LoadCount, CountInv
  <2> QED  BY <1>0, <1>7, <2>1, <2>2 DEF LoadCount, OwnInv
<1>8. CASE StoreCount
  <2>1. main = "save" /\ main' = "done" /\ i' = i /\ page' = i
    BY <1>8 DEF StoreCount, At
  <2>2. Cardinality(bitmap) \in Nat /\ Cardinality(bitmap) <= total_pages
    BY PagesFinite, FS_Subset, FS_CardinalityType DEF PhysTypeOK
  <2>3. count = total_pages - Cardinality(bitmap) + 1
    BY <1>0, <2>1 DEF CountInv, Owed
  <2>4. count \in 1 .. CountMod  BY <2>2, <2>3, MemoryAssumption DEF PhysTypeOK
  <2>5. free_pages' = total_pages - Cardinality(bitmap') + Owed'
    <3>1. free_pages' = count - 1
      BY <1>8, <2>4, DecrementedType DEF StoreCount
    <3> QED  BY <1>8, <2>1, <2>2, <2>3, <3>1, MemoryAssumption
             DEF StoreCount, Owed
  <2>6. CountInv'  BY <2>1, <2>5 DEF CountInv, Window
  <2> QED  BY <1>0, <1>8, <2>1, <2>6 DEF StoreCount, OwnInv
<1>9. CASE UNCHANGED memoryVars
  <2>1. /\ Busy' = Busy /\ Owed' = Owed /\ Free' = Free /\ SameByte' = SameByte
    BY <1>9 DEF memoryVars, Busy, Charging, Owed, Free, SameByte
  <2> QED  BY <1>0, <1>9, <2>1 DEF memoryVars, CountInv, OwnInv
<1> QED  BY <1>1, <1>2, <1>3, <1>4, <1>5, <1>6, <1>7, <1>8, <1>9 DEF Next

(* Unless main() is interrupted while it allocates, the count is the       *)
(* bitmap's, always.                                                       *)
THEOREM CountIsExact == Spec => []CountExactUnraced
<1>1. PhysTypeOK /\ UnracedInv => CountExactUnraced
  <2> SUFFICES ASSUME PhysTypeOK, UnracedInv, ~raced, main \notin Window
               PROVE  free_pages = total_pages - Cardinality(bitmap)
    BY DEF CountExactUnraced, CountExact
  <2>1. Cardinality(bitmap) \in Nat
    BY PagesFinite, FS_Subset, FS_CardinalityType DEF PhysTypeOK
  <2> QED  BY <2>1, MemoryAssumption DEF UnracedInv, CountInv, Owed, Window
<1> QED  BY <1>1, UnracedInit, UnracedStep, TypeCorrect, PTL DEF Spec

(* Until memory is exhausted, and unless main() was interrupted, every     *)
(* page below the heap's limit is one that was charged for it.             *)
PaidInv == ~raced /\ Free # {} => HEAP_START + Paid = heap_mapped_limit

LEMMA PaidInit == Init => PaidInv
<1> SUFFICES ASSUME Init PROVE PaidInv  OBVIOUS
<1>1. Cardinality(charged) = 0  BY FS_EmptySet DEF Init
<1>2. Paid = 0  BY <1>1, MemoryAssumption DEF Paid
<1> QED  BY <1>2, MemoryAssumption DEF Init, PaidInv

LEMMA PaidStep ==
  PhysTypeOK /\ UnracedInv /\ PaidInv /\ [Next]_memoryVars => PaidInv'
<1> SUFFICES ASSUME PhysTypeOK, UnracedInv, PaidInv, [Next]_memoryVars,
                    ~raced', Free' # {}
             PROVE  HEAP_START + Paid' = heap_mapped_limit'
  BY DEF PaidInv
<1> USE DEF heapVars, mainVars
<1>1. ~raced /\ CountInv /\ OwnInv
  <2>1. raced => raced'
    BY DEF Next, Bump, Charge, RunFile, Scan, LoadByte, StoreByte, LoadCount,
           StoreCount, memoryVars
  <2> QED  BY <2>1 DEF UnracedInv
<1>2. Free # {}
  <2>1. bitmap \subseteq bitmap'
    <3>1. StoreByte => bitmap' = bitmap \cup {i}
      BY <1>1 DEF StoreByte, At, CountInv
    <3>2. Charge => bitmap \subseteq bitmap'  BY DEF Charge, TakePage
    <3> QED  BY <3>1, <3>2 DEF Next, Bump, RunFile, Scan, LoadByte, LoadCount,
                               StoreCount, memoryVars
  <2> QED  BY <2>1 DEF Free
<1>3. HEAP_START + Paid = heap_mapped_limit  BY <1>1, <1>2 DEF PaidInv
<1>4. CASE Charge
  <2>1. PICK p \in Pages : FirstFree(p) /\ charged' = charged \cup {p}
    BY <1>2, <1>4 DEF Charge, TakePage
  <2>2. p \notin charged  BY <1>1, <2>1 DEF FirstFree, Free, OwnInv
  <2>3. Paid' = Paid + PAGE_SIZE  BY <2>1, <2>2, PaidMore
  <2>4. heap_mapped_limit' = heap_mapped_limit + PAGE_SIZE
    BY <1>4 DEF Charge
  <2> QED  BY <1>3, <2>3, <2>4, PaidType, MemoryAssumption
<1>5. CASE UNCHANGED <<charged, heap_mapped_limit>>
  BY <1>3, <1>5 DEF Paid
<1> QED
  BY <1>4, <1>5 DEF Next, Bump, RunFile, Scan, LoadByte, StoreByte, LoadCount,
                    StoreCount, memoryVars

LEMMA SoundHeap == PhysTypeOK /\ HeapInv /\ PaidInv => HeapSound
<1> SUFFICES ASSUME PhysTypeOK, HeapInv, PaidInv PROVE HeapSound  OBVIOUS
<1>1. /\ heap_current \in Nat /\ heap_mapped_limit \in Nat
      /\ PAGE_SIZE \in Nat /\ HEAP_START \in Nat /\ Paid \in Nat
  BY MemoryAssumption, PaidType DEF PhysTypeOK
<1>2. HEAP_START + Paid < heap_current + PAGE_SIZE  BY <1>1 DEF HeapInv
<1>3. ~Charging /\ ~raced /\ Free # {} => heap_current <= HEAP_START + Paid
  BY <1>1 DEF PaidInv, Charging
<1> QED  BY <1>2, <1>3 DEF HeapInv, HeapSound

(* The heap's blocks never overlap, and no page is charged that they do    *)
(* not reach into, whatever interrupts main() and however exhausted memory *)
(* is; until one of the two happens they are paid for to the page.         *)
THEOREM HeapIsSound == Spec => []HeapSound
  BY SoundHeap, HeapInit, HeapStep, PaidInit, PaidStep, UnracedInit, UnracedStep,
     TypeCorrect, PTL DEF Spec

(* And then the page main() has is its own.                                *)
THEOREM PageIsOwned == Spec => []PageOwned
<1>1. UnracedInv => PageOwned  BY DEF UnracedInv, OwnInv, PageOwned
<1> QED  BY <1>1, UnracedInit, UnracedStep, TypeCorrect, PTL DEF Spec

-----------------------------------------------------------------------------
(* The disk.                                                               *)

(* The inductive invariant.  A buffer is the start of a block of its size, *)
(* and the boot sector's is none of the command's.                         *)
Sizes == IF step = "mount" THEN <<BootSize>> ELSE RunSizes

Block(start, size) == [start |-> start, size |-> Align(size)]

Buffers ==
  /\ step = "idle" => todo = << >>
  /\ step # "idle" =>
       /\ Len(returned) + Len(todo) = Len(Sizes)
       /\ \A j \in 1 .. Len(todo) : todo[j] = Sizes[Len(returned) + j]
       /\ \A j \in 1 .. Len(returned) : Block(returned[j], Sizes[j]) \in blocks
       /\ phase # "command" => todo = << >>
  /\ step = "mount" /\ todo = << >> => returned = <<main_bpb>>
  /\ step # "mount" => Block(main_bpb, BootSize) \in blocks
  /\ step \in {"find", "load"} =>
       \A j \in 1 .. Len(returned) : returned[j] # main_bpb

(* The first words of sector l are in the heap at address a.               *)
Holds(a, l, words) ==
  \A k \in 0 .. words - 1 : a + 2 * k \in DOMAIN ram /\ ram[a + 2 * k] = <<l, k>>

Transfer ==
  /\ phase \in {"bsy", "drq"} => word = 0
  /\ phase = "data" =>
       /\ drive = IF word < SectorWords THEN "ready" ELSE "idle"
       /\ Holds(buffer, Addressed, word)
  /\ step = "mount" /\ phase # "command" => Addressed = 0
  /\ step # "mount" => Holds(main_bpb, 0, SectorWords)

DInv == PhysTypeOK /\ HeapInv /\ DiskTypeOK /\ Buffers /\ Transfer

(* What is asked of the drive is what the disk says: the directory, then   *)
(* the file of the entry that matches the name typed.                      *)
Known == disk.boot.boot_sig \in {40, 41}

Chosen(k) ==
  /\ Match(Root, k) /\ ClusterOf(Root[k]) >= 2 /\ cluster = ClusterOf(Root[k])

Asked ==
  /\ step \in {"find", "load"} <=> typed # None
  /\ data_region_start = IF step # "mount" /\ Known THEN disk.root ELSE 0
  /\ step = "load" => Known /\ \E k \in DOMAIN Root : Chosen(k)

Addressing == phase # "command" => Addressed = lba

FileInv == DInv /\ Asked /\ Addressing

-----------------------------------------------------------------------------
(* The heap under the disk is the heap of PhysMem.                         *)

LEMMA DiskKeepsMemory ==
  ASSUME [DiskNext]_vars
  PROVE  [Next]_memoryVars
<1>1. \/ Command \/ ata_wait_bsy \/ ata_wait_drq \/ ReadWord \/ Mount \/ NotFound
      \/ Found \/ Loaded \/ Drive \/ UNCHANGED vars
      => UNCHANGED memoryVars
  BY DEF Command, ata_wait_bsy, ata_wait_drq, ReadWord, Mount, NotFound, Found,
         Loaded, Answered, Drive, DriveBegins, DriveDelivers, DriveFails,
         DriveStep, vars
<1>2. kmalloc => Bump  BY DEF kmalloc
<1>3. kmallocPays => Charge  BY DEF kmallocPays
<1>4. \A n \in Typed : RunStellar(n) => RunFile  BY DEF RunStellar
<1>5. MainStep => Scan \/ LoadByte \/ StoreByte \/ LoadCount \/ StoreCount
  BY DEF MainStep
<1> QED  BY <1>1, <1>2, <1>3, <1>4, <1>5 DEF DiskNext, Host, Next

(* The allocator and the heap that the disk's code runs on behave as       *)
(* PhysMem says: no step of DiskNext moves them in another way.            *)
THEOREM DiskImplementsMemory == DiskSpec => Spec
<1>1. DiskInit => Init  BY DEF DiskInit
<1>2. [DiskNext]_vars => [Next]_memoryVars  BY DiskKeepsMemory
<1> QED  BY <1>1, <1>2, PTL DEF DiskSpec, Spec

-----------------------------------------------------------------------------
(* What the steps leave alone.                                             *)

LEMMA OnlyMallocAndRun ==
  ASSUME [DiskNext]_vars, ~kmalloc, \A n \in Typed : ~RunStellar(n)
  PROVE  UNCHANGED <<todo, blocks, heap_current, returned, main_bpb>>
<1>1. \/ Command \/ ata_wait_bsy \/ ata_wait_drq \/ ReadWord \/ Mount \/ NotFound
      \/ Found \/ Loaded \/ Drive \/ UNCHANGED vars
      => UNCHANGED <<todo, blocks, heap_current, returned, main_bpb>>
  BY DEF Command, ata_wait_bsy, ata_wait_drq, ReadWord, Mount, NotFound, Found,
         Loaded, Answered, Drive, DriveBegins, DriveDelivers, DriveFails,
         DriveStep, vars, memoryVars, heapVars, fileVars, diskVars
<1>2. kmallocPays => UNCHANGED <<todo, blocks, heap_current, returned, main_bpb>>
  BY DEF kmallocPays, Charge, diskVars, fileVars
<1>3. MainStep => UNCHANGED <<todo, blocks, heap_current, returned, main_bpb>>
  BY DEF MainStep, Scan, LoadByte, StoreByte, LoadCount, StoreCount, heapVars,
         diskVars, fileVars
<1> QED  BY <1>1, <1>2, <1>3 DEF DiskNext, Host

(* No step but a word's touches the heap, and nothing the disk.            *)
LEMMA OnlyReadWrites ==
  ASSUME [DiskNext]_vars
  PROVE  /\ disk' = disk
         /\ ReadWord \/ (ram' = ram /\ word' = word) \/ (Command /\ ram' = ram)
<1>1. \/ Command \/ ata_wait_bsy \/ ata_wait_drq \/ ReadWord \/ Mount \/ NotFound
      \/ Found \/ Loaded \/ Drive \/ UNCHANGED vars
      => /\ disk' = disk
         /\ ReadWord \/ (ram' = ram /\ word' = word) \/ (Command /\ ram' = ram)
  BY DEF Command, ata_wait_bsy, ata_wait_drq, ReadWord, Mount, NotFound, Found,
         Loaded, Answered, Drive, DriveBegins, DriveDelivers, DriveFails,
         DriveStep, vars, readVars, diskVars
<1>2. kmalloc \/ kmallocPays \/ MainStep
      => disk' = disk /\ ram' = ram /\ word' = word
  BY DEF kmalloc, kmallocPays, MainStep, diskVars, readVars
<1>3. \A n \in Typed : RunStellar(n) => disk' = disk /\ ram' = ram /\ word' = word
  BY DEF RunStellar
<1> QED  BY <1>1, <1>2, <1>3 DEF DiskNext, Host

-----------------------------------------------------------------------------
(* The sizes.                                                              *)

LEMMA SizeFacts ==
  /\ SectorWords \in Nat \ {0} /\ BootSize \in Nat /\ 2 * SectorWords <= BootSize
  /\ RunSizes \in Seq(Nat) /\ Len(RunSizes) = 3
  /\ RunSizes[1] \in Nat /\ RunSizes[2] \in Nat /\ RunSizes[3] \in Nat
  /\ 2 * SectorWords <= RunSizes[1] /\ 2 * SectorWords <= RunSizes[3]
<1>1. RunSizes \in Seq(Nat) /\ Len(RunSizes) = 3
  BY MemoryAssumption, DiskAssumption
<1>2. \A j \in 1 .. 3 : RunSizes[j] \in Nat  BY <1>1, SMTT(30)
<1> QED  BY <1>1, <1>2, MemoryAssumption, DiskAssumption

(* The buffer that is read into is a block of its own, as long as a        *)
(* sector: no word of it is one of the boot sector.                        *)
LEMMA BufferFacts ==
  ASSUME DInv, ~Busy, step # "idle"
  PROVE  /\ buffer \in Nat /\ main_bpb \in Nat /\ Len(returned) = Len(Sizes)
         /\ step = "mount" =>
              /\ buffer = main_bpb /\ Block(main_bpb, BootSize) \in blocks
         /\ step # "mount" =>
              \A j, k \in 0 .. SectorWords - 1 : main_bpb + 2 * j # buffer + 2 * k
<1>1. /\ todo = << >> /\ returned \in Seq(Nat) /\ main_bpb \in Nat
      /\ step \in {"mount", "find", "load"}
  BY DEF DInv, Busy, DiskTypeOK
<1>2. Len(returned) = Len(Sizes)
  <2>1. Len(returned) + Len(todo) = Len(Sizes)  BY <1>1 DEF DInv, Buffers
  <2>2. Len(todo) = 0 /\ Len(returned) \in Nat  BY <1>1
  <2> QED  BY <2>1, <2>2
<1>3. CASE step = "mount"
  <2>1. returned = <<main_bpb>> /\ buffer = main_bpb
    BY <1>1, <1>3 DEF DInv, Buffers, buffer
  <2>2. 1 \in 1 .. Len(returned) /\ returned[1] = main_bpb  BY <2>1
  <2>3. Sizes[1] = BootSize  BY <1>3 DEF Sizes
  <2>4. Block(returned[1], Sizes[1]) \in blocks  BY <1>3, <2>2 DEF DInv, Buffers
  <2> QED  BY <1>1, <1>2, <1>3, <2>1, <2>2, <2>3, <2>4
<1>4. CASE step \in {"find", "load"}
  <2>1. Len(returned) = 3 /\ Sizes = RunSizes
    BY <1>2, <1>4, SizeFacts DEF Sizes
  <2>2. PICK n \in {1, 3} : buffer = returned[n]
    BY <1>4 DEF buffer, root_dir, src_buffer
  <2>3. /\ n \in 1 .. Len(returned) /\ returned[n] \in Nat
        /\ RunSizes[n] \in Nat /\ 2 * SectorWords <= RunSizes[n]
    <3>1. \A j \in 1 .. Len(returned) : returned[j] \in Nat  BY <1>1
    <3>2. n \in 1 .. Len(returned)  BY <2>1, <2>2
    <3>3. n = 1 \/ n = 3  BY <2>2
    <3> QED  BY <3>1, <3>2, <3>3, SizeFacts
  <2>4. buffer # main_bpb  BY <1>4, <2>2, <2>3 DEF DInv, Buffers
  <2> DEFINE a == Block(main_bpb, BootSize)
             b == Block(buffer, RunSizes[n])
  <2>5. a \in blocks /\ b \in blocks
    BY <1>4, <2>1, <2>2, <2>3 DEF DInv, Buffers
  <2>6. /\ a.start = main_bpb /\ a.size = Align(BootSize)
        /\ b.start = buffer /\ b.size = Align(RunSizes[n])
    BY DEF Block
  <2>7. Apart(a, b)  BY <2>4, <2>5, <2>6 DEF DInv, HeapInv, Laid
  <2>8. /\ Align(BootSize) \in Nat /\ BootSize <= Align(BootSize)
        /\ Align(RunSizes[n]) \in Nat /\ RunSizes[n] <= Align(RunSizes[n])
    BY <2>3, SizeFacts, AlignFacts
  <2>9. \/ main_bpb + 2 * SectorWords <= buffer
        \/ buffer + 2 * SectorWords <= main_bpb
    <3>1. \/ main_bpb + Align(BootSize) <= buffer
          \/ buffer + Align(RunSizes[n]) <= main_bpb
      BY <2>6, <2>7 DEF Apart
    <3>2. \A x, y, u, v, s \in Nat : s <= u /\ u <= v /\ x + v <= y => x + s <= y
      OBVIOUS
    <3>3. /\ 2 * SectorWords \in Nat /\ BootSize \in Nat /\ RunSizes[n] \in Nat
          /\ 2 * SectorWords <= BootSize /\ 2 * SectorWords <= RunSizes[n]
          /\ buffer \in Nat
      BY <2>2, <2>3, SizeFacts
    <3> QED  BY <1>1, <2>8, <3>1, <3>2, <3>3
  <2> HIDE DEF a, b
  <2>10. \A j, k \in 0 .. SectorWords - 1 : main_bpb + 2 * j # buffer + 2 * k
    <3>1. buffer \in Nat /\ SectorWords \in Nat  BY <2>2, <2>3, SizeFacts
    <3>2. \A x, y, s \in Nat : x + 2 * s <= y =>
            \A j, k \in 0 .. s - 1 : x + 2 * j # y + 2 * k
      OBVIOUS
    <3>3. CASE main_bpb + 2 * SectorWords <= buffer
      BY <1>1, <3>1, <3>2, <3>3
    <3>4. CASE buffer + 2 * SectorWords <= main_bpb
      <4> SUFFICES ASSUME NEW j \in 0 .. SectorWords - 1,
                          NEW k \in 0 .. SectorWords - 1
                   PROVE  main_bpb + 2 * j # buffer + 2 * k
        OBVIOUS
      <4>1. buffer + 2 * k # main_bpb + 2 * j  BY <1>1, <3>1, <3>2, <3>4
      <4> QED  BY <4>1
    <3> QED  BY <2>9, <3>3, <3>4
  <2> QED  BY <1>1, <1>2, <1>4, <2>2, <2>3, <2>10
<1> QED  BY <1>1, <1>3, <1>4
-----------------------------------------------------------------------------
(* The numbers of a disk.                                                  *)

LEMMA Products == \A x, y \in Nat : x * y \in Nat
  OBVIOUS

(* The numbers that the registers of the drive can hold.                   *)
LEMMA SectorsFacts ==
  /\ Sectors \subseteq Nat /\ 0 \in Sectors
<1>1. Base \in Nat \ {0} /\ TopBase \in Nat \ {0}  BY DiskAssumption
<1>2. \A x, y \in Nat \ {0} : x * y \in Nat \ {0}  OBVIOUS
<1>3. Base * Base * Base * TopBase \in Nat \ {0}
  <2>1. Base * Base \in Nat \ {0}  BY <1>1, <1>2
  <2>2. Base * Base * Base \in Nat \ {0}  BY <1>1, <1>2, <2>1
  <2> QED  BY <1>1, <1>2, <2>2
<1> QED  BY <1>3 DEF Sectors

LEMMA BootFacts ==
  ASSUME disk \in Images
  PROVE  /\ Bpb.reserved_sectors \in Nat /\ Bpb.fat_count \in Nat
         /\ Bpb.fat_size_32 \in Nat /\ Bpb.sectors_per_cluster \in Nat
<1>1. disk.boot \in [boot_sig : Nat, reserved_sectors : Nat, fat_count : Nat,
                     fat_size_32 : Nat, sectors_per_cluster : Nat]
  BY ImageAssumption
<1>2. CASE Bpb = disk.boot  BY <1>1, <1>2
<1>3. CASE Bpb = [f \in DOMAIN disk.boot |-> 0]  BY <1>1, <1>3
<1> QED  BY <1>2, <1>3 DEF Bpb

(* What is read as a directory is a sequence of entries with clusters.     *)
LEMMA EntryFacts ==
  ASSUME disk \in Images, NEW l, NEW k \in Listed(DirectoryIn(l))
  PROVE  /\ k \in DOMAIN DirectoryIn(l)
         /\ DirectoryIn(l)[k].name \in [1 .. Cells -> Char \ {Dot}]
         /\ ClusterOf(DirectoryIn(l)[k]) \in Nat
<1> DEFINE E == [name : [1 .. Cells -> Char \ {Dot}],
                 cluster_high : Nat, cluster_low : Nat, sector : Sectors]
           dir == DirectoryIn(l)
<1>1. dir \in Seq(E)
  <2>1. \A m \in DOMAIN disk.directories : disk.directories[m] \in Seq(E)
    BY ImageAssumption
  <2>2. << >> \in Seq(E)  OBVIOUS
  <2> QED  BY <2>1, <2>2 DEF DirectoryIn
<1>2. k \in 1 .. Len(dir)  BY DEF Listed
<1> HIDE DEF dir, E
<1>3. dir[k] \in E /\ k \in DOMAIN dir  BY <1>1, <1>2
<1>4. dir[k].cluster_high \in Nat /\ dir[k].cluster_low \in Nat
      /\ dir[k].name \in [1 .. Cells -> Char \ {Dot}]
  BY <1>3 DEF E
<1>5. ClusterOf(dir[k]) \in Nat
  <2>1. dir[k].cluster_high * ClusterBase \in Nat
    BY <1>4, Products, DiskAssumption
  <2> QED  BY <1>4, <2>1 DEF ClusterOf
<1> QED  BY <1>3, <1>4, <1>5 DEF dir

(* Every sector number the code asks for is a number.                      *)
LEMMA LbaType ==
  ASSUME DiskTypeOK, step # "idle"
  PROVE  lba \in Int
<1>1. /\ data_region_start \in Nat /\ cluster \in Nat
      /\ step \in {"mount", "find", "load"} /\ Bpb.sectors_per_cluster \in Nat
  BY BootFacts DEF DiskTypeOK
<1>2. \A c, s, d \in Nat : d + (c - 2) * s \in Int
  <2>1. \A x, y \in Int : x * y \in Int  OBVIOUS
  <2> QED  BY <2>1
<1>3. FileSector \in Int  BY <1>1, <1>2 DEF FileSector
<1> QED  BY <1>1, <1>3 DEF lba

LEMMA RegisterType ==
  ASSUME NEW n \in Int
  PROVE  [sel  |-> (n \div (Base * Base * Base)) % TopBase,
          low  |-> n % Base,
          mid  |-> (n \div Base) % Base,
          high |-> (n \div (Base * Base)) % Base] \in Bits
<1>1. Base \in Nat \ {0} /\ TopBase \in Nat \ {0}  BY DiskAssumption
<1>2. \A m \in Int, d \in Nat \ {0} : m \div d \in Int /\ m % d \in 0 .. d - 1
  OBVIOUS
<1>3. \A x, y \in Nat \ {0} : x * y \in Nat \ {0}  OBVIOUS
<1>4. Base * Base \in Nat \ {0} /\ Base * Base * Base \in Nat \ {0}
  BY <1>1, <1>3
<1> DEFINE x == n \div (Base * Base * Base)
           y == n \div (Base * Base)
           z == n \div Base
<1>5. x \in Int /\ y \in Int /\ z \in Int  BY <1>1, <1>2, <1>4
<1> HIDE DEF x, y, z
<1>6. /\ x % TopBase \in 0 .. TopBase - 1 /\ y % Base \in 0 .. Base - 1
      /\ z % Base \in 0 .. Base - 1 /\ n % Base \in 0 .. Base - 1
  BY <1>1, <1>2, <1>5
<1> QED  BY <1>6 DEF Bits, x, y, z
-----------------------------------------------------------------------------
(* Types.                                                                  *)

LEMMA DiskTypeStep ==
  ASSUME DInv, [DiskNext]_vars
  PROVE  DiskTypeOK'
<1> USE DEF DInv, DiskTypeOK, readVars, fileVars, diskVars
<1>1. CASE Command
  <2>1. lba \in Int  BY <1>1, LbaType DEF Command, Reading
  <2>2. reg' \in Bits  BY <1>1, <2>1, RegisterType DEF Command
  <2>3. word' \in 0 .. SectorWords  BY <1>1, SizeFacts DEF Command
  <2> QED  BY <1>1, <2>2, <2>3 DEF Command, Reading
<1>2. CASE ata_wait_bsy \/ ata_wait_drq
  BY <1>2 DEF ata_wait_bsy, ata_wait_drq, Reading
<1>3. CASE Drive
  <2>1. phase # "command"
    BY <1>3 DEF Drive, DriveBegins, DriveDelivers, DriveFails, DriveStep
  <2> QED
    BY <1>3, <2>1 DEF Drive, DriveBegins, DriveDelivers, DriveFails, DriveStep
<1>4. CASE ReadWord
  <2>1. ~Busy /\ step # "idle" /\ phase = "data" /\ word < SectorWords
    BY <1>4 DEF ReadWord, Reading
  <2>2. buffer \in Nat  BY <2>1, BufferFacts
  <2>3. DOMAIN ram' \subseteq Nat
    <3>1. word \in Nat  BY SizeFacts
    <3>2. buffer + 2 * word \in Nat  BY <2>2, <3>1
    <3>3. DOMAIN ram' = DOMAIN ram \cup {buffer + 2 * word}
      BY <1>4 DEF ReadWord
    <3> QED  BY <3>2, <3>3
  <2>4. word' \in 0 .. SectorWords  BY <1>4, <2>1, SizeFacts DEF ReadWord
  <2>5. drive' \in {drive, "idle"}  BY <1>4 DEF ReadWord
  <2> QED  BY <1>4, <2>1, <2>3, <2>4, <2>5 DEF ReadWord
<1>5. ASSUME Read PROVE drive = "idle"
  BY <1>5, SizeFacts DEF Read, Reading, Transfer
<1>6. CASE Mount
  <2>1. data_region_start' \in Nat
    <3>1. Bpb.fat_count * Bpb.fat_size_32 \in Nat /\ Bpb.reserved_sectors \in Nat
      BY BootFacts, Products
    <3> QED  BY <1>6, <3>1 DEF Mount
  <2> QED  BY <1>5, <1>6, <2>1 DEF Mount
<1>7. CASE NotFound
  BY <1>5, <1>7 DEF NotFound, Answered
<1>8. CASE Found
  <2>1. cluster' \in Nat  BY <1>8, EntryFacts DEF Found
  <2> QED  BY <1>5, <1>8, <2>1 DEF Found
<1>9. CASE Loaded
  <2>1. outcome' \in Sectors  BY <1>9 DEF Loaded, Answered, SectorAt
  <2> QED  BY <1>5, <1>9, <2>1 DEF Loaded, Answered
<1>10. CASE kmalloc
  <2>1. returned' \in Seq(Nat) /\ main_bpb' \in Nat
    BY <1>10 DEF kmalloc, PhysTypeOK
  <2> QED  BY <1>10, <2>1 DEF kmalloc
<1>11. CASE kmallocPays \/ MainStep \/ UNCHANGED vars
  BY <1>11 DEF kmallocPays, MainStep, vars
<1>12. ASSUME NEW n \in Typed, RunStellar(n) PROVE DiskTypeOK'
  BY <1>12 DEF RunStellar
<1> QED
  BY <1>1, <1>2, <1>3, <1>4, <1>6, <1>7, <1>8, <1>9, <1>10, <1>11, <1>12
     DEF DiskNext, Host

-----------------------------------------------------------------------------
(* The buffers.                                                            *)

LEMMA MallocKeepsBuffers ==
  ASSUME DInv, kmalloc
  PROVE  Buffers'
<1>1. /\ todo \in Seq(Nat) /\ todo # << >> /\ returned \in Seq(Nat)
      /\ heap_current \in Nat /\ step # "idle" /\ phase = "command"
  BY DEF DInv, PhysTypeOK, DiskTypeOK, Buffers, kmalloc, Bump
<1>2. /\ returned' = Append(returned, heap_current) /\ todo' = Tail(todo)
      /\ step' = step /\ phase' = phase
      /\ blocks' = blocks \cup {Block(heap_current, Head(todo))}
      /\ main_bpb' = IF step = "mount" THEN heap_current ELSE main_bpb
  BY DEF kmalloc, Bump, readVars, Block
<1>3. /\ Len(returned) \in Nat /\ Len(todo) \in Nat \ {0}
      /\ Len(returned') = Len(returned) + 1 /\ Len(todo') = Len(todo) - 1
      /\ Head(todo) = todo[1] /\ todo' \in Seq(Nat)
      /\ \A j \in 1 .. Len(todo') : todo'[j] = todo[j + 1]
      /\ \A j \in 1 .. Len(returned) : returned'[j] = returned[j]
      /\ returned'[Len(returned) + 1] = heap_current
  <2>1. Len(todo) \in Nat \ {0}  BY <1>1, EmptySeq
  <2>2. /\ Tail(todo) \in Seq(Nat) /\ Len(Tail(todo)) = Len(todo) - 1
        /\ \A j \in 1 .. Len(Tail(todo)) : Tail(todo)[j] = todo[j + 1]
    BY <1>1, HeadTailProperties
  <2>3. /\ Len(Append(returned, heap_current)) = Len(returned) + 1
        /\ \A j \in 1 .. Len(returned) :
             Append(returned, heap_current)[j] = returned[j]
        /\ Append(returned, heap_current)[Len(returned) + 1] = heap_current
    BY <1>1, AppendProperties
  <2>4. Head(todo) = todo[1] /\ Len(returned) \in Nat  BY <1>1
  <2> QED  BY <1>2, <2>1, <2>2, <2>3, <2>4
<1>4. Sizes' = Sizes  BY <1>2 DEF Sizes
<1>5. /\ Len(returned) + Len(todo) = Len(Sizes)
      /\ \A j \in 1 .. Len(todo) : todo[j] = Sizes[Len(returned) + j]
      /\ \A j \in 1 .. Len(returned) : Block(returned[j], Sizes[j]) \in blocks
  BY <1>1 DEF DInv, Buffers
<1>6. Len(returned') + Len(todo') = Len(Sizes')  BY <1>3, <1>4, <1>5
<1>7. \A j \in 1 .. Len(todo') : todo'[j] = Sizes'[Len(returned') + j]
  <2> TAKE j \in 1 .. Len(todo')
  <2>1. j + 1 \in 1 .. Len(todo) /\ Len(returned) + (j + 1) = Len(returned') + j
    BY <1>3
  <2> QED  BY <1>3, <1>4, <1>5, <2>1
<1>8. \A j \in 1 .. Len(returned') : Block(returned'[j], Sizes'[j]) \in blocks'
  <2> TAKE j \in 1 .. Len(returned')
  <2>1. CASE j \in 1 .. Len(returned)  BY <1>2, <1>3, <1>4, <1>5, <2>1
  <2>2. CASE j = Len(returned) + 1
    <3>1. 1 \in 1 .. Len(todo)  BY <1>3
    <3>2. Head(todo) = Sizes[Len(returned) + 1]  BY <1>3, <1>5, <3>1
    <3> QED  BY <1>2, <1>3, <1>4, <2>2, <3>2
  <2> QED  BY <1>3, <2>1, <2>2
<1>9. step' = "mount" => returned' = <<main_bpb'>>
  <2> SUFFICES ASSUME step = "mount" PROVE returned' = <<heap_current>>
    BY <1>2
  <2>1. Len(Sizes) = 1  BY DEF Sizes
  <2>2. Len(returned) = 0  BY <1>3, <1>5, <2>1
  <2>3. returned = << >>  BY <1>1, <2>2, EmptySeq
  <2> QED  BY <1>2, <2>3
<1>10. step' # "mount" => Block(main_bpb', BootSize) \in blocks'
  BY <1>2 DEF DInv, Buffers
<1>11. step' \in {"find", "load"} =>
         \A j \in 1 .. Len(returned') : returned'[j] # main_bpb'
  <2> SUFFICES ASSUME step \in {"find", "load"}
               PROVE  \A j \in 1 .. Len(returned') : returned'[j] # main_bpb
    BY <1>2
  <2>1. heap_current # main_bpb
    <3>1. Block(main_bpb, BootSize) \in blocks  BY DEF DInv, Buffers
    <3>2. main_bpb + Align(BootSize) <= heap_current
      BY <3>1 DEF DInv, HeapInv, Laid, Block
    <3>3. Align(BootSize) \in Nat \ {0} /\ main_bpb \in Nat
      <4>1. BootSize \in Nat /\ 0 < BootSize  BY SizeFacts
      <4>2. Align(BootSize) \in Nat /\ BootSize <= Align(BootSize)
        BY <4>1, AlignFacts
      <4> QED  BY <4>1, <4>2 DEF DInv, DiskTypeOK
    <3> QED  BY <1>1, <3>2, <3>3
  <2>2. \A j \in 1 .. Len(returned) : returned[j] # main_bpb
    BY DEF DInv, Buffers
  <2> QED  BY <1>3, <2>1, <2>2, SMTT(30)
<1> QED
  BY <1>1, <1>2, <1>6, <1>7, <1>8, <1>9, <1>10, <1>11 DEF Buffers

(* Every step keeps what is known of the buffers.                          *)
LEMMA BuffersStep ==
  ASSUME DInv, [DiskNext]_vars
  PROVE  Buffers'
<1>1. CASE kmalloc  BY <1>1, MallocKeepsBuffers
<1>2. ASSUME NEW n \in Typed, RunStellar(n) PROVE Buffers'
  <2>1. /\ step = "idle" /\ step' = "find" /\ phase' = "command"
        /\ todo' = RunSizes /\ returned' = << >> /\ blocks' = blocks
        /\ main_bpb' = main_bpb
    BY <1>2 DEF RunStellar, RunFile
  <2>2. Len(returned') = 0 /\ Sizes' = RunSizes  BY <2>1 DEF Sizes
  <2>3. \A j \in 1 .. Len(todo') : todo'[j] = Sizes'[Len(returned') + j]
    BY <2>1, <2>2
  <2>4. Len(returned') + Len(todo') = Len(Sizes')  BY <2>1, <2>2, SizeFacts
  <2> QED  BY <2>1, <2>2, <2>3, <2>4 DEF DInv, Buffers
<1>3. ASSUME ~kmalloc, \A n \in Typed : ~RunStellar(n) PROVE Buffers'
  <2>1. UNCHANGED <<todo, blocks, returned, main_bpb>>
    BY <1>3, OnlyMallocAndRun
  <2>2. CASE Mount \/ NotFound \/ Found \/ Loaded
    <3>1. ~Busy /\ step # "idle" /\ todo = << >>
      BY <2>2 DEF Mount, NotFound, Found, Loaded, Read, Reading, Busy
    <3>2. /\ step = "mount" => Block(main_bpb, BootSize) \in blocks
          /\ step # "mount" => Block(main_bpb, BootSize) \in blocks
      BY <3>1, BufferFacts DEF DInv, Buffers
    <3>3. /\ step' \in {"idle", "load"} /\ phase' = "command"
          /\ step' = "load" => step = "find"
      BY <2>2 DEF Mount, NotFound, Found, Loaded, Answered
    <3>4. CASE step' = "idle"  BY <2>1, <3>1, <3>2, <3>4 DEF Buffers
    <3>5. CASE step' = "load"
      <4>1. Sizes' = Sizes /\ step = "find"  BY <3>3, <3>5 DEF Sizes
      <4> QED  BY <2>1, <3>1, <3>2, <3>3, <3>5, <4>1 DEF DInv, Buffers
    <3> QED  BY <3>3, <3>4, <3>5
  <2>3. CASE step' = step /\ (phase' = phase \/ ~Busy)
    <3>1. Sizes' = Sizes  BY <2>3 DEF Sizes
    <3> QED  BY <2>1, <2>3, <3>1 DEF DInv, Buffers, Busy
  <2>4. \/ Command \/ ata_wait_bsy \/ ata_wait_drq \/ ReadWord \/ Drive
        \/ kmallocPays \/ MainStep \/ UNCHANGED vars
        => step' = step /\ (phase' = phase \/ ~Busy)
    BY DEF Command, ata_wait_bsy, ata_wait_drq, ReadWord, Reading, Drive,
           DriveBegins, DriveDelivers, DriveFails, DriveStep, kmallocPays,
           MainStep, vars, diskVars, readVars
  <2> QED  BY <1>3, <2>2, <2>3, <2>4 DEF DiskNext, Host
<1> QED  BY <1>1, <1>2, <1>3

-----------------------------------------------------------------------------
(* The transfer.                                                           *)

(* The word that is read does not disturb those that are elsewhere.        *)
LEMMA WordElsewhere ==
  ASSUME ReadWord, NEW a, NEW l, NEW n \in Nat, Holds(a, l, n),
         \A k \in 0 .. n - 1 : a + 2 * k # buffer + 2 * word
  PROVE  \A k \in 0 .. n - 1 : a + 2 * k \in DOMAIN ram' /\ ram'[a + 2 * k] = <<l, k>>
<1> TAKE k \in 0 .. n - 1
<1>1. a + 2 * k \in DOMAIN ram /\ ram[a + 2 * k] = <<l, k>>  BY DEF Holds
<1>2. a + 2 * k # buffer + 2 * word  OBVIOUS
<1> DEFINE x == a + 2 * k
           y == buffer + 2 * word
<1>3. ram' = [z \in DOMAIN ram \cup {y} |->
                IF z = y THEN <<Addressed, word>> ELSE ram[z]]
  BY DEF ReadWord
<1> HIDE DEF x, y
<1>4. x \in DOMAIN ram' /\ ram'[x] = ram[x]
  BY <1>1, <1>2, <1>3 DEF x, y
<1> QED  BY <1>1, <1>4 DEF x

(* A word read goes to the buffer of this transfer and to no other.        *)
LEMMA ReadWordKeeps ==
  ASSUME DInv, ReadWord
  PROVE  Transfer'
<1>1. /\ ~Busy /\ step # "idle" /\ phase = "data" /\ word < SectorWords
      /\ UNCHANGED <<step, reg, phase, main_bpb, returned>>
      /\ word' = word + 1
      /\ drive' = IF word + 1 = SectorWords THEN "idle" ELSE drive
  BY DEF ReadWord, Reading, fileVars
<1>2. /\ word \in Nat /\ SectorWords \in Nat /\ main_bpb \in Nat
      /\ drive = "ready" /\ Holds(buffer, Addressed, word)
  BY <1>1, SizeFacts DEF DInv, DiskTypeOK, Transfer
<1>3. buffer' = buffer /\ Addressed' = Addressed
  BY <1>1 DEF buffer, root_dir, src_buffer, Addressed
<1>4. buffer \in Nat  BY <1>1, BufferFacts
<1> DEFINE y == buffer + 2 * word
<1>5. y \in DOMAIN ram' /\ ram'[y] = <<Addressed, word>>
  <2>1. ram' = [z \in DOMAIN ram \cup {y} |->
                  IF z = y THEN <<Addressed, word>> ELSE ram[z]]
    BY DEF ReadWord
  <2> HIDE DEF y
  <2> QED  BY <2>1
<1>6. Holds(buffer, Addressed, word)'
  <2>1. \A k \in 0 .. word - 1 : buffer + 2 * k # buffer + 2 * word
    BY <1>2, <1>4
  <2>2. \A k \in 0 .. word - 1 : /\ buffer + 2 * k \in DOMAIN ram'
                                 /\ ram'[buffer + 2 * k] = <<Addressed, k>>
    BY <1>2, <2>1, WordElsewhere
  <2>3. \A k \in 0 .. word : /\ buffer + 2 * k \in DOMAIN ram'
                             /\ ram'[buffer + 2 * k] = <<Addressed, k>>
    <3> TAKE k \in 0 .. word
    <3>1. k \in 0 .. word - 1 \/ k = word  BY <1>2
    <3> QED  BY <1>5, <2>2, <3>1
  <2>4. word' - 1 = word  BY <1>1, <1>2
  <2> QED  BY <1>3, <2>3, <2>4 DEF Holds
<1>7. step # "mount" => Holds(main_bpb, 0, SectorWords)'
  <2> SUFFICES ASSUME step # "mount" PROVE Holds(main_bpb, 0, SectorWords)'
    OBVIOUS
  <2>1. Holds(main_bpb, 0, SectorWords)  BY DEF DInv, Transfer
  <2>2. word \in 0 .. SectorWords - 1  BY <1>1, <1>2
  <2>3. \A k \in 0 .. SectorWords - 1 : main_bpb + 2 * k # buffer + 2 * word
    BY <1>1, <2>2, BufferFacts
  <2>4. \A k \in 0 .. SectorWords - 1 : /\ main_bpb + 2 * k \in DOMAIN ram'
                                       /\ ram'[main_bpb + 2 * k] = <<0, k>>
    BY <1>2, <2>1, <2>3, WordElsewhere
  <2>5. main_bpb' = main_bpb  BY <1>1
  <2> QED  BY <2>4, <2>5 DEF Holds
<1>8. step = "mount" => Addressed' = 0  BY <1>1, <1>3 DEF DInv, Transfer
<1>9. drive' = IF word' < SectorWords THEN "ready" ELSE "idle"  BY <1>1, <1>2
<1> QED  BY <1>1, <1>6, <1>7, <1>8, <1>9 DEF Transfer

(* Every step keeps what is known of the transfer.                         *)
LEMMA TransferStep ==
  ASSUME DInv, [DiskNext]_vars
  PROVE  Transfer'
<1>1. CASE ReadWord  BY <1>1, ReadWordKeeps
<1>2. step = "mount" \/ Holds(main_bpb, 0, SectorWords)  BY DEF DInv, Transfer
<1>3. CASE Command
  <2>1. /\ phase' = "bsy" /\ word' = 0 /\ UNCHANGED <<step, ram, main_bpb>>
        /\ ~Busy /\ step # "idle"
    BY <1>3 DEF Command, Reading, fileVars
  <2>2. step = "mount" => Addressed' = 0
    <3> SUFFICES ASSUME step = "mount" PROVE Addressed' = 0  OBVIOUS
    <3>1. lba = 0  BY DEF lba
    <3>2. Base \in Nat \ {0} /\ TopBase \in Nat \ {0}  BY DiskAssumption
    <3>3. \A d \in Nat \ {0} : 0 \div d = 0 /\ 0 % d = 0  OBVIOUS
    <3>4. \A x, y \in Nat \ {0} : x * y \in Nat \ {0}  OBVIOUS
    <3>5. Base * Base \in Nat \ {0} /\ Base * Base * Base \in Nat \ {0}
      BY <3>2, <3>4
    <3>6. reg' = [sel |-> 0, low |-> 0, mid |-> 0, high |-> 0]
      BY <1>3, <3>1, <3>2, <3>3, <3>5 DEF Command
    <3> QED  BY <3>2, <3>6 DEF Addressed
  <2>3. Holds(main_bpb, 0, SectorWords)
        => Holds(main_bpb, 0, SectorWords)'
    BY <2>1 DEF Holds
  <2> QED  BY <1>2, <2>1, <2>2, <2>3 DEF Transfer
<1>4. CASE Mount \/ NotFound \/ Found \/ Loaded
  <2>1. /\ ~Busy /\ step # "idle" /\ phase = "data" /\ word = SectorWords
        /\ phase' = "command" /\ step' # "mount"
        /\ UNCHANGED <<ram, main_bpb, returned>>
    BY <1>4 DEF Mount, NotFound, Found, Loaded, Answered, Read, Reading
  <2>2. Holds(main_bpb, 0, SectorWords)
    <3>1. CASE step = "mount"
      <4>1. Holds(buffer, Addressed, SectorWords) /\ Addressed = 0
        BY <2>1, <3>1 DEF DInv, Transfer
      <4>2. buffer = main_bpb  BY <2>1, <3>1, BufferFacts
      <4> QED  BY <4>1, <4>2
    <3> QED  BY <1>2, <3>1
  <2>3. Holds(main_bpb, 0, SectorWords)'  BY <2>1, <2>2 DEF Holds
  <2> QED  BY <2>1, <2>3 DEF Transfer
<1>5. CASE kmalloc
  <2>1. /\ phase = "command" /\ UNCHANGED <<phase, step, ram, word, drive>>
        /\ step # "mount" => main_bpb' = main_bpb
    <3>1. todo # << >>  BY <1>5 DEF kmalloc, Bump
    <3> QED  BY <1>5, <3>1 DEF kmalloc, readVars, DInv, Buffers
  <2>2. step # "mount" => Holds(main_bpb, 0, SectorWords)'
    BY <1>2, <1>5, <2>1 DEF Holds, DInv, Buffers, kmalloc
  <2> QED  BY <2>1, <2>2 DEF Transfer
<1>6. ASSUME NEW n \in Typed, RunStellar(n) PROVE Transfer'
  <2>1. /\ step = "idle" /\ phase' = "command" /\ step' = "find"
        /\ UNCHANGED <<ram, main_bpb>>
    BY <1>6 DEF RunStellar
  <2>2. Holds(main_bpb, 0, SectorWords)'  BY <1>2, <2>1 DEF Holds
  <2> QED  BY <2>1, <2>2 DEF Transfer
<1>7. CASE ata_wait_bsy \/ ata_wait_drq \/ Drive \/ kmallocPays \/ MainStep
           \/ UNCHANGED vars
  <2>1. UNCHANGED <<step, ram, main_bpb, returned, reg, word>>
    BY <1>7 DEF ata_wait_bsy, ata_wait_drq, Drive, DriveBegins, DriveDelivers,
                DriveFails, DriveStep, kmallocPays, MainStep, vars, diskVars,
                readVars, fileVars
  <2>2. buffer' = buffer /\ Addressed' = Addressed
    BY <2>1 DEF buffer, root_dir, src_buffer, Addressed
  <2>3. /\ phase' = "data" /\ phase # "data" =>
             phase = "drq" /\ drive = "ready" /\ drive' = "ready"
        /\ phase' = "data" /\ phase = "data" => drive' = drive
        /\ phase' \in {"bsy", "drq"} => phase \in {"bsy", "drq"}
        /\ phase' # "command" => phase # "command"
    <3>1. CASE ata_wait_bsy  BY <3>1 DEF ata_wait_bsy, Reading
    <3>2. CASE ata_wait_drq  BY <3>2 DEF ata_wait_drq, Reading, DRQ
    <3>3. CASE Drive
      <4>1. phase = "data" => drive \in {"ready", "idle"}
        BY DEF DInv, Transfer
      <4> QED
        BY <3>3, <4>1 DEF Drive, DriveBegins, DriveDelivers, DriveFails, DriveStep
    <3>4. kmallocPays \/ MainStep \/ UNCHANGED vars => UNCHANGED <<phase, drive>>
      BY DEF kmallocPays, MainStep, vars, diskVars, readVars
    <3> QED  BY <1>7, <3>1, <3>2, <3>3, <3>4
  <2>4. ASSUME phase' = "data"
        PROVE  /\ drive' = IF word' < SectorWords THEN "ready" ELSE "idle"
               /\ Holds(buffer, Addressed, word)'
    <3>1. CASE phase = "data"
      BY <2>1, <2>2, <2>3, <2>4, <3>1 DEF DInv, Transfer, Holds
    <3>2. CASE phase # "data"
      <4>1. word = 0 /\ drive' = "ready"
        BY <2>3, <2>4, <3>2 DEF DInv, Transfer
      <4>2. word' = 0 /\ 0 < SectorWords  BY <2>1, <4>1, SizeFacts
      <4>3. 0 .. word' - 1 = {}  BY <4>2
      <4> QED  BY <4>1, <4>2, <4>3 DEF Holds
    <3> QED  BY <3>1, <3>2
  <2>5. Holds(main_bpb, 0, SectorWords) => Holds(main_bpb, 0, SectorWords)'
    BY <2>1 DEF Holds
  <2> QED  BY <1>2, <2>1, <2>2, <2>3, <2>4, <2>5 DEF DInv, Transfer
<1> QED
  BY <1>1, <1>3, <1>4, <1>5, <1>6, <1>7 DEF DiskNext, Host
-----------------------------------------------------------------------------
(* What follows whatever is typed and whatever the disk holds.             *)

LEMMA DiskInductive == DiskSpec => []DInv
<1>1. DiskInit => DInv
  <2> SUFFICES ASSUME DiskInit PROVE DInv  OBVIOUS
  <2>1. Init  BY DEF DiskInit
  <2>2. PhysTypeOK /\ HeapInv  BY <2>1, TypeInit, HeapInit
  <2>3. DiskTypeOK
    <3>1. word \in 0 .. SectorWords  BY SizeFacts DEF DiskInit
    <3>2. reg \in Bits
      <4>1. 0 \in 0 .. Base - 1 /\ 0 \in 0 .. TopBase - 1  BY DiskAssumption
      <4> QED  BY <4>1 DEF DiskInit, Bits
    <3>3. DOMAIN ram = {} /\ returned \in Seq(Nat)  BY DEF DiskInit
    <3> QED  BY <3>1, <3>2, <3>3 DEF DiskInit, DiskTypeOK
  <2>4. Buffers
    <3>1. /\ step = "mount" /\ phase = "command" /\ todo = <<BootSize>>
          /\ returned = << >> /\ Sizes = <<BootSize>>
      BY DEF DiskInit, Init, Sizes
    <3>2. Len(returned) = 0 /\ Len(todo) = 1 /\ Len(Sizes) = 1  BY <3>1
    <3>3. todo # << >>  BY <3>2, <3>1
    <3>4. \A j \in 1 .. Len(todo) : todo[j] = Sizes[Len(returned) + j]
      BY <3>1, <3>2
    <3> QED  BY <3>1, <3>2, <3>3, <3>4 DEF Buffers
  <2>5. Transfer  BY DEF DiskInit, Transfer
  <2> QED  BY <2>2, <2>3, <2>4, <2>5 DEF DInv
<1>2. DInv /\ [DiskNext]_vars => DInv'
  <2> SUFFICES ASSUME DInv, [DiskNext]_vars PROVE DInv'  OBVIOUS
  <2>1. PhysTypeOK' /\ HeapInv'
    BY DiskKeepsMemory, TypeStep, HeapStep DEF DInv
  <2> QED
    BY <2>1, DiskTypeStep, BuffersStep, TransferStep DEF DInv
<1> QED  BY <1>1, <1>2, PTL DEF DiskSpec

(* No step of the disk's code or of the drive leaves the types, and the    *)
(* code does not start on a sector while the drive is at another.          *)
THEOREM DiskTypeCorrect == DiskSpec => []DiskTypeOK
<1>1. DInv => DiskTypeOK  BY DEF DInv
<1> QED  BY <1>1, DiskInductive, PTL

(* What PhysMem promises of the heap and of the count of free pages, it    *)
(* keeps when it is the disk's code that allocates.                        *)
THEOREM MemoryUnderTheDisk ==
  DiskSpec => [](PhysTypeOK /\ HeapSound /\ CountExactUnraced /\ PageOwned)
  BY DiskImplementsMemory, TypeCorrect, HeapIsSound, CountIsExact, PageIsOwned, PTL

(* A buffer that holds a sector's words holds that sector and no other.    *)
LEMMA HeldSector ==
  ASSUME NEW a, NEW l \in Sectors, Holds(a, l, SectorWords)
  PROVE  SectorAt(a) = {l}
<1>1. l \in SectorAt(a)  BY DEF SectorAt, Holds
<1>2. \A m \in SectorAt(a) : m = l
  <2> TAKE m \in SectorAt(a)
  <2>1. 0 \in 0 .. SectorWords - 1  BY SizeFacts
  <2>2. ram[a + 2 * 0] = <<m, 0>>  BY <2>1 DEF SectorAt
  <2>3. ram[a + 2 * 0] = <<l, 0>>  BY <2>1 DEF Holds
  <2> QED  BY <2>2, <2>3
<1> QED  BY <1>1, <1>2

(* The boot sector stays in its buffer, whatever is allocated, read or run *)
(* after it.                                                               *)
THEOREM BpbIsIntact == DiskSpec => []BpbIntact
<1>1. DInv => BpbIntact
  BY HeldSector, SectorsFacts DEF DInv, Transfer, BpbIntact
<1> QED  BY <1>1, DiskInductive, PTL
-----------------------------------------------------------------------------
(* The address registers: a sector's number is put together again as it    *)
(* was taken apart, whatever the width of the registers.                   *)

LEMMA Multiple ==
  ASSUME NEW d \in Nat \ {0}, NEW k \in Int, k >= 1
  PROVE  d * k >= d
<1>1. k - 1 \in Nat  OBVIOUS
<1>2. d * (k - 1) \in Nat  BY <1>1, Products
<1>3. d * k = d * (k - 1) + d /\ d * k \in Int  OBVIOUS
<1> QED  BY <1>2, <1>3

(* There is one way to divide with a remainder.                            *)
LEMMA QuotientUnique ==
  ASSUME NEW d \in Nat \ {0}, NEW q \in Int, NEW r \in 0 .. d - 1
  PROVE  (d * q + r) \div d = q
<1> DEFINE a == d * q + r
<1>0. a \in Int  OBVIOUS
<1> HIDE DEF a
<1> DEFINE p == a \div d
           t == a % d
<1>1. p \in Int /\ t \in 0 .. d - 1 /\ a = d * p + t  BY <1>0
<1> HIDE DEF p, t
<1>2. d * p + t = d * q + r  BY <1>1 DEF a
<1>3. \A x \in Int : x >= 1 => d * x >= d  BY Multiple
<1>4. /\ d * (p - q) = d * p - d * q /\ d * (q - p) = d * q - d * p
      /\ d * p \in Int /\ d * q \in Int
  BY <1>1
<1>5. ~(p - q >= 1) /\ ~(q - p >= 1)
  <2>1. /\ p - q >= 1 => d * (p - q) >= d
        /\ q - p >= 1 => d * (q - p) >= d
    BY <1>1, <1>3
  <2>2. d * p - d * q = r - t /\ d * q - d * p = t - r
    BY <1>1, <1>2, <1>4
  <2>3. r - t < d /\ t - r < d  BY <1>1
  <2> QED  BY <1>1, <1>4, <2>1, <2>2, <2>3
<1> QED  BY <1>1, <1>5 DEF a, p

(* Dividing twice is dividing by the product.                              *)
LEMMA Twice ==
  ASSUME NEW n \in Nat, NEW a \in Nat \ {0}, NEW b \in Nat \ {0}
  PROVE  (n \div a) \div b = n \div (a * b)
<1> DEFINE q == n \div a
           r == n % a
           u == q \div b
           v == q % b
<1>1. q \in Nat /\ r \in 0 .. a - 1 /\ n = a * q + r  OBVIOUS
<1> HIDE DEF q, r
<1>2. u \in Nat /\ v \in 0 .. b - 1 /\ q = b * u + v  BY <1>1
<1> HIDE DEF u, v
<1>3. a * q = a * (b * u) + a * v
  BY <1>1, <1>2
<1>4. a * (b * u) = (a * b) * u  BY <1>2
<1>5. a * b \in Nat \ {0}
  <2>1. a * b >= a  BY Multiple
  <2> QED  BY <2>1
<1>6. a * v + r \in 0 .. a * b - 1
  <2>1. a * v \in Nat /\ a * (b - 1 - v) \in Nat
    <3>1. v \in Nat /\ b - 1 - v \in Nat /\ a \in Nat  BY <1>2
    <3> QED  BY <3>1, Products
  <2>2. a * (b - 1 - v) = a * b - a - a * v  BY <1>2
  <2> QED  BY <1>1, <1>5, <2>1, <2>2
<1>7. n = (a * b) * u + (a * v + r)
  <2>1. a * (b * u) \in Nat /\ a * v \in Nat
    <3>1. b * u \in Nat /\ v \in Nat  BY <1>2, Products
    <3> QED  BY <3>1, Products
  <2>2. \A x, y, z \in Nat : (x + y) + z = x + (y + z)  OBVIOUS
  <2>3. n = (a * (b * u) + a * v) + r /\ r \in Nat  BY <1>1, <1>3
  <2>4. n = a * (b * u) + (a * v + r)  BY <2>1, <2>2, <2>3
  <2> QED  BY <1>4, <2>4
<1>8. n \div (a * b) = u
  <2>1. u \in Int  BY <1>2
  <2> QED  BY <1>5, <1>6, <1>7, <2>1, QuotientUnique
<1> QED  BY <1>8 DEF q, u

(* A number written in the pieces of the registers is read back whole.     *)
LEMMA PutTogether ==
  ASSUME NEW n \in Sectors,
         reg' = [sel  |-> (n \div (Base * Base * Base)) % TopBase,
                 low  |-> n % Base,
                 mid  |-> (n \div Base) % Base,
                 high |-> (n \div (Base * Base)) % Base]
  PROVE  Addressed' = n
<1>1. Base \in Nat \ {0} /\ TopBase \in Nat \ {0} /\ n \in Nat
  BY DiskAssumption, SectorsFacts
<1>2. \A x, y \in Nat \ {0} : x * y \in Nat \ {0}  OBVIOUS
<1>3. Base * Base \in Nat \ {0} /\ Base * Base * Base \in Nat \ {0}
  BY <1>1, <1>2
<1> DEFINE q1 == n \div Base
           q2 == n \div (Base * Base)
           q3 == n \div (Base * Base * Base)
<1>4. \A m \in Nat, d \in Nat \ {0} :
        m \div d \in Nat /\ m % d \in 0 .. d - 1 /\ m = (m % d) + d * (m \div d)
  OBVIOUS
<1>5. q1 \in Nat /\ q2 \in Nat /\ q3 \in Nat  BY <1>1, <1>3, <1>4
<1>6. q1 \div Base = q2 /\ q2 \div Base = q3
  BY <1>1, <1>3, Twice
<1>7. q3 % TopBase = q3
  <2> DEFINE c == Base * Base * Base
  <2>1. n <= c * TopBase - 1  BY <1>1, <1>3 DEF Sectors
  <2>2. n = (n % c) + c * q3 /\ n % c \in 0 .. c - 1  BY <1>1, <1>3, <1>4
  <2>3. c \in Nat \ {0}  BY <1>3
  <2> HIDE DEF c, q3
  <2>4. c * q3 <= n  BY <1>1, <1>5, <2>2, <2>3, Products
  <2>5. ~(q3 >= TopBase)
    <3> SUFFICES ASSUME q3 >= TopBase PROVE FALSE  OBVIOUS
    <3>1. q3 - TopBase \in Nat  BY <1>1, <1>5
    <3>2. c * (q3 - TopBase) \in Nat  BY <2>3, <3>1, Products
    <3>3. c * (q3 - TopBase) = c * q3 - c * TopBase  BY <1>1, <1>5, <2>3
    <3>4. c * q3 \in Nat /\ c * TopBase \in Nat  BY <1>1, <1>5, <2>3, Products
    <3> QED  BY <1>1, <2>1, <2>4, <3>2, <3>3, <3>4
  <2>6. q3 \in 0 .. TopBase - 1  BY <1>1, <1>5, <2>5
  <2> QED  BY <1>1, <2>6
<1> HIDE DEF q1, q2, q3
<1>8. /\ n = (n % Base) + Base * q1
      /\ q1 = (q1 % Base) + Base * q2
      /\ q2 = (q2 % Base) + Base * q3
  <2>1. n = (n % Base) + Base * q1  BY <1>1, <1>4 DEF q1
  <2> QED  BY <1>1, <1>4, <1>5, <1>6, <2>1
<1>9. /\ reg'.low = n % Base /\ reg'.mid = q1 % Base
      /\ reg'.high = q2 % Base /\ reg'.sel = q3
  BY <1>7 DEF q1, q2, q3
<1> QED  BY <1>8, <1>9 DEF Addressed
-----------------------------------------------------------------------------
(* What is asked of the drive.                                             *)

LEMMA RootFacts ==
  ASSUME disk \in Images
  PROVE  /\ disk.root \in Sectors /\ Root = DirectoryIn(disk.root)
         /\ DirectoryIn(0) = << >>
         /\ Known => disk.root = disk.boot.reserved_sectors
                                 + disk.boot.fat_count * disk.boot.fat_size_32
         /\ \A k \in DOMAIN Root :
              /\ Root[k].name \in [1 .. Cells -> Char \ {Dot}]
              /\ Root[k].sector \in Sectors
              /\ Root[k].sector =
                   IF ClusterOf(Root[k]) < 2 THEN 0
                   ELSE disk.root + (ClusterOf(Root[k]) - 2)
                                      * disk.boot.sectors_per_cluster
              /\ ClusterOf(Root[k]) >= 2 => Root[k].sector # 0
<1> DEFINE E == [name : [1 .. Cells -> Char \ {Dot}],
                 cluster_high : Nat, cluster_low : Nat, sector : Sectors]
<1>1. /\ disk.root \in DOMAIN disk.directories
      /\ DOMAIN disk.directories \subseteq Sectors \ {0}
      /\ disk.directories[disk.root] \in Seq(E)
      /\ disk.boot.boot_sig \in {40, 41} =>
           disk.root = disk.boot.reserved_sectors
                       + disk.boot.fat_count * disk.boot.fat_size_32
      /\ \A k \in DOMAIN disk.directories[disk.root] :
           Root[k].sector =
             IF ClusterOf(Root[k]) < 2 THEN 0
             ELSE disk.root + (ClusterOf(Root[k]) - 2)
                                * disk.boot.sectors_per_cluster
  BY ImageAssumption DEF Root
<1>2. Root = DirectoryIn(disk.root) /\ DirectoryIn(0) = << >>
  BY <1>1 DEF Root, DirectoryIn
<1>3. \A k \in DOMAIN Root : Root[k] \in E
  <2> HIDE DEF E
  <2>1. Root \in Seq(E)  BY <1>1 DEF Root
  <2> QED  BY <2>1, ElementOfSeq, LenProperties
<1>4. \A k \in DOMAIN Root : ClusterOf(Root[k]) >= 2 => Root[k].sector # 0
  <2> SUFFICES ASSUME NEW k \in DOMAIN Root, ClusterOf(Root[k]) >= 2
               PROVE  Root[k].sector # 0
    OBVIOUS
  <2>1. disk.boot.sectors_per_cluster \in Nat  BY ImageAssumption
  <2>2. ClusterOf(Root[k]) \in Nat
    <3>1. Root[k].cluster_high \in Nat /\ Root[k].cluster_low \in Nat  BY <1>3
    <3>2. Root[k].cluster_high * ClusterBase \in Nat
      BY <3>1, Products, DiskAssumption
    <3> QED  BY <3>1, <3>2 DEF ClusterOf
  <2>3. (ClusterOf(Root[k]) - 2) * disk.boot.sectors_per_cluster \in Nat
    <3>1. ClusterOf(Root[k]) - 2 \in Nat  BY <2>2
    <3> QED  BY <2>1, <3>1, Products
  <2>4. disk.root \in Nat \ {0}  BY <1>1, SectorsFacts
  <2>5. Root[k].sector = disk.root + (ClusterOf(Root[k]) - 2)
                                       * disk.boot.sectors_per_cluster
    BY <1>1, <2>2 DEF Root
  <2> QED  BY <2>3, <2>4, <2>5
<1>5. Root = disk.directories[disk.root]  BY DEF Root
<1> QED  BY <1>1, <1>2, <1>3, <1>4, <1>5 DEF Known

(* Once mounted, the boot sector in the heap is the disk's.                *)
LEMMA BpbFixed == DInv /\ step # "mount" => Bpb = disk.boot
<1> SUFFICES ASSUME DInv, step # "mount" PROVE Bpb = disk.boot  OBVIOUS
<1>1. SectorAt(main_bpb) = {0}
  BY HeldSector, SectorsFacts DEF DInv, Transfer
<1> QED  BY <1>1 DEF Bpb

(* The sector that is asked for is one the drive has.                      *)
LEMMA Wanted ==
  DInv /\ Asked /\ step # "idle" =>
    /\ lba \in Sectors
    /\ step = "mount" => lba = 0
    /\ step = "find"  => lba = IF Known THEN disk.root ELSE 0
    /\ step = "load"  => /\ lba = disk.root + (cluster - 2)
                                                * disk.boot.sectors_per_cluster
                         /\ \A k \in DOMAIN Root : Chosen(k) => lba = Root[k].sector
<1> SUFFICES ASSUME DInv, Asked, step # "idle"
             PROVE  /\ lba \in Sectors
                    /\ step = "mount" => lba = 0
                    /\ step = "find"  => lba = IF Known THEN disk.root ELSE 0
                    /\ step = "load"  =>
                         /\ lba = disk.root + (cluster - 2)
                                                * disk.boot.sectors_per_cluster
                         /\ \A k \in DOMAIN Root :
                              Chosen(k) => lba = Root[k].sector
  OBVIOUS
<1>1. disk \in Images /\ step \in {"mount", "find", "load"}
  BY DEF DInv, DiskTypeOK
<1>2. CASE step = "mount"
  BY <1>2, SectorsFacts DEF lba
<1>3. CASE step = "find"
  <2>1. lba = IF Known THEN disk.root ELSE 0  BY <1>3 DEF lba, Asked
  <2> QED  BY <1>1, <1>3, <2>1, RootFacts, SectorsFacts
<1>4. CASE step = "load"
  <2>1. Known /\ Bpb = disk.boot /\ data_region_start = disk.root
    BY <1>4, BpbFixed DEF Asked
  <2>2. lba = disk.root + (cluster - 2) * disk.boot.sectors_per_cluster
    BY <1>4, <2>1 DEF lba, FileSector
  <2>3. \A k \in DOMAIN Root : Chosen(k) => lba = Root[k].sector
    <3> SUFFICES ASSUME NEW k \in DOMAIN Root, Chosen(k)
                 PROVE  lba = Root[k].sector
      OBVIOUS
    <3>1. cluster = ClusterOf(Root[k]) /\ cluster >= 2 /\ cluster \in Nat
      BY DEF Chosen, DInv, DiskTypeOK
    <3>2. ~(ClusterOf(Root[k]) < 2)  BY <3>1
    <3> QED  BY <1>1, <2>2, <3>1, <3>2, RootFacts
  <2>4. lba \in Sectors
    <3>1. PICK k \in DOMAIN Root : Chosen(k)  BY <1>4 DEF Asked
    <3>2. lba = Root[k].sector  BY <2>3, <3>1
    <3> QED  BY <1>1, <3>2, RootFacts
  <2> QED  BY <1>4, <2>2, <2>3, <2>4
<1> QED  BY <1>1, <1>2, <1>3, <1>4

(* What has been read is what was asked for.                               *)
LEMMA ReadFacts ==
  ASSUME FileInv, Read
  PROVE  SectorAt(buffer) = {lba} /\ step # "idle" /\ ~Busy
<1>1. step # "idle" /\ ~Busy /\ phase = "data" /\ word = SectorWords
  BY DEF Read, Reading
<1>2. Holds(buffer, lba, SectorWords)
  BY <1>1 DEF FileInv, DInv, Transfer, Addressing
<1>3. lba \in Sectors  BY <1>1, Wanted DEF FileInv
<1> QED  BY <1>1, <1>2, <1>3, HeldSector

(* A directory that has been read and has names is the disk's root.        *)
LEMMA DirectoryRead ==
  ASSUME FileInv, Read, step = "find", NEW l \in SectorAt(root_dir)
  PROVE  /\ Known => DirectoryIn(l) = Root
         /\ ~Known => Listed(DirectoryIn(l)) = {}
<1>1. SectorAt(root_dir) = {lba}  BY ReadFacts DEF buffer
<1>2. l = IF Known THEN disk.root ELSE 0
  BY <1>1, Wanted DEF FileInv
<1>3. disk \in Images  BY DEF FileInv, DInv, DiskTypeOK
<1>4. Listed(<< >>) = {}  BY DEF Listed
<1> QED  BY <1>2, <1>3, <1>4, RootFacts

(* What is asked of the drive is right after every step.                   *)
LEMMA AskedStep ==
  ASSUME FileInv, [DiskNext]_vars
  PROVE  Asked'
<1>0. /\ disk' = disk /\ Known' = Known /\ Root' = Root
  BY OnlyReadWrites DEF Known, Root
<1>1. CASE Mount
  <2>1. /\ step = "mount" /\ step' = "idle" /\ typed' = typed /\ Read
        /\ IF Bpb.boot_sig \in {40, 41}
             THEN data_region_start' =
                    Bpb.reserved_sectors + Bpb.fat_count * Bpb.fat_size_32
             ELSE data_region_start' = data_region_start
    BY <1>1 DEF Mount
  <2>2. Bpb = disk.boot
    <3>1. buffer = main_bpb /\ lba = 0
      BY <2>1, ReadFacts, BufferFacts DEF lba, FileInv
    <3>2. SectorAt(main_bpb) = {0}  BY <2>1, <3>1, ReadFacts
    <3> QED  BY <3>2 DEF Bpb
  <2>3. data_region_start = 0  BY <2>1 DEF FileInv, Asked
  <2>4. disk \in Images  BY DEF FileInv, DInv, DiskTypeOK
  <2>5. data_region_start' = IF Known THEN disk.root ELSE 0
    BY <2>1, <2>2, <2>3, <2>4, RootFacts DEF Known
  <2> QED  BY <1>0, <2>1, <2>5 DEF FileInv, Asked
<1>2. CASE Found
  <2>1. /\ step = "find" /\ step' = "load" /\ Read
        /\ UNCHANGED <<typed, data_region_start>>
    BY <1>2 DEF Found
  <2>2. PICK l \in SectorAt(root_dir) : \E k \in Listed(DirectoryIn(l)) :
          /\ Match(DirectoryIn(l), k)
          /\ ClusterOf(DirectoryIn(l)[k]) >= 2
          /\ cluster' = ClusterOf(DirectoryIn(l)[k])
    BY <1>2 DEF Found
  <2>3. Known /\ DirectoryIn(l) = Root  BY <2>1, <2>2, DirectoryRead
  <2>4. PICK k \in Listed(Root) :
          /\ Match(Root, k) /\ ClusterOf(Root[k]) >= 2
          /\ cluster' = ClusterOf(Root[k])
    BY <2>2, <2>3
  <2>5. k \in DOMAIN Root
    BY <2>3, <2>4, EntryFacts DEF FileInv, DInv, DiskTypeOK
  <2>6. Chosen(k)'  BY <1>0, <2>1, <2>4 DEF Chosen, Match
  <2> QED  BY <1>0, <2>1, <2>3, <2>5, <2>6 DEF FileInv, Asked
<1>3. CASE NotFound \/ Loaded
  <2>1. /\ step \in {"find", "load"} /\ step' = "idle" /\ typed' = None
        /\ UNCHANGED data_region_start
    BY <1>3 DEF NotFound, Loaded, Answered
  <2> QED  BY <1>0, <2>1 DEF FileInv, Asked
<1>4. ASSUME NEW n \in Typed, RunStellar(n) PROVE Asked'
  <2>1. /\ step = "idle" /\ step' = "find" /\ typed' # None
        /\ UNCHANGED data_region_start
    BY <1>4, DiskAssumption DEF RunStellar
  <2> QED  BY <1>0, <2>1 DEF FileInv, Asked
<1>5. CASE UNCHANGED <<step, typed, data_region_start, cluster>>
  <2>1. \A k : Chosen(k)' = Chosen(k)  BY <1>0, <1>5 DEF Chosen, Match
  <2> QED  BY <1>0, <1>5, <2>1 DEF FileInv, Asked
<1>6. \/ Command \/ ata_wait_bsy \/ ata_wait_drq \/ ReadWord \/ Drive \/ kmalloc
      \/ kmallocPays \/ MainStep \/ UNCHANGED vars
      => UNCHANGED <<step, typed, data_region_start, cluster>>
  BY DEF Command, ata_wait_bsy, ata_wait_drq, ReadWord, Drive, DriveBegins,
         DriveDelivers, DriveFails, DriveStep, kmalloc, kmallocPays, MainStep,
         vars, diskVars, fileVars
<1> QED  BY <1>1, <1>2, <1>3, <1>4, <1>5, <1>6 DEF DiskNext, Host

(* And so is the sector its registers address.                             *)
LEMMA AddressingStep ==
  ASSUME FileInv, DInv', Asked', [DiskNext]_vars
  PROVE  Addressing'
<1> SUFFICES ASSUME phase' # "command" PROVE Addressed' = lba'
  BY DEF Addressing
<1>1. step' = step /\ UNCHANGED <<disk, cluster>>
  <2>1. ~Mount /\ ~Found /\ ~NotFound /\ ~Loaded /\ \A n \in Typed : ~RunStellar(n)
    BY DEF Mount, Found, NotFound, Loaded, Answered, RunStellar
  <2>2. \/ Command \/ ata_wait_bsy \/ ata_wait_drq \/ ReadWord \/ Drive \/ kmalloc
        \/ kmallocPays \/ MainStep \/ UNCHANGED vars
        => step' = step /\ UNCHANGED <<disk, cluster>>
    BY DEF Command, ata_wait_bsy, ata_wait_drq, ReadWord, Drive, DriveBegins,
           DriveDelivers, DriveFails, DriveStep, kmalloc, kmallocPays, MainStep,
           vars, diskVars, fileVars
  <2> QED  BY <2>1, <2>2 DEF DiskNext, Host
<1>2. step # "idle"
  BY <1>1 DEF DInv, DiskTypeOK
<1>3. lba' = lba /\ lba \in Sectors
  <2>1. (DInv /\ Asked /\ step # "idle" =>
           /\ lba \in Sectors
           /\ step = "mount" => lba = 0
           /\ step = "find"  => lba = IF Known THEN disk.root ELSE 0
           /\ step = "load"  =>
                /\ lba = disk.root + (cluster - 2) * disk.boot.sectors_per_cluster
                /\ \A k \in DOMAIN Root : Chosen(k) => lba = Root[k].sector)'
    BY Wanted, PTL
  <2>2. step \in {"mount", "find", "load"}
    BY <1>2 DEF FileInv, DInv, DiskTypeOK
  <2>3. Known' = Known  BY <1>1 DEF Known
  <2> QED  BY <1>1, <1>2, <2>1, <2>2, <2>3, Wanted DEF FileInv
<1>4. CASE Command
  BY <1>3, <1>4, PutTogether DEF Command
<1>5. CASE ~Command
  <2>1. UNCHANGED reg /\ phase # "command"
    <3>1. ata_wait_bsy \/ ata_wait_drq \/ ReadWord
          => UNCHANGED reg /\ phase # "command"
      BY DEF ata_wait_bsy, ata_wait_drq, ReadWord, Reading
    <3>2. Drive \/ kmalloc \/ kmallocPays \/ MainStep \/ UNCHANGED vars
          => UNCHANGED <<reg, phase>>
      BY DEF Drive, DriveBegins, DriveDelivers, DriveFails, DriveStep, kmalloc,
             kmallocPays, MainStep, vars, diskVars, readVars
    <3>3. ~Mount /\ ~Found /\ ~NotFound /\ ~Loaded
          /\ \A n \in Typed : ~RunStellar(n)
      BY DEF Mount, Found, NotFound, Loaded, Answered, RunStellar
    <3> QED  BY <1>5, <3>1, <3>2, <3>3 DEF DiskNext, Host
  <2>2. Addressed' = Addressed  BY <2>1 DEF Addressed
  <2> QED  BY <1>3, <2>1, <2>2 DEF FileInv, Addressing
<1> QED  BY <1>4, <1>5

(* All of it together is inductive.                                        *)
LEMMA FileInductive == DiskSpec => []FileInv
<1>1. DiskInit => Asked /\ Addressing
  BY DiskAssumption DEF DiskInit, Asked, Addressing
<1>2. FileInv /\ DInv' /\ [DiskNext]_vars => FileInv'
  BY AskedStep, AddressingStep DEF FileInv
<1>3. DInv /\ Asked /\ Addressing => FileInv  BY DEF FileInv
<1> QED  BY <1>1, <1>2, <1>3, DiskInductive, PTL DEF DiskSpec
-----------------------------------------------------------------------------
(* Names.  A name that is filled with spaces and its spelling determine    *)
(* each other.                                                             *)

LEMMA Least ==
  ASSUME NEW T, T \subseteq Nat, T # {}
  PROVE  \E x \in T : \A y \in T : x <= y
<1> DEFINE R == OpToRel(<, Nat)
<1>1. IsWellFoundedOn(R, Nat)  BY NatLessThanWellFounded
<1>2. \A x, y \in Nat : x < y => <<x, y>> \in R  BY DEF OpToRel
<1> HIDE DEF R
<1>3. PICK x \in T : \A y \in T : ~ (<<y, x>> \in R)  BY <1>1, WFMin
<1>4. \A y \in T : ~ (y < x)  BY <1>2, <1>3
<1> QED  BY <1>3, <1>4

(* Where the spaces at the end of s begin.                                 *)
TrimmedTo(s, k) ==
  /\ k \in 0 .. Len(s)
  /\ \A j \in k + 1 .. Len(s) : s[j] = Space
  /\ k = 0 \/ s[k] # Space

LEMMA TrimFacts ==
  ASSUME NEW s \in Seq(Char)
  PROVE  \E k : /\ TrimmedTo(s, k) /\ Trim(s) = SubSeq(s, 1, k)
                /\ \A m : TrimmedTo(s, m) => m = k
<1>0. Len(s) \in Nat  OBVIOUS
<1>1. \E k \in 0 .. Len(s) : TrimmedTo(s, k)
  <2> DEFINE T == {k \in 0 .. Len(s) : \A j \in k + 1 .. Len(s) : s[j] = Space}
  <2>1. T \subseteq Nat /\ Len(s) \in T  BY <1>0
  <2>2. PICK k \in T : \A y \in T : k <= y
    <3> HIDE DEF T
    <3>1. T # {}  BY <2>1
    <3> QED  BY <2>1, <3>1, Least
  <2>3. k = 0 \/ s[k] # Space
    <3> SUFFICES ASSUME k # 0, s[k] = Space PROVE FALSE  OBVIOUS
    <3>1. k - 1 \in 0 .. Len(s)  BY <1>0, <2>2
    <3>2. \A j \in (k - 1) + 1 .. Len(s) : s[j] = Space
      <4> TAKE j \in (k - 1) + 1 .. Len(s)
      <4>1. j = k \/ j \in k + 1 .. Len(s)  BY <1>0, <2>2
      <4> QED  BY <2>2, <4>1
    <3>3. k - 1 \in T  BY <3>1, <3>2
    <3>4. k \in Nat  BY <1>0, <2>2
    <3> HIDE DEF T
    <3>5. k <= k - 1  BY <2>2, <3>3
    <3> QED  BY <3>4, <3>5
  <2> QED  BY <2>2, <2>3 DEF TrimmedTo
<1>2. \A k, m : TrimmedTo(s, k) /\ TrimmedTo(s, m) => k = m
  <2> SUFFICES ASSUME NEW k, NEW m, TrimmedTo(s, k), TrimmedTo(s, m)
               PROVE  k = m
    OBVIOUS
  <2>1. k \in 0 .. Len(s) /\ m \in 0 .. Len(s)  BY DEF TrimmedTo
  <2>2. ~(k < m)
    <3> SUFFICES ASSUME k < m PROVE FALSE  OBVIOUS
    <3>1. m \in k + 1 .. Len(s) /\ m # 0  BY <1>0, <2>1
    <3> QED  BY <3>1 DEF TrimmedTo
  <2>3. ~(m < k)
    <3> SUFFICES ASSUME m < k PROVE FALSE  OBVIOUS
    <3>1. k \in m + 1 .. Len(s) /\ k # 0  BY <1>0, <2>1
    <3> QED  BY <3>1 DEF TrimmedTo
  <2> QED  BY <1>0, <2>1, <2>2, <2>3
<1> DEFINE k == CHOOSE j \in 0 .. Len(s) :
                  /\ \A r \in j + 1 .. Len(s) : s[r] = Space
                  /\ j = 0 \/ s[j] # Space
<1>3. TrimmedTo(s, k)  BY <1>1 DEF TrimmedTo
<1>4. Trim(s) = SubSeq(s, 1, k)  BY DEF Trim
<1> HIDE DEF k
<1> QED  BY <1>2, <1>3, <1>4

(* Filled with spaces to its length, t is s.                               *)
Fills(t, s) ==
  /\ Len(t) <= Len(s)
  /\ \A j \in 1 .. Len(s) : s[j] = IF j <= Len(t) THEN t[j] ELSE Space

LEMMA TrimIs ==
  ASSUME NEW s \in Seq(Char), NEW t \in Seq(Char),
         \A j \in 1 .. Len(t) : t[j] # Space
  PROVE  Trim(s) = t <=> Fills(t, s)
<1>0. Len(s) \in Nat /\ Len(t) \in Nat  OBVIOUS
<1>1. PICK k : /\ TrimmedTo(s, k) /\ Trim(s) = SubSeq(s, 1, k)
               /\ \A m : TrimmedTo(s, m) => m = k
  BY TrimFacts
<1>2. k \in 0 .. Len(s)  BY <1>1 DEF TrimmedTo
<1>3. /\ SubSeq(s, 1, k) \in Seq(Char) /\ Len(SubSeq(s, 1, k)) = k
      /\ \A j \in 1 .. k : SubSeq(s, 1, k)[j] = s[j]
  <2>1. \A j \in 1 .. k : s[j] \in Char  BY <1>0, <1>2
  <2>2. k \in Int /\ 1 \in Int  BY <1>2
  <2>3. /\ SubSeq(s, 1, k) \in Seq(Char)
        /\ Len(SubSeq(s, 1, k)) = IF 1 <= k THEN k - 1 + 1 ELSE 0
        /\ \A j \in 1 .. k - 1 + 1 : SubSeq(s, 1, k)[j] = s[1 + j - 1]
    BY <2>1, <2>2, SubSeqProperties
  <2> QED  BY <1>2, <2>3
<1>4. ASSUME Trim(s) = t PROVE Fills(t, s)
  <2>1. Len(t) = k /\ \A j \in 1 .. k : t[j] = s[j]  BY <1>1, <1>3, <1>4
  <2>2. \A j \in k + 1 .. Len(s) : s[j] = Space  BY <1>1 DEF TrimmedTo
  <2> QED  BY <1>0, <1>2, <2>1, <2>2 DEF Fills
<1>5. ASSUME Fills(t, s) PROVE Trim(s) = t
  <2>1. TrimmedTo(s, Len(t))
    <3>1. Len(t) \in 0 .. Len(s)  BY <1>0, <1>5 DEF Fills
    <3>2. \A j \in Len(t) + 1 .. Len(s) : s[j] = Space
      BY <1>0, <1>5 DEF Fills
    <3>3. Len(t) = 0 \/ s[Len(t)] # Space  BY <1>0, <1>5 DEF Fills
    <3> QED  BY <3>1, <3>2, <3>3 DEF TrimmedTo
  <2>2. k = Len(t)  BY <1>1, <2>1
  <2>3. \A j \in 1 .. Len(t) : SubSeq(s, 1, k)[j] = t[j]
    BY <1>0, <1>2, <1>3, <1>5, <2>2 DEF Fills
  <2> QED  BY <1>1, <1>3, <2>2, <2>3, SeqEqual
<1> QED  BY <1>4, <1>5
(* A name and an extension, written with a dot between them.               *)
Join(b, x) == b \o (IF x = << >> THEN << >> ELSE <<Dot>> \o x)

LEMMA JoinFacts ==
  ASSUME NEW b \in Seq(Char), NEW x \in Seq(Char)
  PROVE  /\ Join(b, x) \in Seq(Char)
         /\ x = << >> => Join(b, x) = b
         /\ x # << >> => Len(Join(b, x)) = Len(b) + 1 + Len(x)
         /\ \A j \in 1 .. Len(b) : Join(b, x)[j] = b[j]
         /\ x # << >> => Join(b, x)[Len(b) + 1] = Dot
         /\ \A j \in 1 .. Len(x) : Join(b, x)[Len(b) + 1 + j] = x[j]
<1>1. Dot \in Char /\ Len(b) \in Nat /\ Len(x) \in Nat
  BY DiskAssumption
<1>2. CASE x = << >>
  <2>1. Join(b, x) = b  BY <1>2, ConcatEmptySeq DEF Join
  <2>2. Len(x) = 0  BY <1>2
  <2> QED  BY <1>2, <2>1, <2>2
<1>3. CASE x # << >>
  <2> DEFINE y == <<Dot>> \o x
  <2>1. <<Dot>> \in Seq(Char) /\ Len(<<Dot>>) = 1 /\ <<Dot>>[1] = Dot
    BY <1>1
  <2>2. /\ y \in Seq(Char) /\ Len(y) = 1 + Len(x)
        /\ \A j \in 1 .. 1 + Len(x) :
             y[j] = IF j <= 1 THEN <<Dot>>[j] ELSE x[j - 1]
    BY <2>1, ConcatProperties
  <2>3. y[1] = Dot /\ \A j \in 1 .. Len(x) : y[1 + j] = x[j]
    <3>1. 1 \in 1 .. 1 + Len(x)  BY <1>1
    <3>2. y[1] = Dot  BY <2>1, <2>2, <3>1
    <3>3. \A j \in 1 .. Len(x) : y[1 + j] = x[j]
      <4> TAKE j \in 1 .. Len(x)
      <4>1. 1 + j \in 1 .. 1 + Len(x) /\ ~(1 + j <= 1) /\ (1 + j) - 1 = j
        BY <1>1
      <4> HIDE DEF y
      <4> QED  BY <2>2, <4>1
    <3> QED  BY <3>2, <3>3
  <2>4. Join(b, x) = b \o y  BY <1>3 DEF Join
  <2> HIDE DEF y
  <2>5. /\ b \o y \in Seq(Char) /\ Len(b \o y) = Len(b) + Len(y)
        /\ \A j \in 1 .. Len(b) + Len(y) :
             (b \o y)[j] = IF j <= Len(b) THEN b[j] ELSE y[j - Len(b)]
    BY <2>2, ConcatProperties
  <2>6. \A j \in 1 .. Len(b) : Join(b, x)[j] = b[j]
    <3> TAKE j \in 1 .. Len(b)
    <3>1. j \in 1 .. Len(b) + Len(y) /\ j <= Len(b)  BY <1>1, <2>2
    <3> QED  BY <2>4, <2>5, <3>1
  <2>7. \A j \in 1 .. 1 + Len(x) : Join(b, x)[Len(b) + j] = y[j]
    <3> TAKE j \in 1 .. 1 + Len(x)
    <3>1. /\ Len(b) + j \in 1 .. Len(b) + Len(y) /\ ~(Len(b) + j <= Len(b))
          /\ (Len(b) + j) - Len(b) = j
      BY <1>1, <2>2
    <3> QED  BY <2>4, <2>5, <3>1
  <2>8. Join(b, x)[Len(b) + 1] = Dot
    <3>1. 1 \in 1 .. 1 + Len(x)  BY <1>1
    <3> QED  BY <2>3, <2>7, <3>1
  <2>9. \A j \in 1 .. Len(x) : Join(b, x)[Len(b) + 1 + j] = x[j]
    <3> TAKE j \in 1 .. Len(x)
    <3>1. 1 + j \in 1 .. 1 + Len(x) /\ Len(b) + 1 + j = Len(b) + (1 + j)
      BY <1>1
    <3> QED  BY <2>3, <2>7, <3>1
  <2> QED  BY <1>1, <1>3, <2>2, <2>4, <2>5, <2>6, <2>8, <2>9
<1> QED  BY <1>2, <1>3

Dotless(s) == \A j \in 1 .. Len(s) : s[j] # Dot

(* The dot shows where the name ends.                                      *)
LEMMA JoinUnique ==
  ASSUME NEW b \in Seq(Char), NEW x \in Seq(Char),
         NEW c \in Seq(Char), NEW y \in Seq(Char),
         Dotless(b), Dotless(x), Dotless(c), Dotless(y),
         Join(b, x) = Join(c, y)
  PROVE  b = c /\ x = y
<1>0. /\ Len(b) \in Nat /\ Len(x) \in Nat /\ Len(c) \in Nat /\ Len(y) \in Nat
      /\ x # << >> => Len(x) # 0
      /\ y # << >> => Len(y) # 0
  BY EmptySeq
<1> DEFINE Facts(s, u, v) ==
             /\ v = << >> => s = u
             /\ v # << >> => Len(s) = Len(u) + 1 + Len(v)
             /\ v # << >> => s[Len(u) + 1] = Dot
             /\ \A j \in 1 .. Len(u) : s[j] = u[j]
             /\ \A j \in 1 .. Len(v) : s[Len(u) + 1 + j] = v[j]
<1>7. Facts(Join(b, x), b, x) /\ Facts(Join(c, y), c, y)  BY JoinFacts
<1> HIDE DEF Facts
<1>8. PICK s : s = Join(b, x)  OBVIOUS
<1>9. Facts(s, b, x) /\ Facts(s, c, y)  BY <1>7, <1>8
<1>1. /\ x = << >> => s = b
      /\ x # << >> => Len(s) = Len(b) + 1 + Len(x) /\ s[Len(b) + 1] = Dot
      /\ \A j \in 1 .. Len(b) : s[j] = b[j]
      /\ \A j \in 1 .. Len(x) : s[Len(b) + 1 + j] = x[j]
  BY <1>9 DEF Facts
<1>2. /\ y = << >> => s = c
      /\ y # << >> => Len(s) = Len(c) + 1 + Len(y) /\ s[Len(c) + 1] = Dot
      /\ \A j \in 1 .. Len(c) : s[j] = c[j]
      /\ \A j \in 1 .. Len(y) : s[Len(c) + 1 + j] = y[j]
  BY <1>9 DEF Facts
<1>3. CASE x = << >> /\ y = << >>  BY <1>1, <1>2, <1>3
<1>4. ~(x = << >> /\ y # << >>)
  <2> SUFFICES ASSUME x = << >>, y # << >> PROVE FALSE  OBVIOUS
  <2>1. Len(c) + 1 \in 1 .. Len(b)  BY <1>0, <1>1, <1>2
  <2> QED  BY <1>1, <1>2, <2>1 DEF Dotless
<1>5. ~(x # << >> /\ y = << >>)
  <2> SUFFICES ASSUME x # << >>, y = << >> PROVE FALSE  OBVIOUS
  <2>1. Len(b) + 1 \in 1 .. Len(c)  BY <1>0, <1>1, <1>2
  <2> QED  BY <1>1, <1>2, <2>1 DEF Dotless
<1>6. CASE x # << >> /\ y # << >>
  <2>1. ~(Len(b) < Len(c))
    <3> SUFFICES ASSUME Len(b) < Len(c) PROVE FALSE  OBVIOUS
    <3>1. Len(b) + 1 \in 1 .. Len(c)  BY <1>0
    <3> QED  BY <1>1, <1>2, <1>6, <3>1 DEF Dotless
  <2>2. ~(Len(c) < Len(b))
    <3> SUFFICES ASSUME Len(c) < Len(b) PROVE FALSE  OBVIOUS
    <3>1. Len(c) + 1 \in 1 .. Len(b)  BY <1>0
    <3> QED  BY <1>1, <1>2, <1>6, <3>1 DEF Dotless
  <2>3. Len(b) = Len(c) /\ Len(x) = Len(y)
    BY <1>0, <1>1, <1>2, <1>6, <2>1, <2>2
  <2>4. \A j \in 1 .. Len(b) : b[j] = c[j]  BY <1>1, <1>2, <2>3
  <2>5. \A j \in 1 .. Len(x) : x[j] = y[j]  BY <1>1, <1>2, <2>3
  <2> QED  BY <2>3, <2>4, <2>5, SeqEqual
<1> QED  BY <1>3, <1>4, <1>5, <1>6
Caps(n) == [j \in 1 .. Len(n) |-> Capital(n[j])]

LEMMA CapitalFacts ==
  ASSUME NEW c \in Char
  PROVE  /\ Capital(c) \in Char
         /\ Capital(c) = Dot <=> c = Dot
         /\ Capital(c) = Space <=> c = Space
<1>1. /\ Upper \in [DOMAIN Upper -> Char]
      /\ {Dot, Space, Zero} \cap (DOMAIN Upper \cup CapitalLetters) = {}
  BY DiskAssumption
<1>2. CASE c \in DOMAIN Upper
  <2>1. Capital(c) = Upper[c] /\ Upper[c] \in CapitalLetters /\ Upper[c] \in Char
    BY <1>1, <1>2 DEF Capital, CapitalLetters
  <2>2. /\ Dot \notin DOMAIN Upper /\ Dot \notin CapitalLetters
        /\ Space \notin DOMAIN Upper /\ Space \notin CapitalLetters
    BY <1>1
  <2> QED  BY <1>2, <2>1, <2>2
<1>3. CASE c \notin DOMAIN Upper
  <2>1. Capital(c) = c  BY <1>3 DEF Capital
  <2> QED  BY <2>1
<1> QED  BY <1>2, <1>3

(* What an 8.3 name is made of, and what format_to_fat makes of it.        *)
Padded(b, x) ==
  [k \in 1 .. Cells |->
     IF k <= NameSize THEN (IF k <= Len(b) THEN b[k] ELSE Space)
     ELSE (IF k - NameSize <= Len(x) THEN x[k - NameSize] ELSE Space)]

LEMMA FirstDotIs ==
  ASSUME NEW n \in Seq(Char), NEW d \in 1 .. Len(n) + 1,
         d = Len(n) + 1 \/ n[d] = Dot,
         \A k \in 1 .. d - 1 : n[k] # Dot
  PROVE  FirstDot(n) = d
<1>0. Len(n) \in Nat  OBVIOUS
<1> DEFINE P(e) == /\ e = Len(n) + 1 \/ n[e] = Dot
                   /\ \A k \in 1 .. e - 1 : n[k] # Dot
<1>1. \A e \in 1 .. Len(n) + 1 : P(e) => e = d
  <2> SUFFICES ASSUME NEW e \in 1 .. Len(n) + 1, P(e) PROVE e = d  OBVIOUS
  <2>1. ~(e < d)
    <3> SUFFICES ASSUME e < d PROVE FALSE  OBVIOUS
    <3>1. e \in 1 .. d - 1 /\ e # Len(n) + 1  BY <1>0
    <3> QED  BY <3>1
  <2>2. ~(d < e)
    <3> SUFFICES ASSUME d < e PROVE FALSE  OBVIOUS
    <3>1. d \in 1 .. e - 1 /\ d # Len(n) + 1  BY <1>0
    <3> QED  BY <3>1
  <2> QED  BY <1>0, <2>1, <2>2
<1>2. P(d)  OBVIOUS
<1>3. FirstDot(n) = CHOOSE e \in 1 .. Len(n) + 1 : P(e)  BY DEF FirstDot
<1> HIDE DEF P
<1> QED  BY <1>1, <1>2, <1>3

(* A name that is 8.3 is formatted to its spelling in the directory.       *)
LEMMA Written ==
  ASSUME NEW n \in Typed, Is83(n)
  PROVE  \E b, x \in Seq(Char) :
           /\ Len(b) \in 1 .. NameSize /\ Len(x) \in 0 .. ExtSize
           /\ \A j \in 1 .. Len(b) : b[j] \notin {Dot, Space}
           /\ \A j \in 1 .. Len(x) : x[j] \notin {Dot, Space}
           /\ Caps(n) = Join(b, x) /\ format_to_fat(n) = Padded(b, x)
<1>0. /\ n \in Seq(Char) /\ Len(n) \in Nat
      /\ NameSize \in Nat \ {0} /\ ExtSize \in Nat \ {0}
      /\ \A k \in 1 .. Len(n) : n[k] \in Char
  BY DiskAssumption
<1>1. PICK m \in 1 .. NameSize, e \in 0 .. ExtSize :
        \/ Len(n) = m /\ e = 0 /\ \A k \in 1 .. m : n[k] # Dot
        \/ /\ e > 0 /\ Len(n) = m + 1 + e
           /\ \A k \in 1 .. Len(n) : n[k] = Dot <=> k = m + 1
  <2>1. 0 \in 0 .. ExtSize  BY <1>0
  <2> QED  BY <2>1 DEF Is83
<1> DEFINE b == [k \in 1 .. m |-> Capital(n[k])]
           x == [k \in 1 .. e |-> Capital(n[m + 1 + k])]
<1>2. m \in Nat /\ e \in Nat  BY <1>0, <1>1
<1>3. /\ \A k \in 1 .. m : k \in 1 .. Len(n) /\ n[k] # Dot
      /\ \A k \in 1 .. e : m + 1 + k \in 1 .. Len(n) /\ n[m + 1 + k] # Dot
  <2>1. CASE e = 0  BY <1>0, <1>1, <1>2, <2>1
  <2>2. CASE e > 0
    <3>1. \A k \in 1 .. m : k \in 1 .. Len(n) /\ k # m + 1
      BY <1>1, <1>2, <2>2
    <3>2. \A k \in 1 .. e : m + 1 + k \in 1 .. Len(n) /\ m + 1 + k # m + 1
      BY <1>1, <1>2, <2>2
    <3> QED  BY <1>1, <2>2, <3>1, <3>2
  <2> QED  BY <1>2, <2>1, <2>2
<1>4. \A k \in 1 .. Len(n) : n[k] # Space  BY DEF Is83
<1>5. \A k \in 1 .. m : Capital(n[k]) \in Char /\ Capital(n[k]) \notin {Dot, Space}
  BY <1>0, <1>3, <1>4, CapitalFacts
<1>6. \A k \in 1 .. e : /\ Capital(n[m + 1 + k]) \in Char
                        /\ Capital(n[m + 1 + k]) \notin {Dot, Space}
  BY <1>0, <1>3, <1>4, CapitalFacts
<1>7. b \in [1 .. m -> Char] /\ x \in [1 .. e -> Char]  BY <1>5, <1>6
<1>8. b \in Seq(Char) /\ Len(b) = m /\ x \in Seq(Char) /\ Len(x) = e
  BY <1>2, <1>7
<1>9. /\ \A k \in 1 .. m : b[k] = Capital(n[k])
      /\ \A k \in 1 .. e : x[k] = Capital(n[m + 1 + k])
  OBVIOUS
<1> HIDE DEF b, x
<1>10. Caps(n) = Join(b, x)
  <2>1. Caps(n) \in Seq(Char) /\ Len(Caps(n)) = Len(n)
    <3>1. Caps(n) \in [1 .. Len(n) -> Char]  BY <1>0, CapitalFacts DEF Caps
    <3> QED  BY <1>0, <3>1
  <2>2. \A j \in 1 .. Len(n) : Caps(n)[j] = Capital(n[j])  BY DEF Caps
  <2>3. CASE e = 0
    <3>1. x = << >>  BY <1>8, <2>3, EmptySeq
    <3>2. Join(b, x) = b  BY <1>8, <3>1, JoinFacts
    <3>3. Len(n) = m  BY <1>1, <2>3
    <3> QED  BY <1>8, <1>9, <2>1, <2>2, <3>2, <3>3, SeqEqual
  <2>4. CASE e > 0
    <3>1. x # << >>  BY <1>8, <2>4
    <3>2. /\ Join(b, x) \in Seq(Char) /\ Len(Join(b, x)) = m + 1 + e
          /\ \A j \in 1 .. m : Join(b, x)[j] = b[j]
          /\ Join(b, x)[m + 1] = Dot
          /\ \A j \in 1 .. e : Join(b, x)[m + 1 + j] = x[j]
      BY <1>8, <3>1, JoinFacts
    <3>3. Len(n) = m + 1 + e /\ n[m + 1] = Dot
      <4>1. Len(n) = m + 1 + e  BY <1>1, <2>4
      <4>2. m + 1 \in 1 .. Len(n)  BY <1>2, <4>1
      <4> QED  BY <1>1, <2>4, <4>1, <4>2
    <3>4. \A j \in 1 .. Len(n) : Caps(n)[j] = Join(b, x)[j]
      <4> TAKE j \in 1 .. Len(n)
      <4>1. CASE j \in 1 .. m  BY <1>9, <2>2, <3>2, <4>1
      <4>2. CASE j = m + 1
        <5>1. Capital(Dot) = Dot  BY DiskAssumption, CapitalFacts
        <5> QED  BY <2>2, <3>2, <3>3, <4>2, <5>1
      <4>3. CASE j \in m + 2 .. Len(n)
        <5>1. PICK k \in 1 .. e : m + 1 + k = j
          <6>1. j - m - 1 \in 1 .. e /\ m + 1 + (j - m - 1) = j
            BY <1>2, <3>3, <4>3
          <6> QED  BY <6>1
        <5>2. Join(b, x)[j] = x[k] /\ x[k] = Capital(n[j])
          BY <1>9, <3>2, <5>1
        <5> QED  BY <2>2, <5>2
      <4>4. j \in Nat /\ (j <= m \/ j = m + 1 \/ j >= m + 2)  BY <1>2
      <4> QED  BY <4>1, <4>2, <4>3, <4>4, <1>2, SMTT(30)
    <3> QED  BY <2>1, <3>2, <3>3, <3>4, SeqEqual
  <2> QED  BY <1>2, <2>3, <2>4
<1>11. format_to_fat(n) = Padded(b, x)
  <2>1. FirstDot(n) = m + 1
    <3>1. m + 1 \in 1 .. Len(n) + 1 /\ (m + 1 = Len(n) + 1 \/ n[m + 1] = Dot)
      BY <1>0, <1>1, <1>2
    <3>2. \A k \in 1 .. (m + 1) - 1 : n[k] # Dot  BY <1>2, <1>3
    <3> QED  BY <1>0, <3>1, <3>2, FirstDotIs
  <2>2. \A k \in 1 .. Cells : format_to_fat(n)[k] = Padded(b, x)[k]
    <3> TAKE k \in 1 .. Cells
    <3>0. Cells \in Nat /\ k \in Nat /\ k >= 1  BY <1>0 DEF Cells
    <3>1. format_to_fat(n)[k] =
            IF k <= NameSize
            THEN IF k < m + 1 THEN Capital(n[k]) ELSE Space
            ELSE IF (m + 1) + (k - NameSize) <= Len(n)
                 THEN Capital(n[(m + 1) + (k - NameSize)]) ELSE Space
      BY <2>1 DEF format_to_fat
    <3>2. Padded(b, x)[k] =
            IF k <= NameSize THEN (IF k <= m THEN b[k] ELSE Space)
            ELSE (IF k - NameSize <= e THEN x[k - NameSize] ELSE Space)
      BY <1>8 DEF Padded
    <3>3. CASE k <= NameSize
      <4>1. k < m + 1 <=> k <= m  BY <1>2, <3>0
      <4>2. k <= m => b[k] = Capital(n[k])  BY <1>2, <1>9, <3>0
      <4> QED  BY <3>1, <3>2, <3>3, <4>1, <4>2
    <3>4. CASE ~(k <= NameSize)
      <4>1. k - NameSize \in Nat \ {0}  BY <1>0, <3>0, <3>4
      <4>2. (m + 1) + (k - NameSize) <= Len(n) <=> k - NameSize <= e
        BY <1>0, <1>1, <1>2, <4>1
      <4>3. k - NameSize <= e =>
              x[k - NameSize] = Capital(n[(m + 1) + (k - NameSize)])
        BY <1>2, <1>9, <4>1
      <4> QED  BY <3>1, <3>2, <3>4, <4>2, <4>3
    <3> QED  BY <3>3, <3>4
  <2> QED  BY <2>2 DEF format_to_fat, Padded
<1>12. Len(b) \in 1 .. NameSize /\ Len(x) \in 0 .. ExtSize  BY <1>1, <1>8
<1>13. /\ \A j \in 1 .. Len(b) : b[j] \notin {Dot, Space}
       /\ \A j \in 1 .. Len(x) : x[j] \notin {Dot, Space}
  BY <1>5, <1>6, <1>8, <1>9
<1> QED  BY <1>8, <1>10, <1>11, <1>12, <1>13
LEMMA TrimType ==
  ASSUME NEW s \in Seq(Char), Dotless(s)
  PROVE  Trim(s) \in Seq(Char) /\ Dotless(Trim(s))
<1>1. PICK k : TrimmedTo(s, k) /\ Trim(s) = SubSeq(s, 1, k)  BY TrimFacts
<1>2. k \in 0 .. Len(s) /\ Len(s) \in Nat  BY <1>1 DEF TrimmedTo
<1>3. \A j \in 1 .. k : s[j] \in Char /\ s[j] # Dot  BY <1>2 DEF Dotless
<1>4. k \in Int /\ 1 \in Int  BY <1>2
<1>5. /\ SubSeq(s, 1, k) \in Seq(Char)
      /\ Len(SubSeq(s, 1, k)) = IF 1 <= k THEN k - 1 + 1 ELSE 0
      /\ \A j \in 1 .. k - 1 + 1 : SubSeq(s, 1, k)[j] = s[1 + j - 1]
  BY <1>3, <1>4, SubSeqProperties
<1>6. /\ Len(SubSeq(s, 1, k)) = k
      /\ \A j \in 1 .. k : SubSeq(s, 1, k)[j] = s[j]
  BY <1>2, <1>5
<1> QED  BY <1>1, <1>3, <1>5, <1>6 DEF Dotless

(* An entry is spelled as was typed exactly if it is what the code compares. *)
LEMMA SpelledIsChecked ==
  ASSUME disk \in Images, NEW n \in Typed, Is83(n), NEW k \in DOMAIN Root
  PROVE  Spelling(Root[k]) = Caps(n)
           <=> stellar_name_check(Root[k].name, format_to_fat(n))
<1> DEFINE name == Root[k].name
           f == SubSeq(name, 1, NameSize)
           g == SubSeq(name, NameSize + 1, Cells)
<1>0. /\ NameSize \in Nat \ {0} /\ ExtSize \in Nat \ {0}
      /\ Cells = NameSize + ExtSize
  BY DiskAssumption DEF Cells
<1>1. \A j \in 1 .. Cells : name[j] \in Char /\ name[j] # Dot
  BY RootFacts
<1> HIDE DEF name
<1>2. /\ f \in Seq(Char) /\ Len(f) = NameSize
      /\ \A j \in 1 .. NameSize : f[j] = name[j]
  <2>1. \A j \in 1 .. NameSize : name[j] \in Char  BY <1>0, <1>1
  <2>2. NameSize \in Int /\ 1 \in Int /\ 1 <= NameSize  BY <1>0
  <2>3. /\ f \in Seq(Char)
        /\ Len(f) = IF 1 <= NameSize THEN NameSize - 1 + 1 ELSE 0
        /\ \A j \in 1 .. NameSize - 1 + 1 : f[j] = name[1 + j - 1]
    BY <2>1, <2>2, SubSeqProperties
  <2> HIDE DEF f
  <2> QED  BY <1>0, <2>2, <2>3
<1>3. /\ g \in Seq(Char) /\ Len(g) = ExtSize
      /\ \A j \in 1 .. ExtSize : g[j] = name[NameSize + j]
  <2>1. \A j \in NameSize + 1 .. Cells : name[j] \in Char  BY <1>0, <1>1
  <2>2. NameSize + 1 \in Int /\ Cells \in Int /\ NameSize + 1 <= Cells
        /\ Cells - (NameSize + 1) + 1 = ExtSize
    BY <1>0
  <2>3. /\ g \in Seq(Char)
        /\ Len(g) = IF NameSize + 1 <= Cells
                    THEN Cells - (NameSize + 1) + 1 ELSE 0
        /\ \A j \in 1 .. Cells - (NameSize + 1) + 1 :
             g[j] = name[(NameSize + 1) + j - 1]
    BY <2>1, <2>2, SubSeqProperties
  <2> HIDE DEF g
  <2>4. \A j \in 1 .. ExtSize : (NameSize + 1) + j - 1 = NameSize + j  BY <1>0
  <2> QED  BY <2>2, <2>3, <2>4
<1>4. Spelling(Root[k]) = Join(Trim(f), Trim(g))  BY DEF Spelling, Join, name
<1> HIDE DEF f, g
<1>5. Dotless(f) /\ Dotless(g)
  <2>1. \A j \in 1 .. NameSize : j \in 1 .. Cells  BY <1>0
  <2>2. \A j \in 1 .. ExtSize : NameSize + j \in 1 .. Cells  BY <1>0
  <2>3. Dotless(f)  BY <1>1, <1>2, <2>1 DEF Dotless
  <2>4. Dotless(g)  BY <1>1, <1>3, <2>2 DEF Dotless
  <2> QED  BY <2>3, <2>4
<1>6. PICK b \in Seq(Char), x \in Seq(Char) :
        /\ Len(b) \in 1 .. NameSize /\ Len(x) \in 0 .. ExtSize
        /\ \A j \in 1 .. Len(b) : b[j] \notin {Dot, Space}
        /\ \A j \in 1 .. Len(x) : x[j] \notin {Dot, Space}
        /\ Caps(n) = Join(b, x) /\ format_to_fat(n) = Padded(b, x)
  BY Written
<1>7. Join(Trim(f), Trim(g)) = Join(b, x) <=> Trim(f) = b /\ Trim(g) = x
  <2>1. Dotless(b) /\ Dotless(x)  BY <1>6 DEF Dotless
  <2>2. /\ Trim(f) \in Seq(Char) /\ Trim(g) \in Seq(Char)
        /\ Dotless(Trim(f)) /\ Dotless(Trim(g))
    BY <1>2, <1>3, <1>5, TrimType
  <2> QED  BY <2>1, <2>2, JoinUnique
<1>8. Trim(f) = b /\ Trim(g) = x <=> Fills(b, f) /\ Fills(x, g)
  BY <1>2, <1>3, <1>6, TrimIs
<1>9. Fills(b, f) /\ Fills(x, g) <=> stellar_name_check(name, Padded(b, x))
  <2>1. \A j \in 1 .. NameSize :
          j \in 1 .. Cells /\ Padded(b, x)[j] = IF j <= Len(b) THEN b[j] ELSE Space
    BY <1>0 DEF Padded
  <2>2. \A j \in 1 .. ExtSize :
          /\ NameSize + j \in 1 .. Cells
          /\ Padded(b, x)[NameSize + j] = IF j <= Len(x) THEN x[j] ELSE Space
    <3> TAKE j \in 1 .. ExtSize
    <3>1. /\ NameSize + j \in 1 .. Cells /\ ~(NameSize + j <= NameSize)
          /\ (NameSize + j) - NameSize = j
      BY <1>0
    <3> QED  BY <3>1 DEF Padded
  <2>3. ASSUME Fills(b, f), Fills(x, g)
        PROVE  stellar_name_check(name, Padded(b, x))
    <3> SUFFICES ASSUME NEW j \in 1 .. Cells PROVE name[j] = Padded(b, x)[j]
      BY DEF stellar_name_check
    <3>1. CASE j \in 1 .. NameSize
      BY <1>2, <2>1, <2>3, <3>1 DEF Fills
    <3>2. CASE j \notin 1 .. NameSize
      <4>1. PICK m \in 1 .. ExtSize : j = NameSize + m
        <5>1. j - NameSize \in 1 .. ExtSize /\ j = NameSize + (j - NameSize)
          BY <1>0, <3>2
        <5> QED  BY <5>1
      <4> QED  BY <1>3, <2>2, <2>3, <4>1 DEF Fills
    <3> QED  BY <3>1, <3>2
  <2>4. ASSUME stellar_name_check(name, Padded(b, x))
        PROVE  Fills(b, f) /\ Fills(x, g)
    <3>1. \A j \in 1 .. NameSize : f[j] = IF j <= Len(b) THEN b[j] ELSE Space
      BY <1>2, <2>1, <2>4 DEF stellar_name_check
    <3>2. \A j \in 1 .. ExtSize : g[j] = IF j <= Len(x) THEN x[j] ELSE Space
      BY <1>3, <2>2, <2>4 DEF stellar_name_check
    <3>3. Len(b) <= Len(f) /\ Len(x) <= Len(g)  BY <1>0, <1>2, <1>3, <1>6
    <3> QED  BY <1>2, <1>3, <3>1, <3>2, <3>3 DEF Fills
  <2> QED  BY <2>3, <2>4
<1> QED  BY <1>4, <1>6, <1>7, <1>8, <1>9 DEF name

(* The first entry of that spelling is the one that is found.              *)
LEMMA DenotesIsMatch ==
  ASSUME disk \in Images, typed \in Typed, Is83(typed), NEW k \in Listed(Root)
  PROVE  Denotes(typed, k) <=> Match(Root, k)
<1>1. k \in DOMAIN Root /\ \A j \in 1 .. k - 1 : j \in DOMAIN Root
  <2>1. \A m \in Listed(DirectoryIn(disk.root)) : m \in DOMAIN DirectoryIn(disk.root)
    BY EntryFacts
  <2>2. Root = DirectoryIn(disk.root)  BY RootFacts
  <2>3. k \in DOMAIN Root  BY <2>1, <2>2
  <2>4. k \in 1 .. Len(Root)  BY DEF Listed
  <2>5. DOMAIN Root = 1 .. Len(Root)
    <3>1. Root \in Seq([name : [1 .. Cells -> Char \ {Dot}],
                        cluster_high : Nat, cluster_low : Nat, sector : Sectors])
      BY ImageAssumption DEF Root
    <3> QED  BY <3>1, LenProperties
  <2>6. Len(Root) \in Nat
    <3>1. Root \in Seq([name : [1 .. Cells -> Char \ {Dot}],
                        cluster_high : Nat, cluster_low : Nat, sector : Sectors])
      BY ImageAssumption DEF Root
    <3> QED  BY <3>1, LenProperties
  <2> QED  BY <2>3, <2>4, <2>5, <2>6
<1>2. \A j \in DOMAIN Root :
        Spelling(Root[j]) = Caps(typed)
          <=> stellar_name_check(Root[j].name, format_to_fat(typed))
  BY SpelledIsChecked
<1>3. Denotes(typed, k) <=>
        /\ Spelling(Root[k]) = Caps(typed)
        /\ \A j \in 1 .. k - 1 : Spelling(Root[j]) # Caps(typed)
  BY DEF Denotes, Caps
<1> QED  BY <1>1, <1>2, <1>3 DEF Match
-----------------------------------------------------------------------------
(* The refinement.                                                         *)

(* A file that was found, or none, is an answer the store allows.          *)
LEMMA FoundIsRight ==
  ASSUME disk \in Images, typed \in Typed, Known, NEW k \in Listed(Root),
         Match(Root, k)
  PROVE  Held(k) \in Store[typed]
<1>1. disk.boot.boot_sig \in {40, 41}  BY DEF Known
<1>2. CASE ~Is83(typed)  BY <1>1, <1>2 DEF Store
<1>3. CASE Is83(typed)
  <2>1. Denotes(typed, k)  BY <1>3, DenotesIsMatch
  <2>2. Held(k) \in Right(typed)  BY <2>1 DEF Right
  <2> QED  BY <1>1, <1>3, <2>2 DEF Store
<1> QED  BY <1>2, <1>3

(* If the look-up ends without an entry, no file has the name.             *)
LEMMA MissingIsRight ==
  ASSUME disk \in Images, typed \in Typed,
         Known => \A k \in Listed(Root) :
                    Match(Root, k) => ClusterOf(Root[k]) < 2
  PROVE  Missing \in Store[typed]
<1>1. CASE ~Known  BY <1>1 DEF Known, Store
<1>2. CASE Known /\ ~Is83(typed)  BY <1>2 DEF Known, Store
<1>3. CASE Known /\ Is83(typed)
  <2>1. CASE Right(typed) = {}  BY <1>3, <2>1 DEF Known, Store
  <2>2. CASE Right(typed) # {}
    <3>1. PICK k \in Listed(Root) : Denotes(typed, k)
      BY <2>2 DEF Right
    <3>2. ClusterOf(Root[k]) < 2  BY <1>3, <3>1, DenotesIsMatch
    <3>3. k \in DOMAIN Root
      <4>1. \A m \in Listed(DirectoryIn(disk.root)) :
              m \in DOMAIN DirectoryIn(disk.root)
        BY EntryFacts
      <4> QED  BY <3>1, <4>1, RootFacts
    <3>4. Held(k) = Missing  BY <3>2, <3>3, RootFacts DEF Held
    <3>5. Missing \in Right(typed)  BY <3>1, <3>4 DEF Right
    <3> QED  BY <1>3, <2>2, <3>5 DEF Known, Store
  <2> QED  BY <2>1, <2>2
<1> QED  BY <1>1, <1>2, <1>3

(* Whichever way the command ends, FileStore allows its answer.            *)
LEMMA AnswerIsRight ==
  ASSUME FileInv, NotFound \/ Loaded
  PROVE  typed \in Typed /\ outcome' \in Store[typed] /\ typed' = None
<1>1. disk \in Images /\ typed \in Typed
  BY DEF FileInv, DInv, DiskTypeOK, Asked, NotFound, Loaded
<1>2. CASE NotFound
  <2>1. /\ step = "find" /\ Read /\ outcome' = Missing /\ typed' = None
    BY <1>2 DEF NotFound, Answered
  <2>2. PICK l \in SectorAt(root_dir) :
          \A k \in Listed(DirectoryIn(l)) :
            Match(DirectoryIn(l), k) => ClusterOf(DirectoryIn(l)[k]) < 2
    BY <1>2 DEF NotFound
  <2>3. Known => DirectoryIn(l) = Root  BY <2>1, DirectoryRead
  <2>4. Known => \A k \in Listed(Root) :
                   Match(Root, k) => ClusterOf(Root[k]) < 2
    BY <2>2, <2>3
  <2> QED  BY <1>1, <2>1, <2>4, MissingIsRight
<1>3. CASE Loaded
  <2>1. /\ step = "load" /\ Read /\ typed' = None
        /\ \E l \in SectorAt(src_buffer) : outcome' = l
    BY <1>3 DEF Loaded, Answered
  <2>2. outcome' = lba
    <3>1. SectorAt(src_buffer) = {lba}  BY <2>1, ReadFacts DEF buffer
    <3> QED  BY <2>1, <3>1
  <2>3. Known /\ \E k \in DOMAIN Root : Chosen(k)
    BY <2>1 DEF FileInv, Asked
  <2>4. PICK k \in DOMAIN Root : Chosen(k)  BY <2>3
  <2>5. lba = Root[k].sector
    BY <2>1, <2>4, Wanted DEF FileInv
  <2>6. Root[k].sector # 0  BY <1>1, <2>4, RootFacts DEF Chosen
  <2>7. Held(k) = outcome'  BY <2>2, <2>5, <2>6 DEF Held
  <2>8. k \in Listed(Root) /\ Match(Root, k)  BY <2>4 DEF Chosen, Match
  <2>9. Held(k) \in Store[typed]  BY <1>1, <2>3, <2>8, FoundIsRight
  <2> QED  BY <1>1, <2>1, <2>7, <2>9
<1> QED  BY <1>2, <1>3

(* The command `stellar <file>` implements the store: through the names    *)
(* cut to 8 and 3, the boot sector in the heap, the clusters, the address  *)
(* registers and a buffer that is read a word at a time, it answers with   *)
(* the file of the name typed, or with nothing if there is none.           *)
THEOREM DiskImplementsFileStore == DiskSpec => ImplementsFileStore
<1>1. DiskInit => Files!StoreInit
  BY DEF DiskInit, Files!StoreInit, Store
<1>2. FileInv /\ [DiskNext]_vars => [Files!StoreNext]_(Files!storeVars)
  <2> SUFFICES ASSUME FileInv, [DiskNext]_vars
               PROVE  [Files!StoreNext]_(Files!storeVars)
    OBVIOUS
  <2>1. Store' = Store
    <3>1. disk' = disk  BY OnlyReadWrites
    <3> QED  BY <3>1 DEF Store, Right, Held, Denotes, Root, Listed
  <2>2. CASE NotFound \/ Loaded
    <3>1. /\ typed \in Typed /\ outcome' \in Store[typed] /\ typed' = None
      BY <2>2, AnswerIsRight
    <3>2. typed # None  BY <3>1, DiskAssumption
    <3>3. Files!Answer  BY <2>1, <3>1, <3>2 DEF Files!Answer
    <3> QED  BY <3>3 DEF Files!StoreNext
  <2>3. ASSUME NEW n \in Typed, RunStellar(n)
        PROVE  [Files!StoreNext]_(Files!storeVars)
    <3>1. step = "idle" /\ typed' = n /\ outcome' = None
      BY <2>3 DEF RunStellar
    <3>2. typed = None  BY <3>1 DEF FileInv, Asked
    <3>3. Files!Ask(n)  BY <2>1, <3>1, <3>2 DEF Files!Ask
    <3> QED  BY <3>3 DEF Files!StoreNext
  <2>4. \/ Command \/ ata_wait_bsy \/ ata_wait_drq \/ ReadWord \/ Drive \/ Mount
        \/ Found \/ kmalloc \/ kmallocPays \/ MainStep \/ UNCHANGED vars
        => UNCHANGED <<typed, outcome>>
    BY DEF Command, ata_wait_bsy, ata_wait_drq, ReadWord, Drive, DriveBegins,
           DriveDelivers, DriveFails, DriveStep, Mount, Found, kmalloc,
           kmallocPays, MainStep, vars, diskVars, fileVars
  <2> QED
    BY <2>1, <2>2, <2>3, <2>4 DEF DiskNext, Host, Files!storeVars
<1> QED
  BY <1>1, <1>2, FileInductive, PTL
     DEF DiskSpec, ImplementsFileStore, Files!StoreSpec
=============================================================================
