-------------------------- MODULE PageFrames_proofs --------------------------
(***************************************************************************)
(* Proofs about the page-frame allocator, for every memory map, bitmap     *)
(* geometry and set of block sizes that satisfies the assumptions of       *)
(* PageFrames.                                                             *)
(***************************************************************************)
EXTENDS PageFrames, FiniteSetTheorems, TLAPS

(***************************************************************************)
(* The strengthening.  Before the map is read nothing has happened; until  *)
(* the kernel is locked nothing is granted; what is withheld is marked, so *)
(* a search can never stop on it.                                          *)
(***************************************************************************)
BootOrder ==
    /\ stage = "off" => /\ PageBitmap = StrayBits
                        /\ usedMemory = 0
                        /\ reservedMemory = 0
    /\ stage \in {"off", "mapped"} => \A p \in Tracked : holders[p] = 0

WithheldMarked ==
    /\ stage # "off" => Tracked \cap WithheldByMap \subseteq PageBitmap
    /\ stage \notin {"off", "mapped"} => Withheld \subseteq PageBitmap

IndInv ==
    /\ TypeOK
    /\ BootOrder
    /\ WithheldMarked
    /\ GrantsDisjoint
    /\ GrantsAvoidWithheld
    /\ Accounting

(* The bitmap is finite, so that its bits can be counted.                  *)
LEMMA TrackedFinite ==
    ASSUME NEW S \in SUBSET Tracked
    PROVE  IsFiniteSet(S) /\ Cardinality(S) \in Nat
<1>1. IsFiniteSet(Tracked)
  BY SizesAssumption, FS_Interval DEF Tracked
<1>2. IsFiniteSet(S)
  BY <1>1, FS_Subset
<1> QED
  BY <1>2, FS_CardinalityType

(* Setting bits that are clear adds their number to the set ones.          *)
LEMMA SetBitsCount ==
    ASSUME NEW S \in SUBSET Tracked, NEW T \in SUBSET Tracked, S \cap T = {}
    PROVE  Cardinality(S \cup T) = Cardinality(S) + Cardinality(T)
<1>1. IsFiniteSet(S) /\ IsFiniteSet(T)
  BY TrackedFinite
<1>2. Cardinality(S \cup T)
        = Cardinality(S) + Cardinality(T) - Cardinality(S \cap T)
  BY <1>1, FS_Union
<1>3. Cardinality(S \cap T) = 0
  BY FS_EmptySet
<1> QED
  BY <1>2, <1>3, TrackedFinite

(* Clearing bits that are set takes their number from the set ones.        *)
LEMMA ClearBitsCount ==
    ASSUME NEW S \in SUBSET Tracked, NEW T \in SUBSET S
    PROVE  Cardinality(S \ T) = Cardinality(S) - Cardinality(T)
<1>1. Cardinality((S \ T) \cup T) = Cardinality(S \ T) + Cardinality(T)
  <2>1. (S \ T) \cap T = {}
    OBVIOUS
  <2> QED
    BY <2>1, SetBitsCount
<1>2. (S \ T) \cup T = S
  OBVIOUS
<1>3. /\ Cardinality(S) \in Nat
      /\ Cardinality(T) \in Nat
      /\ Cardinality(S \ T) \in Nat
  BY TrackedFinite
<1>4. \A a, b, c \in Nat : a = b + c => b = a - c
  OBVIOUS
<1>5. Cardinality(S) = Cardinality(S \ T) + Cardinality(T)
  BY <1>1, <1>2, Zenon
<1> QED
  BY <1>3, <1>4, <1>5, Zenon

(* What LockPages does to the bitmap and to the sums Accounting is about.  *)
LEMMA LockPagesEffect ==
    ASSUME TypeOK, NEW pages, LockPages(pages)
    PROVE  /\ PageBitmap' = PageBitmap \cup (Tracked \cap pages)
           /\ freeMemory' \in Int /\ usedMemory' \in Int
           /\ reservedMemory' = reservedMemory
           /\ freeMemory' + usedMemory' = freeMemory + usedMemory
           /\ freeMemory' + Cardinality(PageBitmap')
                = freeMemory + Cardinality(PageBitmap)
<1> DEFINE fresh == (Tracked \cap pages) \ PageBitmap
<1>1. /\ PageBitmap' = PageBitmap \cup fresh
      /\ freeMemory' = freeMemory - Cardinality(fresh)
      /\ usedMemory' = usedMemory + Cardinality(fresh)
      /\ reservedMemory' = reservedMemory
  BY DEF LockPages
<1>2. /\ fresh \in SUBSET Tracked
      /\ PageBitmap \in SUBSET Tracked
      /\ PageBitmap \cap fresh = {}
  BY DEF TypeOK
<1>3. /\ Cardinality(fresh) \in Nat
      /\ Cardinality(PageBitmap) \in Nat
  BY <1>2, TrackedFinite
<1>4. Cardinality(PageBitmap') = Cardinality(PageBitmap) + Cardinality(fresh)
  BY <1>1, <1>2, SetBitsCount
<1>5. PageBitmap' = PageBitmap \cup (Tracked \cap pages)
  BY <1>1
<1>6. freeMemory \in Int /\ usedMemory \in Int
  BY DEF TypeOK
<1> HIDE DEF fresh
<1>7. freeMemory' \in Int /\ usedMemory' \in Int
  BY <1>1, <1>3, <1>6
<1>8. freeMemory' + usedMemory' = freeMemory + usedMemory
  BY <1>1, <1>3, <1>6
<1>9. freeMemory' + Cardinality(PageBitmap')
        = freeMemory + Cardinality(PageBitmap)
  BY <1>1, <1>3, <1>4, <1>6
<1> QED
  BY <1>1, <1>5, <1>7, <1>8, <1>9

(* Accounting survives a step that keeps those sums.                       *)
LEMMA AccountingKept ==
    ASSUME TypeOK, Accounting, stage # "off",
           PageBitmap' \in SUBSET Tracked, strayBit' = strayBit,
           freeMemory' \in Int, usedMemory' \in Int,
           reservedMemory' = reservedMemory,
           freeMemory' + usedMemory' = freeMemory + usedMemory,
           freeMemory' + Cardinality(PageBitmap')
                = freeMemory + Cardinality(PageBitmap)
    PROVE  Accounting'
<1> DEFINE marked == Cardinality(PageBitmap)
           nextMarked == Cardinality(PageBitmap')
           stray == Cardinality(StrayBits)
<1>1. marked \in Nat /\ nextMarked \in Nat
  BY TrackedFinite DEF TypeOK
<1>2. StrayBits \in SUBSET Tracked
  BY SizesAssumption DEF StrayBits, Tracked
<1>3. stray \in Nat
  BY <1>2, TrackedFinite
<1>4. StrayBits' = StrayBits
  BY DEF StrayBits
<1>5. /\ freeMemory + usedMemory + reservedMemory = MemoryPages
      /\ freeMemory = (MemoryPages + stray) - marked
  BY DEF Accounting
<1>6. freeMemory' + nextMarked = freeMemory + marked
  OBVIOUS
<1>7. SUFFICES /\ freeMemory' + usedMemory' + reservedMemory' = MemoryPages
               /\ freeMemory' = (MemoryPages + stray) - nextMarked
  BY <1>4 DEF Accounting
<1> HIDE DEF marked, nextMarked, stray
<1>8. freeMemory \in Int /\ usedMemory \in Int /\ reservedMemory \in Int
  BY DEF TypeOK
<1>9. freeMemory' + usedMemory' + reservedMemory' = MemoryPages
  BY <1>5, <1>8
<1>10. freeMemory' = (MemoryPages + stray) - nextMarked
  <2> DEFINE next == freeMemory'
  <2>1. next \in Int /\ next + nextMarked = freeMemory + marked
    BY <1>6
  <2> HIDE DEF next
  <2>2. next = (MemoryPages + stray) - nextMarked
    BY <1>1, <1>3, <1>5, <1>8, <2>1, SizesAssumption
  <2> QED
    BY <2>2 DEF next
<1> QED
  BY <1>9, <1>10

(* A frame whose bit is clear is nobody's and not withheld: what makes the *)
(* search of RequestPage and RequestPages safe.                            *)
LEMMA ClearIsGrantable ==
    ASSUME IndInv, stage \in {"early", "running"},
           NEW p \in Tracked, ~IsSet(p)
    PROVE  holders[p] = 0 /\ p \notin Withheld
<1>1. p \notin Withheld
  BY DEF IndInv, WithheldMarked, IsSet
<1>2. holders[p] \in Nat /\ holders[p] <= 1 /\ holders[p] # 1
  BY DEF IndInv, TypeOK, GrantsDisjoint
<1> QED
  BY <1>1, <1>2

(* What a search for a block passes over is pages.                        *)
LEMMA SkippedAreNumbers ==
    ASSUME TypeOK, NEW last \in Int,
           skipped' = skipped \cup {q \in pageBitmapIndex .. last : ~IsSet(q)}
    PROVE  skipped' \subseteq Nat
<1>1. \A q \in pageBitmapIndex .. last : q \in Nat
  BY DEF TypeOK
<1>2. skipped \subseteq Nat
  BY DEF TypeOK
<1> QED
  BY <1>1, <1>2, Zenon

(* Granting frames whose bits are clear keeps the invariant.               *)
LEMMA GrantKeeps ==
    ASSUME IndInv, stage \in {"early", "running"}, NEW pages,
           pages \subseteq Tracked, \A p \in pages : ~IsSet(p),
           Grant(pages), pageBitmapIndex' \in Nat,
           stage' = stage, strayBit' = strayBit, skipped' \subseteq Nat
    PROVE  IndInv'
<1> USE DEF IndInv
<1>1. /\ PageBitmap' = PageBitmap \cup (Tracked \cap pages)
      /\ freeMemory' \in Int /\ usedMemory' \in Int
      /\ reservedMemory' = reservedMemory
      /\ freeMemory' + usedMemory' = freeMemory + usedMemory
      /\ freeMemory' + Cardinality(PageBitmap')
           = freeMemory + Cardinality(PageBitmap)
  BY LockPagesEffect DEF Grant
<1>2. holders' = [p \in Tracked |-> IF p \in pages THEN holders[p] + 1
                                                   ELSE holders[p]]
  BY DEF Grant
<1>3. \A p \in pages : holders[p] = 0 /\ p \notin Withheld
  BY ClearIsGrantable
<1>4. PageBitmap' \in SUBSET Tracked
  BY <1>1 DEF TypeOK
<1>5. \A p \in Tracked : holders[p] \in Nat
  BY DEF TypeOK
<1>6. TypeOK'
  BY <1>1, <1>2, <1>4, <1>5 DEF TypeOK
<1>7. BootOrder'
  BY DEF BootOrder
<1>8. WithheldMarked'
  BY <1>1 DEF WithheldMarked
<1>9. GrantsDisjoint'
  BY <1>1, <1>2, <1>3 DEF GrantsDisjoint, IsSet
<1>10. GrantsAvoidWithheld'
  BY <1>2, <1>3 DEF GrantsAvoidWithheld, Withheld
<1>11. Accounting'
  BY <1>1, <1>4, AccountingKept
<1> QED
  BY <1>6, <1>7, <1>8, <1>9, <1>10, <1>11

LEMMA InitIndInv == Init => IndInv
<1> SUFFICES ASSUME Init PROVE IndInv
  OBVIOUS
<1>1. StrayBits \in SUBSET Tracked
  BY SizesAssumption DEF StrayBits, Tracked
<1>2. TypeOK
  BY <1>1 DEF Init, TypeOK, Stages
<1>3. BootOrder /\ WithheldMarked /\ Accounting
  BY DEF Init, BootOrder, WithheldMarked, Accounting
<1>4. GrantsDisjoint
  BY DEF Init, GrantsDisjoint
<1>5. GrantsAvoidWithheld
  BY DEF Init, GrantsAvoidWithheld, Withheld
<1> QED
  BY <1>2, <1>3, <1>4, <1>5 DEF IndInv

(* The pages LockPages is called with hold every byte of the bitmap.       *)
LEMMA BitmapBytesLocked ==
    ASSUME NEW byte \in 0 .. Size
    PROVE  LargestFreeMemSeg + (byte \div PageBytes) \in BitmapPages
<1>1. PageBytes \in Nat \ {0} /\ Size \in Nat /\ LargestFreeMemSeg \in Nat
  BY SizesAssumption
<1>2. /\ byte \div PageBytes \in Nat
      /\ Size \div PageBytes \in Nat
      /\ byte \div PageBytes <= Size \div PageBytes
  BY <1>1
<1> QED
  BY <1>1, <1>2 DEF BitmapPages, Run

(* The boot sequence: reading the map marks everything it withholds, and   *)
(* the counters agree with the bits at the end of it.                      *)
LEMMA ReadKeeps ==
    ASSUME IndInv, ReadEFIMemoryMap
    PROVE  IndInv'
<1> DEFINE all == Cardinality(AllReserved)
           given == Cardinality(Unreserved)
           legacy == Cardinality(LegacyReserved)
           boot == Cardinality(BootBitmap)
           stray == Cardinality(StrayBits)
<1>1. /\ stage = "off" /\ stage' = "mapped"
      /\ PageBitmap' = BootBitmap
      /\ pageBitmapIndex' = pageBitmapIndex
      /\ holders' = holders
      /\ strayBit' = strayBit
      /\ skipped' = skipped
      /\ reservedMemory' = reservedMemory + ((all - stray) - (all - given)
                                              + (legacy - given))
      /\ usedMemory' = usedMemory + (boot - legacy)
      /\ freeMemory' = MemoryPages - ((all - stray) - (all - given)
                                        + (legacy - given)) - (boot - legacy)
  BY DEF ReadEFIMemoryMap
<1>2. StrayBits \in SUBSET Tracked
  BY SizesAssumption DEF StrayBits, Tracked
<1>3. /\ AllReserved \in SUBSET Tracked
      /\ Unreserved \in SUBSET Tracked
      /\ LegacyReserved \in SUBSET Tracked
      /\ BootBitmap \in SUBSET Tracked
  BY <1>2 DEF AllReserved, Unreserved, LegacyReserved, BootBitmap
<1>4. /\ all \in Nat /\ given \in Nat /\ legacy \in Nat
      /\ boot \in Nat /\ stray \in Nat
  BY <1>2, <1>3, TrackedFinite
<1>5. usedMemory = 0 /\ reservedMemory = 0
  BY <1>1 DEF IndInv, BootOrder
<1>6. Tracked \cap WithheldByMap \subseteq BootBitmap
  BY BitmapBytesLocked, SizesAssumption
     DEF WithheldByMap, BootBitmap, LegacyReserved, Unreserved, AllReserved, Run
<1>7. WithheldMarked'
  BY <1>1, <1>6 DEF WithheldMarked
<1>8. GrantsDisjoint' /\ GrantsAvoidWithheld' /\ BootOrder'
  BY <1>1 DEF IndInv, BootOrder, GrantsDisjoint, GrantsAvoidWithheld, Withheld
<1>9. StrayBits' = StrayBits
  BY <1>1 DEF StrayBits
<1>10. /\ pageBitmapIndex' \in Nat /\ stage' \in Stages
       /\ holders' \in [Tracked -> Nat] /\ strayBit' \in BOOLEAN
       /\ skipped' \subseteq Nat
  BY <1>1 DEF IndInv, TypeOK, Stages
<1> DEFINE free == freeMemory'
           used == usedMemory'
           reserved == reservedMemory'
<1>11. SUFFICES /\ free \in Int /\ used \in Int /\ reserved \in Int
                /\ free + used + reserved = MemoryPages
                /\ free = (MemoryPages + stray) - boot
  BY <1>1, <1>3, <1>7, <1>8, <1>9, <1>10 DEF IndInv, TypeOK, Accounting
<1>12. /\ reserved = (all - stray) - (all - given) + (legacy - given)
       /\ used = boot - legacy
       /\ free = MemoryPages - ((all - stray) - (all - given)
                                  + (legacy - given)) - (boot - legacy)
  BY <1>1, <1>4, <1>5
<1>13. MemoryPages \in Nat
  BY SizesAssumption
<1> HIDE DEF all, given, legacy, boot, stray, free, used, reserved
<1> QED
  BY <1>4, <1>12, <1>13

(* Locking the kernel image or the frame buffer.                           *)
LEMMA LockKeeps ==
    ASSUME IndInv, NEW pages, LockPages(pages),
           stage \in {"mapped", "early"}, stage' \in {"early", "running"},
           Tracked \cap Run(Kernel.start, Kernel.pages) \subseteq PageBitmap',
           pageBitmapIndex' = pageBitmapIndex,
           holders' = holders, strayBit' = strayBit, skipped' = skipped
    PROVE  IndInv'
<1> USE DEF IndInv
<1>1. /\ PageBitmap' = PageBitmap \cup (Tracked \cap pages)
      /\ freeMemory' \in Int /\ usedMemory' \in Int
      /\ reservedMemory' = reservedMemory
      /\ freeMemory' + usedMemory' = freeMemory + usedMemory
      /\ freeMemory' + Cardinality(PageBitmap')
           = freeMemory + Cardinality(PageBitmap)
  BY LockPagesEffect
<1>2. PageBitmap' \in SUBSET Tracked
  BY <1>1 DEF TypeOK
<1>3. TypeOK'
  BY <1>1, <1>2 DEF TypeOK, Stages
<1>4. BootOrder'
  BY DEF BootOrder
<1>5. WithheldMarked'
  BY <1>1 DEF WithheldMarked, Withheld
<1>6. GrantsDisjoint'
  BY <1>1 DEF GrantsDisjoint, IsSet
<1>7. GrantsAvoidWithheld'
  BY DEF GrantsAvoidWithheld, Withheld
<1>8. Accounting'
  BY <1>1, <1>2, AccountingKept
<1> QED
  BY <1>3, <1>4, <1>5, <1>6, <1>7, <1>8

(* Freeing held frames: they are marked, so exactly they are cleared, and  *)
(* none of them is withheld.                                               *)
LEMMA FreeKeeps ==
    ASSUME IndInv, NEW s \in Tracked, NEW n \in Nat \ {0}, FreePages(s, n)
    PROVE  IndInv'
<1> USE DEF IndInv
<1> DEFINE freed == Run(s, n)
<1>1. /\ stage \in {"early", "running"}
      /\ freed \subseteq Tracked
      /\ \A p \in freed : holders[p] > 0
      /\ UNCHANGED <<reservedMemory, stage, strayBit>>
      /\ skipped' \subseteq skipped
  BY DEF FreePages
<1>2. \A p \in freed : holders[p] = 1 /\ p \in PageBitmap
  BY <1>1 DEF TypeOK, GrantsDisjoint, IsSet
<1>3. freed \in SUBSET PageBitmap
  BY <1>2
<1>4. freed \cap PageBitmap = freed
  BY <1>3
<1>5. /\ PageBitmap' = PageBitmap \ freed
      /\ freeMemory' = freeMemory + Cardinality(freed)
      /\ usedMemory' = usedMemory - Cardinality(freed)
      /\ pageBitmapIndex' = IndexAfterFree(freed)
      /\ holders' = [p \in Tracked |-> IF p \in freed THEN holders[p] - 1
                                                      ELSE holders[p]]
  BY <1>4 DEF FreePages
<1>6. /\ PageBitmap \in SUBSET Tracked
      /\ PageBitmap' \in SUBSET Tracked
  BY <1>5 DEF TypeOK
<1>7. Cardinality(freed) \in Nat /\ Cardinality(PageBitmap) \in Nat
  BY <1>1, <1>6, TrackedFinite
<1>8. Cardinality(PageBitmap') = Cardinality(PageBitmap) - Cardinality(freed)
  BY <1>3, <1>5, <1>6, ClearBitsCount
<1>9. freeMemory \in Int /\ usedMemory \in Int
  BY DEF TypeOK
<1>10. pageBitmapIndex' \in Nat
  <2>1. s \in Nat /\ s \in freed /\ \A p \in freed : p \in Nat /\ s <= p
    BY DEF Run, Tracked
  <2>2. Min(freed) \in freed
    BY <2>1 DEF Min
  <2>3. IndexAfterFree(freed) \in {Min(freed), pageBitmapIndex}
    BY DEF IndexAfterFree
  <2> QED
    BY <1>5, <2>1, <2>2, <2>3 DEF TypeOK
<1>11. \A p \in freed : p \notin Withheld
  BY <1>2 DEF GrantsAvoidWithheld
<1>12. TypeOK'
  <2>1. holders' \in [Tracked -> Nat]
    BY <1>2, <1>5 DEF TypeOK
  <2>2. freeMemory' \in Int /\ usedMemory' \in Int
    BY <1>5, <1>7, <1>9
  <2> QED
    BY <1>1, <1>6, <1>10, <2>1, <2>2 DEF TypeOK
<1>13. BootOrder'
  BY <1>1 DEF BootOrder
<1>14. WithheldMarked'
  BY <1>1, <1>5, <1>11 DEF WithheldMarked, Withheld
<1>15. GrantsDisjoint'
  BY <1>2, <1>5 DEF GrantsDisjoint, IsSet, TypeOK
<1>16. GrantsAvoidWithheld'
  BY <1>5, <1>11 DEF GrantsAvoidWithheld, Withheld
<1>17. Accounting'
  <2> DEFINE count == Cardinality(freed)
             marked == Cardinality(PageBitmap)
             nextMarked == Cardinality(PageBitmap')
  <2>1. /\ count \in Nat /\ marked \in Nat
        /\ nextMarked = marked - count
        /\ freeMemory' = freeMemory + count
        /\ usedMemory' = usedMemory - count
    BY <1>5, <1>7, <1>8
  <2> HIDE DEF count, marked, nextMarked
  <2>2. /\ freeMemory' + usedMemory' = freeMemory + usedMemory
        /\ freeMemory' + nextMarked = freeMemory + marked
    BY <1>9, <2>1
  <2>3. freeMemory' \in Int /\ usedMemory' \in Int
    BY <1>9, <2>1
  <2>4. freeMemory' + Cardinality(PageBitmap')
          = freeMemory + Cardinality(PageBitmap)
    BY <2>2 DEF marked, nextMarked
  <2> QED
    BY <1>1, <1>6, <2>2, <2>3, <2>4, AccountingKept
<1> QED
  BY <1>12, <1>13, <1>14, <1>15, <1>16, <1>17

(***************************************************************************)
(* Every step keeps the invariant.                                         *)
(***************************************************************************)
LEMMA NextIndInv == IndInv /\ [Next]_vars => IndInv'
<1> SUFFICES ASSUME IndInv, [Next]_vars PROVE IndInv'
  OBVIOUS
<1>1. CASE ReadEFIMemoryMap
  BY <1>1, ReadKeeps
<1>2. CASE LockKernel
  <2>1. PageBitmap' = PageBitmap
                        \cup (Tracked \cap Run(Kernel.start, Kernel.pages))
    BY <1>2, LockPagesEffect DEF LockKernel, IndInv
  <2> QED
    BY <1>2, <2>1, LockKeeps DEF LockKernel
<1>3. CASE LockFrameBuffer
  <2>1. PageBitmap \subseteq PageBitmap'
    BY <1>3, LockPagesEffect DEF LockFrameBuffer, IndInv
  <2>2. Tracked \cap Run(Kernel.start, Kernel.pages) \subseteq PageBitmap'
    BY <1>3, <2>1 DEF LockFrameBuffer, IndInv, WithheldMarked, Withheld
  <2> QED
    BY <1>3, <2>2, LockKeeps DEF LockFrameBuffer
<1>4. CASE RequestPage
  <2>1. PICK p \in pageBitmapIndex .. (Bits - 1) :
          ~IsSet(p) /\ pageBitmapIndex' = p /\ Grant({p})
    BY <1>4 DEF RequestPage
  <2>2. p \in Tracked /\ p \in Nat
    BY <2>1, SizesAssumption DEF IndInv, TypeOK, Tracked
  <2>3. skipped' \subseteq Nat
    BY <1>4 DEF RequestPage, IndInv, TypeOK
  <2> QED
    BY <1>4, <2>1, <2>2, <2>3, GrantKeeps DEF RequestPage
<1>5. CASE OutOfMemory
  <2>1. /\ UNCHANGED <<PageBitmap, freeMemory, usedMemory, reservedMemory,
                       holders, strayBit, skipped>>
        /\ stage \in {"early", "running"}
        /\ stage' = "panicked"
        /\ pageBitmapIndex' \in Nat
    BY <1>5, SizesAssumption DEF OutOfMemory, counters, IndInv, TypeOK
  <2> QED
    BY <2>1 DEF IndInv, TypeOK, Stages, BootOrder, WithheldMarked, Withheld,
                GrantsDisjoint, IsSet, GrantsAvoidWithheld, Accounting,
                StrayBits
<1>6. ASSUME NEW n \in BlockSizes, RequestPages(n) PROVE IndInv'
  <2>1. PICK s \in pageBitmapIndex .. (Size - 1) :
          /\ FreeRun(s, n)
          /\ pageBitmapIndex' = s + n
          /\ Grant(Run(s, n))
          /\ skipped' = skipped \cup {q \in pageBitmapIndex .. (s - 1) : ~IsSet(q)}
    BY <1>6 DEF RequestPages
  <2>2. n \in Nat \ {0} /\ Size + n <= Bits + 1
    BY BlocksAssumption
  <2>3. s \in Nat /\ s < Size
    BY <2>1, SizesAssumption DEF IndInv, TypeOK
  <2>4. Run(s, n) \subseteq Tracked /\ s + n \in Nat
    BY <2>2, <2>3, SizesAssumption DEF Run, Tracked
  <2>5. skipped' \subseteq Nat
    <3>1. s - 1 \in Int /\ TypeOK
      BY <2>3 DEF IndInv
    <3> QED
      BY <2>1, <3>1, SkippedAreNumbers
  <2> QED
    BY <1>6, <2>1, <2>4, <2>5, GrantKeeps DEF RequestPages, FreeRun
<1>7. ASSUME NEW n \in BlockSizes, RequestPagesFails(n) PROVE IndInv'
  <2>1. /\ UNCHANGED <<PageBitmap, freeMemory, usedMemory, reservedMemory,
                       stage, holders, strayBit>>
        /\ pageBitmapIndex' = pageBitmapIndex
             \/ \E q \in PageBitmap : pageBitmapIndex' = q + 1
        /\ skipped' = skipped
             \cup {q \in pageBitmapIndex .. (pageBitmapIndex' - 1) : ~IsSet(q)}
    BY <1>7 DEF RequestPagesFails, counters
  <2>2. pageBitmapIndex' \in Nat
    BY <2>1, SizesAssumption DEF IndInv, TypeOK, Tracked
  <2>3. skipped' \subseteq Nat
    <3>1. pageBitmapIndex' - 1 \in Int /\ TypeOK
      BY <2>2 DEF IndInv
    <3> QED
      BY <2>1, <3>1, SkippedAreNumbers
  <2> QED
    BY <2>1, <2>2, <2>3 DEF IndInv, TypeOK, BootOrder, WithheldMarked, Withheld,
                      GrantsDisjoint, IsSet, GrantsAvoidWithheld, Accounting,
                      StrayBits
<1>8. ASSUME NEW s \in Tracked, NEW n \in BlockSizes \cup {1},
             FreePages(s, n)
      PROVE  IndInv'
  <2>1. n \in Nat \ {0}
    BY BlocksAssumption
  <2> QED
    BY <1>8, <2>1, FreeKeeps
<1>9. CASE UNCHANGED vars
  BY <1>9 DEF vars, IndInv, TypeOK, BootOrder, WithheldMarked, Withheld,
              GrantsDisjoint, IsSet, GrantsAvoidWithheld, Accounting, StrayBits
<1> QED
  BY <1>1, <1>2, <1>3, <1>4, <1>5, <1>6, <1>7, <1>8, <1>9 DEF Next

THEOREM IndInvHolds == Spec => []IndInv
<1>1. Init => IndInv
  BY InitIndInv
<1>2. IndInv /\ [Next]_vars => IndInv'
  BY NextIndInv
<1> QED
  BY <1>1, <1>2, PTL DEF Spec

(* Every variable keeps its type, whatever the memory map.                 *)
THEOREM TypeCorrect == Spec => []TypeOK
<1>1. IndInv => TypeOK
  BY DEF IndInv
<1> QED
  BY <1>1, IndInvHolds, PTL

(* No frame is ever handed out twice.                                      *)
THEOREM DisjointGrants == Spec => []GrantsDisjoint
<1>1. IndInv => GrantsDisjoint
  BY DEF IndInv
<1> QED
  BY <1>1, IndInvHolds, PTL

(* Firmware memory, the legacy area, the bitmap and the kernel image are   *)
(* never handed out.                                                       *)
THEOREM WithheldNeverGranted == Spec => []GrantsAvoidWithheld
<1>1. IndInv => GrantsAvoidWithheld
  BY DEF IndInv
<1> QED
  BY <1>1, IndInvHolds, PTL

(* GetFreeRAM, GetUsedRAM and GetReservedRAM add up to the memory size and *)
(* agree with the bitmap.                                                  *)
THEOREM CountersTruthful == Spec => []Accounting
<1>1. IndInv => Accounting
  BY DEF IndInv
<1> QED
  BY <1>1, IndInvHolds, PTL

(***************************************************************************)
(* The allocator implements FrameOwnership.                                *)
(***************************************************************************)
LEMMA GrantIsTake ==
    ASSUME IndInv, stage \in {"early", "running"},
           NEW s \in Tracked, NEW n \in BlockSizes \cup {1},
           Run(s, n) \subseteq Tracked, FreeRun(s, n), Grant(Run(s, n))
    PROVE  Ownership!Take(s, n)
<1>1. \A p \in Run(s, n) : holders[p] = 0 /\ p \notin Withheld
  BY ClearIsGrantable DEF FreeRun
<1>2. holders' = [p \in Tracked |-> IF p \in Run(s, n) THEN 1 ELSE holders[p]]
  BY <1>1 DEF Grant
<1>3. Ownership!OwnedRun(s, n) = Run(s, n)
  BY DEF Ownership!OwnedRun, Run
<1> QED
  BY <1>1, <1>2, <1>3 DEF Ownership!Take

LEMMA FreeIsGiveBack ==
    ASSUME IndInv, NEW s \in Tracked, NEW n \in BlockSizes \cup {1},
           FreePages(s, n)
    PROVE  Ownership!GiveBack(s, n)
<1>1. /\ Run(s, n) \subseteq Tracked
      /\ \A p \in Run(s, n) : holders[p] > 0
      /\ holders' = [p \in Tracked |-> IF p \in Run(s, n) THEN holders[p] - 1
                                                          ELSE holders[p]]
  BY DEF FreePages
<1>2. \A p \in Run(s, n) : holders[p] = 1
  BY <1>1 DEF IndInv, TypeOK, GrantsDisjoint
<1>3. Ownership!OwnedRun(s, n) = Run(s, n)
  BY DEF Ownership!OwnedRun, Run
<1> QED
  BY <1>1, <1>2, <1>3 DEF Ownership!GiveBack

(* Every behaviour of the allocator, seen through the holders of its       *)
(* frames, is one of the ownership protocol: each step takes one free run, *)
(* gives one held run back, or leaves the holders alone.                   *)
THEOREM ImplementsOwnership == Spec => OwnsFrames
<1>1. Init => Ownership!Init
  BY DEF Init, Ownership!Init
<1>2. ASSUME IndInv, [Next]_vars PROVE [Ownership!Next]_holders
  <2>1. CASE RequestPage
    <3>1. PICK p \in pageBitmapIndex .. (Bits - 1) : ~IsSet(p) /\ Grant({p})
      BY <2>1 DEF RequestPage
    <3>2. p \in Tracked /\ Run(p, 1) = {p}
      BY <1>2, <3>1, SizesAssumption DEF IndInv, TypeOK, Tracked, Run
    <3>3. FreeRun(p, 1) /\ Grant(Run(p, 1)) /\ Run(p, 1) \subseteq Tracked
      BY <3>1, <3>2 DEF FreeRun
    <3>4. Ownership!Take(p, 1)
      BY <1>2, <2>1, <3>2, <3>3, GrantIsTake DEF RequestPage
    <3> QED
      BY <3>2, <3>4 DEF Ownership!Next
  <2>2. ASSUME NEW n \in BlockSizes, RequestPages(n)
        PROVE  Ownership!Next
    <3>1. PICK s \in pageBitmapIndex .. (Size - 1) :
            FreeRun(s, n) /\ Grant(Run(s, n))
      BY <2>2 DEF RequestPages
    <3>2. n \in Nat \ {0} /\ Size + n <= Bits + 1
      BY BlocksAssumption
    <3>3. s \in Nat /\ s < Size
      BY <1>2, <3>1, SizesAssumption DEF IndInv, TypeOK
    <3>4. s \in Tracked /\ Run(s, n) \subseteq Tracked
      BY <3>2, <3>3, SizesAssumption DEF Run, Tracked
    <3>5. Ownership!Take(s, n)
      BY <1>2, <2>2, <3>1, <3>4, GrantIsTake DEF RequestPages
    <3> QED
      BY <3>4, <3>5 DEF Ownership!Next
  <2>3. ASSUME NEW s \in Tracked, NEW n \in BlockSizes \cup {1},
               FreePages(s, n)
        PROVE  Ownership!Next
    BY <1>2, <2>3, FreeIsGiveBack DEF Ownership!Next
  <2>4. CASE holders' = holders
    BY <2>4
  <2>5. \/ RequestPage
        \/ \E n \in BlockSizes : RequestPages(n)
        \/ \E s \in Tracked, n \in BlockSizes \cup {1} : FreePages(s, n)
        \/ holders' = holders
    BY <1>2 DEF Next, vars, ReadEFIMemoryMap, LockKernel, LockFrameBuffer,
                OutOfMemory, RequestPagesFails
  <2> QED
    BY <2>1, <2>2, <2>3, <2>4, <2>5
<1> QED
  BY <1>1, <1>2, IndInvHolds, PTL DEF Spec, OwnsFrames, Ownership!Spec

(***************************************************************************)
(* What is clear behind the search index, a search for a block has skipped.*)
(***************************************************************************)
SkippedBehind ==
    /\ stage = "off" => pageBitmapIndex = 0
    /\ \A q \in 0 .. (Bits - 1) : q < pageBitmapIndex => IsSet(q) \/ q \in skipped
    /\ stage = "panicked" => pageBitmapIndex >= Bits

LEMMA FreeKeepsSkipped ==
    ASSUME IndInv, SkippedBehind, NEW s \in Tracked, NEW n \in Nat \ {0},
           FreePages(s, n)
    PROVE  SkippedBehind'
<1> DEFINE freed == Run(s, n)
<1>1. freed \subseteq PageBitmap
  BY DEF FreePages, IndInv, TypeOK, GrantsDisjoint, IsSet
<1>2. freed \cap PageBitmap = freed
  BY <1>1
<1>3. /\ PageBitmap' = PageBitmap \ freed
      /\ pageBitmapIndex' = IndexAfterFree(freed)
      /\ skipped' = {q \in skipped : q < pageBitmapIndex'}
      /\ stage \in {"early", "running"} /\ stage' = stage
  BY <1>2 DEF FreePages
<1>4. s \in Nat /\ s \in freed /\ \A p \in freed : p \in Nat /\ s <= p
  BY SizesAssumption DEF Run, Tracked
<1>5. Min(freed) \in freed /\ Min(freed) <= s
  BY <1>4 DEF Min
<1>6. Min(freed) = s
  BY <1>4, <1>5
<1>7. pageBitmapIndex \in Nat
  BY DEF IndInv, TypeOK
<1> DEFINE index == pageBitmapIndex'
<1>8. index \in Nat /\ index <= s /\ index <= pageBitmapIndex
  <2>1. CASE \E p \in freed : p < pageBitmapIndex
    BY <1>3, <1>4, <1>6, <1>7, <2>1 DEF IndexAfterFree
  <2>2. CASE ~ \E p \in freed : p < pageBitmapIndex
    BY <1>3, <1>4, <1>7, <2>2 DEF IndexAfterFree
  <2> QED
    BY <2>1, <2>2
<1>9. SUFFICES ASSUME NEW q \in 0 .. (Bits - 1), q < index
               PROVE  q \in PageBitmap' \/ q \in skipped'
  BY <1>3 DEF SkippedBehind, IsSet
<1>10. skipped' = {p \in skipped : p < index}
  BY <1>3
<1> HIDE DEF index
<1>11. q < pageBitmapIndex /\ q \notin freed
  BY <1>4, <1>7, <1>8, <1>9, SizesAssumption
<1> QED
  BY <1>3, <1>9, <1>10, <1>11 DEF SkippedBehind, IsSet

(* A search that moves the index on keeps what it passes over.             *)
LEMMA SearchKeepsSkipped ==
    ASSUME IndInv, SkippedBehind, NEW s \in Nat, NEW t \in Nat, s <= t,
           skipped' = skipped \cup {q \in pageBitmapIndex .. (s - 1) : ~IsSet(q)},
           \A q \in s .. (t - 1) : q \in Tracked => q \in PageBitmap',
           PageBitmap \subseteq PageBitmap', pageBitmapIndex' = t,
           stage \in {"early", "running"}, stage' = stage
    PROVE  SkippedBehind'
<1>1. SUFFICES ASSUME NEW q \in 0 .. (Bits - 1), q < t
               PROVE  q \in PageBitmap' \/ q \in skipped'
  BY DEF SkippedBehind, IsSet
<1>2. pageBitmapIndex \in Nat /\ q \in Tracked /\ q \in Nat
  BY SizesAssumption DEF IndInv, TypeOK, Tracked
<1>3. CASE q < pageBitmapIndex
  BY <1>3 DEF SkippedBehind, IsSet
<1>4. CASE q >= pageBitmapIndex /\ q < s
  BY <1>2, <1>4 DEF IsSet
<1>5. CASE q >= s
  BY <1>1, <1>2, <1>5
<1> QED
  BY <1>2, <1>3, <1>4, <1>5

LEMMA SkippedNext ==
    ASSUME IndInv, SkippedBehind, [Next]_vars
    PROVE  SkippedBehind'
<1>0. pageBitmapIndex \in Nat
  BY DEF IndInv, TypeOK
<1>1. CASE ReadEFIMemoryMap
  BY <1>1, SizesAssumption DEF ReadEFIMemoryMap, SkippedBehind, IsSet
<1>2. CASE LockKernel \/ LockFrameBuffer
  <2>1. /\ PageBitmap \subseteq PageBitmap'
        /\ pageBitmapIndex' = pageBitmapIndex /\ skipped' = skipped
        /\ stage' \in {"early", "running"}
    BY <1>2, LockPagesEffect DEF LockKernel, LockFrameBuffer, IndInv
  <2> QED
    BY <2>1 DEF SkippedBehind, IsSet
<1>3. CASE RequestPage
  <2>1. PICK p \in pageBitmapIndex .. (Bits - 1) :
          /\ \A q \in pageBitmapIndex .. (p - 1) : IsSet(q)
          /\ pageBitmapIndex' = p
          /\ Grant({p})
    BY <1>3 DEF RequestPage
  <2>2. PageBitmap \subseteq PageBitmap'
    BY <2>1, LockPagesEffect DEF Grant, IndInv
  <2>3. /\ stage \in {"early", "running"} /\ stage' = stage
        /\ skipped' = skipped
    BY <1>3 DEF RequestPage
  <2>4. \A q \in 0 .. (Bits - 1) : q < p => IsSet(q) \/ q \in skipped
    BY <1>0, <2>1, SizesAssumption DEF SkippedBehind
  <2> QED
    BY <2>1, <2>2, <2>3, <2>4 DEF SkippedBehind, IsSet
<1>4. CASE OutOfMemory
  <2>1. \A q \in 0 .. (Bits - 1) : IsSet(q) \/ q \in skipped
    BY <1>0, <1>4, SizesAssumption DEF OutOfMemory, SkippedBehind
  <2>2. pageBitmapIndex' >= Bits /\ stage' = "panicked"
    BY <1>0, <1>4, SizesAssumption DEF OutOfMemory
  <2> QED
    BY <1>4, <2>1, <2>2 DEF OutOfMemory, SkippedBehind, IsSet
<1>5. ASSUME NEW n \in BlockSizes, RequestPages(n) PROVE SkippedBehind'
  <2>1. PICK s \in pageBitmapIndex .. (Size - 1) :
          /\ pageBitmapIndex' = s + n
          /\ Grant(Run(s, n))
          /\ skipped' = skipped \cup {q \in pageBitmapIndex .. (s - 1) : ~IsSet(q)}
    BY <1>5 DEF RequestPages
  <2>2. PageBitmap' = PageBitmap \cup (Tracked \cap Run(s, n))
    BY <2>1, LockPagesEffect DEF Grant, IndInv
  <2>3. n \in Nat \ {0}
    BY BlocksAssumption
  <2>4. s \in Nat /\ s + n \in Nat /\ s <= s + n
    BY <1>0, <2>1, <2>3, SizesAssumption
  <2>5. Run(s, n) = s .. ((s + n) - 1)
    BY <2>3, <2>4 DEF Run
  <2>6. stage \in {"early", "running"} /\ stage' = stage
    BY <1>5 DEF RequestPages
  <2> QED
    BY <2>1, <2>2, <2>4, <2>5, <2>6, SearchKeepsSkipped
<1>6. ASSUME NEW n \in BlockSizes, RequestPagesFails(n) PROVE SkippedBehind'
  <2>1. /\ PageBitmap' = PageBitmap
        /\ stage = "running" /\ stage' = stage
        /\ skipped' = skipped
             \cup {q \in pageBitmapIndex .. (pageBitmapIndex' - 1) : ~IsSet(q)}
        /\ pageBitmapIndex' = pageBitmapIndex
             \/ \E q \in PageBitmap : pageBitmapIndex' = q + 1
    BY <1>6 DEF RequestPagesFails
  <2>2. pageBitmapIndex' \in Nat
    BY <1>0, <2>1, SizesAssumption DEF IndInv, TypeOK, Tracked
  <2> QED
    BY <2>1, <2>2, SearchKeepsSkipped
<1>7. ASSUME NEW s \in Tracked, NEW n \in BlockSizes \cup {1}, FreePages(s, n)
      PROVE  SkippedBehind'
  <2>1. n \in Nat \ {0}
    BY BlocksAssumption
  <2> QED
    BY <1>7, <2>1, FreeKeepsSkipped
<1>8. CASE UNCHANGED vars
  BY <1>8 DEF vars, SkippedBehind, IsSet
<1> QED
  BY <1>1, <1>2, <1>3, <1>4, <1>5, <1>6, <1>7, <1>8 DEF Next

(* The kernel never panics "Out of memory" while a conventional page is    *)
(* free that no search for a block has passed over.                        *)
THEOREM PanicLosesNoOther == Spec => []PanicLosesOnlySkipped
<1>1. Init => SkippedBehind
  BY SizesAssumption DEF Init, SkippedBehind
<1>2. IndInv /\ SkippedBehind /\ [Next]_vars => SkippedBehind'
  BY SkippedNext
<1>3. IndInv /\ SkippedBehind => PanicLosesOnlySkipped
  <2> SUFFICES ASSUME IndInv, SkippedBehind, stage = "panicked"
               PROVE  \A p \in 0 .. (Bits - 1) : IsSet(p) \/ p \in skipped
    BY DEF PanicLosesOnlySkipped
  <2>1. pageBitmapIndex \in Nat /\ pageBitmapIndex >= Bits
    BY DEF IndInv, TypeOK, SkippedBehind
  <2> QED
    BY <2>1, SizesAssumption DEF SkippedBehind
<1> QED
  BY <1>1, <1>2, <1>3, IndInvHolds, PTL DEF Spec

(* A kernel that requests single pages only never panics "Out of memory"   *)
(* while a conventional page is free.                                      *)
THEOREM SinglesPanicOnlyWhenFull ==
    ASSUME BlockSizes = {}
    PROVE  Spec => []PanicOnlyWhenFull
<1>1. Init => skipped = {}
  BY DEF Init
<1>2. skipped = {} /\ [Next]_vars => (skipped = {})'
  <2> SUFFICES ASSUME skipped = {}, [Next]_vars PROVE skipped' = {}
    OBVIOUS
  <2>1. ASSUME NEW s \in Tracked, NEW n \in BlockSizes \cup {1}, FreePages(s, n)
        PROVE  skipped' = {}
    BY <2>1 DEF FreePages
  <2> QED
    BY <2>1 DEF Next, ReadEFIMemoryMap, LockKernel, LockFrameBuffer,
                RequestPage, OutOfMemory, vars
<1>3. skipped = {} /\ PanicLosesOnlySkipped => PanicOnlyWhenFull
  BY DEF PanicLosesOnlySkipped, PanicOnlyWhenFull
<1> QED
  BY <1>1, <1>2, <1>3, PanicLosesNoOther, PTL DEF Spec

=============================================================================
