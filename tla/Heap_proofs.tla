---------------------------- MODULE Heap_proofs ----------------------------
(***************************************************************************)
(* Proofs about the kernel heap, for every size of header, granularity,    *)
(* page and first heap, every supply of page frames and every set of       *)
(* sizes.                                                                  *)
(***************************************************************************)
EXTENDS Heap, TLAPS

Headers == [length : Nat, next : Nat, last : Nat, free : BOOLEAN]

End(segs, a) == a + HDR + segs[a].length

(* The headers form a list; it is ListTilesHeap with the types it needs.   *)
Linked(segs, lastHdr, end) ==
    /\ segs \in [DOMAIN segs -> Headers]
    /\ DOMAIN segs \subseteq Nat
    /\ heapStart \in DOMAIN segs /\ lastHdr \in DOMAIN segs
    /\ \A a \in DOMAIN segs :
         /\ heapStart <= a /\ End(segs, a) <= end
         /\ End(segs, a) = IF segs[a].next = NULL THEN end ELSE segs[a].next
         /\ segs[a].next # NULL => segs[a].next \in DOMAIN segs
         /\ segs[a].next # NULL => segs[segs[a].next].last = a
         /\ segs[a].last # NULL => segs[a].last \in DOMAIN segs
         /\ segs[a].last # NULL => segs[segs[a].last].next = a
         /\ segs[a].last = NULL <=> a = heapStart
         /\ segs[a].next = NULL <=> a = lastHdr

(* No header is inside another segment: what keeps a header that Split     *)
(* writes from being one that is there already.                            *)
Disjoint(segs) ==
    \A a, b \in DOMAIN segs : a < b => End(segs, a) <= b

Listed(segs, lastHdr, end) == Linked(segs, lastHdr, end) /\ Disjoint(segs)

(* No free segment but those in `but` has a free successor.                *)
ApartBut(segs, but) ==
    \A a \in DOMAIN segs \ but :
       segs[a].free /\ segs[a].next # NULL => ~segs[segs[a].next].free

(***************************************************************************)
(* Lemmas about the lists that the methods of HeapSegHdr return.           *)
(***************************************************************************)
(* What Relinked changes: one link.                                        *)
LEMMA RelinkedFields ==
    ASSUME NEW segs, NEW a, NEW last \in Nat,
           segs \in [DOMAIN segs -> Headers], NULL \notin DOMAIN segs,
           a = NULL \/ a \in DOMAIN segs
    PROVE  LET r == Relinked(segs, a, last)
           IN  /\ r \in [DOMAIN segs -> Headers]
               /\ \A x \in DOMAIN segs :
                    /\ r[x].length = segs[x].length /\ r[x].next = segs[x].next
                    /\ r[x].free = segs[x].free
                    /\ r[x].last = IF x = a THEN last ELSE segs[x].last
<1> DEFINE r == Relinked(segs, a, last)
<1>1. CASE a = NULL
  BY <1>1 DEF Relinked
<1>2. CASE a \in DOMAIN segs
  <2>1. r = [segs EXCEPT ![a].last = last]
    BY <1>2 DEF Relinked
  <2>2. r \in [DOMAIN segs -> Headers]
    BY <2>1, <1>2 DEF Headers
  <2>3. ASSUME NEW x \in DOMAIN segs
        PROVE  /\ r[x].length = segs[x].length /\ r[x].next = segs[x].next
               /\ r[x].free = segs[x].free
               /\ r[x].last = IF x = a THEN last ELSE segs[x].last
    BY <2>1, <2>3, <1>2 DEF Headers
  <2> QED
    BY <2>2, <2>3
<1> QED
  BY <1>1, <1>2

(* Every header of a list is a positive address.                           *)
LEMMA ListedTypes ==
    ASSUME NEW segs, NEW lastHdr, NEW end, Linked(segs, lastHdr, end)
    PROVE  /\ NULL \notin DOMAIN segs
           /\ segs \in [DOMAIN segs -> Headers]
           /\ \A a \in DOMAIN segs :
                /\ a \in Nat
                /\ segs[a].length \in Nat /\ segs[a].next \in Nat /\ segs[a].last \in Nat
                /\ segs[a].free \in BOOLEAN
                /\ End(segs, a) \in Nat /\ a < End(segs, a)
<1>1. segs \in [DOMAIN segs -> Headers] /\ DOMAIN segs \subseteq Nat
  BY DEF Linked
<1>2. NULL \notin DOMAIN segs
  BY HeapAssumption DEF Linked, NULL
<1>3. ASSUME NEW a \in DOMAIN segs
      PROVE  /\ a \in Nat
             /\ segs[a].length \in Nat /\ segs[a].next \in Nat /\ segs[a].last \in Nat
             /\ segs[a].free \in BOOLEAN
  BY <1>1 DEF Headers
<1>4. ASSUME NEW a \in DOMAIN segs
      PROVE  End(segs, a) \in Nat /\ a < End(segs, a)
  BY <1>3, HeapAssumption DEF End
<1> QED
  BY <1>1, <1>2, <1>3, <1>4

(* What Split changes where the rest is a segment.                         *)
IsSplit(segs, lastHdr, this, size, s, l) ==
    LET new == this + size + HDR
    IN  /\ new \notin DOMAIN segs
        /\ new < End(segs, this)
        /\ DOMAIN s = DOMAIN segs \cup {new}
        /\ s \in [DOMAIN segs \cup {new} -> Headers]
        /\ l = IF lastHdr = this THEN new ELSE lastHdr
        /\ \A x \in DOMAIN segs :
             /\ s[x].free = segs[x].free
             /\ s[x].length = IF x = this THEN size ELSE segs[x].length
             /\ s[x].next = IF x = this THEN new ELSE segs[x].next
             /\ s[x].last = IF x = segs[this].next THEN new ELSE segs[x].last
        /\ s[new] = [length |-> segs[this].length - size - HDR,
                     next |-> segs[this].next, last |-> this,
                     free |-> segs[this].free]

LEMMA SplitFields ==
    ASSUME NEW h, NEW end, NEW this \in DOMAIN h.segs, NEW size \in Nat,
           Listed(h.segs, h.lastHdr, end),
           RestIsSegment(h.segs[this], size)
    PROVE  IsSplit(h.segs, h.lastHdr, this, size,
                   Split(h, this, size).segs, Split(h, this, size).lastHdr)
<1> DEFINE segs == h.segs
           D == DOMAIN h.segs
           header == h.segs[this]
           new == this + size + HDR
           linked == Relinked(h.segs, header.next, new)
           cut == [linked EXCEPT ![this].length = size, ![this].next = new]
           rest == [length |-> header.length - size - HDR, next |-> header.next,
                    last |-> this, free |-> header.free]
<1>1. /\ this \in Nat /\ new \in Nat /\ HDR \in Nat \ {0}
      /\ header.length \in Nat /\ header.next \in Nat /\ header.free \in BOOLEAN
      /\ header.length - size - HDR \in Nat
      /\ new < End(h.segs, this) /\ this < new
  BY ListedTypes, HeapAssumption DEF Listed, RestIsSegment, End
<1>2. new \notin D
  <2> SUFFICES ASSUME new \in D PROVE FALSE
    OBVIOUS
  <2>1. End(h.segs, this) <= new
    BY <1>1 DEF Listed, Disjoint
  <2> QED
    BY <2>1, <1>1, ListedTypes DEF Listed
<1>3. header.next = NULL \/ header.next \in D
  BY DEF Listed, Linked
<1>4. /\ linked \in [D -> Headers]
      /\ \A x \in D :
           /\ linked[x].length = segs[x].length /\ linked[x].next = segs[x].next
           /\ linked[x].free = segs[x].free
           /\ linked[x].last = IF x = header.next THEN new ELSE segs[x].last
  <2>1. segs \in [D -> Headers] /\ NULL \notin D
    BY ListedTypes DEF Listed
  <2> QED
    BY <2>1, <1>1, <1>3, RelinkedFields
<1> HIDE DEF linked, new
<1>5. /\ cut \in [D -> Headers]
      /\ \A x \in D :
           /\ cut[x].length = IF x = this THEN size ELSE segs[x].length
           /\ cut[x].next = IF x = this THEN new ELSE segs[x].next
           /\ cut[x].free = segs[x].free
           /\ cut[x].last = IF x = header.next THEN new ELSE segs[x].last
  <2>1. cut = [linked EXCEPT ![this] = [linked[this] EXCEPT !.length = size, !.next = new]]
    BY <1>4
  <2>2. [linked[this] EXCEPT !.length = size, !.next = new] \in Headers
    <3>1. linked[this] \in Headers
      BY <1>4
    <3>2. [linked[this] EXCEPT !.length = size] \in Headers
      BY <3>1 DEF Headers
    <3> QED
      BY <3>2, <1>1 DEF Headers
  <2>3. cut \in [D -> Headers]
    BY <2>1, <2>2, <1>4
  <2>4. ASSUME NEW x \in D, x # this
        PROVE  cut[x] = linked[x]
    BY <2>1, <2>4, <1>4
  <2>5. /\ cut[this].length = size /\ cut[this].next = new
        /\ cut[this].free = linked[this].free /\ cut[this].last = linked[this].last
    BY <2>1, <1>4 DEF Headers
  <2> HIDE DEF cut
  <2>6. ASSUME NEW x \in D
        PROVE  /\ cut[x].length = IF x = this THEN size ELSE segs[x].length
               /\ cut[x].next = IF x = this THEN new ELSE segs[x].next
               /\ cut[x].free = segs[x].free
               /\ cut[x].last = IF x = header.next THEN new ELSE segs[x].last
    BY <2>4, <2>5, <1>4
  <2> QED
    BY <2>3, <2>6
<1>6. rest \in Headers
  BY <1>1 DEF Headers
<1> DEFINE s == With(cut, new, rest)
<1>7. /\ DOMAIN s = D \cup {new}
      /\ s[new] = rest
      /\ \A x \in D : s[x] = cut[x]
  <2> HIDE DEF cut, rest
  <2> QED
    BY <1>2, <1>5 DEF With
<1>8. s \in [D \cup {new} -> Headers]
  <2> HIDE DEF cut, rest
  <2> QED
    BY <1>5, <1>6 DEF With
<1>9. /\ Split(h, this, size).segs = s
      /\ Split(h, this, size).lastHdr = IF h.lastHdr = this THEN new ELSE h.lastHdr
  BY DEF Split, new, linked
<1> QED
  <2> HIDE DEF cut, s
  <2> QED
    BY <1>1, <1>2, <1>5, <1>7, <1>8, <1>9 DEF new, IsSplit

(* Split leaves a list.                                                    *)
LEMMA SplitKeeps ==
    ASSUME NEW h, NEW end, NEW this \in DOMAIN h.segs, NEW size \in Nat,
           Listed(h.segs, h.lastHdr, end),
           RestIsSegment(h.segs[this], size)
    PROVE  Listed(Split(h, this, size).segs, Split(h, this, size).lastHdr, end)
<1> DEFINE segs == h.segs
           D == DOMAIN h.segs
           new == this + size + HDR
           s == Split(h, this, size).segs
           l == Split(h, this, size).lastHdr
           rest == [length |-> segs[this].length - size - HDR, next |-> segs[this].next,
                    last |-> this, free |-> segs[this].free]
<1>a. IsSplit(segs, h.lastHdr, this, size, s, l)
  BY SplitFields
<1> HIDE DEF s, l
<1>0. /\ new \notin D /\ new < End(segs, this) /\ DOMAIN s = D \cup {new}
      /\ s \in [D \cup {new} -> Headers]
      /\ l = IF h.lastHdr = this THEN new ELSE h.lastHdr
      /\ \A x \in D :
           /\ s[x].free = segs[x].free
           /\ s[x].length = IF x = this THEN size ELSE segs[x].length
           /\ s[x].next = IF x = this THEN new ELSE segs[x].next
           /\ s[x].last = IF x = segs[this].next THEN new ELSE segs[x].last
      /\ s[new] = rest
  BY <1>a DEF IsSplit
<1> HIDE DEF new
<1>1. /\ new \notin D /\ new < End(segs, this) /\ DOMAIN s = D \cup {new}
      /\ s \in [D \cup {new} -> Headers]
      /\ l = IF h.lastHdr = this THEN new ELSE h.lastHdr
  BY <1>0
<1>2. \A x \in D :
        /\ s[x].length = IF x = this THEN size ELSE segs[x].length
        /\ s[x].next = IF x = this THEN new ELSE segs[x].next
        /\ s[x].last = IF x = segs[this].next THEN new ELSE segs[x].last
  BY <1>0
<1>3. /\ s[new].length = segs[this].length - size - HDR
      /\ s[new].next = segs[this].next /\ s[new].last = this
  BY <1>0
<1>4. /\ NULL \notin D
      /\ \A a \in D : /\ a \in Nat /\ segs[a].length \in Nat /\ segs[a].next \in Nat
                      /\ segs[a].last \in Nat /\ a < End(segs, a) /\ End(segs, a) \in Nat
  BY ListedTypes DEF Listed
<1>5. /\ this \in Nat /\ new \in Nat /\ this < new /\ new # NULL /\ HDR \in Nat /\ heapStart \in Nat
  BY <1>1, <1>4, HeapAssumption DEF NULL, new, End
<1>6. Linked(segs, h.lastHdr, end) /\ Disjoint(segs)
  BY DEF Listed
<1>7. /\ End(s, this) = new /\ End(s, new) = End(segs, this)
      /\ \A x \in D : x # this => End(s, x) = End(segs, x)
  <2>1. End(s, this) = new
    BY <1>2, <1>5 DEF End, new
  <2>2. End(s, new) = End(segs, this)
    BY <1>3, <1>4, <1>5 DEF End, new
  <2>3. \A x \in D : x # this => End(s, x) = End(segs, x)
    BY <1>2 DEF End
  <2> QED
    BY <2>1, <2>2, <2>3
<1>8. Disjoint(s)
  <2> SUFFICES ASSUME NEW a \in D \cup {new}, NEW b \in D \cup {new}, a < b
               PROVE  End(s, a) <= b
    BY <1>1 DEF Disjoint
  <2>1. CASE a \in D /\ b \in D
    <3>1. End(segs, a) <= b
      BY <2>1, <1>6 DEF Disjoint
    <3> QED
      BY <2>1, <3>1, <1>1, <1>4, <1>5, <1>7
  <2>2. CASE a = new /\ b \in D
    <3>1. this < b
      BY <2>2, <1>4, <1>5
    <3>2. End(segs, this) <= b
      BY <2>2, <3>1, <1>6 DEF Disjoint
    <3> QED
      BY <2>2, <3>2, <1>7
  <2>3. CASE a \in D /\ b = new
    <3>1. CASE a = this
      BY <3>1, <2>3, <1>5, <1>7
    <3>2. CASE a < this
      <4>1. End(segs, a) <= this
        BY <3>2, <2>3, <1>6 DEF Disjoint
      <4> QED
        BY <3>2, <4>1, <2>3, <1>4, <1>5, <1>7
    <3>3. CASE this < a
      <4>1. End(segs, this) <= a
        BY <3>3, <2>3, <1>6 DEF Disjoint
      <4> QED
        BY <4>1, <2>3, <1>1, <1>4, <1>5
    <3> QED
      BY <3>1, <3>2, <3>3, <2>3, <1>4, <1>5
  <2> QED
    BY <2>1, <2>2, <2>3, <1>5
<1>9. Linked(s, l, end)
  <2>1. s \in [DOMAIN s -> Headers] /\ DOMAIN s \subseteq Nat
    BY <1>1, <1>4, <1>5
  <2>2. heapStart \in DOMAIN s /\ l \in DOMAIN s
    BY <1>1, <1>6 DEF Linked
  <2>3. ASSUME NEW a \in D
        PROVE  /\ heapStart <= a /\ End(s, a) <= end
               /\ End(s, a) = IF s[a].next = NULL THEN end ELSE s[a].next
               /\ s[a].next # NULL => s[a].next \in DOMAIN s
               /\ s[a].next # NULL => s[s[a].next].last = a
               /\ s[a].last # NULL => s[a].last \in DOMAIN s
               /\ s[a].last # NULL => s[s[a].last].next = a
               /\ s[a].last = NULL <=> a = heapStart
               /\ s[a].next = NULL <=> a = l
    <3>1. heapStart <= a /\ End(segs, a) <= end
      BY <1>6 DEF Linked
    <3>2. CASE a = this
      <4>1. End(s, a) <= end
        BY <3>1, <3>2, <1>1, <1>4, <1>5, <1>6, <1>7 DEF Linked
      <4>2. s[a].next = new /\ End(s, a) = new
        BY <3>2, <1>2, <1>7
      <4>3. a # segs[this].next
        BY <3>2, <1>4, <1>6 DEF Linked
      <4>4. s[a].last = segs[a].last
        BY <4>3, <1>2
      <4>5. s[a].last # NULL => s[a].last \in DOMAIN s /\ s[s[a].last].next = a
        <5>1. s[a].last # NULL => segs[a].last \in D /\ segs[segs[a].last].next = a
          BY <4>4, <1>6 DEF Linked
        <5>2. segs[a].last # this \/ s[a].last = NULL
          BY <5>1, <4>4, <4>3, <3>2
        <5> QED
          BY <5>1, <5>2, <4>4, <1>1, <1>2
      <4>6. s[a].last = NULL <=> a = heapStart
        BY <4>4, <1>6 DEF Linked
      <4>7. a # l
        BY <3>2, <1>1, <1>5
      <4> QED
        BY <3>1, <3>2, <4>1, <4>2, <4>5, <4>6, <4>7, <1>1, <1>3, <1>5
    <3>3. CASE a # this
      <4>1. End(s, a) = End(segs, a) /\ s[a].next = segs[a].next
        BY <3>3, <1>2, <1>7
      <4>2. segs[a].next # NULL => segs[a].next \in D /\ segs[segs[a].next].last = a
        BY <1>6 DEF Linked
      <4>3. segs[a].next # NULL => segs[a].next # segs[this].next
        BY <4>2, <3>3, <1>6 DEF Linked
      <4>4. s[a].next # NULL => s[a].next \in DOMAIN s /\ s[s[a].next].last = a
        BY <4>1, <4>2, <4>3, <1>1, <1>2
      <4>5. s[a].last # NULL => s[a].last \in DOMAIN s /\ s[s[a].last].next = a
        <5>1. CASE a = segs[this].next
          BY <5>1, <1>1, <1>2, <1>3
        <5>2. CASE a # segs[this].next
          <6>1. s[a].last = segs[a].last
            BY <5>2, <1>2
          <6>2. segs[a].last # NULL => segs[a].last \in D /\ segs[segs[a].last].next = a
            BY <1>6 DEF Linked
          <6> QED
            BY <6>1, <6>2, <5>2, <1>1, <1>2
        <5> QED
          BY <5>1, <5>2
      <4>6. s[a].last = NULL <=> a = heapStart
        <5>1. CASE a = segs[this].next
          <6>1. segs[a].last = this
            BY <5>1, <1>4, <1>6 DEF Linked
          <6>2. a # heapStart
            BY <6>1, <1>4, <1>6 DEF Linked
          <6> QED
            BY <6>2, <5>1, <1>2, <1>5
        <5>2. CASE a # segs[this].next
          BY <5>2, <1>2, <1>6 DEF Linked
        <5> QED
          BY <5>1, <5>2
      <4>7. s[a].next = NULL <=> a = l
        <5>1. segs[a].next = NULL <=> a = h.lastHdr
          BY <1>6 DEF Linked
        <5> QED
          BY <5>1, <4>1, <3>3, <1>1
      <4>8. End(segs, a) = IF segs[a].next = NULL THEN end ELSE segs[a].next
        BY <1>6 DEF Linked
      <4> QED
        BY <3>1, <4>1, <4>4, <4>5, <4>6, <4>7, <4>8
    <3> QED
      BY <3>2, <3>3
  <2>4. /\ heapStart <= new /\ End(s, new) <= end
        /\ End(s, new) = IF s[new].next = NULL THEN end ELSE s[new].next
        /\ s[new].next # NULL => s[new].next \in DOMAIN s
        /\ s[new].next # NULL => s[s[new].next].last = new
        /\ s[new].last # NULL => s[new].last \in DOMAIN s
        /\ s[new].last # NULL => s[s[new].last].next = new
        /\ s[new].last = NULL <=> new = heapStart
        /\ s[new].next = NULL <=> new = l
    <3>1. heapStart <= this /\ End(segs, this) <= end
      BY <1>6 DEF Linked
    <3>2. End(segs, this) = IF segs[this].next = NULL THEN end ELSE segs[this].next
      BY <1>6 DEF Linked
    <3>3. segs[this].next # NULL => segs[this].next \in D
      BY <1>6 DEF Linked
    <3>4. segs[this].next = NULL <=> this = h.lastHdr
      BY <1>6 DEF Linked
    <3>5. this # NULL /\ new # heapStart /\ heapStart <= new /\ h.lastHdr # new
      BY <3>1, <1>1, <1>4, <1>5, <1>6 DEF Linked
    <3> QED
      BY <3>1, <3>2, <3>3, <3>4, <3>5, <1>1, <1>2, <1>3, <1>7
  <2> QED
    BY <2>1, <2>2, <2>3, <2>4, <1>1 DEF Linked
<1> QED
  BY <1>8, <1>9 DEF Listed, s, l

(* What CombineForward changes where a free segment follows.               *)
Swallows(segs, this) ==
    segs[this].next # NULL /\ segs[segs[this].next].free

IsMerge(segs, lastHdr, this, s, l) ==
    LET next == segs[this].next
    IN  /\ DOMAIN s = DOMAIN segs \ {next}
        /\ s \in [DOMAIN segs \ {next} -> Headers]
        /\ l = IF next = lastHdr THEN this ELSE lastHdr
        /\ \A x \in DOMAIN segs \ {next} :
             /\ s[x].free = segs[x].free
             /\ s[x].length = IF x = this THEN segs[this].length + segs[next].length + HDR
                                          ELSE segs[x].length
             /\ s[x].next = IF x = this THEN segs[next].next ELSE segs[x].next
             /\ s[x].last = IF x = segs[next].next THEN this ELSE segs[x].last

LEMMA MergeFields ==
    ASSUME NEW h, NEW end, NEW this \in DOMAIN h.segs,
           Listed(h.segs, h.lastHdr, end), Swallows(h.segs, this)
    PROVE  IsMerge(h.segs, h.lastHdr, this,
                   CombineForward(h, this).segs, CombineForward(h, this).lastHdr)
<1> DEFINE segs == h.segs
           D == DOMAIN h.segs
           next == segs[this].next
           after == segs[next].next
           linked == Relinked(segs, after, this)
           length == segs[this].length + segs[next].length + HDR
           grown == [linked EXCEPT ![this].length = @ + segs[next].length + HDR,
                                   ![this].next = after]
           s == Without(grown, next)
<1>1. next \in D /\ next # NULL /\ (after = NULL \/ after \in D) /\ this # next
  <2>1. Linked(segs, h.lastHdr, end)
    BY DEF Listed
  <2>2. next # NULL
    BY DEF Swallows
  <2>3. next \in D /\ End(segs, this) = next
    BY <2>1, <2>2 DEF Linked
  <2>4. this < End(segs, this)
    BY <2>1, ListedTypes
  <2>5. this # next
    BY <2>1, <2>3, <2>4, ListedTypes
  <2> HIDE DEF next
  <2>6. after = NULL \/ after \in D
    BY <2>1, <2>3 DEF Linked
  <2> QED
    BY <2>2, <2>3, <2>5, <2>6
<1>2. /\ this \in Nat /\ after \in Nat /\ length \in Nat /\ HDR \in Nat
      /\ segs \in [D -> Headers] /\ NULL \notin D
  BY <1>1, ListedTypes, HeapAssumption DEF Listed
<1> HIDE DEF next, after
<1>3. /\ linked \in [D -> Headers]
      /\ \A x \in D :
           /\ linked[x].length = segs[x].length /\ linked[x].next = segs[x].next
           /\ linked[x].free = segs[x].free
           /\ linked[x].last = IF x = after THEN this ELSE segs[x].last
  BY <1>1, <1>2, RelinkedFields
<1> HIDE DEF linked
<1>4. /\ grown \in [D -> Headers]
      /\ \A x \in D :
           /\ grown[x].length = IF x = this THEN length ELSE segs[x].length
           /\ grown[x].next = IF x = this THEN after ELSE segs[x].next
           /\ grown[x].free = segs[x].free
           /\ grown[x].last = IF x = after THEN this ELSE segs[x].last
  <2>1. grown = [linked EXCEPT ![this] = [linked[this] EXCEPT !.length = length, !.next = after]]
    BY <1>3
  <2> HIDE DEF length, grown
  <2>2. [linked[this] EXCEPT !.length = length, !.next = after] \in Headers
    <3>1. linked[this] \in Headers
      BY <1>3
    <3>2. [linked[this] EXCEPT !.length = length] \in Headers
      BY <3>1, <1>2 DEF Headers
    <3> QED
      BY <3>2, <1>2 DEF Headers
  <2>3. grown \in [D -> Headers]
    BY <2>1, <2>2, <1>3
  <2>4. ASSUME NEW x \in D, x # this
        PROVE  grown[x] = linked[x]
    BY <2>1, <2>4, <1>3
  <2>5. /\ grown[this].length = length /\ grown[this].next = after
        /\ grown[this].free = linked[this].free /\ grown[this].last = linked[this].last
    BY <2>1, <1>3 DEF Headers
  <2>6. ASSUME NEW x \in D
        PROVE  /\ grown[x].length = IF x = this THEN length ELSE segs[x].length
               /\ grown[x].next = IF x = this THEN after ELSE segs[x].next
               /\ grown[x].free = segs[x].free
               /\ grown[x].last = IF x = after THEN this ELSE segs[x].last
    BY <2>4, <2>5, <1>3
  <2> QED
    BY <2>3, <2>6
<1>5. CombineForward(h, this) = [segs |-> s, lastHdr |-> IF next = h.lastHdr THEN this ELSE h.lastHdr]
  BY <1>1 DEF CombineForward, Swallows, next, after, linked
<1> HIDE DEF grown, length
<1>6. /\ DOMAIN s = D \ {next} /\ s \in [D \ {next} -> Headers]
      /\ \A x \in D \ {next} : s[x] = grown[x]
  BY <1>4 DEF Without
<1> QED
  <2>1. /\ CombineForward(h, this).segs = s
        /\ CombineForward(h, this).lastHdr = IF next = h.lastHdr THEN this ELSE h.lastHdr
    BY <1>5
  <2> HIDE DEF s
  <2> QED
    BY <2>1, <1>4, <1>6 DEF IsMerge, next, after, length

(* Otherwise it changes nothing.                                           *)
LEMMA NoMerge ==
    ASSUME NEW h, NEW this, ~Swallows(h.segs, this)
    PROVE  CombineForward(h, this) = h
BY DEF CombineForward, Swallows

(* A merge leaves a list.                                                  *)
LEMMA MergeKeeps ==
    ASSUME NEW segs, NEW lastHdr, NEW end, NEW this \in DOMAIN segs, NEW s, NEW l,
           Listed(segs, lastHdr, end), Swallows(segs, this),
           IsMerge(segs, lastHdr, this, s, l)
    PROVE  Listed(s, l, end)
<1> DEFINE D == DOMAIN segs
           next == segs[this].next
           after == segs[next].next
<1>1. /\ NULL \notin D
      /\ \A a \in D : /\ a \in Nat /\ segs[a].length \in Nat /\ segs[a].next \in Nat
                      /\ segs[a].last \in Nat /\ a < End(segs, a) /\ End(segs, a) \in Nat
  BY ListedTypes DEF Listed
<1>2. Linked(segs, lastHdr, end) /\ Disjoint(segs)
  BY DEF Listed
<1>3. /\ next \in D /\ next # NULL /\ next = End(segs, this) /\ this < next
      /\ segs[next].last = this /\ HDR \in Nat /\ heapStart \in Nat
  BY <1>1, <1>2, HeapAssumption DEF Swallows, Linked
<1>4. /\ DOMAIN s = D \ {next} /\ s \in [D \ {next} -> Headers]
      /\ l = IF next = lastHdr THEN this ELSE lastHdr
      /\ \A x \in D \ {next} :
           /\ s[x].length = IF x = this THEN segs[this].length + segs[next].length + HDR
                                        ELSE segs[x].length
           /\ s[x].next = IF x = this THEN after ELSE segs[x].next
           /\ s[x].last = IF x = after THEN this ELSE segs[x].last
  BY DEF IsMerge
<1> HIDE DEF next
<1>5. /\ End(s, this) = End(segs, next)
      /\ \A x \in D \ {next} : x # this => End(s, x) = End(segs, x)
  <2>0. this \in D \ {next}
    BY <1>1, <1>3
  <2>1. s[this].length = segs[this].length + segs[next].length + HDR
    BY <2>0, <1>4
  <2>2. this + HDR + segs[this].length = next
    BY <1>3 DEF End
  <2> HIDE DEF next
  <2>3. segs[this].length \in Nat /\ segs[next].length \in Nat /\ this \in Nat
    BY <1>1, <1>3
  <2>4. End(s, this) = this + HDR + s[this].length
    BY DEF End
  <2>5. End(segs, next) = next + HDR + segs[next].length
    BY DEF End
  <2>6. End(s, this) = End(segs, next)
    BY <2>1, <2>2, <2>3, <2>4, <2>5, <1>3
  <2>7. \A x \in D \ {next} : x # this => End(s, x) = End(segs, x)
    BY <1>4 DEF End
  <2> QED
    BY <2>6, <2>7
<1>6. Disjoint(s)
  <2> SUFFICES ASSUME NEW a \in D \ {next}, NEW b \in D \ {next}, a < b
               PROVE  End(s, a) <= b
    BY <1>4 DEF Disjoint
  <2>1. End(segs, a) <= b
    BY <1>2 DEF Disjoint
  <2>2. CASE a # this
    BY <2>1, <2>2, <1>5
  <2>3. CASE a = this
    <3>1. next < b
      BY <2>1, <2>3, <1>1, <1>3
    <3>2. End(segs, next) <= b
      BY <3>1, <1>2, <1>3 DEF Disjoint
    <3> QED
      BY <3>2, <2>3, <1>5
  <2> QED
    BY <2>2, <2>3
<1>7. Linked(s, l, end)
  <2>1. s \in [DOMAIN s -> Headers] /\ DOMAIN s \subseteq Nat
    BY <1>1, <1>4
  <2>2. heapStart \in DOMAIN s /\ l \in DOMAIN s
    <3>1. next # heapStart /\ this \in DOMAIN s
      BY <1>1, <1>2, <1>3, <1>4 DEF Linked
    <3> QED
      BY <3>1, <1>2, <1>4 DEF Linked
  <2>3. ASSUME NEW a \in D \ {next}
        PROVE  /\ heapStart <= a /\ End(s, a) <= end
               /\ End(s, a) = IF s[a].next = NULL THEN end ELSE s[a].next
               /\ s[a].next # NULL => s[a].next \in DOMAIN s
               /\ s[a].next # NULL => s[s[a].next].last = a
               /\ s[a].last # NULL => s[a].last \in DOMAIN s
               /\ s[a].last # NULL => s[s[a].last].next = a
               /\ s[a].last = NULL <=> a = heapStart
               /\ s[a].next = NULL <=> a = l
    <3>1. heapStart <= a /\ End(segs, a) <= end /\ End(segs, next) <= end
      BY <1>2, <1>3 DEF Linked
    <3>2. /\ after = NULL \/ (after \in D /\ after # next)
          /\ after # NULL => segs[after].last = next
          /\ End(segs, next) = IF after = NULL THEN end ELSE after
          /\ after = NULL <=> next = lastHdr
      BY <1>1, <1>2, <1>3 DEF Linked
    <3>3. after # this
      BY <3>2, <1>1, <1>3
    <3> HIDE DEF after
    <3>4. segs[a].last # NULL => segs[a].last \in D /\ segs[segs[a].last].next = a
      BY <1>2 DEF Linked
    <3>5. segs[a].next # NULL => segs[a].next \in D /\ segs[segs[a].next].last = a
      BY <1>2 DEF Linked
    <3>6. End(segs, a) = IF segs[a].next = NULL THEN end ELSE segs[a].next
      BY <1>2 DEF Linked
    <3>7. /\ segs[a].last = NULL <=> a = heapStart
          /\ segs[a].next = NULL <=> a = lastHdr
      BY <1>2 DEF Linked
    <3>8. s[a].last # NULL => s[a].last \in DOMAIN s /\ s[s[a].last].next = a
      <4>1. CASE a = after
        <5>1. this \in D \ {next} /\ s[a].last = this /\ s[this].next = after
          BY <4>1, <1>1, <1>3, <1>4
        <5> QED
          BY <5>1, <4>1, <1>4
      <4>2. CASE a # after
        <5>1. s[a].last = segs[a].last
          BY <4>2, <1>4
        <5>2. segs[a].last # NULL => segs[a].last # next
          BY <4>2, <3>4 DEF after
        <5>3. segs[a].last # NULL => segs[a].last # this
          BY <3>4 DEF next
        <5> QED
          BY <5>1, <5>2, <5>3, <3>4, <1>4
      <4> QED
        BY <4>1, <4>2
    <3>9. s[a].last = NULL <=> a = heapStart
      <4>1. CASE a = after
        <5>1. segs[a].last = next
          BY <4>1, <3>2, <1>1
        <5> QED
          BY <5>1, <4>1, <3>7, <1>1, <1>3, <1>4
      <4>2. CASE a # after
        BY <4>2, <3>7, <1>4
      <4> QED
        BY <4>1, <4>2
    <3>10. CASE a = this
      <4>1. s[a].next = after /\ End(s, a) = End(segs, next)
        BY <3>10, <1>4, <1>5
      <4>2. s[a].next # NULL => s[a].next \in DOMAIN s /\ s[s[a].next].last = a
        BY <4>1, <3>2, <3>10, <1>4
      <4>3. s[a].next = NULL <=> a = l
        BY <4>1, <3>2, <3>5, <3>7, <3>10, <1>3, <1>4 DEF next
      <4> QED
        BY <4>1, <4>2, <4>3, <3>1, <3>2, <3>8, <3>9
    <3>11. CASE a # this
      <4>1. s[a].next = segs[a].next /\ End(s, a) = End(segs, a)
        BY <3>11, <1>4, <1>5
      <4>2. segs[a].next # NULL => segs[a].next # next /\ segs[a].next # after
        <5>1. segs[a].next # next
          BY <3>5, <3>11, <1>3
        <5>2. segs[a].next # NULL => segs[a].next # after
          BY <3>2, <3>5
        <5> QED
          BY <5>1, <5>2
      <4>3. s[a].next # NULL => s[a].next \in DOMAIN s /\ s[s[a].next].last = a
        BY <4>1, <4>2, <3>5, <1>4
      <4>4. s[a].next = NULL <=> a = l
        BY <4>1, <3>7, <3>11, <1>4
      <4> QED
        BY <4>1, <4>3, <4>4, <3>1, <3>6, <3>8, <3>9
    <3> QED
      BY <3>10, <3>11
  <2> QED
    BY <2>1, <2>2, <2>3, <1>4 DEF Linked
<1> QED
  BY <1>6, <1>7 DEF Listed

(* The segments in use are the same ones, and none has become shorter.     *)
SameInUse(segs, s) ==
    /\ \A a \in DOMAIN segs :
         ~segs[a].free => /\ a \in DOMAIN s /\ ~s[a].free
                          /\ s[a].length >= segs[a].length
    /\ \A a \in DOMAIN s : ~s[a].free => a \in DOMAIN segs /\ ~segs[a].free

(* A merge touches free segments and the one that grows only, and brings   *)
(* no two free segments together if the swallowed one was apart.           *)
LEMMA MergeSpares ==
    ASSUME NEW segs, NEW lastHdr, NEW end, NEW this \in DOMAIN segs, NEW s, NEW l,
           Listed(segs, lastHdr, end), Swallows(segs, this),
           IsMerge(segs, lastHdr, this, s, l),
           NEW but, ApartBut(segs, but), segs[this].next \notin but
    PROVE  SameInUse(segs, s) /\ ApartBut(s, but \ {this})
<1> DEFINE D == DOMAIN segs
           next == segs[this].next
           after == segs[next].next
<1>1. \A a \in D : segs[a].length \in Nat /\ a \in Nat /\ a < End(segs, a)
  BY ListedTypes DEF Listed
<1>2. next \in D /\ next # NULL /\ segs[next].free /\ HDR \in Nat /\ segs[next].last = this
  BY HeapAssumption DEF Swallows, Listed, Linked
<1>3. /\ DOMAIN s = D \ {next}
      /\ \A x \in D \ {next} :
           /\ s[x].free = segs[x].free
           /\ s[x].length = IF x = this THEN segs[this].length + segs[next].length + HDR
                                        ELSE segs[x].length
           /\ s[x].next = IF x = this THEN after ELSE segs[x].next
  BY DEF IsMerge
<1>4. \A a \in D : segs[a].next # NULL => segs[a].next \in D /\ segs[segs[a].next].last = a
  BY DEF Listed, Linked
<1>5. \A a \in D : End(segs, a) = segs[a].next \/ segs[a].next = NULL
  BY DEF Listed, Linked
<1>6. next \notin but
  OBVIOUS
<1> HIDE DEF next
<1>7. SameInUse(segs, s)
  <2>1. \A x \in D \ {next} : s[x].length >= segs[x].length
    BY <1>1, <1>2, <1>3
  <2> QED
    BY <2>1, <1>2, <1>3 DEF SameInUse
<1>8. ApartBut(s, but \ {this})
  <2> SUFFICES ASSUME NEW a \in (D \ {next}) \ (but \ {this}), s[a].free, s[a].next # NULL
               PROVE  ~s[s[a].next].free
    BY <1>3 DEF ApartBut
  <2>1. CASE a = this
    <3>1. s[a].next = after
      BY <2>1, <1>3
    <3>2. after \in D /\ after # next
      <4>1. after \in D
        BY <3>1, <1>2, <1>4
      <4>2. after # next
        BY <3>1, <1>1, <1>2, <1>5
      <4> QED
        BY <4>1, <4>2
    <3>3. ~segs[after].free
      BY <3>1, <1>2, <1>6 DEF ApartBut
    <3> QED
      BY <3>1, <3>2, <3>3, <1>3
  <2>2. CASE a # this
    <3>1. s[a].next = segs[a].next /\ segs[a].free
      BY <2>2, <1>3
    <3>2. segs[a].next \in D /\ segs[a].next # next
      BY <3>1, <2>2, <1>2, <1>4
    <3>3. ~segs[segs[a].next].free
      BY <3>1, <2>2 DEF ApartBut
    <3> QED
      BY <3>1, <3>2, <3>3, <1>3
  <2> QED
    BY <2>1, <2>2
<1> QED
  BY <1>7, <1>8

(***************************************************************************)
(* What CombineBackward returns for a free segment that is apart from what *)
(* follows it.                                                             *)
(***************************************************************************)
Tidy(segs, lastHdr, end, was) ==
    Listed(segs, lastHdr, end) /\ ApartBut(segs, {}) /\ SameInUse(was, segs)

LEMMA CombineBackwardTidies ==
    ASSUME NEW h, NEW end, NEW this \in DOMAIN h.segs,
           Listed(h.segs, h.lastHdr, end), h.segs[this].free,
           ApartBut(h.segs, {h.segs[this].last})
    PROVE  Tidy(CombineBackward(h, this).segs, CombineBackward(h, this).lastHdr, end,
                h.segs)
<1> DEFINE last == h.segs[this].last
           r == CombineBackward(h, this)
<1>1. \A a \in DOMAIN h.segs : h.segs[a].length \in Nat /\ a # NULL /\ a \in Nat
                               /\ a < End(h.segs, a)
  BY ListedTypes DEF Listed
<1>2. last # NULL => last \in DOMAIN h.segs /\ h.segs[last].next = this
  BY DEF Listed, Linked
<1>3. CASE last # NULL /\ h.segs[last].free
  <2>1. r = CombineForward(h, last)
    BY <1>3 DEF CombineBackward
  <2>2. Swallows(h.segs, last) /\ this # last
    <3>1. Swallows(h.segs, last)
      BY <1>1, <1>2, <1>3 DEF Swallows
    <3>2. End(h.segs, last) = this
      BY <1>1, <1>2, <1>3 DEF Listed, Linked
    <3> QED
      BY <3>1, <3>2, <1>1, <1>2, <1>3
  <2> HIDE DEF last
  <2>3. IsMerge(h.segs, h.lastHdr, last, r.segs, r.lastHdr)
    BY <2>1, <2>2, <1>2, <1>3, MergeFields
  <2>4. ApartBut(h.segs, {last})
    BY DEF last
  <2> HIDE DEF r
  <2>5. Listed(r.segs, r.lastHdr, end)
    BY <2>2, <2>3, <1>2, <1>3, MergeKeeps
  <2>6. SameInUse(h.segs, r.segs) /\ ApartBut(r.segs, {last} \ {last})
    BY <2>2, <2>3, <2>4, <1>2, <1>3, MergeSpares
  <2>7. {last} \ {last} = {}
    OBVIOUS
  <2> QED
    BY <2>5, <2>6, <2>7 DEF Tidy, r
<1>4. CASE ~(last # NULL /\ h.segs[last].free)
  <2>1. r = h
    BY <1>4 DEF CombineBackward
  <2>2. ApartBut(h.segs, {})
    BY <1>1, <1>4 DEF ApartBut
  <2>3. SameInUse(h.segs, h.segs)
    BY <1>1 DEF SameInUse
  <2> QED
    BY <2>1, <2>2, <2>3 DEF Tidy
<1> QED
  BY <1>3, <1>4

(* What marking a segment free or in use changes.                          *)
IsMarked(segs, a, mark, s) ==
    /\ DOMAIN s = DOMAIN segs /\ s \in [DOMAIN segs -> Headers]
    /\ \A x \in DOMAIN segs :
         /\ s[x].length = segs[x].length
         /\ s[x].next = segs[x].next /\ s[x].last = segs[x].last
         /\ s[x].free = IF x = a THEN mark ELSE segs[x].free

LEMMA MarkedFields ==
    ASSUME NEW segs, NEW a \in DOMAIN segs, NEW mark \in BOOLEAN,
           segs \in [DOMAIN segs -> Headers]
    PROVE  IsMarked(segs, a, mark, [segs EXCEPT ![a].free = mark])
<1> DEFINE s == [segs EXCEPT ![a].free = mark]
<1>1. DOMAIN s = DOMAIN segs
  OBVIOUS
<1>2. segs[a] \in Headers
  OBVIOUS
<1>3. [segs[a] EXCEPT !.free = mark] \in Headers
  BY <1>2 DEF Headers
<1>4. s \in [DOMAIN segs -> Headers]
  BY <1>3
<1>5. /\ s[a].length = segs[a].length /\ s[a].next = segs[a].next
      /\ s[a].last = segs[a].last /\ s[a].free = mark
  BY <1>2 DEF Headers
<1>6. \A x \in DOMAIN segs : x # a => s[x] = segs[x]
  OBVIOUS
<1> QED
  BY <1>1, <1>4, <1>5, <1>6 DEF IsMarked

(* Marking does not touch the list.                                        *)
LEMMA MarkKeeps ==
    ASSUME NEW segs, NEW lastHdr, NEW end, NEW a, NEW mark, NEW s,
           Listed(segs, lastHdr, end), IsMarked(segs, a, mark, s)
    PROVE  Listed(s, lastHdr, end)
<1>1. \A x \in DOMAIN segs : End(s, x) = End(segs, x)
  BY DEF IsMarked, End
<1>2. DOMAIN s = DOMAIN segs
  BY DEF IsMarked
<1>3. Disjoint(s)
  BY <1>1, <1>2 DEF Listed, Disjoint
<1>4. ASSUME NEW x \in DOMAIN segs
      PROVE  /\ heapStart <= x /\ End(s, x) <= end
             /\ End(s, x) = IF s[x].next = NULL THEN end ELSE s[x].next
             /\ s[x].next # NULL => s[x].next \in DOMAIN s
             /\ s[x].next # NULL => s[s[x].next].last = x
             /\ s[x].last # NULL => s[x].last \in DOMAIN s
             /\ s[x].last # NULL => s[s[x].last].next = x
             /\ s[x].last = NULL <=> x = heapStart
             /\ s[x].next = NULL <=> x = lastHdr
  <2>1. /\ heapStart <= x /\ End(segs, x) <= end
        /\ End(segs, x) = IF segs[x].next = NULL THEN end ELSE segs[x].next
        /\ segs[x].next # NULL => segs[x].next \in DOMAIN segs
        /\ segs[x].next # NULL => segs[segs[x].next].last = x
        /\ segs[x].last # NULL => segs[x].last \in DOMAIN segs
        /\ segs[x].last # NULL => segs[segs[x].last].next = x
        /\ segs[x].last = NULL <=> x = heapStart
        /\ segs[x].next = NULL <=> x = lastHdr
    BY DEF Listed, Linked
  <2>2. \A y \in DOMAIN segs : s[y].next = segs[y].next /\ s[y].last = segs[y].last
    BY DEF IsMarked
  <2> QED
    BY <2>1, <2>2, <1>1, <1>2
<1>5. Linked(s, lastHdr, end)
  <2>1. s \in [DOMAIN s -> Headers] /\ DOMAIN s \subseteq Nat
    BY <1>2 DEF IsMarked, Listed, Linked
  <2>2. heapStart \in DOMAIN s /\ lastHdr \in DOMAIN s
    BY <1>2 DEF Listed, Linked
  <2> QED
    BY <2>1, <2>2, <1>2, <1>4 DEF Linked
<1> QED
  BY <1>3, <1>5 DEF Listed

(* The segment that ExpandHeap puts behind the last one.                   *)
IsExtension(segs, lastHdr, end, size, s) ==
    s = [a \in DOMAIN segs \cup {end} |->
           IF a = end
           THEN [length |-> size, next |-> NULL, last |-> lastHdr, free |-> TRUE]
           ELSE [segs EXCEPT ![lastHdr].next = end][a]]

Appended(segs, lastHdr, end, size, s) ==
    /\ Listed(s, end, end + HDR + size)
    /\ ApartBut(s, {lastHdr}) /\ SameInUse(segs, s)
    /\ end \in DOMAIN s /\ s[end].free /\ s[end].last = lastHdr

LEMMA ExtendKeeps ==
    ASSUME NEW segs, NEW lastHdr, NEW end \in Nat, NEW size \in Nat, NEW s,
           Listed(segs, lastHdr, end), ApartBut(segs, {}),
           IsExtension(segs, lastHdr, end, size, s)
    PROVE  Appended(segs, lastHdr, end, size, s)
<1> DEFINE D == DOMAIN segs
           linked == [segs EXCEPT ![lastHdr].next = end]
<1>1. /\ NULL \notin D /\ segs \in [D -> Headers]
      /\ \A a \in D : /\ a \in Nat /\ segs[a].length \in Nat /\ segs[a].next \in Nat
                      /\ segs[a].last \in Nat /\ a < End(segs, a) /\ End(segs, a) \in Nat
  BY ListedTypes DEF Listed
<1>2. Linked(segs, lastHdr, end) /\ Disjoint(segs) /\ lastHdr \in D /\ heapStart \in D
  BY DEF Listed, Linked
<1>3. \A a \in D : End(segs, a) <= end /\ a < end
  BY <1>1, <1>2 DEF Linked
<1>4. end \notin D /\ end # NULL /\ HDR \in Nat \ {0} /\ lastHdr # NULL
  BY <1>1, <1>2, <1>3, HeapAssumption DEF NULL
<1>5. /\ linked \in [D -> Headers]
      /\ \A a \in D : /\ linked[a].length = segs[a].length
                      /\ linked[a].free = segs[a].free /\ linked[a].last = segs[a].last
                      /\ linked[a].next = IF a = lastHdr THEN end ELSE segs[a].next
  <2>1. segs[lastHdr] \in Headers
    BY <1>1, <1>2
  <2>2. [segs[lastHdr] EXCEPT !.next = end] \in Headers
    BY <2>1 DEF Headers
  <2>3. linked \in [D -> Headers]
    BY <2>2, <1>1
  <2>4. \A a \in D : a # lastHdr => linked[a] = segs[a]
    BY <1>1
  <2>5. /\ linked[lastHdr].length = segs[lastHdr].length /\ linked[lastHdr].next = end
        /\ linked[lastHdr].free = segs[lastHdr].free
        /\ linked[lastHdr].last = segs[lastHdr].last
    BY <2>1, <1>1, <1>2 DEF Headers
  <2> QED
    BY <2>3, <2>4, <2>5
<1> HIDE DEF linked
<1>6. /\ DOMAIN s = D \cup {end}
      /\ s[end] = [length |-> size, next |-> NULL, last |-> lastHdr, free |-> TRUE]
      /\ \A a \in D : s[a] = linked[a]
  BY <1>4 DEF linked, IsExtension
<1>7. /\ s[end].length = size /\ s[end].next = NULL
      /\ s[end].last = lastHdr /\ s[end].free
      /\ s[end] \in Headers
  BY <1>1, <1>2, <1>6 DEF Headers, NULL
<1>8. \A a \in D : /\ s[a].length = segs[a].length
                   /\ s[a].free = segs[a].free /\ s[a].last = segs[a].last
                   /\ s[a].next = IF a = lastHdr THEN end ELSE segs[a].next
  BY <1>5, <1>6
<1>9. s \in [D \cup {end} -> Headers]
  <2>1. s = [a \in D \cup {end} |-> s[a]]
    BY DEF IsExtension
  <2>2. \A a \in D \cup {end} : s[a] \in Headers
    BY <1>5, <1>6, <1>7
  <2> QED
    BY <2>1, <2>2
<1>10. End(s, end) = end + HDR + size /\ \A a \in D : End(s, a) = End(segs, a)
  BY <1>7, <1>8 DEF End
<1>11. Disjoint(s)
  <2> SUFFICES ASSUME NEW a \in D \cup {end}, NEW b \in D \cup {end}, a < b
               PROVE  End(s, a) <= b
    BY <1>6 DEF Disjoint
  <2>1. a \in D
    BY <1>1, <1>3
  <2>2. CASE b \in D
    BY <2>1, <2>2, <1>2, <1>10 DEF Disjoint
  <2>3. CASE b = end
    BY <2>1, <2>3, <1>3, <1>10
  <2> QED
    BY <2>2, <2>3
<1>12. Linked(s, end, end + HDR + size)
  <2> DEFINE top == end + HDR + size
  <2>1. ASSUME NEW a \in D
        PROVE  /\ heapStart <= a /\ End(s, a) <= top
               /\ End(s, a) = IF s[a].next = NULL THEN top ELSE s[a].next
               /\ s[a].next # NULL => s[a].next \in DOMAIN s
               /\ s[a].next # NULL => s[s[a].next].last = a
               /\ s[a].last # NULL => s[a].last \in DOMAIN s
               /\ s[a].last # NULL => s[s[a].last].next = a
               /\ s[a].last = NULL <=> a = heapStart
               /\ s[a].next = NULL <=> a = end
    <3>1. /\ heapStart <= a /\ End(segs, a) <= end
          /\ End(segs, a) = IF segs[a].next = NULL THEN end ELSE segs[a].next
          /\ segs[a].next = NULL <=> a = lastHdr
          /\ segs[a].last = NULL <=> a = heapStart
      BY <1>2 DEF Linked
    <3>2. segs[a].next # NULL => segs[a].next \in D /\ segs[segs[a].next].last = a
      BY <1>2 DEF Linked
    <3>3. segs[a].last # NULL => segs[a].last \in D /\ segs[segs[a].last].next = a
      BY <1>2 DEF Linked
    <3>4. segs[lastHdr].next = NULL
      BY <1>2 DEF Linked
    <3>5. End(s, a) <= top
      BY <3>1, <1>1, <1>4, <1>10
    <3>6. s[a].last # NULL => s[a].last \in DOMAIN s /\ s[s[a].last].next = a
      <4>1. segs[a].last # lastHdr
        BY <3>3, <3>4, <1>1, <1>4
      <4>2. s[a].last = segs[a].last
        BY <1>8
      <4> HIDE DEF D
      <4>3. segs[a].last # NULL => s[segs[a].last].next = segs[segs[a].last].next
        BY <4>1, <3>3, <1>8
      <4> QED
        BY <4>2, <4>3, <3>3, <1>6
    <3>7. CASE a = lastHdr
      <4>1. s[a].next = end
        BY <3>7, <1>8
      <4> QED
        BY <4>1, <3>1, <3>5, <3>6, <3>7, <1>3, <1>4, <1>6, <1>7, <1>8, <1>10
    <3>8. CASE a # lastHdr
      <4>1. s[a].next = segs[a].next
        BY <3>8, <1>8
      <4>2. s[a].next # NULL => s[a].next \in DOMAIN s /\ s[s[a].next].last = a
        BY <4>1, <3>2, <1>6, <1>8
      <4> QED
        BY <4>1, <4>2, <3>1, <3>5, <3>6, <3>8, <1>3, <1>8, <1>10
    <3> QED
      BY <3>7, <3>8
  <2>2. /\ heapStart <= end /\ End(s, end) <= top
        /\ End(s, end) = IF s[end].next = NULL THEN top ELSE s[end].next
        /\ s[end].next # NULL => s[end].next \in DOMAIN s
        /\ s[end].next # NULL => s[s[end].next].last = end
        /\ s[end].last # NULL => s[end].last \in DOMAIN s
        /\ s[end].last # NULL => s[s[end].last].next = end
        /\ s[end].last = NULL <=> end = heapStart
        /\ s[end].next = NULL <=> end = end
    <3>1. heapStart < end /\ top \in Nat
      BY <1>2, <1>3, <1>4
    <3>2. s[lastHdr].next = end /\ lastHdr \in DOMAIN s
      BY <1>2, <1>6, <1>8
    <3>3. End(s, end) = top
      BY <1>10
    <3> HIDE DEF top, D
    <3>4. heapStart <= end /\ End(s, end) <= top
      BY <3>1, <3>3, <1>4, HeapAssumption
    <3>5. End(s, end) = IF s[end].next = NULL THEN top ELSE s[end].next
      BY <3>3, <1>7
    <3>6. s[end].last # NULL => s[end].last \in DOMAIN s /\ s[s[end].last].next = end
      BY <3>2, <1>7
    <3>7. s[end].last = NULL <=> end = heapStart
      BY <3>1, <1>4, <1>7
    <3> QED
      BY <3>4, <3>5, <3>6, <3>7, <1>7
  <2>3. DOMAIN s \subseteq Nat /\ heapStart \in DOMAIN s /\ end \in DOMAIN s
    BY <1>1, <1>2, <1>6
  <2>4. s \in [DOMAIN s -> Headers]
    BY <1>6, <1>9
  <2>5. \A a \in DOMAIN s : a = end \/ a \in D
    BY <1>6
  <2> HIDE DEF D, top
  <2>6. ASSUME NEW a \in DOMAIN s
        PROVE  /\ heapStart <= a /\ End(s, a) <= top
               /\ End(s, a) = IF s[a].next = NULL THEN top ELSE s[a].next
               /\ s[a].next # NULL => s[a].next \in DOMAIN s
               /\ s[a].next # NULL => s[s[a].next].last = a
               /\ s[a].last # NULL => s[a].last \in DOMAIN s
               /\ s[a].last # NULL => s[s[a].last].next = a
               /\ s[a].last = NULL <=> a = heapStart
               /\ s[a].next = NULL <=> a = end
    <3>1. CASE a = end
      BY <3>1, <2>2
    <3>2. CASE a \in D
      BY <3>2, <2>1
    <3> QED
      BY <3>1, <3>2, <2>5
  <2>7. Linked(s, end, top)
    BY <2>3, <2>4, <2>6 DEF Linked
  <2> QED
    BY <2>7 DEF top
<1>13. SameInUse(segs, s)
  <2>1. \A a \in D : a \in DOMAIN s /\ s[a].length >= segs[a].length
    BY <1>1, <1>6, <1>8
  <2>2. \A a \in DOMAIN s : a \in D \/ a = end
    BY <1>6
  <2> QED
    BY <2>1, <2>2, <1>7, <1>8 DEF SameInUse
<1>14. ApartBut(s, {lastHdr})
  <2>1. \A a \in D : segs[a].next # NULL => segs[a].next \in D
    BY <1>2 DEF Linked
  <2> QED
    BY <2>1, <1>6, <1>7, <1>8 DEF ApartBut
<1> QED
  BY <1>6, <1>7, <1>11, <1>12, <1>13, <1>14 DEF Listed, Appended

(***************************************************************************)
(* The inductive invariant.  HeldIntact needs that no two blocks are the   *)
(* same segment, ListTilesHeap that no header lies inside another segment, *)
(* and Split that malloc's loop looks at a header.                         *)
(***************************************************************************)
Held(segs, blocks) ==
    /\ \A b \in blocks : /\ b.seg \in DOMAIN segs
                         /\ ~segs[b.seg].free
                         /\ b.size \in Nat
                         /\ segs[b.seg].length >= b.size
    /\ \A a \in DOMAIN segs :
         ~segs[a].free => \E b \in blocks : b.seg = a
    /\ \A b, c \in blocks : b.seg = c.seg => b = c

Rest ==
    /\ heapEnd \in Nat
    /\ request \in Nat
    /\ request # 0 => currentSeg \in DOMAIN segments
    /\ pagesLeft \in 0 .. SparePages
    /\ panicked \in BOOLEAN

IndInv ==
    /\ Listed(segments, LastHdr, heapEnd)
    /\ ApartBut(segments, {})
    /\ Held(segments, held)
    /\ Rest

(* Blocks stay held while the segments in use stay the same.               *)
LEMMA HeldKeeps ==
    ASSUME NEW segs, NEW lastHdr, NEW end, NEW s, NEW l, NEW top, NEW blocks,
           Listed(segs, lastHdr, end), Listed(s, l, top),
           SameInUse(segs, s), Held(segs, blocks)
    PROVE  Held(s, blocks)
<1>1. \A a \in DOMAIN segs : segs[a].length \in Nat
  BY ListedTypes DEF Listed
<1>2. \A a \in DOMAIN s : s[a].length \in Nat
  BY ListedTypes DEF Listed
<1>3. ASSUME NEW b \in blocks
      PROVE  /\ b.seg \in DOMAIN s /\ ~s[b.seg].free
             /\ b.size \in Nat /\ s[b.seg].length >= b.size
  <2>1. b.seg \in DOMAIN segs /\ ~segs[b.seg].free /\ b.size \in Nat
        /\ segs[b.seg].length >= b.size
    BY DEF Held
  <2>2. b.seg \in DOMAIN s /\ ~s[b.seg].free /\ s[b.seg].length >= segs[b.seg].length
    BY <2>1 DEF SameInUse
  <2>3. segs[b.seg].length \in Nat /\ s[b.seg].length \in Nat
    BY <2>1, <2>2, <1>1, <1>2
  <2> QED
    BY <2>1, <2>2, <2>3
<1>4. \A a \in DOMAIN s : ~s[a].free => \E b \in blocks : b.seg = a
  BY DEF Held, SameInUse
<1>5. \A b, c \in blocks : b.seg = c.seg => b = c
  BY DEF Held
<1> QED
  BY <1>3, <1>4, <1>5 DEF Held

LEMMA RoundedIsNat ==
    ASSUME NEW size \in Nat
    PROVE  Rounded(size) \in Nat
<1>1. size % ALIGN \in 0 .. ALIGN - 1 /\ ALIGN \in Nat
  BY HeapAssumption
<1> DEFINE rest == size % ALIGN
<1> HIDE DEF rest
<1>2. rest \in 0 .. ALIGN - 1
  BY <1>1 DEF rest
<1>3. size - rest + ALIGN \in Nat
  BY <1>1, <1>2
<1> QED
  BY <1>3 DEF Rounded, rest

(* ExpandHeap asks for a page at least, which has room for a header.       *)
LEMMA PagesHoldHeader ==
    ASSUME NEW size \in Nat \ {0}
    PROVE  /\ PagesFor(size) \in Nat \ {0}
           /\ PagesFor(size) * PAGE - HDR \in Nat
<1>1. PAGE \in Nat \ {0} /\ HDR \in Nat /\ HDR <= PAGE
  BY HeapAssumption
<1>2. size \div PAGE \in Nat /\ size % PAGE \in Nat
  BY <1>1
<1>3. size % PAGE = 0 => size \div PAGE # 0
  BY <1>1
<1> DEFINE quotient == size \div PAGE
           rest == size % PAGE
<1> HIDE DEF quotient, rest
<1>4. PagesFor(size) = IF rest > 0 THEN quotient + 1 ELSE quotient
  BY DEF PagesFor, quotient, rest
<1>5. PagesFor(size) \in Nat \ {0}
  BY <1>2, <1>3, <1>4 DEF quotient, rest
<1>6. \A n \in Nat \ {0} : n * PAGE \in Nat /\ n * PAGE >= PAGE
  BY <1>1
<1> QED
  BY <1>1, <1>5, <1>6

LEMMA InitIndInv == Init => IndInv
<1> SUFFICES ASSUME Init PROVE IndInv
  OBVIOUS
<1> DEFINE size == InitialPages * PAGE - HDR
<1>1. /\ HDR \in Nat \ {0} /\ PAGE \in Nat \ {0} /\ HDR <= PAGE
      /\ InitialPages \in Nat \ {0} /\ heapStart \in Nat \ {0} /\ SparePages \in Nat
  BY HeapAssumption
<1>2. \A n \in Nat \ {0} : n * PAGE \in Nat /\ n * PAGE >= PAGE
  BY <1>1
<1>3. size \in Nat /\ heapEnd = heapStart + HDR + size /\ heapEnd \in Nat
  BY <1>1, <1>2 DEF Init
<1>4. /\ DOMAIN segments = {heapStart} /\ LastHdr = heapStart
      /\ segments[heapStart] = [length |-> size, next |-> NULL, last |-> NULL, free |-> TRUE]
      /\ segments = [a \in {heapStart} |-> segments[a]]
  BY DEF Init
<1> HIDE DEF size
<1>5. /\ segments[heapStart].length = size /\ segments[heapStart].next = NULL
      /\ segments[heapStart].last = NULL /\ segments[heapStart].free
      /\ segments[heapStart] \in Headers
  BY <1>3, <1>4 DEF Headers, NULL
<1>6. segments \in [DOMAIN segments -> Headers]
  BY <1>4, <1>5
<1>7. End(segments, heapStart) = heapEnd
  BY <1>3, <1>5 DEF End
<1>8. Linked(segments, LastHdr, heapEnd)
  BY <1>1, <1>3, <1>4, <1>5, <1>6, <1>7 DEF Linked, NULL
<1>9. Disjoint(segments)
  BY <1>1, <1>4 DEF Disjoint
<1>10. ApartBut(segments, {})
  BY <1>4, <1>5 DEF ApartBut
<1>11. Held(segments, held)
  BY <1>4, <1>5 DEF Held, Init
<1>12. Rest
  <2>1. request = 0 /\ pagesLeft = SparePages /\ panicked = FALSE
    BY DEF Init
  <2>2. panicked \in BOOLEAN
    BY <2>1
  <2>3. request \in Nat /\ ~(request # 0) /\ pagesLeft \in 0 .. SparePages
    BY <2>1, <1>1
  <2> QED
    BY <2>2, <2>3, <1>3 DEF Rest
<1> QED
  BY <1>8, <1>9, <1>10, <1>11, <1>12 DEF IndInv, Listed

(* What Split leaves of the list, whether it cuts or not.                  *)
IsCut(segs, this, size, s) ==
    /\ DOMAIN segs \subseteq DOMAIN s
    /\ \A x \in DOMAIN segs :
         /\ s[x].free = segs[x].free
         /\ x # this => s[x].length = segs[x].length /\ s[x].next = segs[x].next
    /\ s[this].length >= size
    /\ \A x \in DOMAIN s \ DOMAIN segs :
         s[x].free = segs[this].free /\ s[x].next = segs[this].next

LEMMA SplitCuts ==
    ASSUME NEW segs, NEW lastHdr, NEW end, NEW this \in DOMAIN segs, NEW size \in Nat,
           Listed(segs, lastHdr, end), segs[this].length >= size, NEW r,
           r = Split([segs |-> segs, lastHdr |-> lastHdr], this, size)
    PROVE  Listed(r.segs, r.lastHdr, end) /\ IsCut(segs, this, size, r.segs)
<1> DEFINE h == [segs |-> segs, lastHdr |-> lastHdr]
<1>1. h.segs = segs /\ h.lastHdr = lastHdr /\ r = Split(h, this, size)
  OBVIOUS
<1> HIDE DEF h
<1>2. CASE RestIsSegment(segs[this], size)
  <2>1. Listed(r.segs, r.lastHdr, end)
    BY <1>1, <1>2, SplitKeeps
  <2>2. IsSplit(segs, lastHdr, this, size, r.segs, r.lastHdr)
    <3>1. IsSplit(h.segs, h.lastHdr, this, size,
                  Split(h, this, size).segs, Split(h, this, size).lastHdr)
      BY <1>1, <1>2, SplitFields
    <3> QED
      BY <3>1, <1>1
  <2> DEFINE new == this + size + HDR
             s == r.segs
  <2>3. /\ DOMAIN s = DOMAIN segs \cup {new}
        /\ \A x \in DOMAIN segs :
             /\ s[x].free = segs[x].free
             /\ s[x].length = IF x = this THEN size ELSE segs[x].length
             /\ s[x].next = IF x = this THEN new ELSE segs[x].next
        /\ s[new].free = segs[this].free /\ s[new].next = segs[this].next
    BY <2>2 DEF IsSplit
  <2> HIDE DEF new, s
  <2>4. s[this].length >= size
    BY <2>3
  <2>5. IsCut(segs, this, size, s)
    BY <2>3, <2>4 DEF IsCut
  <2> QED
    BY <2>1, <2>5 DEF s
<1>3. CASE ~RestIsSegment(segs[this], size)
  <2>1. r = h
    BY <1>1, <1>3 DEF Split
  <2> QED
    BY <2>1, <1>1 DEF IsCut
<1> QED
  BY <1>2, <1>3

(* A free segment that is long enough becomes a block.                     *)
LEMMA TakeKeeps ==
    ASSUME NEW segs, NEW lastHdr, NEW end, NEW this \in DOMAIN segs, NEW size \in Nat,
           Listed(segs, lastHdr, end), ApartBut(segs, {}), segs[this].free,
           NEW blocks, Held(segs, blocks),
           NEW c, NEW l, Listed(c, l, end), IsCut(segs, this, size, c),
           NEW s, IsMarked(c, this, FALSE, s)
    PROVE  /\ Listed(s, l, end)
           /\ ApartBut(s, {})
           /\ Held(s, blocks \cup {[seg |-> this, size |-> size]})
<1> DEFINE D == DOMAIN segs
           block == [seg |-> this, size |-> size]
<1>1. Listed(s, l, end)
  BY MarkKeeps
<1>2. /\ DOMAIN s = DOMAIN c /\ D \subseteq DOMAIN s
      /\ \A x \in DOMAIN s :
           /\ s[x].length = c[x].length /\ s[x].next = c[x].next
           /\ s[x].free = IF x = this THEN FALSE ELSE c[x].free
  BY DEF IsMarked, IsCut
<1>3. \A x \in D : /\ c[x].free = segs[x].free
                   /\ x # this => c[x].length = segs[x].length /\ c[x].next = segs[x].next
  BY DEF IsCut
<1>4. \A x \in DOMAIN s \ D : c[x].free /\ c[x].next = segs[this].next
  BY <1>2 DEF IsCut
<1>5. \A x \in D : segs[x].next # NULL => segs[x].next \in D /\ segs[x].next # x
  <2>1. \A x \in D : x \in Nat /\ End(segs, x) \in Nat /\ x < End(segs, x)
    BY ListedTypes DEF Listed
  <2>2. \A x \in D : segs[x].next # NULL => segs[x].next \in D /\ segs[x].next = End(segs, x)
    BY DEF Listed, Linked
  <2> QED
    BY <2>1, <2>2
<1>6. \A x \in D : segs[x].free /\ segs[x].next # NULL => ~segs[segs[x].next].free
  BY DEF ApartBut
<1>7. ApartBut(s, {})
  <2> SUFFICES ASSUME NEW a \in DOMAIN s, s[a].free, s[a].next # NULL
               PROVE  ~s[s[a].next].free
    BY DEF ApartBut
  <2>1. a # this
    BY <1>2
  <2>2. CASE a \in D
    <3>1. s[a].next = segs[a].next /\ segs[a].free
      BY <2>1, <2>2, <1>2, <1>3
    <3>2. segs[a].next \in D /\ ~segs[segs[a].next].free
      BY <3>1, <2>2, <1>5, <1>6
    <3> QED
      BY <3>1, <3>2, <1>2, <1>3
  <2>3. CASE a \notin D
    <3>1. s[a].next = segs[this].next
      BY <2>3, <1>2, <1>4
    <3>2. segs[this].next \in D /\ ~segs[segs[this].next].free
      BY <3>1, <1>5, <1>6
    <3> QED
      BY <3>1, <3>2, <1>2, <1>3
  <2> QED
    BY <2>2, <2>3
<1>8. Held(s, blocks \cup {block})
  <2>1. \A b \in blocks : b.seg # this
    BY DEF Held
  <2>2. block.seg = this /\ block.size = size
    OBVIOUS
  <2> HIDE DEF block
  <2>3. ASSUME NEW b \in blocks
        PROVE  /\ b.seg \in DOMAIN s /\ ~s[b.seg].free /\ b.size \in Nat
               /\ s[b.seg].length >= b.size
    <3>1. /\ b.seg \in D /\ ~segs[b.seg].free /\ b.size \in Nat
          /\ segs[b.seg].length >= b.size
      BY DEF Held
    <3> QED
      BY <3>1, <2>1, <1>2, <1>3
  <2>4. /\ this \in DOMAIN s /\ ~s[this].free /\ s[this].length >= size
    BY <1>2 DEF IsCut
  <2>5. ASSUME NEW a \in DOMAIN s, ~s[a].free
        PROVE  \E b \in blocks \cup {block} : b.seg = a
    <3>1. CASE a = this
      BY <3>1, <2>2
    <3>2. CASE a # this
      <4>1. a \in D /\ ~segs[a].free
        BY <3>2, <2>5, <1>2, <1>3, <1>4
      <4> QED
        BY <4>1 DEF Held
    <3> QED
      BY <3>1, <3>2
  <2>6. \A b, d \in blocks \cup {block} : b.seg = d.seg => b = d
    BY <2>1, <2>2 DEF Held
  <2> QED
    BY <2>2, <2>3, <2>4, <2>5, <2>6 DEF Held
<1> QED
  BY <1>1, <1>7, <1>8

(* free: the segment is marked, grows over a free successor and is taken   *)
(* over by a free predecessor.                                             *)
LEMMA FreeKeeps ==
    ASSUME NEW segs, NEW lastHdr, NEW end, NEW blocks, NEW block \in blocks,
           Listed(segs, lastHdr, end), ApartBut(segs, {}), Held(segs, blocks),
           NEW m, IsMarked(segs, block.seg, TRUE, m),
           NEW f, f = CombineForward([segs |-> m, lastHdr |-> lastHdr], block.seg),
           NEW r, r = CombineBackward(f, block.seg)
    PROVE  /\ Listed(r.segs, r.lastHdr, end)
           /\ ApartBut(r.segs, {})
           /\ Held(r.segs, blocks \ {block})
<1> DEFINE seg == block.seg
           last == segs[seg].last
           next == segs[seg].next
           h == [segs |-> m, lastHdr |-> lastHdr]
           D == DOMAIN segs
<1>1. Listed(m, lastHdr, end)
  BY MarkKeeps
<1>2. /\ DOMAIN m = D
      /\ \A x \in D : /\ m[x].length = segs[x].length /\ m[x].next = segs[x].next
                      /\ m[x].last = segs[x].last
                      /\ m[x].free = IF x = seg THEN TRUE ELSE segs[x].free
  BY DEF IsMarked
<1>3. seg \in D /\ m[seg].free
  BY <1>2 DEF Held
<1>4. /\ NULL \notin D
      /\ \A x \in D : x \in Nat /\ segs[x].length \in Nat /\ End(segs, x) \in Nat
                      /\ x < End(segs, x)
  BY ListedTypes DEF Listed
<1>5. \A x \in D : /\ segs[x].next # NULL => /\ segs[x].next \in D
                                             /\ segs[segs[x].next].last = x
                                             /\ segs[x].next = End(segs, x)
                   /\ segs[x].last # NULL => /\ segs[x].last \in D
                                             /\ segs[segs[x].last].next = x
  BY DEF Listed, Linked
<1>6. h.segs = m /\ h.lastHdr = lastHdr /\ f = CombineForward(h, seg)
  OBVIOUS
<1> HIDE DEF h, last, next, seg
<1>7. last # seg
  BY <1>3, <1>4, <1>5 DEF last
<1>8. next \notin {seg, last} \/ next = NULL
  <2>1. next # NULL => next # seg
    BY <1>3, <1>4, <1>5 DEF next
  <2>2. next # NULL /\ last # NULL => last < seg /\ seg < next
    BY <1>3, <1>4, <1>5 DEF next, last
  <2>3. next # NULL /\ last # NULL => last \in Nat /\ seg \in Nat /\ next \in Nat
    BY <1>3, <1>4, <1>5 DEF next, last
  <2> QED
    BY <2>1, <2>2, <2>3
<1>9. ApartBut(m, {seg, last})
  <2> SUFFICES ASSUME NEW a \in D \ {seg, last}, m[a].free, m[a].next # NULL
               PROVE  ~m[m[a].next].free
    BY <1>2 DEF ApartBut
  <2>1. segs[a].free /\ m[a].next = segs[a].next
    BY <1>2
  <2>2. segs[a].next \in D /\ segs[segs[a].next].last = a /\ ~segs[segs[a].next].free
    BY <2>1, <1>5 DEF ApartBut
  <2>3. segs[a].next # seg
    BY <2>2 DEF last
  <2> QED
    BY <2>1, <2>2, <2>3, <1>2
<1>10. /\ Listed(f.segs, f.lastHdr, end) /\ SameInUse(m, f.segs)
       /\ ApartBut(f.segs, {last}) /\ seg \in DOMAIN f.segs
       /\ f.segs[seg].free /\ f.segs[seg].last = last
  <2>1. CASE Swallows(m, seg)
    <3>1. m[seg].next = next /\ next # NULL /\ next \in D /\ m[seg].last = last
      BY <2>1, <1>2, <1>3, <1>5 DEF Swallows, next, last
    <3>2. IsMerge(m, lastHdr, seg, f.segs, f.lastHdr)
      <4>1. IsMerge(h.segs, h.lastHdr, seg,
                    CombineForward(h, seg).segs, CombineForward(h, seg).lastHdr)
        BY <2>1, <1>1, <1>2, <1>3, <1>6, MergeFields
      <4> QED
        BY <4>1, <1>6
    <3>3. Listed(f.segs, f.lastHdr, end)
      BY <3>2, <2>1, <1>1, <1>2, <1>3, MergeKeeps
    <3>4. SameInUse(m, f.segs) /\ ApartBut(f.segs, {seg, last} \ {seg})
      BY <3>1, <3>2, <2>1, <1>1, <1>2, <1>3, <1>8, <1>9, MergeSpares
    <3>5. {seg, last} \ {seg} = {last}
      BY <1>7
    <3>6. m[next].next # seg
      <4>1. segs[next].next # NULL => next < segs[next].next
        BY <3>1, <1>4, <1>5
      <4>2. seg < next /\ next \in Nat /\ seg \in Nat
        BY <3>1, <1>3, <1>4, <1>5 DEF next
      <4>3. segs[next].next # NULL => segs[next].next \in Nat
        BY <3>1, <1>4, <1>5
      <4>4. segs[next].next # seg
        BY <4>1, <4>2, <4>3, <1>3, <1>4
      <4> QED
        BY <4>4, <3>1, <1>2
    <3>7. seg \in DOMAIN f.segs /\ f.segs[seg].free /\ f.segs[seg].last = last
      BY <3>1, <3>2, <3>6, <1>2, <1>3, <1>8 DEF IsMerge
    <3> QED
      BY <3>3, <3>4, <3>5, <3>7
  <2>2. CASE ~Swallows(m, seg)
    <3>1. f = h
      BY <2>2, <1>6, NoMerge
    <3>2. ApartBut(m, {last})
      <4> SUFFICES ASSUME NEW a \in DOMAIN m \ {last}, m[a].free, m[a].next # NULL
                   PROVE  ~m[m[a].next].free
        BY DEF ApartBut
      <4>1. CASE a = seg
        BY <4>1, <2>2 DEF Swallows
      <4>2. CASE a # seg
        BY <4>2, <1>9 DEF ApartBut
      <4> QED
        BY <4>1, <4>2
    <3>3. SameInUse(m, m)
      <4>1. \A x \in DOMAIN m : m[x].length \in Nat
        BY <1>1, ListedTypes DEF Listed
      <4> QED
        BY <4>1 DEF SameInUse
    <3> QED
      BY <3>1, <3>2, <3>3, <1>1, <1>2, <1>3, <1>6 DEF last
  <2> QED
    BY <2>1, <2>2
<1>11. Tidy(r.segs, r.lastHdr, end, f.segs)
  <2>1. r = CombineBackward(f, seg)
    BY DEF seg
  <2> QED
    BY <2>1, <1>10, CombineBackwardTidies
<1>12. Held(m, blocks \ {block})
  <2>1. \A b \in blocks \ {block} : b.seg # seg
    BY DEF Held, seg
  <2>2. ASSUME NEW b \in blocks \ {block}
        PROVE  /\ b.seg \in DOMAIN m /\ ~m[b.seg].free /\ b.size \in Nat
               /\ m[b.seg].length >= b.size
    BY <2>1, <1>2 DEF Held
  <2>3. ASSUME NEW a \in D, ~m[a].free
        PROVE  \E b \in blocks \ {block} : b.seg = a
    <3>1. a # seg /\ ~segs[a].free
      BY <2>3, <1>2
    <3> QED
      BY <3>1 DEF Held, seg
  <2>4. \A b, d \in blocks \ {block} : b.seg = d.seg => b = d
    BY DEF Held
  <2> QED
    BY <2>2, <2>3, <2>4, <1>2 DEF Held
<1>13. Held(f.segs, blocks \ {block})
  BY <1>1, <1>10, <1>12, HeldKeeps
<1>14. Held(r.segs, blocks \ {block})
  BY <1>10, <1>11, <1>13, HeldKeeps DEF Tidy
<1> QED
  BY <1>11, <1>14 DEF Tidy

-----------------------------------------------------------------------------
(* Every step of malloc and free keeps the invariant.                      *)
LEMMA MallocIndInv ==
    ASSUME IndInv, NEW size \in Sizes, Malloc(size)
    PROVE  IndInv'
<1>1. UNCHANGED <<segments, LastHdr, heapEnd, held, pagesLeft, panicked>>
  BY DEF Malloc
<1>2. request' \in Nat
  BY RoundedIsNat, HeapAssumption DEF Malloc
<1>3. currentSeg' \in DOMAIN segments
  BY DEF Malloc, IndInv, Listed, Linked
<1>4. Rest'
  BY <1>1, <1>2, <1>3 DEF IndInv, Rest
<1>5. (Listed(segments, LastHdr, heapEnd) /\ ApartBut(segments, {}) /\ Held(segments, held))'
  BY <1>1 DEF IndInv
<1> QED
  BY <1>4, <1>5 DEF IndInv

LEMMA TakeIndInv ==
    ASSUME IndInv, Take
    PROVE  IndInv'
<1> DEFINE c == Split(TheHeap, currentSeg, request)
           s == [c.segs EXCEPT ![currentSeg].free = FALSE]
<1>1. /\ request # 0 /\ segments[currentSeg].free
      /\ segments[currentSeg].length >= request
      /\ HeapBecomes([c EXCEPT !.segs[currentSeg].free = FALSE])
      /\ held' = held \cup {[seg |-> currentSeg, size |-> request]}
      /\ request' = 0 /\ currentSeg' = heapStart
      /\ UNCHANGED <<heapEnd, pagesLeft, panicked>>
  BY DEF Take, Fits
<1>2. /\ Listed(segments, LastHdr, heapEnd) /\ ApartBut(segments, {})
      /\ Held(segments, held) /\ currentSeg \in DOMAIN segments /\ request \in Nat
  BY <1>1 DEF IndInv, Rest
<1>3. c = [segs |-> c.segs, lastHdr |-> c.lastHdr]
  BY DEF Split, TheHeap
<1> HIDE DEF c
<1>4. segments' = s /\ LastHdr' = c.lastHdr
  <2>1. [c EXCEPT !.segs[currentSeg].free = FALSE] = [segs |-> s, lastHdr |-> c.lastHdr]
    <3>1. [c EXCEPT !.segs[currentSeg].free = FALSE] = [c EXCEPT !.segs = s]
      OBVIOUS
    <3> DEFINE segs == c.segs
               lastHdr == c.lastHdr
    <3>2. c = [segs |-> segs, lastHdr |-> lastHdr]
      BY <1>3
    <3> HIDE DEF s, segs
    <3> SUFFICES [c EXCEPT !.segs = s] = [segs |-> s, lastHdr |-> lastHdr]
      BY <3>1
    <3> HIDE DEF lastHdr
    <3> QED
      BY <3>2
  <2> QED
    BY <2>1, <1>1 DEF HeapBecomes
<1>5. Listed(c.segs, c.lastHdr, heapEnd) /\ IsCut(segments, currentSeg, request, c.segs)
  BY <1>1, <1>2, SplitCuts DEF c, TheHeap
<1>6. IsMarked(c.segs, currentSeg, FALSE, s)
  <2>1. currentSeg \in DOMAIN c.segs /\ c.segs \in [DOMAIN c.segs -> Headers]
    BY <1>2, <1>5, ListedTypes DEF IsCut, Listed
  <2> QED
    BY <2>1, MarkedFields
<1> HIDE DEF s
<1>7. /\ Listed(s, c.lastHdr, heapEnd) /\ ApartBut(s, {})
      /\ Held(s, held \cup {[seg |-> currentSeg, size |-> request]})
  BY <1>1, <1>2, <1>5, <1>6, TakeKeeps
<1>8. Rest'
  <2>1. ~(request' # 0) /\ request' \in Nat
    BY <1>1
  <2> QED
    BY <2>1, <1>1 DEF IndInv, Rest
<1> QED
  BY <1>1, <1>4, <1>7, <1>8 DEF IndInv

LEMMA AdvanceIndInv ==
    ASSUME IndInv, Advance
    PROVE  IndInv'
<1>1. UNCHANGED <<segments, LastHdr, heapEnd, request, held, pagesLeft, panicked>>
  BY DEF Advance
<1>2. currentSeg' \in DOMAIN segments
  BY DEF Advance, IndInv, Rest, Listed, Linked
<1>3. Rest'
  BY <1>1, <1>2 DEF IndInv, Rest
<1>4. (Listed(segments, LastHdr, heapEnd) /\ ApartBut(segments, {}) /\ Held(segments, held))'
  BY <1>1 DEF IndInv
<1> QED
  BY <1>3, <1>4 DEF IndInv

LEMMA ExpandHeapIndInv ==
    ASSUME IndInv, ExpandHeap
    PROVE  IndInv'
<1> DEFINE pages == PagesFor(request)
<1>1. /\ Listed(segments, LastHdr, heapEnd) /\ ApartBut(segments, {})
      /\ Held(segments, held) /\ heapEnd \in Nat /\ request \in Nat \ {0}
      /\ pagesLeft \in 0 .. SparePages /\ panicked \in BOOLEAN
      /\ currentSeg \in DOMAIN segments
  BY DEF ExpandHeap, IndInv, Rest
<1>2. request' = request /\ held' = held
  BY DEF ExpandHeap
<1>3. CASE pages <= pagesLeft
  <2> DEFINE size == pages * PAGE - HDR
             e == [a \in DOMAIN segments \cup {heapEnd} |->
                     IF a = heapEnd
                     THEN [length |-> size, next |-> NULL, last |-> LastHdr, free |-> TRUE]
                     ELSE [segments EXCEPT ![LastHdr].next = heapEnd][a]]
             h == [segs |-> e, lastHdr |-> heapEnd]
             r == CombineBackward(h, heapEnd)
  <2>1. /\ HeapBecomes(Expanded(pages * PAGE))
        /\ heapEnd' = heapEnd + pages * PAGE
        /\ pagesLeft' = pagesLeft - pages
        /\ currentSeg' = heapStart /\ panicked' = panicked
    BY <1>3 DEF ExpandHeap
  <2>2. Expanded(pages * PAGE) = r
    BY DEF Expanded, With
  <2>3. /\ pages \in Nat /\ size \in Nat /\ HDR \in Nat /\ pages * PAGE \in Nat
        /\ pages * PAGE = HDR + size
    <3>1. pages \in Nat /\ size \in Nat /\ HDR \in Nat /\ PAGE \in Nat
      BY <1>1, PagesHoldHeader, HeapAssumption
    <3> HIDE DEF pages
    <3>2. pages * PAGE \in Nat
      BY <3>1
    <3> QED
      BY <3>1, <3>2
  <2>4. IsExtension(segments, LastHdr, heapEnd, size, e)
    BY DEF IsExtension
  <2>5. h.segs = e /\ h.lastHdr = heapEnd
    OBVIOUS
  <2> HIDE DEF pages, size, h, r, e
  <2>6. heapEnd' = heapEnd + HDR + size
    BY <2>1, <2>3, <1>1
  <2>7. /\ Listed(e, heapEnd, heapEnd') /\ ApartBut(e, {LastHdr})
        /\ SameInUse(segments, e)
        /\ heapEnd \in DOMAIN e /\ e[heapEnd].free /\ e[heapEnd].last = LastHdr
    <3>1. size \in Nat
      BY <2>3
    <3>2. Appended(segments, LastHdr, heapEnd, size, e)
      BY <3>1, <2>4, <1>1, ExtendKeeps
    <3> QED
      BY <3>2, <2>6 DEF Appended
  <2>8. Tidy(r.segs, r.lastHdr, heapEnd', e)
    BY <2>5, <2>7, CombineBackwardTidies DEF r
  <2>9. Held(r.segs, held)
    <3>1. Held(e, held)
      BY <2>7, <1>1, HeldKeeps
    <3> QED
      BY <3>1, <2>7, <2>8, HeldKeeps DEF Tidy
  <2>10. segments' = r.segs /\ LastHdr' = r.lastHdr
    BY <2>1, <2>2 DEF HeapBecomes
  <2>11. heapStart \in DOMAIN r.segs
    BY <2>8 DEF Tidy, Listed, Linked
  <2>12. heapEnd' \in Nat /\ pagesLeft' \in 0 .. SparePages
    BY <2>1, <2>3, <1>1, <1>3, HeapAssumption
  <2>13. panicked' \in BOOLEAN
    BY <2>1, <1>1
  <2>14. Rest'
    BY <2>1, <2>10, <2>11, <2>12, <2>13, <1>1, <1>2 DEF Rest
  <2> QED
    BY <2>8, <2>9, <2>10, <2>14, <1>2 DEF IndInv, Tidy
<1>4. CASE ~(pages <= pagesLeft)
  <2>1. panicked' = TRUE /\ UNCHANGED <<segments, LastHdr, heapEnd, pagesLeft, currentSeg>>
    BY <1>4 DEF ExpandHeap
  <2>2. panicked' \in BOOLEAN
    BY <2>1
  <2>3. Rest'
    BY <2>1, <2>2, <1>1, <1>2 DEF Rest
  <2>4. (Listed(segments, LastHdr, heapEnd) /\ ApartBut(segments, {}) /\ Held(segments, held))'
    BY <2>1, <1>1, <1>2
  <2> QED
    BY <2>3, <2>4 DEF IndInv
<1> QED
  BY <1>3, <1>4

LEMMA FreeIndInv ==
    ASSUME IndInv, NEW block \in held, Free(block)
    PROVE  IndInv'
<1> DEFINE m == [segments EXCEPT ![block.seg].free = TRUE]
           h == [segs |-> m, lastHdr |-> LastHdr]
           f == CombineForward(h, block.seg)
           r == CombineBackward(f, block.seg)
<1>1. /\ Listed(segments, LastHdr, heapEnd) /\ ApartBut(segments, {})
      /\ Held(segments, held) /\ block.seg \in DOMAIN segments
  BY DEF IndInv, Held
<1>2. [TheHeap EXCEPT !.segs[block.seg].free = TRUE] = h
  BY DEF TheHeap
<1>3. /\ HeapBecomes(r) /\ held' = held \ {block} /\ request = 0
      /\ UNCHANGED <<heapEnd, request, currentSeg, pagesLeft, panicked>>
  BY <1>2 DEF Free
<1>4. IsMarked(segments, block.seg, TRUE, m)
  BY <1>1, ListedTypes, MarkedFields DEF Listed
<1> HIDE DEF m
<1>5. f = CombineForward([segs |-> m, lastHdr |-> LastHdr], block.seg)
  OBVIOUS
<1> HIDE DEF f
<1>6. r = CombineBackward(f, block.seg)
  OBVIOUS
<1> HIDE DEF r
<1>7. /\ Listed(r.segs, r.lastHdr, heapEnd) /\ ApartBut(r.segs, {})
      /\ Held(r.segs, held \ {block})
  BY <1>1, <1>4, <1>5, <1>6, FreeKeeps
<1>8. Rest'
  BY <1>3 DEF IndInv, Rest
<1> QED
  BY <1>3, <1>7, <1>8 DEF IndInv, HeapBecomes

LEMMA StepIndInv == IndInv /\ [Next]_vars => IndInv'
<1> SUFFICES ASSUME IndInv, [Next]_vars PROVE IndInv'
  OBVIOUS
<1>1. CASE \E size \in Sizes : Malloc(size)
  BY <1>1, MallocIndInv
<1>2. CASE Take
  BY <1>2, TakeIndInv
<1>3. CASE Advance
  BY <1>3, AdvanceIndInv
<1>4. CASE ExpandHeap
  BY <1>4, ExpandHeapIndInv
<1>5. CASE \E block \in held : Free(block)
  BY <1>5, FreeIndInv
<1>6. CASE UNCHANGED vars
  BY <1>6 DEF vars, IndInv, Rest
<1> QED
  BY <1>1, <1>2, <1>3, <1>4, <1>5, <1>6 DEF Next

LEMMA AlwaysIndInv == Spec => []IndInv
BY InitIndInv, StepIndInv, PTL DEF Spec

-----------------------------------------------------------------------------
(***************************************************************************)
(* The theorems.                                                           *)
(***************************************************************************)
(* Every variable has its type: no segment is longer than the heap and no  *)
(* link leaves the headers, whatever is asked for and freed.               *)
THEOREM HeapTypeCorrect == Spec => []TypeOK
<1>1. IndInv => TypeOK
  <2> SUFFICES ASSUME IndInv PROVE TypeOK
    OBVIOUS
  <2>1. /\ DOMAIN segments \subseteq Nat /\ LastHdr \in DOMAIN segments
        /\ \A a \in DOMAIN segments :
             /\ segments[a].length \in Nat /\ segments[a].free \in BOOLEAN
             /\ a < End(segments, a)
    <3>1. Linked(segments, LastHdr, heapEnd)
      BY DEF IndInv, Listed
    <3>2. DOMAIN segments \subseteq Nat /\ LastHdr \in DOMAIN segments
      BY <3>1 DEF Linked
    <3> QED
      BY <3>1, <3>2, ListedTypes
  <2>2. heapStart \in Nat /\ HDR \in Nat /\ heapEnd \in Nat
    BY HeapAssumption DEF IndInv, Rest
  <2>3. ASSUME NEW a \in DOMAIN segments
        PROVE  /\ heapStart <= a /\ End(segments, a) <= heapEnd
               /\ segments[a].next \in DOMAIN segments \cup {NULL}
               /\ segments[a].last \in DOMAIN segments \cup {NULL}
    BY DEF IndInv, Listed, Linked
  <2>4. ASSUME NEW a \in DOMAIN segments
        PROVE  a \in Addresses /\ segments[a].length \in 0 .. (heapEnd - heapStart)
    <3>1. a \in Nat /\ segments[a].length \in Nat
      BY <2>1
    <3>2. heapStart <= a /\ a + HDR + segments[a].length <= heapEnd
      BY <2>3 DEF End
    <3> QED
      BY <3>1, <3>2, <2>2 DEF Addresses
  <2>5. request \in Nat /\ pagesLeft \in 0 .. SparePages /\ panicked \in BOOLEAN
    BY DEF IndInv, Rest
  <2> QED
    BY <2>1, <2>2, <2>3, <2>4, <2>5 DEF TypeOK
<1> QED
  BY <1>1, AlwaysIndInv, PTL

(* The segments tile the heap in the order of the list, and the links      *)
(* agree, after any sequence of splits, merges and expansions.             *)
THEOREM SegmentsAlwaysTile == Spec => []ListTilesHeap
<1>1. IndInv => ListTilesHeap
  <2> SUFFICES ASSUME IndInv, NEW a \in DOMAIN segments
               PROVE  LET s == segments[a]
                      IN  /\ a + HDR + s.length = IF s.next = NULL THEN heapEnd ELSE s.next
                          /\ s.next # NULL => segments[s.next].last = a
                          /\ s.last # NULL => segments[s.last].next = a
                          /\ s.last = NULL <=> a = heapStart
                          /\ s.next = NULL <=> a = LastHdr
    BY DEF ListTilesHeap
  <2> QED
    BY DEF IndInv, Listed, Linked, End
<1> QED
  BY <1>1, AlwaysIndInv, PTL

(* free and ExpandHeap leave no two free segments side by side.            *)
THEOREM FreeSegmentsApart == Spec => []NoAdjacentFree
<1>1. IndInv => NoAdjacentFree
  BY DEF IndInv, ApartBut, NoAdjacentFree
<1> QED
  BY <1>1, AlwaysIndInv, PTL

(* A block stays a segment of its own, in use and long enough, until it is *)
(* freed, and no segment in use is lost.                                   *)
THEOREM BlocksStayHeld == Spec => []HeldIntact
<1>1. IndInv => HeldIntact
  BY DEF IndInv, Held, HeldIntact
<1> QED
  BY <1>1, AlwaysIndInv, PTL
=============================================================================
