----------------------------- MODULE Files_proofs -----------------------------
(***************************************************************************)
(* Proofs about the files of the ram image, for every length of a name,    *)
(* every number of descriptors, every image and whatever stands behind a   *)
(* descriptor on the heap.                                                 *)
(***************************************************************************)
EXTENDS Files, SequenceTheorems, FiniteSetTheorems, WellFoundedInduction, TLAPS

LEMMA MinIs ==
    ASSUME NEW S \in SUBSET Int, NEW m \in S, \A x \in S : m <= x
    PROVE  Min(S) = m
<1>1. \A x \in S : (\A y \in S : x <= y) => x = m
  OBVIOUS
<1>2. \E x \in S : \A y \in S : x <= y
  OBVIOUS
<1> QED
  BY <1>1, <1>2 DEF Min

LEMMA MinOfNaturals ==
    ASSUME NEW S \in SUBSET Nat, S # {}
    PROVE  Min(S) \in S /\ \A x \in S : Min(S) <= x
<1>1. \E x \in S : \A y \in S : ~(<<y, x>> \in OpToRel(<, Nat))
  BY NatLessThanWellFounded, WFMin
<1>2. ASSUME NEW x \in Nat, NEW y \in Nat, <<y, x>> \notin OpToRel(<, Nat)
      PROVE  x <= y
  <2>1. <<y, x>> \in {pair \in Nat \X Nat : pair[1] < pair[2]} <=> y < x
    OBVIOUS
  <2> QED
    BY <1>2, <2>1 DEF OpToRel
<1>3. \E x \in S : \A y \in S : x <= y
  BY <1>1, <1>2
<1> QED
  BY <1>3 DEF Min

LEMMA MinOfTwo ==
    ASSUME NEW a \in Int, NEW b \in Int
    PROVE  Min({a, b}) = IF a <= b THEN a ELSE b
BY DEF Min

LEMMA MaxOfOne == ASSUME NEW a \in Int PROVE Max({a}) = a
BY DEF Max

-----------------------------------------------------------------------------
(***************************************************************************)
(* Strings.  A file's descriptor reads: a slash, the padded name without   *)
(* its last character, the source, and what follows on the heap.           *)
(***************************************************************************)
LEMMA StrlenIs ==
    ASSUME NEW string, NEW end \in Nat, end \in DOMAIN string, DOMAIN string \subseteq Nat,
           string[end] = NUL, \A i \in DOMAIN string : i < end => string[i] # NUL
    PROVE  strlen(string) = IF end = 1 THEN 0 ELSE end - 2
<1> DEFINE S == {i \in DOMAIN string : string[i] = NUL}
<1>1. S \in SUBSET Int /\ end \in S /\ \A x \in S : end <= x
  OBVIOUS
<1>2. Min(S) = end
  BY <1>1, MinIs
<1> QED
  BY <1>2 DEF strlen

Record(name) == [path   |-> <<SLASH>> \o SubSeq(Padded(name), 1, NameLength - 1),
                 source |-> SOURCE]

LEMMA NamesTyped ==
    /\ NameLength \in Nat /\ NameLength > 2
    /\ \A n \in Names : /\ Len(n) \in 1 .. NameLength /\ n \in Seq(Characters)
                        /\ \A i \in 1 .. Len(n) : n[i] \in Characters
    /\ \A p \in Paths : /\ Len(p) \in 1 .. NameLength /\ p \in Seq(Characters)
                        /\ \A i \in 1 .. Len(p) : p[i] \in Characters
BY FilesAssumption, ElementOfSeq

(* What an entry of the image is written with, and a path of a descriptor. *)
Padding == Characters \cup {SPACE}
Letters == Padding \cup {SLASH}

LEMMA LettersDiffer ==
    /\ NUL \notin Padding /\ SOURCE \notin Padding
    /\ SPACE \in Padding /\ SPACE \notin Characters /\ Characters \subseteq Padding
    /\ Padding \subseteq Letters /\ SLASH \in Letters
    /\ NUL \notin Letters /\ SOURCE \notin Letters /\ HEAP # NUL
    /\ NUL # SOURCE /\ SPACE # SOURCE /\ SLASH # SPACE
BY DEF Letters, Padding, Characters, SPACE, NUL, SOURCE, HEAP, SLASH

LEMMA PaddedTyped ==
    ASSUME NEW name \in Names
    PROVE  /\ Padded(name) \in Seq(Letters) /\ Len(Padded(name)) = NameLength
           /\ DOMAIN Padded(name) = 1 .. NameLength
           /\ \A i \in 1 .. NameLength :
                /\ Padded(name)[i] \in Padding
                /\ i <= Len(name) => Padded(name)[i] = name[i]
                /\ Padded(name)[i] = SPACE <=> i > Len(name)
<1>1. /\ NameLength \in Nat /\ Len(name) \in 1 .. NameLength
      /\ \A i \in 1 .. Len(name) : name[i] \in Characters
  BY NamesTyped
<1>2. ASSUME NEW i \in 1 .. NameLength
      PROVE  /\ Padded(name)[i] \in Padding
             /\ i <= Len(name) => Padded(name)[i] = name[i]
             /\ Padded(name)[i] = SPACE <=> i > Len(name)
  <2>1. Padded(name)[i] = IF i <= Len(name) THEN name[i] ELSE SPACE
    BY DEF Padded
  <2>2. CASE i <= Len(name)
    <3>1. i \in 1 .. Len(name) /\ ~(i > Len(name))
      BY <1>1, <2>2
    <3>2. Padded(name)[i] = name[i] /\ name[i] \in Characters
      BY <1>1, <2>1, <2>2, <3>1
    <3> QED
      BY <3>1, <3>2, LettersDiffer
  <2>3. CASE ~(i <= Len(name))
    <3>1. i > Len(name)
      BY <1>1, <2>3
    <3> QED
      BY <2>1, <2>3, <3>1, LettersDiffer
  <2> QED
    BY <2>2, <2>3
<1>3. Padded(name) \in [1 .. NameLength -> Letters]
  BY <1>2, LettersDiffer DEF Padded
<1> HIDE DEF Padded
<1>4. Padded(name) \in Seq(Letters) /\ Len(Padded(name)) = NameLength
  BY <1>1, <1>3
<1> QED
  BY <1>2, <1>3, <1>4

LEMMA RecordPath ==
    ASSUME NEW name \in Names
    PROVE  /\ Record(name).path \in Seq(Letters) /\ Len(Record(name).path) = NameLength
           /\ Record(name).path[1] = SLASH
           /\ \A j \in 2 .. NameLength : Record(name).path[j] = Padded(name)[j - 1]
           /\ Record(name).source = SOURCE
<1> DEFINE padded == Padded(name)
           cut == SubSeq(padded, 1, NameLength - 1)
<1>1. NameLength \in Nat /\ NameLength > 2 /\ NameLength - 1 \in Nat
  BY NamesTyped
<1>2. padded \in Seq(Letters) /\ Len(padded) = NameLength
  BY PaddedTyped
<1> HIDE DEF padded
<1>3. /\ cut \in Seq(Letters) /\ Len(cut) = NameLength - 1
      /\ \A i \in 1 .. NameLength - 1 : cut[i] = padded[i]
  <2>1. /\ \A i \in 1 .. NameLength - 1 : padded[i] \in Letters
        /\ 1 <= NameLength - 1 /\ ((NameLength - 1) - 1) + 1 = NameLength - 1
    BY <1>1, <1>2, ElementOfSeq
  <2> QED
    BY <1>1, <2>1, SubSeqProperties
<1> HIDE DEF cut
<1>4. <<SLASH>> \in Seq(Letters) /\ Len(<<SLASH>>) = 1 /\ <<SLASH>>[1] = SLASH
  BY LettersDiffer
<1>5. /\ <<SLASH>> \o cut \in Seq(Letters) /\ Len(<<SLASH>> \o cut) = 1 + (NameLength - 1)
      /\ \A i \in 1 .. 1 + (NameLength - 1) :
           (<<SLASH>> \o cut)[i] = IF i <= 1 THEN <<SLASH>>[i] ELSE cut[i - 1]
  BY <1>3, <1>4, ConcatProperties
<1>6. Record(name).path = <<SLASH>> \o cut /\ Record(name).source = SOURCE
  BY DEF Record, cut, padded
<1>7. (<<SLASH>> \o cut)[1] = SLASH
  BY <1>1, <1>4, <1>5
<1>8. ASSUME NEW j \in 2 .. NameLength PROVE (<<SLASH>> \o cut)[j] = padded[j - 1]
  <2>1. j \in 1 .. 1 + (NameLength - 1) /\ ~(j <= 1) /\ j - 1 \in 1 .. NameLength - 1
    BY <1>1
  <2> QED
    BY <1>3, <1>5, <2>1
<1> QED
  BY <1>1, <1>5, <1>6, <1>7, <1>8 DEF padded

LEMMA TextIs ==
    ASSUME NEW name \in Names, NEW last
    PROVE  /\ DOMAIN Text(Record(name), last) = 1 .. NameLength + 3
           /\ \A j \in 1 .. NameLength : /\ Text(Record(name), last)[j] = Record(name).path[j]
                                         /\ Record(name).path[j] \in Letters
           /\ Text(Record(name), last)[NameLength + 1] = SOURCE
           /\ Text(Record(name), last)[NameLength + 2] = last
           /\ Text(Record(name), last)[NameLength + 3] = NUL
<1> DEFINE S == Letters \cup {SOURCE, last, NUL}
           path == Record(name).path
           end == <<SOURCE, last, NUL>>
           text == Text(Record(name), last)
<1>1. /\ path \in Seq(Letters) /\ Len(path) = NameLength
      /\ Record(name).source = SOURCE /\ NameLength \in Nat
  BY RecordPath, NamesTyped
<1> HIDE DEF path
<1>2. path \in Seq(S) /\ \A j \in 1 .. NameLength : path[j] \in Letters
  <2>1. Letters \subseteq S
    OBVIOUS
  <2> HIDE DEF S
  <2>2. path \in Seq(S)
    BY <1>1, <2>1, SeqMonotonic
  <2>3. \A j \in 1 .. NameLength : path[j] \in Letters
    BY <1>1, ElementOfSeq
  <2> QED
    BY <2>2, <2>3
<1>3. SOURCE \in S /\ last \in S /\ NUL \in S
  OBVIOUS
<1> HIDE DEF S
<1>4. end \in Seq(S) /\ Len(end) = 3 /\ end[1] = SOURCE /\ end[2] = last /\ end[3] = NUL
  BY <1>3
<1> HIDE DEF end
<1>5. text = path \o end
  BY <1>1 DEF Text, text, path, end
<1> HIDE DEF text
<1>6. /\ path \o end \in Seq(S) /\ Len(path \o end) = Len(path) + Len(end)
      /\ \A i \in 1 .. Len(path) + Len(end) :
           (path \o end)[i] = IF i <= Len(path) THEN path[i] ELSE end[i - Len(path)]
  BY <1>2, <1>4, ConcatProperties
<1>7. /\ text \in Seq(S) /\ Len(text) = NameLength + 3
      /\ \A i \in 1 .. NameLength + 3 :
           text[i] = IF i <= NameLength THEN path[i] ELSE end[i - NameLength]
  BY <1>1, <1>4, <1>5, <1>6
<1>8. DOMAIN text = 1 .. NameLength + 3
  BY <1>7
<1>9. /\ \A j \in 1 .. NameLength : text[j] = path[j] /\ path[j] \in Letters
      /\ text[NameLength + 1] = SOURCE /\ text[NameLength + 2] = last
      /\ text[NameLength + 3] = NUL
  BY <1>1, <1>2, <1>4, <1>7
<1> QED
  BY <1>8, <1>9 DEF text, path

LEMMA TerminatedIs ==
    ASSUME NEW path \in Paths
    PROVE  /\ DOMAIN Terminated(path) = 1 .. Len(path) + 2
           /\ \A i \in 1 .. Len(path) : /\ Terminated(path)[i] = path[i]
                                        /\ path[i] \in Characters
           /\ Terminated(path)[Len(path) + 1] = NUL
           /\ Terminated(path)[Len(path) + 2] = NUL
<1> DEFINE S == Characters \cup {NUL}
           end == <<NUL, NUL>>
           string == Terminated(path)
<1>1. path \in Seq(Characters) /\ \A i \in 1 .. Len(path) : path[i] \in Characters
  BY NamesTyped
<1>2. path \in Seq(S)
  <2>1. Characters \subseteq S
    OBVIOUS
  <2> HIDE DEF S
  <2> QED
    BY <1>1, <2>1, SeqMonotonic
<1>3. NUL \in S
  OBVIOUS
<1> HIDE DEF S
<1>4. end \in Seq(S) /\ Len(end) = 2 /\ end[1] = NUL /\ end[2] = NUL
  BY <1>3
<1> HIDE DEF end
<1>5. string = path \o end
  BY DEF Terminated, end, string
<1> HIDE DEF string
<1>6. /\ path \o end \in Seq(S) /\ Len(path \o end) = Len(path) + Len(end)
      /\ \A i \in 1 .. Len(path) + Len(end) :
           (path \o end)[i] = IF i <= Len(path) THEN path[i] ELSE end[i - Len(path)]
  BY <1>2, <1>4, ConcatProperties
<1>7. /\ string \in Seq(S) /\ Len(string) = Len(path) + 2 /\ Len(path) \in Nat
      /\ \A i \in 1 .. Len(path) + 2 :
           string[i] = IF i <= Len(path) THEN path[i] ELSE end[i - Len(path)]
  BY <1>1, <1>4, <1>5, <1>6
<1>8. DOMAIN string = 1 .. Len(path) + 2
  BY <1>7
<1>9. /\ \A i \in 1 .. Len(path) : string[i] = path[i]
      /\ string[Len(path) + 1] = NUL /\ string[Len(path) + 2] = NUL
  BY <1>4, <1>7
<1> QED
  BY <1>1, <1>8, <1>9 DEF string

(* The lengths that strlen finds: one less than there are characters.      *)
LEMMA StrlenOfPath ==
    ASSUME NEW path \in Paths
    PROVE  strlen(Terminated(path)) = Len(path) - 1
<1>1. Len(path) \in Nat /\ Len(path) > 0
  BY NamesTyped
<1>2. /\ Len(path) + 1 \in DOMAIN Terminated(path) /\ Len(path) + 1 \in Nat
      /\ DOMAIN Terminated(path) \subseteq Nat /\ Terminated(path)[Len(path) + 1] = NUL
  BY <1>1, TerminatedIs
<1>3. ASSUME NEW i \in DOMAIN Terminated(path), i < Len(path) + 1
      PROVE  Terminated(path)[i] # NUL
  <2>1. i \in 1 .. Len(path)
    BY <1>1, <1>3, TerminatedIs
  <2> QED
    BY <2>1, TerminatedIs, LettersDiffer DEF Letters, Padding
<1>4. strlen(Terminated(path)) =
        IF Len(path) + 1 = 1 THEN 0 ELSE (Len(path) + 1) - 2
  BY <1>2, <1>3, StrlenIs
<1> QED
  BY <1>1, <1>4

LEMMA StrlenOfText ==
    ASSUME NEW name \in Names, NEW last
    PROVE  /\ last = NUL => strlen(Text(Record(name), last)) = NameLength
           /\ last # NUL => strlen(Text(Record(name), last)) = NameLength + 1
<1> DEFINE text == Text(Record(name), last)
<1>1. NameLength \in Nat /\ NameLength > 2
  BY NamesTyped
<1>2. /\ DOMAIN text = 1 .. NameLength + 3
      /\ \A j \in 1 .. NameLength : text[j] \in Letters
      /\ text[NameLength + 1] = SOURCE /\ text[NameLength + 2] = last
      /\ text[NameLength + 3] = NUL
  BY TextIs
<1> HIDE DEF text
<1>3. \A j \in 1 .. NameLength + 1 : text[j] # NUL
  <2> SUFFICES ASSUME NEW j \in 1 .. NameLength + 1 PROVE text[j] # NUL
    OBVIOUS
  <2>1. j \in 1 .. NameLength \/ j = NameLength + 1
    BY <1>1
  <2> QED
    BY <1>2, <2>1, LettersDiffer
<1>4. DOMAIN text \subseteq Nat
  BY <1>1, <1>2
<1>5. ASSUME last = NUL PROVE strlen(text) = NameLength
  <2>1. NameLength + 2 \in Nat /\ NameLength + 2 \in DOMAIN text
    BY <1>1, <1>2
  <2>2. \A i \in DOMAIN text : i < NameLength + 2 => text[i] # NUL
    BY <1>1, <1>2, <1>3
  <2>3. strlen(text) = IF NameLength + 2 = 1 THEN 0 ELSE (NameLength + 2) - 2
    BY <1>2, <1>4, <1>5, <2>1, <2>2, StrlenIs
  <2> QED
    BY <1>1, <2>3
<1>6. ASSUME last # NUL PROVE strlen(text) = NameLength + 1
  <2>1. NameLength + 3 \in Nat /\ NameLength + 3 \in DOMAIN text
    BY <1>1, <1>2
  <2>2. \A i \in DOMAIN text : i < NameLength + 3 => text[i] # NUL
    <3> SUFFICES ASSUME NEW i \in DOMAIN text, i < NameLength + 3 PROVE text[i] # NUL
      OBVIOUS
    <3>1. i \in 1 .. NameLength + 1 \/ i = NameLength + 2
      BY <1>1, <1>2
    <3> QED
      BY <1>2, <1>3, <1>6, <3>1
  <2>3. strlen(text) = IF NameLength + 3 = 1 THEN 0 ELSE (NameLength + 3) - 2
    BY <1>2, <1>4, <2>1, <2>2, StrlenIs
  <2> QED
    BY <1>1, <2>3
<1> QED
  BY <1>5, <1>6 DEF text

-----------------------------------------------------------------------------
(***************************************************************************)
(* The comparisons.  VFSPathEq compares all of the path but its last       *)
(* character, and looks at what stands behind where that would be.         *)
(***************************************************************************)
LEMMA PathEqOfRecord ==
    ASSUME NEW name \in Names, NEW path \in Paths, NEW last
    PROVE  VFSPathEq(Text(Record(name), last), Terminated(path)) <=>
             /\ \A j \in 1 .. Len(path) - 1 : Record(name).path[j] = path[j]
             /\ Text(Record(name), last)[Len(path) + 1] \in {SPACE, NUL}
<1> DEFINE text == Text(Record(name), last)
           string == Terminated(path)
           lenA == strlen(text)
           lenB == strlen(string)
<1>1. Len(path) \in 1 .. NameLength /\ NameLength \in Nat /\ NameLength > 2
  BY NamesTyped
<1>2. lenB = Len(path) - 1 /\ lenA \in {NameLength, NameLength + 1}
  BY StrlenOfPath, StrlenOfText
<1>3. /\ \A j \in 1 .. NameLength : text[j] = Record(name).path[j]
      /\ \A j \in 1 .. Len(path) : string[j] = path[j]
  BY TextIs, TerminatedIs
<1>4. VFSPathEq(text, string) <=>
        /\ memcmpEq(text, string, Min({lenA, lenB}))
        /\ (IF lenA > lenB THEN At(text, lenB + 1) ELSE At(string, lenA + 1)) \in {SPACE, NUL}
  BY DEF VFSPathEq
<1> HIDE DEF text, string, lenA, lenB
<1>5. Min({lenA, lenB}) = Len(path) - 1 /\ lenA > lenB
  <2>1. lenA \in Int /\ lenB \in Int /\ ~(lenA <= lenB) /\ lenA > lenB
    BY <1>1, <1>2
  <2> QED
    BY <1>2, <2>1, MinOfTwo
<1>6. At(text, lenB + 1) = text[Len(path) + 1]
  <2>1. (lenB + 1) + 1 = Len(path) + 1
    BY <1>1, <1>2
  <2> QED
    BY <2>1 DEF At
<1>7. memcmpEq(text, string, Len(path) - 1) <=>
        \A j \in 1 .. Len(path) - 1 : Record(name).path[j] = path[j]
  <2>1. memcmpEq(text, string, Len(path) - 1) <=>
          \A i \in 0 .. (Len(path) - 1) - 1 : text[i + 1] = string[i + 1]
    BY DEF memcmpEq, At
  <2>2. (\A i \in 0 .. (Len(path) - 1) - 1 : text[i + 1] = string[i + 1])
          <=> \A j \in 1 .. Len(path) - 1 : text[j] = string[j]
    <3>1. ASSUME \A i \in 0 .. (Len(path) - 1) - 1 : text[i + 1] = string[i + 1],
                 NEW j \in 1 .. Len(path) - 1
          PROVE  text[j] = string[j]
      <4>1. j - 1 \in 0 .. (Len(path) - 1) - 1 /\ (j - 1) + 1 = j
        BY <1>1
      <4> QED
        BY <3>1, <4>1
    <3>2. \A i \in 0 .. (Len(path) - 1) - 1 : i + 1 \in 1 .. Len(path) - 1
      BY <1>1
    <3> QED
      BY <3>1, <3>2
  <2>3. \A j \in 1 .. Len(path) - 1 : text[j] = Record(name).path[j] /\ string[j] = path[j]
    BY <1>1, <1>3
  <2> QED
    BY <2>1, <2>2, <2>3
<1> QED
  BY <1>4, <1>5, <1>6, <1>7 DEF text, string

LEMMA FoundIffMatches ==
    ASSUME NEW name \in Names, NEW path \in Paths, NEW last
    PROVE  VFSPathEq(Text(Record(name), last), Terminated(path)) <=> Matches(name, path)
<1> DEFINE L == Len(path)
           size == Len(name)
           padded == Padded(name)
           behind == Text(Record(name), last)[L + 1]
           equal == \A j \in 1 .. L - 1 : Record(name).path[j] = path[j]
<1>1. L \in 1 .. NameLength /\ NameLength \in Nat /\ NameLength > 2 /\ size \in 1 .. NameLength
  BY NamesTyped
<1>2. VFSPathEq(Text(Record(name), last), Terminated(path)) <=> equal /\ behind \in {SPACE, NUL}
  BY PathEqOfRecord
<1>3. /\ Record(name).path[1] = SLASH
      /\ \A j \in 2 .. NameLength : Record(name).path[j] = padded[j - 1]
      /\ \A i \in 1 .. NameLength : /\ padded[i] \in Padding
                                    /\ i <= size => padded[i] = name[i]
                                    /\ padded[i] = SPACE <=> i > size
      /\ \A i \in 1 .. L : path[i] \in Characters
  BY RecordPath, PaddedTyped, NamesTyped
<1>4. L = NameLength => behind = SOURCE
  BY TextIs
<1>5. L < NameLength => behind = padded[L]
  <2>1. ASSUME L < NameLength PROVE behind = padded[L]
    <3>1. L + 1 \in 2 .. NameLength /\ L + 1 \in 1 .. NameLength /\ (L + 1) - 1 = L
      BY <1>1, <2>1
    <3>2. behind = Record(name).path[L + 1]
      BY <3>1, TextIs
    <3> QED
      BY <1>3, <3>1, <3>2
  <2> QED
    BY <2>1
<1>6. Matches(name, path) <=>
        /\ L - 2 >= 0 /\ L - 2 <= NameLength - 3 /\ path[1] = SLASH
        /\ size \in {L - 2, (L - 2) + 1}
        /\ \A i \in 1 .. L - 2 : path[i + 1] = name[i]
  BY DEF Matches
<1> HIDE DEF L, padded, behind, size
<1>7. CASE L = 1
  <2>1. ~Matches(name, path)
    BY <1>6, <1>7
  <2>2. behind = padded[1] /\ padded[1] \in Padding /\ padded[1] # SPACE
    BY <1>1, <1>3, <1>5, <1>7
  <2> QED
    BY <1>2, <2>1, <2>2, LettersDiffer
<1>8. CASE L = NameLength
  <2>1. ~Matches(name, path)
    BY <1>1, <1>6, <1>8
  <2> QED
    BY <1>2, <1>4, <1>8, <2>1, LettersDiffer
<1>9. CASE L > 1 /\ L < NameLength
  <2>1. behind \in {SPACE, NUL} <=> size <= L - 1
    <3>1. L \in 1 .. NameLength /\ behind = padded[L] /\ padded[L] \in Padding
      BY <1>1, <1>3, <1>5, <1>9
    <3>2. behind \in {SPACE, NUL} <=> padded[L] = SPACE
      BY <3>1, LettersDiffer
    <3> QED
      BY <1>1, <1>3, <3>1, <3>2
  <2>2. equal <=> path[1] = SLASH /\ \A i \in 1 .. L - 2 : path[i + 1] = padded[i]
    <3>1. ASSUME equal PROVE path[1] = SLASH /\ \A i \in 1 .. L - 2 : path[i + 1] = padded[i]
      <4>1. 1 \in 1 .. L - 1
        BY <1>1, <1>9
      <4>2. ASSUME NEW i \in 1 .. L - 2 PROVE path[i + 1] = padded[i]
        <5>1. i + 1 \in 2 .. NameLength /\ i + 1 \in 1 .. L - 1 /\ (i + 1) - 1 = i
          BY <1>1, <1>9
        <5> QED
          BY <1>3, <3>1, <5>1
      <4> QED
        BY <1>3, <3>1, <4>1, <4>2
    <3>2. ASSUME path[1] = SLASH, \A i \in 1 .. L - 2 : path[i + 1] = padded[i],
                 NEW j \in 1 .. L - 1
          PROVE  Record(name).path[j] = path[j]
      <4>1. CASE j = 1
        BY <1>3, <3>2, <4>1
      <4>2. CASE j # 1
        <5>1. j \in 2 .. NameLength /\ j - 1 \in 1 .. L - 2 /\ (j - 1) + 1 = j
          BY <1>1, <1>9, <4>2
        <5> QED
          BY <1>3, <3>2, <5>1
      <4> QED
        BY <4>1, <4>2
    <3> QED
      BY <3>1, <3>2
  <2> HIDE DEF equal
  <2>3. ASSUME size <= L - 1, \A i \in 1 .. L - 2 : path[i + 1] = padded[i]
        PROVE  size \in {L - 2, (L - 2) + 1}
    <3>1. CASE L = 2
      <4>1. size \in Nat /\ size >= 1 /\ size <= 1
        BY <1>1, <2>3, <3>1
      <4>2. size = 1
        BY <4>1
      <4>3. (L - 2) + 1 = 1
        BY <3>1
      <4> QED
        BY <4>2, <4>3
    <3>2. CASE L > 2
      <4>1. /\ L - 2 \in 1 .. L - 2 /\ L - 2 \in 1 .. NameLength
            /\ (L - 2) + 1 = L - 1 /\ L - 1 \in 1 .. L
        BY <1>1, <1>9, <3>2
      <4>2. padded[L - 2] = path[L - 1] /\ path[L - 1] \in Characters
        BY <1>3, <2>3, <4>1
      <4>3. padded[L - 2] # SPACE
        BY <4>2, LettersDiffer
      <4>4. ~(L - 2 > size)
        BY <1>3, <4>1, <4>3
      <4> QED
        BY <1>1, <2>3, <4>4
    <3>3. L = 2 \/ L > 2
      BY <1>1, <1>9
    <3> QED
      BY <3>1, <3>2, <3>3
  <2>4. ASSUME size \in {L - 2, (L - 2) + 1}, NEW i \in 1 .. L - 2
        PROVE  padded[i] = name[i]
    <3>1. i \in 1 .. NameLength /\ i <= size
      BY <1>1, <1>9, <2>4
    <3> QED
      BY <1>3, <3>1
  <2>5. size \in {L - 2, (L - 2) + 1} => size <= L - 1
    BY <1>1
  <2>6. L - 2 >= 0 /\ L - 2 <= NameLength - 3
    BY <1>1, <1>9
  <2> QED
    BY <1>2, <1>6, <2>1, <2>2, <2>3, <2>4, <2>5, <2>6
<1> QED
  BY <1>1, <1>7, <1>8, <1>9

(* A free descriptor has an empty path, which only the path "/" equals.    *)
LEMMA FreeFound ==
    ASSUME NEW path \in Paths, NEW last,
           VFSPathEq(Text(FreeDescriptor, last), Terminated(path))
    PROVE  Len(path) = 1
<1> DEFINE text == Text(FreeDescriptor, last)
           string == Terminated(path)
           lenA == strlen(text)
           lenB == strlen(string)
           L == Len(path)
<1>1. L \in 1 .. NameLength /\ NameLength \in Nat /\ NameLength > 2
  BY NamesTyped
<1>2. lenB = L - 1
  BY StrlenOfPath
<1>3. lenA = 0
  <2> DEFINE S == {SOURCE, last, NUL}
             end == <<NUL, last, NUL>>
             zeros == Zeros
  <2>1. NUL \in S /\ last \in S
    OBVIOUS
  <2> HIDE DEF S
  <2>2. zeros \in Seq(S) /\ Len(zeros) = NameLength /\ zeros[1] = NUL
    BY <1>1, <2>1 DEF Zeros
  <2>3. end \in Seq(S) /\ Len(end) = 3
    BY <2>1
  <2>4. text = zeros \o end
    BY DEF Text, FreeDescriptor
  <2> HIDE DEF end, zeros, text
  <2>5. /\ zeros \o end \in Seq(S) /\ Len(zeros \o end) = Len(zeros) + Len(end)
        /\ \A i \in 1 .. Len(zeros) + Len(end) :
             (zeros \o end)[i] = IF i <= Len(zeros) THEN zeros[i] ELSE end[i - Len(zeros)]
    BY <2>2, <2>3, ConcatProperties
  <2>6. text \in Seq(S) /\ Len(text) = NameLength + 3 /\ text[1] = NUL
    BY <1>1, <2>2, <2>3, <2>4, <2>5
  <2>7. DOMAIN text = 1 .. NameLength + 3
    BY <2>6
  <2>8. /\ 1 \in Nat /\ 1 \in DOMAIN text /\ DOMAIN text \subseteq Nat
        /\ \A i \in DOMAIN text : i < 1 => text[i] # NUL
    BY <1>1, <2>7
  <2>9. strlen(text) = IF 1 = 1 THEN 0 ELSE 1 - 2
    BY <2>6, <2>8, StrlenIs
  <2> QED
    BY <2>9 DEF text
<1>4. (IF lenA > lenB THEN At(text, lenB + 1) ELSE At(string, lenA + 1)) \in {SPACE, NUL}
  BY DEF VFSPathEq
<1>5. /\ string[L + 1] = NUL
      /\ \A i \in 1 .. L : string[i] \in Characters
  BY TerminatedIs
<1> HIDE DEF text, string, lenA, lenB, L
<1>6. At(string, lenA + 1) \in {SPACE, NUL}
  BY <1>1, <1>2, <1>3, <1>4
<1>7. At(string, lenA + 1) = string[2]
  BY <1>3 DEF At
<1>8. L > 1 => 2 \in 1 .. L
  BY <1>1
<1>9. SPACE \notin Characters /\ NUL \notin Characters
  BY LettersDiffer DEF Letters, Padding
<1>10. ~(L > 1)
  BY <1>5, <1>6, <1>7, <1>8, <1>9
<1>11. L = 1
  BY <1>1, <1>10
<1> QED
  BY <1>11 DEF L

-----------------------------------------------------------------------------
(***************************************************************************)
(* The entry that a file's descriptor is read from: LLFSOpenFile compares  *)
(* the names of the image, padded, with the path behind its slash.         *)
(***************************************************************************)
LEMMA ImageTyped ==
    ASSUME ramfs \in Images
    PROVE  /\ Len(ramfs) \in Nat /\ ramfs \in Seq(Contents) /\ DOMAIN ramfs = 1 .. Len(ramfs)
           /\ \A i \in 1 .. Len(ramfs) : ramfs[i] \in Contents /\ ramfs[i].of \in Names
           /\ \A i, j \in 1 .. Len(ramfs) : ramfs[i].of = ramfs[j].of => i = j
<1>1. PICK k \in 0 .. MaxFiles : ramfs \in [1 .. k -> Contents]
  BY DEF Images
<1>2. \A i, j \in DOMAIN ramfs : ramfs[i].of = ramfs[j].of => i = j
  BY DEF Images
<1>3. k \in Nat
  BY FilesAssumption
<1>4. DOMAIN ramfs = 1 .. k /\ Len(ramfs) = k /\ ramfs \in Seq(Contents)
  BY <1>1, <1>3
<1>5. \A i \in 1 .. k : ramfs[i] \in Contents
  BY <1>1
<1>6. \A c \in Contents : c.of \in Names
  BY DEF Contents
<1> QED
  BY <1>2, <1>3, <1>4, <1>5, <1>6

LEMMA TailOfText ==
    ASSUME NEW name \in Names, NEW last
    PROVE  /\ DOMAIN Tail(Text(Record(name), last)) = 1 .. NameLength + 2
           /\ \A j \in 1 .. NameLength - 1 :
                /\ Tail(Text(Record(name), last))[j] = Padded(name)[j]
                /\ Tail(Text(Record(name), last))[j] \in Padding
           /\ Tail(Text(Record(name), last))[NameLength] = SOURCE
           /\ Tail(Text(Record(name), last))[NameLength + 1] = last
           /\ Tail(Text(Record(name), last))[NameLength + 2] = NUL
<1> DEFINE S == Letters \cup {SOURCE, last, NUL}
           text == Text(Record(name), last)
           filename == Tail(text)
           path == Record(name).path
           padded == Padded(name)
<1>1. NameLength \in Nat /\ NameLength > 2
  BY NamesTyped
<1>2. /\ DOMAIN text = 1 .. NameLength + 3
      /\ \A j \in 1 .. NameLength : text[j] = path[j] /\ path[j] \in Letters
      /\ text[NameLength + 1] = SOURCE
      /\ text[NameLength + 2] = last /\ text[NameLength + 3] = NUL
  BY TextIs
<1>3. /\ \A j \in 2 .. NameLength : path[j] = padded[j - 1]
      /\ \A j \in 1 .. NameLength : padded[j] \in Padding
  BY RecordPath, PaddedTyped
<1>4. text \in Seq(S)
  <2>1. path \in Seq(S) /\ <<Record(name).source, last, NUL>> \in Seq(S)
    <3>1. path \in Seq(Letters) /\ Letters \subseteq S /\ Record(name).source = SOURCE
      BY RecordPath
    <3>2. SOURCE \in S /\ last \in S /\ NUL \in S
      OBVIOUS
    <3> HIDE DEF S, path
    <3>3. path \in Seq(S)
      BY <3>1, SeqMonotonic
    <3>4. <<SOURCE, last, NUL>> \in Seq(S)
      BY <3>2
    <3> QED
      BY <3>1, <3>3, <3>4
  <2>2. text = path \o <<Record(name).source, last, NUL>>
    BY DEF Text
  <2> HIDE DEF S, path, text
  <2> QED
    BY <2>1, <2>2, ConcatProperties
<1> HIDE DEF S, text, path, padded
<1>5. Len(text) = NameLength + 3
  <2>1. Len(text) \in Nat /\ DOMAIN text = 1 .. Len(text)
    BY <1>4
  <2> DEFINE N == Len(text)
  <2>2. N \in Nat /\ 1 .. N = 1 .. NameLength + 3
    BY <1>2, <2>1
  <2> HIDE DEF N
  <2>3. N = NameLength + 3
    BY <1>1, <2>2
  <2> QED
    BY <2>3 DEF N
<1>6. text # <<>>
  BY <1>1, <1>2
<1>7. /\ filename \in Seq(S) /\ Len(filename) = Len(text) - 1
      /\ \A i \in 1 .. Len(filename) : filename[i] = text[i + 1]
  BY <1>4, <1>6, HeadTailProperties
<1>8. Len(filename) = NameLength + 2
  BY <1>1, <1>5, <1>7
<1> HIDE DEF filename
<1>9. DOMAIN filename = 1 .. NameLength + 2
  BY <1>7, <1>8
<1>10. \A j \in 1 .. NameLength - 1 : filename[j] = padded[j] /\ filename[j] \in Padding
  <2> SUFFICES ASSUME NEW j \in 1 .. NameLength - 1
               PROVE  filename[j] = padded[j] /\ filename[j] \in Padding
    OBVIOUS
  <2>1. /\ j \in 1 .. NameLength + 2 /\ j \in 1 .. NameLength
        /\ j + 1 \in 2 .. NameLength /\ j + 1 \in 1 .. NameLength /\ (j + 1) - 1 = j
    BY <1>1
  <2>2. filename[j] = text[j + 1] /\ text[j + 1] = path[j + 1] /\ path[j + 1] = padded[j]
    BY <1>2, <1>3, <1>7, <1>8, <2>1
  <2> QED
    BY <1>3, <2>1, <2>2
<1>11. /\ filename[NameLength] = SOURCE /\ filename[NameLength + 1] = last
       /\ filename[NameLength + 2] = NUL
  <2>1. /\ NameLength \in 1 .. NameLength + 2 /\ NameLength + 1 \in 1 .. NameLength + 2
        /\ NameLength + 2 \in 1 .. NameLength + 2
        /\ (NameLength + 1) + 1 = NameLength + 2 /\ (NameLength + 2) + 1 = NameLength + 3
    BY <1>1
  <2> QED
    BY <1>2, <1>7, <1>8, <2>1
<1> QED
  BY <1>9, <1>10, <1>11 DEF filename, text, padded

LEMMA StrlenOfTail ==
    ASSUME NEW name \in Names, NEW last
    PROVE  /\ last = NUL => strlen(Tail(Text(Record(name), last))) = NameLength - 1
           /\ last # NUL => strlen(Tail(Text(Record(name), last))) = NameLength
<1> DEFINE filename == Tail(Text(Record(name), last))
<1>1. NameLength \in Nat /\ NameLength > 2
  BY NamesTyped
<1>2. /\ DOMAIN filename = 1 .. NameLength + 2
      /\ \A j \in 1 .. NameLength - 1 : filename[j] \in Padding
      /\ filename[NameLength] = SOURCE /\ filename[NameLength + 1] = last
      /\ filename[NameLength + 2] = NUL
  BY TailOfText
<1> HIDE DEF filename
<1>3. \A j \in 1 .. NameLength : filename[j] # NUL
  <2> SUFFICES ASSUME NEW j \in 1 .. NameLength PROVE filename[j] # NUL
    OBVIOUS
  <2>1. j \in 1 .. NameLength - 1 \/ j = NameLength
    BY <1>1
  <2> QED
    BY <1>2, <2>1, LettersDiffer
<1>4. DOMAIN filename \subseteq Nat
  BY <1>1, <1>2
<1>5. ASSUME last = NUL PROVE strlen(filename) = NameLength - 1
  <2>1. NameLength + 1 \in Nat /\ NameLength + 1 \in DOMAIN filename
    BY <1>1, <1>2
  <2>2. \A i \in DOMAIN filename : i < NameLength + 1 => filename[i] # NUL
    BY <1>1, <1>2, <1>3
  <2>3. strlen(filename) = IF NameLength + 1 = 1 THEN 0 ELSE (NameLength + 1) - 2
    BY <1>2, <1>4, <1>5, <2>1, <2>2, StrlenIs
  <2> QED
    BY <1>1, <2>3
<1>6. ASSUME last # NUL PROVE strlen(filename) = NameLength
  <2>1. NameLength + 2 \in Nat /\ NameLength + 2 \in DOMAIN filename
    BY <1>1, <1>2
  <2>2. \A i \in DOMAIN filename : i < NameLength + 2 => filename[i] # NUL
    <3> SUFFICES ASSUME NEW i \in DOMAIN filename, i < NameLength + 2 PROVE filename[i] # NUL
      OBVIOUS
    <3>1. i \in 1 .. NameLength \/ i = NameLength + 1
      BY <1>1, <1>2
    <3> QED
      BY <1>2, <1>3, <1>6, <3>1
  <2>3. strlen(filename) = IF NameLength + 2 = 1 THEN 0 ELSE (NameLength + 2) - 2
    BY <1>2, <1>4, <2>1, <2>2, StrlenIs
  <2> QED
    BY <1>1, <2>3
<1> QED
  BY <1>5, <1>6 DEF filename

SameEntry(a, b) == \A j \in 1 .. NameLength - 1 : Padded(a)[j] = Padded(b)[j]

LEMMA EntryCompared ==
    ASSUME NEW name \in Names, NEW other \in Names, NEW last
    PROVE  memcmpEq(Padded(other), Tail(Text(Record(name), last)),
                    Min({strlen(Tail(Text(Record(name), last))), NameLength}))
             <=> last = NUL /\ SameEntry(other, name)
<1> DEFINE filename == Tail(Text(Record(name), last))
           a == Padded(other)
           b == Padded(name)
           length == strlen(filename)
<1>1. NameLength \in Nat /\ NameLength > 2
  BY NamesTyped
<1>2. /\ \A j \in 1 .. NameLength - 1 : filename[j] = b[j]
      /\ filename[NameLength] = SOURCE
      /\ \A j \in 1 .. NameLength : a[j] \in Padding
  <2>1. filename[NameLength] = SOURCE
    BY TailOfText
  <2>2. \A j \in 1 .. NameLength - 1 : filename[j] = b[j]
    <3>1. \A j \in 1 .. NameLength - 1 : filename[j] = b[j] /\ filename[j] \in Padding
      BY TailOfText
    <3> HIDE DEF filename, b
    <3> QED
      BY <3>1
  <2>3. \A j \in 1 .. NameLength : a[j] \in Padding
    BY PaddedTyped
  <2> QED
    BY <2>1, <2>2, <2>3
<1>3. (last = NUL => length = NameLength - 1) /\ (last # NUL => length = NameLength)
  BY StrlenOfTail
<1>4. SameEntry(other, name) <=> \A j \in 1 .. NameLength - 1 : a[j] = b[j]
  BY DEF SameEntry
<1> HIDE DEF filename, a, b, length
<1>5. Min({length, NameLength}) = length
  <2>1. length \in Int /\ NameLength \in Int /\ length <= NameLength
    BY <1>1, <1>3
  <2> QED
    BY <2>1, MinOfTwo
<1>6. memcmpEq(a, filename, length) <=>
        \A i \in 0 .. length - 1 : a[i + 1] = filename[i + 1]
  BY DEF memcmpEq, At
<1>7. CASE last = NUL
  <2>1. ASSUME \A i \in 0 .. length - 1 : a[i + 1] = filename[i + 1],
               NEW j \in 1 .. NameLength - 1
        PROVE  a[j] = b[j]
    <3>1. j - 1 \in 0 .. length - 1 /\ (j - 1) + 1 = j
      BY <1>1, <1>3, <1>7
    <3> QED
      BY <1>2, <2>1, <3>1
  <2>2. ASSUME \A j \in 1 .. NameLength - 1 : a[j] = b[j], NEW i \in 0 .. length - 1
        PROVE  a[i + 1] = filename[i + 1]
    <3>1. i + 1 \in 1 .. NameLength - 1
      BY <1>1, <1>3, <1>7
    <3> QED
      BY <1>2, <2>2, <3>1
  <2>3. memcmpEq(a, filename, length) <=> SameEntry(other, name)
    BY <1>4, <1>6, <2>1, <2>2
  <2> QED
    BY <1>5, <1>7, <2>3 DEF a, filename, length
<1>8. CASE last # NUL
  <2>1. /\ NameLength - 1 \in 0 .. length - 1 /\ (NameLength - 1) + 1 = NameLength
        /\ NameLength \in 1 .. NameLength
    BY <1>1, <1>3, <1>8
  <2>2. a[NameLength] # filename[NameLength]
    BY <1>2, <2>1, LettersDiffer
  <2>3. ~memcmpEq(a, filename, length)
    BY <1>6, <2>1, <2>2
  <2> QED
    BY <1>5, <1>8, <2>3 DEF a, filename, length
<1> QED
  BY <1>7, <1>8

(* Names that leave two spaces are told apart without the last character.  *)
LEMMA SameEntrySameName ==
    ASSUME NEW a \in Names, NEW b \in Names, SameEntry(a, b), Len(b) <= NameLength - 2
    PROVE  a = b
<1> DEFINE A == Len(a)
           B == Len(b)
<1>1. /\ NameLength \in Nat /\ NameLength > 2 /\ A \in 1 .. NameLength /\ B \in 1 .. NameLength
      /\ a \in Seq(Characters) /\ b \in Seq(Characters)
  BY NamesTyped
<1>2. /\ \A j \in 1 .. NameLength : /\ j <= A => Padded(a)[j] = a[j]
                                    /\ Padded(a)[j] = SPACE <=> j > A
      /\ \A j \in 1 .. NameLength : /\ j <= B => Padded(b)[j] = b[j]
                                    /\ Padded(b)[j] = SPACE <=> j > B
  BY PaddedTyped
<1>3. B <= NameLength - 2
  OBVIOUS
<1> HIDE DEF A, B
<1>4. \A j \in 1 .. NameLength - 1 : j > A <=> j > B
  <2> SUFFICES ASSUME NEW j \in 1 .. NameLength - 1 PROVE j > A <=> j > B
    OBVIOUS
  <2>1. j \in 1 .. NameLength /\ Padded(a)[j] = Padded(b)[j]
    BY <1>1 DEF SameEntry
  <2> QED
    BY <1>2, <2>1
<1>5. A = B
  <2>1. B + 1 \in 1 .. NameLength - 1 /\ B \in 1 .. NameLength - 1
    BY <1>1, <1>3
  <2>2. B + 1 > B /\ ~(B > B)
    BY <1>1
  <2>3. B + 1 > A /\ ~(B > A)
    BY <1>4, <2>1, <2>2
  <2> QED
    BY <1>1, <2>3
<1>6. \A j \in 1 .. A : a[j] = b[j]
  <2> SUFFICES ASSUME NEW j \in 1 .. A PROVE a[j] = b[j]
    OBVIOUS
  <2>1. j \in 1 .. NameLength /\ j \in 1 .. NameLength - 1 /\ j <= A /\ j <= B
    BY <1>1, <1>3, <1>5
  <2>2. Padded(a)[j] = Padded(b)[j]
    BY <2>1 DEF SameEntry
  <2> QED
    BY <1>2, <2>1, <2>2
<1>7. Len(a) = Len(b) /\ \A j \in 1 .. Len(a) : a[j] = b[j]
  BY <1>5, <1>6 DEF A, B
<1> QED
  BY <1>1, <1>7, SeqEqual

LEMMA LLFSFinds ==
    ASSUME ramfs \in Images, NEW i \in 1 .. Len(ramfs)
    PROVE  /\ \E e \in 1 .. Len(ramfs) :
                /\ LLFSOpenFile(Tail(Text(Record(ramfs[i].of), NUL))) = {e}
                /\ Len(ramfs[i].of) <= NameLength - 2 => e = i
           /\ \A last : last # NUL
                => LLFSOpenFile(Tail(Text(Record(ramfs[i].of), last))) = {}
<1> DEFINE name == ramfs[i].of
           Same(k) == SameEntry(ramfs[k].of, name)
           found(last) == LLFSOpenFile(Tail(Text(Record(name), last)))
<1>1. /\ Len(ramfs) \in Nat /\ DOMAIN ramfs = 1 .. Len(ramfs) /\ name \in Names
      /\ \A k \in 1 .. Len(ramfs) : ramfs[k].of \in Names
      /\ \A k \in 1 .. Len(ramfs) : ramfs[k].of = name => k = i
  BY ImageTyped
<1>2. ASSUME NEW last
      PROVE  found(last) = {e \in 1 .. Len(ramfs) :
                              /\ last = NUL /\ Same(e)
                              /\ \A k \in 1 .. e - 1 : ~(last = NUL /\ Same(k))}
  <2> DEFINE Eq(k) == memcmpEq(Padded(ramfs[k].of), Tail(Text(Record(name), last)),
                               Min({strlen(Tail(Text(Record(name), last))), NameLength}))
  <2>1. found(last) = {e \in 1 .. Len(ramfs) : Eq(e) /\ \A k \in 1 .. e - 1 : ~Eq(k)}
    BY <1>1 DEF LLFSOpenFile
  <2>2. \A k \in 1 .. Len(ramfs) : Eq(k) <=> last = NUL /\ Same(k)
    BY <1>1, EntryCompared
  <2>3. \A e \in 1 .. Len(ramfs) : 1 .. e - 1 \subseteq 1 .. Len(ramfs)
    BY <1>1
  <2> HIDE DEF found, Eq, Same
  <2> QED
    BY <2>1, <2>2, <2>3
<1>3. Same(i)
  BY DEF SameEntry
<1>4. \A k \in 1 .. Len(ramfs) : Same(k) /\ Len(name) <= NameLength - 2 => k = i
  BY <1>1, SameEntrySameName
<1> HIDE DEF Same, found
<1>5. PICK e \in 1 .. Len(ramfs) : Same(e) /\ \A k \in 1 .. e - 1 : ~Same(k)
  <2> DEFINE S == {k \in 1 .. Len(ramfs) : Same(k)}
             e == Min(S)
  <2>1. S \in SUBSET Nat /\ S # {}
    BY <1>1, <1>3
  <2>2. e \in S /\ \A x \in S : e <= x
    BY <2>1, MinOfNaturals
  <2> HIDE DEF e
  <2>3. \A k \in 1 .. e - 1 : k \notin S
    BY <1>1, <2>2
  <2>4. \A k \in 1 .. e - 1 : k \in 1 .. Len(ramfs)
    BY <1>1, <2>2
  <2> QED
    BY <2>2, <2>3, <2>4
<1>6. found(NUL) = {e}
  <2>1. ASSUME NEW d \in 1 .. Len(ramfs), Same(d), \A k \in 1 .. d - 1 : ~Same(k)
        PROVE  d = e
    <3>1. ~(d \in 1 .. e - 1) /\ ~(e \in 1 .. d - 1)
      BY <1>5, <2>1
    <3> QED
      BY <1>1, <1>5, <2>1, <3>1
  <2>2. found(NUL) = {d \in 1 .. Len(ramfs) : Same(d) /\ \A k \in 1 .. d - 1 : ~Same(k)}
    BY <1>2
  <2> QED
    BY <1>5, <2>1, <2>2
<1>7. \A last : last # NUL => found(last) = {}
  BY <1>2
<1>8. Len(name) <= NameLength - 2 => e = i
  BY <1>4, <1>5
<1> QED
  BY <1>6, <1>7, <1>8 DEF found

LEMMA NothingDiffers ==
    /\ Nothing.of = <<>> /\ Corrupt # Nothing /\ LowMemory # Nothing
    /\ Nothing.program = FALSE /\ LowMemory.program = FALSE /\ Corrupt.program = FALSE
    /\ \A c \in Contents : c # Nothing /\ c.program \in BOOLEAN
<1>1. <<"2">> # <<>> /\ <<"low">> # <<>>
  OBVIOUS
<1>2. \A n \in Names : n # <<>>
  <2>1. \A n \in Names : Len(n) >= 1
    BY NamesTyped
  <2>2. Len(<<>>) = 0
    OBVIOUS
  <2> QED
    BY <2>1, <2>2
<1>3. Corrupt # Nothing
  <2>1. Corrupt.of = <<"2">> /\ Nothing.of = <<>>
    BY DEF Corrupt, Nothing
  <2> QED
    BY <1>1, <2>1
<1>4. LowMemory # Nothing
  <2>1. LowMemory.of = <<"low">> /\ Nothing.of = <<>>
    BY DEF LowMemory, Nothing
  <2> QED
    BY <1>1, <2>1
<1>5. /\ Nothing.program = FALSE /\ LowMemory.program = FALSE /\ Corrupt.program = FALSE
      /\ Nothing.of = <<>>
  BY DEF Nothing, LowMemory, Corrupt
<1>6. \A c \in Contents : c.of \in Names /\ c.program \in BOOLEAN
  BY DEF Contents
<1> HIDE DEF Corrupt, Nothing, LowMemory
<1> QED
  BY <1>2, <1>3, <1>4, <1>5, <1>6

LEMMA FreeRead == \A last : VFSReadFile(FreeDescriptor, last) = Nothing
BY LettersDiffer DEF VFSReadFile, FreeDescriptor

(* Whatever is read is a file of the image, low memory or nothing.         *)
LEMMA AnyRead ==
    ASSUME ramfs \in Images, NEW d, NEW last
    PROVE  VFSReadFile(d, last) \in Contents \cup {Nothing, LowMemory}
<1> DEFINE filename == Tail(Text(d, last))
           entries == LLFSOpenFile(filename)
           Eq(k) == memcmpEq(Padded(ramfs[k].of), filename,
                             Min({strlen(filename), NameLength}))
<1>1. /\ Len(ramfs) \in Nat /\ DOMAIN ramfs = 1 .. Len(ramfs)
      /\ \A k \in 1 .. Len(ramfs) : ramfs[k] \in Contents
  BY ImageTyped
<1>2. entries = {e \in 1 .. Len(ramfs) : Eq(e) /\ \A k \in 1 .. e - 1 : ~Eq(k)}
  BY <1>1 DEF LLFSOpenFile
<1>3. VFSReadFile(d, last) = IF d.source # SOURCE THEN Nothing
                             ELSE IF entries = {} THEN LowMemory ELSE ramfs[Max(entries)]
  BY DEF VFSReadFile
<1> HIDE DEF entries, Eq
<1>4. ASSUME NEW e \in entries PROVE ramfs[Max(entries)] \in Contents
  <2>1. \A f \in entries : f = e
    <3> SUFFICES ASSUME NEW f \in entries PROVE f = e
      OBVIOUS
    <3>1. e \in Nat \ {0} /\ f \in Nat \ {0}
      BY <1>1, <1>2
    <3>2. ~(e \in 1 .. f - 1) /\ ~(f \in 1 .. e - 1)
      BY <1>2
    <3> QED
      BY <3>1, <3>2
  <2>2. entries = {e} /\ e \in 1 .. Len(ramfs) /\ e \in Int
    BY <1>1, <1>2, <2>1
  <2> QED
    BY <1>1, <2>2, MaxOfOne
<1> QED
  BY <1>3, <1>4

LEMMA RecordRead ==
    ASSUME ramfs \in Images, NEW i \in 1 .. Len(ramfs)
    PROVE  /\ VFSReadFile(Record(ramfs[i].of), NUL) \in Contents
           /\ Len(ramfs[i].of) <= NameLength - 2
                => VFSReadFile(Record(ramfs[i].of), NUL) = ramfs[i]
           /\ \A last : last # NUL => VFSReadFile(Record(ramfs[i].of), last) = LowMemory
<1> DEFINE record == Record(ramfs[i].of)
           found(last) == LLFSOpenFile(Tail(Text(record, last)))
<1>1. Len(ramfs) \in Nat /\ \A k \in 1 .. Len(ramfs) : ramfs[k] \in Contents
  BY ImageTyped
<1>2. record.source = SOURCE
  BY DEF Record
<1>3. PICK e \in 1 .. Len(ramfs) : /\ found(NUL) = {e}
                                   /\ Len(ramfs[i].of) <= NameLength - 2 => e = i
  BY LLFSFinds
<1>4. \A last : last # NUL => found(last) = {}
  BY LLFSFinds
<1>5. \A last : VFSReadFile(record, last)
                  = IF found(last) = {} THEN LowMemory ELSE ramfs[Max(found(last))]
  BY <1>2 DEF VFSReadFile
<1> HIDE DEF record, found
<1>6. Max(found(NUL)) = e
  BY <1>1, <1>3, MaxOfOne
<1>7. VFSReadFile(record, NUL) = ramfs[e]
  BY <1>3, <1>5, <1>6
<1>8. \A last : last # NUL => VFSReadFile(record, last) = LowMemory
  BY <1>4, <1>5
<1> QED
  BY <1>1, <1>3, <1>7, <1>8 DEF record

-----------------------------------------------------------------------------
(***************************************************************************)
(* The table: its descriptors are those of the first entries, in their     *)
(* order, and the rest of it is free.                                      *)
(***************************************************************************)
Table ==
    /\ ramfs \in Images /\ added \in 0 .. Len(ramfs)
    /\ VFSTotalEntries = IF added <= VFS_MAX_DESCRIPTORS THEN added ELSE VFS_MAX_DESCRIPTORS
    /\ VFSDescriptors = [i \in Slots |-> IF i < VFSTotalEntries THEN Record(ramfs[i + 1].of)
                                                                ELSE FreeDescriptor]
    /\ tail \in [Slots -> {NUL, HEAP}]

MatchingEntries(path) == {i \in 1 .. VFSTotalEntries : Matches(ramfs[i].of, path)}

LEMMA TableIs ==
    ASSUME Table
    PROVE  /\ Len(ramfs) \in Nat /\ DOMAIN ramfs = 1 .. Len(ramfs) /\ added \in Nat
           /\ VFS_MAX_DESCRIPTORS \in Nat /\ VFSTotalEntries \in Nat
           /\ VFSTotalEntries <= Len(ramfs) /\ VFSTotalEntries <= VFS_MAX_DESCRIPTORS
           /\ VFSTotalEntries <= added
           /\ \A i \in 1 .. VFSTotalEntries : i \in 1 .. Len(ramfs) /\ i - 1 \in Slots
           /\ \A i \in 1 .. Len(ramfs) : ramfs[i] \in Contents /\ ramfs[i].of \in Names
           /\ \A i \in Slots : i < VFSTotalEntries
                => i + 1 \in 1 .. VFSTotalEntries /\ VFSDescriptors[i] = Record(ramfs[i + 1].of)
           /\ \A i \in Slots : ~(i < VFSTotalEntries) => VFSDescriptors[i] = FreeDescriptor
<1>1. /\ Len(ramfs) \in Nat /\ DOMAIN ramfs = 1 .. Len(ramfs)
      /\ \A i \in 1 .. Len(ramfs) : ramfs[i] \in Contents /\ ramfs[i].of \in Names
  BY ImageTyped DEF Table
<1>2. added \in 0 .. Len(ramfs) /\ VFS_MAX_DESCRIPTORS \in Nat
  BY FilesAssumption DEF Table
<1>3. VFSTotalEntries = IF added <= VFS_MAX_DESCRIPTORS THEN added ELSE VFS_MAX_DESCRIPTORS
  BY DEF Table
<1>4. /\ VFSTotalEntries \in Nat /\ added \in Nat /\ VFSTotalEntries <= added
      /\ VFSTotalEntries <= Len(ramfs) /\ VFSTotalEntries <= VFS_MAX_DESCRIPTORS
  BY <1>1, <1>2, <1>3
<1>5. \A i \in 1 .. VFSTotalEntries : i \in 1 .. Len(ramfs) /\ i - 1 \in Slots
  BY <1>1, <1>2, <1>4 DEF Slots
<1>6. \A i \in Slots : i < VFSTotalEntries => i + 1 \in 1 .. VFSTotalEntries
  BY <1>2, <1>4 DEF Slots
<1>7. \A i \in Slots : VFSDescriptors[i] = IF i < VFSTotalEntries
                                           THEN Record(ramfs[i + 1].of) ELSE FreeDescriptor
  BY DEF Table
<1> QED
  BY <1>1, <1>2, <1>4, <1>5, <1>6, <1>7

LEMMA DescriptorsDiffer ==
    /\ \A name \in Names : /\ Record(name).path[1] = SLASH /\ Record(name).source = SOURCE
                           /\ Record(name).path[1] # NUL /\ Record(name) # FreeDescriptor
    /\ FreeDescriptor.path[1] = NUL
<1>1. \A name \in Names : Record(name).path[1] = SLASH /\ Record(name).source = SOURCE
  BY RecordPath
<1>2. FreeDescriptor.path[1] = NUL /\ FreeDescriptor.source = NUL
  <2>1. 1 \in 1 .. NameLength
    BY NamesTyped
  <2> QED
    BY <2>1 DEF FreeDescriptor, Zeros
<1>3. SLASH # NUL /\ SOURCE # NUL
  BY LettersDiffer
<1> QED
  BY <1>1, <1>2, <1>3

LEMMA FreeSlotIs ==
    ASSUME Table
    PROVE  FreeSlot = IF VFSTotalEntries < VFS_MAX_DESCRIPTORS THEN {VFSTotalEntries} ELSE {}
<1> DEFINE free(i) == VFSDescriptors[i].path[1] = NUL
<1>1. /\ VFS_MAX_DESCRIPTORS \in Nat /\ VFSTotalEntries \in Nat
      /\ VFSTotalEntries <= VFS_MAX_DESCRIPTORS
  BY TableIs
<1>2. \A i \in Slots : free(i) <=> ~(i < VFSTotalEntries)
  <2> SUFFICES ASSUME NEW i \in Slots PROVE free(i) <=> ~(i < VFSTotalEntries)
    OBVIOUS
  <2>1. CASE i < VFSTotalEntries
    <3>1. i + 1 \in 1 .. VFSTotalEntries /\ VFSDescriptors[i] = Record(ramfs[i + 1].of)
      BY <2>1, TableIs
    <3>2. ramfs[i + 1].of \in Names
      BY <3>1, TableIs
    <3> QED
      BY <2>1, <3>1, <3>2, DescriptorsDiffer
  <2>2. CASE ~(i < VFSTotalEntries)
    BY <2>2, TableIs, DescriptorsDiffer
  <2> QED
    BY <2>1, <2>2
<1>3. FreeSlot = {i \in Slots : free(i) /\ \A j \in 0 .. i - 1 : ~free(j)}
  BY DEF FreeSlot
<1> HIDE DEF free
<1>4. \A i \in Slots : i \in Nat /\ i < VFS_MAX_DESCRIPTORS /\ 0 .. i - 1 \subseteq Slots
  BY <1>1 DEF Slots
<1>5. VFSTotalEntries < VFS_MAX_DESCRIPTORS => VFSTotalEntries \in Slots
  BY <1>1 DEF Slots
<1>6. ASSUME NEW i \in Slots, free(i), \A j \in 0 .. i - 1 : ~free(j)
      PROVE  i = VFSTotalEntries
  <2>1. i \in Nat /\ i >= VFSTotalEntries
    BY <1>1, <1>2, <1>4, <1>6
  <2>2. ASSUME i > VFSTotalEntries PROVE FALSE
    <3>1. VFSTotalEntries \in 0 .. i - 1 /\ VFSTotalEntries \in Slots
      BY <1>1, <1>4, <2>1, <2>2
    <3>2. ~(VFSTotalEntries < VFSTotalEntries)
      BY <1>1
    <3> QED
      BY <1>2, <1>6, <3>1, <3>2
  <2> QED
    BY <1>1, <2>1, <2>2
<1>7. ASSUME VFSTotalEntries \in Slots
      PROVE  free(VFSTotalEntries) /\ \A j \in 0 .. VFSTotalEntries - 1 : ~free(j)
  <2>1. \A j \in 0 .. VFSTotalEntries - 1 : j \in Slots /\ j < VFSTotalEntries
    BY <1>1, <1>4, <1>7
  <2>2. ~(VFSTotalEntries < VFSTotalEntries)
    BY <1>1
  <2> QED
    BY <1>2, <1>7, <2>1, <2>2
<1>8. VFSTotalEntries \in Slots => VFSTotalEntries < VFS_MAX_DESCRIPTORS
  BY <1>4
<1> QED
  BY <1>3, <1>5, <1>6, <1>7, <1>8

LEMMA OpenFinds ==
    ASSUME Table, NEW path \in Paths
    PROVE  /\ MatchingEntries(path) = {} =>
                \/ VFSOpenFile(path) = {}
                \/ \E s \in Slots : /\ VFSOpenFile(path) = {s}
                                    /\ VFSDescriptors[s] = FreeDescriptor
           /\ MatchingEntries(path) # {} =>
                \E i \in MatchingEntries(path) :
                   /\ VFSOpenFile(path) = {i - 1} /\ i - 1 \in Slots
                   /\ \A j \in MatchingEntries(path) : i <= j
                   /\ VFSDescriptors[i - 1] = Record(ramfs[i].of)
<1> DEFINE found(i) == Found(i, path)
           M == MatchingEntries(path)
           total == VFSTotalEntries
<1>1. /\ VFS_MAX_DESCRIPTORS \in Nat /\ total \in Nat /\ total <= VFS_MAX_DESCRIPTORS
      /\ \A i \in 1 .. total : i - 1 \in Slots
      /\ \A i \in Slots : i \in Nat /\ 0 .. i - 1 \subseteq Slots
  BY TableIs DEF Slots
<1>2. ASSUME NEW i \in Slots, i < total PROVE found(i) <=> i + 1 \in M
  <2>1. /\ i + 1 \in 1 .. total /\ VFSDescriptors[i] = Record(ramfs[i + 1].of)
        /\ ramfs[i + 1].of \in Names
    BY <1>2, TableIs
  <2>2. found(i) <=> Matches(ramfs[i + 1].of, path)
    BY <2>1, FoundIffMatches DEF Found
  <2> QED
    BY <2>1, <2>2 DEF MatchingEntries
<1>3. ASSUME NEW i \in Slots, ~(i < total), found(i)
      PROVE  VFSDescriptors[i] = FreeDescriptor /\ Len(path) = 1
  BY <1>3, TableIs, FreeFound DEF Found
<1>4. M \in SUBSET (1 .. total)
  BY DEF MatchingEntries
<1>5. \A i \in M : i - 1 \in Slots /\ i - 1 < total /\ (i - 1) + 1 = i /\ i \in Nat
  BY <1>1, <1>4
<1>6. VFSOpenFile(path) = {i \in Slots : found(i) /\ \A j \in 0 .. i - 1 : ~found(j)}
  BY DEF VFSOpenFile
<1> HIDE DEF found, M, total
<1>7. \A i, j \in VFSOpenFile(path) : i = j
  <2> SUFFICES ASSUME NEW i \in VFSOpenFile(path), NEW j \in VFSOpenFile(path) PROVE i = j
    OBVIOUS
  <2>1. i \in Nat /\ j \in Nat /\ ~(i \in 0 .. j - 1) /\ ~(j \in 0 .. i - 1)
    BY <1>1, <1>6
  <2> QED
    BY <2>1
<1>8. ASSUME M = {}, NEW s \in VFSOpenFile(path)
      PROVE  VFSOpenFile(path) = {s} /\ s \in Slots /\ VFSDescriptors[s] = FreeDescriptor
  <2>1. s \in Slots /\ found(s)
    BY <1>6
  <2>2. ~(s < total)
    BY <1>2, <1>8, <2>1
  <2> QED
    BY <1>3, <1>7, <2>1, <2>2
<1>9. ASSUME M # {}
      PROVE  \E i \in M : /\ VFSOpenFile(path) = {i - 1} /\ i - 1 \in Slots
                          /\ \A j \in M : i <= j
                          /\ VFSDescriptors[i - 1] = Record(ramfs[i].of)
  <2>1. M \in SUBSET Nat
    BY <1>5
  <2>2. PICK i \in M : \A j \in M : i <= j
    BY <1>9, <2>1, MinOfNaturals
  <2>3. i - 1 \in Slots /\ i - 1 < total /\ (i - 1) + 1 = i /\ i \in Nat
    BY <1>5
  <2>4. found(i - 1)
    BY <1>2, <2>3
  <2>5. ASSUME NEW j \in 0 .. (i - 1) - 1, found(j) PROVE FALSE
    <3>1. j \in Slots /\ j < total /\ j + 1 < i
      BY <1>1, <2>3
    <3>2. j + 1 \in M
      BY <1>2, <2>5, <3>1
    <3>3. ~(i <= j + 1)
      BY <2>3, <3>1
    <3> QED
      BY <2>2, <3>2, <3>3
  <2>6. i - 1 \in VFSOpenFile(path)
    BY <1>6, <2>3, <2>4, <2>5
  <2>7. VFSDescriptors[i - 1] = Record(ramfs[i].of)
    <3>1. VFSDescriptors[i - 1] = Record(ramfs[(i - 1) + 1].of)
      BY <2>3, TableIs DEF total
    <3> QED
      BY <2>3, <3>1
  <2> QED
    BY <1>7, <2>2, <2>3, <2>6, <2>7
<1> QED
  BY <1>8, <1>9 DEF M

(* A name that a path matches leaves two spaces at the end of its entry.   *)
LEMMA MatchesShort ==
    ASSUME NEW name \in Names, NEW path \in Paths, Matches(name, path)
    PROVE  Len(name) <= NameLength - 2
<1> DEFINE size == Len(name)
           k == Len(path) - 2
<1>1. NameLength \in Nat /\ size \in Nat /\ Len(path) \in Nat
  BY NamesTyped
<1>2. k \in Int
  BY <1>1
<1>3. k <= NameLength - 3 /\ size \in {k, k + 1}
  BY DEF Matches
<1> HIDE DEF size, k
<1>4. size <= NameLength - 2
  BY <1>1, <1>2, <1>3
<1> QED
  BY <1>4 DEF size

(* What OPEN leaves for READ to find.                                      *)
LEMMA OpenReads ==
    ASSUME Table, NEW path \in Paths, MatchingEntries(path) # {}
    PROVE  LET slots == VFSOpenFile(path)
               opened == VFSDescriptors[Max(slots)]
           IN  /\ slots # {}
               /\ \E i \in MatchingEntries(path) :
                    /\ \A j \in MatchingEntries(path) : i <= j
                    /\ VFSReadFile(opened, NUL) = ramfs[i]
<1> DEFINE slots == VFSOpenFile(path)
           opened == VFSDescriptors[Max(slots)]
           M == MatchingEntries(path)
<1>1. \A s \in Slots : s \in Int
  BY DEF Slots
<1>2. ASSUME NEW s \in Slots, slots = {s} PROVE opened = VFSDescriptors[s]
  BY <1>1, <1>2, MaxOfOne
<1>3. \E i \in M : /\ slots = {i - 1} /\ i - 1 \in Slots
                   /\ \A j \in M : i <= j
                   /\ VFSDescriptors[i - 1] = Record(ramfs[i].of)
  BY OpenFinds
<1>4. ASSUME NEW i \in M PROVE VFSReadFile(Record(ramfs[i].of), NUL) = ramfs[i]
  <2>1. i \in 1 .. VFSTotalEntries /\ Matches(ramfs[i].of, path)
    BY DEF MatchingEntries
  <2>2. i \in 1 .. Len(ramfs) /\ ramfs[i].of \in Names /\ ramfs \in Images
    BY <2>1, TableIs DEF Table
  <2>3. Len(ramfs[i].of) <= NameLength - 2
    BY <2>1, <2>2, MatchesShort
  <2> QED
    BY <2>2, <2>3, RecordRead
<1> HIDE DEF slots, opened, M
<1>5. slots # {} /\ \E i \in M : /\ \A j \in M : i <= j
                                 /\ VFSReadFile(opened, NUL) = ramfs[i]
  BY <1>2, <1>3, <1>4
<1> QED
  BY <1>5 DEF opened, slots, M

(* What kernelMain makes of the first entry that the path matches.         *)
Started(started, path) ==
    \E i \in MatchingEntries(path) :
        /\ \A j \in MatchingEntries(path) : i <= j
        /\ IF started = Corrupt THEN ~ramfs[i].program \/ tail[i - 1] # NUL
                                ELSE started = ramfs[i]

LEMMA LoadIs ==
    ASSUME Table, NEW path \in Paths
    PROVE  /\ LoadELFExecutable(path) \in Contents \cup {Nothing, Corrupt}
           /\ IF LoadELFExecutable(path) = Nothing THEN MatchingEntries(path) = {}
              ELSE Started(LoadELFExecutable(path), path)
<1> DEFINE slots == VFSOpenFile(path)
           contents == VFSReadFile(VFSDescriptors[Max(slots)], tail[Max(slots)])
           load == LoadELFExecutable(path)
           M == MatchingEntries(path)
<1>1. load = IF slots = {} \/ contents = Nothing THEN Nothing
             ELSE IF contents.program THEN contents ELSE Corrupt
  BY DEF LoadELFExecutable
<1>2. ASSUME NEW s \in Slots, slots = {s}
      PROVE  contents = VFSReadFile(VFSDescriptors[s], tail[s])
  <2>1. s \in Int
    BY DEF Slots
  <2>2. Max(slots) = s
    BY <1>2, <2>1, MaxOfOne
  <2> QED
    BY <2>2
<1>3. M = {} => slots = {} \/ \E s \in Slots : slots = {s} /\ VFSDescriptors[s] = FreeDescriptor
  BY OpenFinds
<1>4. M # {} => \E i \in M : /\ slots = {i - 1} /\ i - 1 \in Slots
                             /\ \A j \in M : i <= j
                             /\ VFSDescriptors[i - 1] = Record(ramfs[i].of)
  BY OpenFinds
<1>5. Started(load, path) <=>
        \E i \in M : /\ \A j \in M : i <= j
                     /\ IF load = Corrupt THEN ~ramfs[i].program \/ tail[i - 1] # NUL
                                          ELSE load = ramfs[i]
  BY DEF Started
<1> HIDE DEF slots, contents, load
<1>6. CASE M = {}
  <2>1. slots = {} \/ contents = Nothing
    BY <1>2, <1>3, <1>6, FreeRead
  <2> QED
    BY <1>1, <1>6, <2>1 DEF load
<1>7. CASE M # {}
  <2>1. PICK i \in M : /\ slots = {i - 1} /\ i - 1 \in Slots
                       /\ \A j \in M : i <= j
                       /\ VFSDescriptors[i - 1] = Record(ramfs[i].of)
    BY <1>4, <1>7
  <2>2. i \in 1 .. VFSTotalEntries /\ Matches(ramfs[i].of, path)
    BY DEF MatchingEntries
  <2>3. i \in 1 .. Len(ramfs) /\ ramfs[i] \in Contents /\ ramfs[i].of \in Names /\ ramfs \in Images
    BY <2>2, TableIs DEF Table
  <2>4. Len(ramfs[i].of) <= NameLength - 2
    BY <2>2, <2>3, MatchesShort
  <2>5. contents = VFSReadFile(Record(ramfs[i].of), tail[i - 1])
    BY <1>2, <2>1
  <2>6. CASE tail[i - 1] = NUL
    <3>1. contents = ramfs[i]
      BY <2>3, <2>4, <2>5, <2>6, RecordRead
    <3>2. contents # Nothing /\ contents.program \in BOOLEAN
      BY <2>3, <3>1, NothingDiffers
    <3>3. load = IF ramfs[i].program THEN ramfs[i] ELSE Corrupt
      BY <1>1, <2>1, <3>1, <3>2
    <3>4. load # Nothing /\ load \in Contents \cup {Nothing, Corrupt}
      BY <2>3, <3>3, NothingDiffers
    <3>5. IF load = Corrupt THEN ~ramfs[i].program \/ tail[i - 1] # NUL ELSE load = ramfs[i]
      BY <3>3, NothingDiffers
    <3>6. Started(load, path)
      BY <1>5, <2>1, <3>5
    <3> QED
      BY <3>4, <3>6 DEF load
  <2>7. CASE tail[i - 1] # NUL
    <3>1. contents = LowMemory
      BY <2>3, <2>5, <2>7, RecordRead
    <3>2. load = Corrupt
      BY <1>1, <2>1, <3>1, NothingDiffers
    <3>3. Started(load, path)
      BY <1>5, <2>1, <2>7, <3>2
    <3> QED
      BY <3>2, <3>3, NothingDiffers DEF load
  <2> QED
    BY <2>6, <2>7
<1> QED
  BY <1>6, <1>7

-----------------------------------------------------------------------------
(***************************************************************************)
(* The inductive invariant: the table, what programs have read, and what   *)
(* was started, after all of the entries were added.                       *)
(***************************************************************************)
Opened == data \in Contents \cup {Nothing, LowMemory}

Start ==
    /\ moldInit \in Contents \cup {Nothing, Corrupt}
    /\ pc \in {"check", "add", "run", "panic", "halted"}
    /\ pc \in {"run", "panic"} => added = Len(ramfs)
    /\ pc = "panic" => MatchingEntries(InitPath) = {}
    /\ pc = "run" => Started(moldInit, InitPath)

Inv == Table /\ Opened /\ Start

LEMMA InitInv == Init => Inv
<1> SUFFICES ASSUME Init PROVE Inv
  OBVIOUS
<1>1. Table
  <2>1. ramfs \in Images /\ added = 0 /\ VFSTotalEntries = 0 /\ tail \in [Slots -> {NUL, HEAP}]
    BY DEF Init
  <2>2. Len(ramfs) \in Nat /\ VFS_MAX_DESCRIPTORS \in Nat /\ \A i \in Slots : i \in Nat
    BY <2>1, ImageTyped, FilesAssumption DEF Slots
  <2>3. \A i \in Slots : ~(i < VFSTotalEntries)
    BY <2>1, <2>2
  <2>4. VFSDescriptors = [i \in Slots |-> IF i < VFSTotalEntries THEN Record(ramfs[i + 1].of)
                                                                 ELSE FreeDescriptor]
    BY <2>3 DEF Init
  <2> QED
    BY <2>1, <2>2, <2>4 DEF Table
<1>2. Opened
  BY DEF Init, Opened
<1>3. Start
  BY DEF Init, Start
<1> QED
  BY <1>1, <1>2, <1>3 DEF Inv

(* What a turn of the loop does: it appends the entry, or leaves it.       *)
LEMMA AddFileAdds ==
    ASSUME Table, AddFile
    PROVE  /\ Table'
           /\ VFSTotalEntries' = IF VFSTotalEntries < VFS_MAX_DESCRIPTORS
                                 THEN VFSTotalEntries + 1 ELSE VFSTotalEntries
           /\ VFSTotalEntries < VFS_MAX_DESCRIPTORS => VFSTotalEntries = added
           /\ \A i \in 1 .. VFSTotalEntries : i \in 1 .. VFSTotalEntries'
<1> DEFINE n == VFSTotalEntries
           m == VFSTotalEntries'
<1>1. /\ n \in Nat /\ VFS_MAX_DESCRIPTORS \in Nat /\ added \in Nat /\ Len(ramfs) \in Nat
      /\ n <= VFS_MAX_DESCRIPTORS /\ added < Len(ramfs)
      /\ n = IF added <= VFS_MAX_DESCRIPTORS THEN added ELSE VFS_MAX_DESCRIPTORS
      /\ \A i \in Slots : i \in Nat /\ i < VFS_MAX_DESCRIPTORS
  <2>1. /\ n \in Nat /\ VFS_MAX_DESCRIPTORS \in Nat /\ added \in Nat /\ Len(ramfs) \in Nat
        /\ n <= VFS_MAX_DESCRIPTORS
    BY TableIs
  <2>2. added < Len(ramfs)
    BY DEF AddFile
  <2>3. n = IF added <= VFS_MAX_DESCRIPTORS THEN added ELSE VFS_MAX_DESCRIPTORS
    BY DEF Table
  <2>4. \A i \in Slots : i \in Nat /\ i < VFS_MAX_DESCRIPTORS
    BY <2>1 DEF Slots
  <2> QED
    BY <2>1, <2>2, <2>3, <2>4
<1>2. FreeSlot = IF n < VFS_MAX_DESCRIPTORS THEN {n} ELSE {}
  BY FreeSlotIs
<1>3. m = n + (IF FreeSlot = {} THEN 0 ELSE 1)
  BY DEF AddFile, Entries
<1>4. m = IF n < VFS_MAX_DESCRIPTORS THEN n + 1 ELSE n
  <2>1. CASE n < VFS_MAX_DESCRIPTORS
    BY <1>1, <1>2, <1>3, <2>1
  <2>2. CASE ~(n < VFS_MAX_DESCRIPTORS)
    BY <1>1, <1>2, <1>3, <2>2
  <2> QED
    BY <2>1, <2>2
<1>5. n < VFS_MAX_DESCRIPTORS => n = added
  BY <1>1
<1>6. /\ added' = added + 1 /\ ramfs' = ramfs /\ tail' = tail
      /\ VFSDescriptors' = [i \in Slots |-> IF i \in FreeSlot THEN Record(ramfs[added + 1].of)
                                            ELSE VFSDescriptors[i]]
  BY DEF AddFile, image, Record
<1>7. \A i \in Slots : VFSDescriptors[i] = IF i < n THEN Record(ramfs[i + 1].of)
                                                    ELSE FreeDescriptor
  BY DEF Table
<1>8. m = IF added' <= VFS_MAX_DESCRIPTORS THEN added' ELSE VFS_MAX_DESCRIPTORS
  BY <1>1, <1>4, <1>6
<1>9. \A i \in 1 .. n : i \in 1 .. m
  BY <1>1, <1>4
<1> HIDE DEF n, m
<1>10. ASSUME NEW i \in Slots
       PROVE  (IF i \in FreeSlot THEN Record(ramfs[added + 1].of) ELSE VFSDescriptors[i])
                = IF i < m THEN Record(ramfs[i + 1].of) ELSE FreeDescriptor
  <2>1. i \in Nat /\ i < VFS_MAX_DESCRIPTORS
    BY <1>1
  <2>2. CASE i < n
    <3>1. i \notin FreeSlot /\ i < m
      BY <1>1, <1>2, <1>4, <2>1, <2>2
    <3> QED
      BY <1>7, <2>2, <3>1
  <2>3. CASE i = n
    <3>1. i \in FreeSlot /\ i < m /\ i = added
      BY <1>1, <1>2, <1>4, <1>5, <2>1, <2>3
    <3> QED
      BY <3>1
  <2>4. CASE i > n
    <3>1. i \notin FreeSlot /\ ~(i < m) /\ ~(i < n)
      BY <1>1, <1>2, <1>4, <2>1, <2>4
    <3> QED
      BY <1>7, <3>1
  <2> QED
    BY <1>1, <2>1, <2>2, <2>3, <2>4
<1>11. VFSDescriptors' = [i \in Slots |-> IF i < m THEN Record(ramfs'[i + 1].of)
                                                   ELSE FreeDescriptor]
  BY <1>6, <1>10
<1>12. added' \in 0 .. Len(ramfs')
  BY <1>1, <1>6
<1>13. Table'
  BY <1>6, <1>8, <1>11, <1>12 DEF Table, m, Slots
<1> QED
  BY <1>4, <1>5, <1>9, <1>13 DEF n, m

LEMMA TableKept ==
    ASSUME Table, UNCHANGED <<image, table>>
    PROVE  /\ Table' /\ MatchingEntries(InitPath)' = MatchingEntries(InitPath)
           /\ Started(moldInit, InitPath) /\ moldInit' = moldInit => Started(moldInit, InitPath)'
<1>1. /\ ramfs' = ramfs /\ added' = added /\ VFSDescriptors' = VFSDescriptors
      /\ tail' = tail /\ VFSTotalEntries' = VFSTotalEntries
  BY DEF image, table
<1>2. Table'
  BY <1>1 DEF Table, Slots
<1>3. MatchingEntries(InitPath)' = MatchingEntries(InitPath)
  BY <1>1 DEF MatchingEntries
<1>4. Started(moldInit, InitPath) /\ moldInit' = moldInit => Started(moldInit, InitPath)'
  BY <1>1 DEF Started, MatchingEntries
<1> QED
  BY <1>2, <1>3, <1>4

LEMMA NextInv == ASSUME Inv, [Next]_vars PROVE Inv'
<1>0. Table /\ Opened /\ Start
  BY DEF Inv
<1>1. CASE CheckImage
  <2>1. UNCHANGED <<image, table>> /\ UNCHANGED <<moldInit, descriptor, data>>
    BY <1>1 DEF CheckImage, program
  <2>2. Table'
    BY <1>0, <2>1, TableKept
  <2>3. Opened'
    BY <1>0, <2>1 DEF Opened, image, table, Contents
  <2>4. Start'
    BY <1>0, <1>1, <2>1 DEF Start, CheckImage, Contents
  <2> QED
    BY <2>2, <2>3, <2>4 DEF Inv
<1>2. CASE AddFile
  <2>1. Table'
    BY <1>0, <1>2, AddFileAdds
  <2>2. UNCHANGED <<ramfs, pc, moldInit, descriptor, data>> /\ pc = "add"
    BY <1>2 DEF AddFile, image, program
  <2>3. Opened'
    BY <1>0, <2>2 DEF Opened, Contents
  <2>4. Start'
    BY <1>0, <2>2 DEF Start, Contents
  <2> QED
    BY <2>1, <2>3, <2>4 DEF Inv
<1>3. CASE RunInit
  <2>1. UNCHANGED <<image, table>> /\ UNCHANGED <<descriptor, data>>
    BY <1>3 DEF RunInit, program
  <2>2. Table' /\ MatchingEntries(InitPath)' = MatchingEntries(InitPath)
    BY <1>0, <2>1, TableKept
  <2>3. Opened'
    BY <1>0, <2>1 DEF Opened, image, table, Contents
  <2>4. /\ moldInit' = LoadELFExecutable(InitPath) /\ added = Len(ramfs)
        /\ pc' = IF moldInit' = Nothing THEN "panic" ELSE "run"
    BY <1>3 DEF RunInit
  <2>5. /\ moldInit' \in Contents \cup {Nothing, Corrupt}
        /\ IF moldInit' = Nothing THEN MatchingEntries(InitPath) = {}
           ELSE Started(moldInit', InitPath)
    BY <1>0, <2>4, LoadIs, FilesAssumption
  <2>6. Started(moldInit', InitPath) => Started(moldInit, InitPath)'
    BY <2>1 DEF Started, MatchingEntries, Matches, image, table
  <2>7. Start'
    BY <2>1, <2>2, <2>4, <2>5, <2>6 DEF Start, image, table, Contents
  <2> QED
    BY <2>2, <2>3, <2>7 DEF Inv
<1>4. CASE READ
  <2>1. /\ UNCHANGED <<image, table>> /\ UNCHANGED <<pc, moldInit, descriptor>>
        /\ data' = VFSReadFile(descriptor, NUL)
    BY <1>4 DEF READ
  <2>2. Table' /\ MatchingEntries(InitPath)' = MatchingEntries(InitPath)
    BY <1>0, <2>1, TableKept
  <2>3. data' \in Contents \cup {Nothing, LowMemory}
    BY <1>0, <2>1, AnyRead DEF Table
  <2>4. Opened'
    BY <1>0, <2>1, <2>3 DEF Opened, image, table, Contents
  <2>5. Start'
    BY <1>0, <2>1, <2>2, TableKept DEF Start, image, table, Contents
  <2> QED
    BY <2>2, <2>4, <2>5 DEF Inv
<1>5. ASSUME NEW path \in Paths, OPEN(path) PROVE Inv'
  <2>1. UNCHANGED <<image, table>> /\ UNCHANGED <<pc, moldInit, data>>
    BY <1>5 DEF OPEN
  <2>2. Table' /\ MatchingEntries(InitPath)' = MatchingEntries(InitPath)
    BY <1>0, <2>1, TableKept
  <2>3. Opened'
    BY <1>0, <2>1 DEF Opened, image, table, Contents
  <2>4. Start'
    BY <1>0, <2>1, <2>2, TableKept DEF Start, image, table, Contents
  <2> QED
    BY <2>2, <2>3, <2>4 DEF Inv
<1>6. CASE UNCHANGED vars
  <2>1. UNCHANGED <<image, table>> /\ UNCHANGED <<pc, moldInit, descriptor, data>>
    BY <1>6 DEF vars, program
  <2>2. Table' /\ MatchingEntries(InitPath)' = MatchingEntries(InitPath)
    BY <1>0, <2>1, TableKept
  <2>3. Opened'
    BY <1>0, <2>1 DEF Opened, image, table, Contents
  <2>4. Start'
    BY <1>0, <2>1, <2>2, TableKept DEF Start, image, table, Contents
  <2> QED
    BY <2>2, <2>3, <2>4 DEF Inv
<1> QED
  BY <1>1, <1>2, <1>3, <1>4, <1>5, <1>6 DEF Next

LEMMA Invariant == Spec => []Inv
BY InitInv, NextInv, PTL DEF Spec

-----------------------------------------------------------------------------
LEMMA InvTypeOK == ASSUME Inv PROVE TypeOK
<1> DEFINE taken == {i \in Slots : VFSDescriptors[i] # FreeDescriptor}
<1>1. Table /\ Opened /\ Start
  BY DEF Inv
<1>2. ASSUME NEW i \in Slots, i < VFSTotalEntries
      PROVE  /\ VFSDescriptors[i].path[1] = SLASH /\ VFSDescriptors[i].source = SOURCE
             /\ VFSDescriptors[i] # FreeDescriptor
  <2>1. i + 1 \in 1 .. VFSTotalEntries /\ VFSDescriptors[i] = Record(ramfs[i + 1].of)
    BY <1>1, <1>2, TableIs
  <2>2. ramfs[i + 1].of \in Names
    BY <1>1, <2>1, TableIs
  <2> QED
    BY <2>1, <2>2, DescriptorsDiffer
<1>3. \A i \in Slots : ~(i < VFSTotalEntries) => VFSDescriptors[i] = FreeDescriptor
  BY <1>1, TableIs
<1>4. /\ VFSTotalEntries \in Nat /\ VFS_MAX_DESCRIPTORS \in Nat
      /\ VFSTotalEntries <= VFS_MAX_DESCRIPTORS
  BY <1>1, TableIs
<1>5. taken = 0 .. VFSTotalEntries - 1
  <2>1. \A i : i \in Slots /\ i < VFSTotalEntries <=> i \in 0 .. VFSTotalEntries - 1
    BY <1>4 DEF Slots
  <2> QED
    BY <1>2, <1>3, <2>1
<1>6. Cardinality(taken) = VFSTotalEntries
  <2>1. Cardinality(0 .. VFSTotalEntries - 1) =
          IF 0 > VFSTotalEntries - 1 THEN 0 ELSE (VFSTotalEntries - 1) - 0 + 1
    BY <1>4, FS_Interval
  <2> DEFINE size == Cardinality(0 .. VFSTotalEntries - 1)
  <2>2. size = IF 0 > VFSTotalEntries - 1 THEN 0 ELSE ((VFSTotalEntries - 1) - 0) + 1
    BY <2>1
  <2> HIDE DEF size
  <2>3. size = VFSTotalEntries
    BY <1>4, <2>2
  <2> QED
    BY <1>5, <2>3 DEF size
<1>7. /\ moldInit \in Contents \cup {Nothing, Corrupt}
      /\ data \in Contents \cup {Nothing, LowMemory}
  BY <1>1 DEF Opened, Start
<1> QED
  BY <1>2, <1>3, <1>6, <1>7 DEF TypeOK

(* The descriptors that are taken are as many as VFSTotalEntries says, and *)
(* hold paths of files; nothing else is ever run than files of the image   *)
(* or the corrupt program, or read than files, low memory or nothing       *)
(* (VFSAdd, VFSReadFile).                                                  *)
THEOREM TypeCorrect == Spec => []TypeOK
<1>1. Inv => TypeOK
  BY InvTypeOK
<1> QED
  BY <1>1, Invariant, PTL

LEMMA InvStartsInit == ASSUME Inv PROVE StartsInit
<1> DEFINE found == {i \in 1 .. VFSTotalEntries : Matches(ramfs[i].of, InitPath)}
<1>1. Start
  BY DEF Inv
<1>2. found = MatchingEntries(InitPath)
  BY DEF MatchingEntries
<1>3. pc = "panic" => found = {}
  BY <1>1, <1>2 DEF Start
<1>4. pc = "run" => \E i \in found :
                      /\ \A j \in found : i <= j
                      /\ IF moldInit = Corrupt THEN ~ramfs[i].program \/ tail[i - 1] # NUL
                                               ELSE moldInit = ramfs[i]
  BY <1>1, <1>2 DEF Start, Started
<1> QED
  BY <1>3, <1>4 DEF StartsInit

(* kernelMain takes the first entry that the path of the first program     *)
(* matches, and panics only when there is none; it takes that entry for    *)
(* corrupt if it is no program or its descriptor is followed by a byte     *)
(* other than zero, and runs the corrupt program then (LoadELFExecutable   *)
(* through both lookups, kernel.cpp:80-85).                                *)
THEOREM StartsFirstMatch == Spec => []StartsInit
<1>1. Inv => StartsInit
  BY InvStartsInit
<1> QED
  BY <1>1, Invariant, PTL

-----------------------------------------------------------------------------
(***************************************************************************)
(* The directory that both lookups are together.                           *)
(***************************************************************************)
Shown == SubSeq(ramfs, 1, VFSTotalEntries)
Held == VFSReadFile(descriptor, NUL)

LEMMA ShownIs ==
    ASSUME Table
    PROVE  /\ DOMAIN Shown = 1 .. VFSTotalEntries
           /\ \A i \in 1 .. VFSTotalEntries : Shown[i] = ramfs[i]
<1> DEFINE n == VFSTotalEntries
<1>1. n \in Nat /\ \A i \in 1 .. n : ramfs[i] \in Contents
  BY TableIs
<1>2. Shown = SubSeq(ramfs, 1, n)
  BY DEF Shown
<1> HIDE DEF n
<1>3. /\ SubSeq(ramfs, 1, n) \in Seq(Contents)
      /\ Len(SubSeq(ramfs, 1, n)) = IF 1 <= n THEN (n - 1) + 1 ELSE 0
      /\ \A i \in 1 .. (n - 1) + 1 : SubSeq(ramfs, 1, n)[i] = ramfs[(1 + i) - 1]
  BY <1>1, SubSeqProperties
<1>4. DOMAIN Shown = 1 .. n
  BY <1>1, <1>2, <1>3
<1>5. ASSUME NEW i \in 1 .. n PROVE Shown[i] = ramfs[i]
  <2>1. i \in 1 .. (n - 1) + 1 /\ (1 + i) - 1 = i
    BY <1>1
  <2> QED
    BY <1>2, <1>3, <2>1
<1> QED
  BY <1>4, <1>5 DEF n

LEMMA LookupIs ==
    ASSUME Table, NEW path \in Paths
    PROVE  /\ MatchingEntries(path) = {}
                => D!Lookup(path) = Contents \cup {Nothing, LowMemory}
           /\ \A i \in MatchingEntries(path) :
                (\A j \in MatchingEntries(path) : i <= j) => D!Lookup(path) = {ramfs[i]}
<1> DEFINE M == MatchingEntries(path)
           found == {i \in DOMAIN Shown : Matches(Shown[i].of, path)}
<1>1. found = M
  BY ShownIs DEF MatchingEntries
<1>2. D!Lookup(path) = IF found = {} THEN Contents \cup {Nothing, LowMemory}
                                     ELSE {Shown[Min(found)]}
  BY DEF D!Lookup, Shown, found, D!Min, Min
<1>3. M \subseteq 1 .. VFSTotalEntries
  BY DEF MatchingEntries
<1> HIDE DEF M, found
<1>4. ASSUME NEW i \in M, \A j \in M : i <= j PROVE D!Lookup(path) = {ramfs[i]}
  <2>1. M \in SUBSET Int
    BY <1>3
  <2>2. Min(M) = i
    BY <1>4, <2>1, MinIs
  <2>3. Shown[i] = ramfs[i]
    BY <1>3, <1>4, ShownIs
  <2> QED
    BY <1>1, <1>2, <1>4, <2>2, <2>3
<1>5. M = {} => D!Lookup(path) = Contents \cup {Nothing, LowMemory}
  BY <1>1, <1>2
<1> QED
  BY <1>4, <1>5 DEF M

LEMMA ShownGrows ==
    ASSUME Table, AddFile
    PROVE  \/ UNCHANGED Shown
           \/ /\ ramfs[added + 1] \in Contents
              /\ Shown' = Append(Shown, ramfs[added + 1])
<1> DEFINE n == VFSTotalEntries
           m == VFSTotalEntries'
<1>1. /\ n \in Nat /\ added \in Nat /\ Len(ramfs) \in Nat
      /\ \A i \in 1 .. Len(ramfs) : ramfs[i] \in Contents
  BY TableIs
<1>2. added < Len(ramfs) /\ ramfs' = ramfs
  BY DEF AddFile, image
<1>3. (m = n + 1 /\ n = added) \/ m = n
  BY AddFileAdds
<1>4. Shown = SubSeq(ramfs, 1, n) /\ Shown' = SubSeq(ramfs, 1, m)
  BY <1>2 DEF Shown
<1>5. ramfs \in Seq(Contents)
  BY ImageTyped DEF Table
<1> HIDE DEF n, m
<1>6. CASE m = n
  BY <1>4, <1>6
<1>7. CASE m = n + 1 /\ n = added
  <2> DEFINE s == SubSeq(ramfs, 1, n)
             t == SubSeq(ramfs, 1, m)
             c == ramfs[added + 1]
             u == Append(s, c)
  <2>1. c \in Contents
    BY <1>1, <1>2
  <2>2. /\ s \in Seq(Contents) /\ Len(s) = n
        /\ \A i \in 1 .. n : s[i] = ramfs[i]
    <3>1. \A i \in 1 .. n : ramfs[i] \in Contents
      BY <1>1, <1>2, <1>7
    <3>2. /\ s \in Seq(Contents) /\ Len(s) = IF 1 <= n THEN (n - 1) + 1 ELSE 0
          /\ \A i \in 1 .. (n - 1) + 1 : s[i] = ramfs[(1 + i) - 1]
      BY <1>1, <3>1, SubSeqProperties
    <3> HIDE DEF s
    <3>3. Len(s) = n
      BY <1>1, <3>2
    <3>4. \A i \in 1 .. n : i \in 1 .. (n - 1) + 1 /\ (1 + i) - 1 = i
      BY <1>1
    <3> QED
      BY <3>2, <3>3, <3>4
  <2>3. /\ t \in Seq(Contents) /\ Len(t) = m
        /\ \A i \in 1 .. m : t[i] = ramfs[i]
    <3>1. m \in Nat /\ \A i \in 1 .. m : ramfs[i] \in Contents
      BY <1>1, <1>2, <1>7
    <3>2. /\ t \in Seq(Contents) /\ Len(t) = IF 1 <= m THEN (m - 1) + 1 ELSE 0
          /\ \A i \in 1 .. (m - 1) + 1 : t[i] = ramfs[(1 + i) - 1]
      BY <3>1, SubSeqProperties
    <3> HIDE DEF t
    <3>3. Len(t) = m
      BY <3>1, <3>2
    <3>4. \A i \in 1 .. m : i \in 1 .. (m - 1) + 1 /\ (1 + i) - 1 = i
      BY <3>1
    <3> QED
      BY <3>2, <3>3, <3>4
  <2> HIDE DEF s, t, c
  <2>4. /\ u \in Seq(Contents) /\ Len(u) = Len(s) + 1
        /\ \A i \in 1 .. Len(s) : u[i] = s[i]
        /\ u[Len(s) + 1] = c
    BY <2>1, <2>2, AppendProperties
  <2> HIDE DEF u
  <2>5. Len(t) = Len(u)
    BY <1>7, <2>2, <2>3, <2>4
  <2>6. ASSUME NEW i \in 1 .. Len(t) PROVE t[i] = u[i]
    <3>1. i \in 1 .. n \/ i = n + 1
      BY <1>1, <1>7, <2>3
    <3>2. t[i] = ramfs[i]
      BY <2>3
    <3>3. CASE i \in 1 .. n
      BY <2>2, <2>4, <3>2, <3>3
    <3>4. CASE i = n + 1
      BY <1>7, <2>2, <2>4, <3>2, <3>4 DEF c
    <3> QED
      BY <3>1, <3>3, <3>4
  <2>7. t = u
    BY <2>3, <2>4, <2>5, <2>6, SeqEqual
  <2> QED
    BY <1>4, <2>1, <2>7 DEF s, t, c, u
<1> QED
  BY <1>3, <1>6, <1>7

LEMMA HeldNext ==
    ASSUME UNCHANGED ramfs
    PROVE  /\ Held' = VFSReadFile(descriptor', NUL)
           /\ UNCHANGED descriptor => UNCHANGED Held
           /\ UNCHANGED VFSTotalEntries => UNCHANGED Shown
BY DEF Held, VFSReadFile, LLFSOpenFile, Shown

LEMMA OpensAbstract == ASSUME Table, NEW path \in Paths, OPEN(path) PROVE D!Open(path)
<1> DEFINE M == MatchingEntries(path)
<1>1. /\ UNCHANGED <<ramfs, VFSTotalEntries, data>> /\ asked' = path
      /\ LET slots == VFSOpenFile(path)
         IN  descriptor' \in IF slots = {} THEN AtNull ELSE {VFSDescriptors[Max(slots)]}
  BY DEF OPEN, image, table
<1>2. Held' = VFSReadFile(descriptor', NUL) /\ UNCHANGED Shown
  BY <1>1, HeldNext
<1>3. Held' \in D!Lookup(path)
  <2>1. CASE M = {}
    <3>1. VFSReadFile(descriptor', NUL) \in Contents \cup {Nothing, LowMemory}
      BY AnyRead DEF Table
    <3> QED
      BY <1>2, <2>1, <3>1, LookupIs
  <2>2. CASE M # {}
    <3>1. PICK i \in M : /\ \A j \in M : i <= j
                         /\ VFSReadFile(descriptor', NUL) = ramfs[i]
      BY <1>1, <2>2, OpenReads
    <3> QED
      BY <1>2, <3>1, LookupIs
  <2> QED
    BY <2>1, <2>2
<1> QED
  BY <1>1, <1>2, <1>3 DEF D!Open, Held, Shown

(* Both lookups together are those of a directory: what OPEN finds among   *)
(* the descriptors, READ finds again among the entries of the image,       *)
(* though the two compare differently (VFSOpenFile, LLFSOpenFile).         *)
THEOREM IsDirectory == Spec => ImplementsDirectory
<1>1. Init => D!Init
  <2> SUFFICES ASSUME Init PROVE D!Init
    OBVIOUS
  <2>1. VFSTotalEntries = 0 /\ descriptor = FreeDescriptor /\ data = Nothing /\ asked = <<>>
    BY DEF Init
  <2>2. Shown = <<>>
    BY <2>1, SubSeqEmpty DEF Shown
  <2>3. Held = Nothing
    BY <2>1, FreeRead DEF Held
  <2> QED
    BY <2>1, <2>2, <2>3 DEF D!Init, Shown, Held
<1>2. ASSUME Inv, [Next]_vars PROVE [D!Next]_(D!vars)
  <2>0. Table
    BY <1>2 DEF Inv
  <2>1. ASSUME UNCHANGED <<ramfs, VFSTotalEntries, asked, descriptor, data>>
        PROVE  UNCHANGED D!vars
    BY <2>1, HeldNext DEF D!vars, Held, Shown
  <2>2. CASE CheckImage
    BY <2>1, <2>2 DEF CheckImage, image, table, program
  <2>3. CASE AddFile
    <3>1. UNCHANGED <<ramfs, asked, descriptor, data>>
      BY <2>3 DEF AddFile, image, program
    <3>2. UNCHANGED Held
      BY <3>1, HeldNext
    <3>3. CASE UNCHANGED Shown
      BY <3>1, <3>2, <3>3 DEF D!vars, Held, Shown
    <3>4. CASE /\ ramfs[added + 1] \in Contents
               /\ Shown' = Append(Shown, ramfs[added + 1])
      <4>1. D!Add(ramfs[added + 1])
        BY <3>1, <3>2, <3>4 DEF D!Add, Held, Shown
      <4> QED
        BY <3>4, <4>1 DEF D!Next
    <3> QED
      BY <2>0, <2>3, <3>3, <3>4, ShownGrows
  <2>4. CASE RunInit
    BY <2>1, <2>4 DEF RunInit, image, table, program
  <2>5. CASE READ
    <3>1. UNCHANGED <<ramfs, VFSTotalEntries, asked, descriptor>> /\ data' = Held
      BY <2>5 DEF READ, image, table, Held
    <3>2. UNCHANGED Held /\ UNCHANGED Shown
      BY <3>1, HeldNext
    <3>3. D!Read
      BY <3>1, <3>2 DEF D!Read, Held, Shown
    <3> QED
      BY <3>3 DEF D!Next
  <2>6. ASSUME NEW path \in Paths, OPEN(path) PROVE D!Next
    <3>1. D!Open(path)
      BY <2>0, <2>6, OpensAbstract
    <3> QED
      BY <3>1 DEF D!Next
  <2>7. CASE UNCHANGED vars
    BY <2>1, <2>7 DEF vars, image, table, program
  <2> QED
    BY <1>2, <2>2, <2>3, <2>4, <2>5, <2>6, <2>7 DEF Next
<1> QED
  BY <1>1, <1>2, Invariant, PTL DEF Spec, ImplementsDirectory, D!Spec

-----------------------------------------------------------------------------
LEMMA NameMatchesItself ==
    ASSUME NEW name \in Names, NEW path \in Paths, path = <<SLASH>> \o name,
           Len(name) <= NameLength - 2
    PROVE  Matches(name, path)
<1> DEFINE size == Len(name)
           long == Len(path)
           first == <<SLASH>>
<1>1. /\ NameLength \in Nat /\ size \in 1 .. NameLength /\ size <= NameLength - 2
      /\ name \in Seq(Characters)
  BY NamesTyped
<1>2. first \in Seq(Letters) /\ Len(first) = 1 /\ first[1] = SLASH /\ path = first \o name
  BY LettersDiffer
<1>3. name \in Seq(Letters)
  <2>1. Characters \subseteq Letters
    BY LettersDiffer
  <2> QED
    BY <1>1, <2>1, SeqMonotonic
<1> HIDE DEF first
<1>4. /\ first \o name \in Seq(Letters) /\ Len(first \o name) = Len(first) + Len(name)
      /\ \A i \in 1 .. Len(first) + Len(name) :
           (first \o name)[i] = IF i <= Len(first) THEN first[i] ELSE name[i - Len(first)]
  BY <1>2, <1>3, ConcatProperties
<1>5. /\ long = 1 + size
      /\ \A i \in 1 .. 1 + size : path[i] = IF i <= 1 THEN first[i] ELSE name[i - 1]
  BY <1>2, <1>4
<1>6. Matches(name, path) <=>
        /\ long - 2 >= 0 /\ long - 2 <= NameLength - 3 /\ path[1] = SLASH
        /\ size \in {long - 2, (long - 2) + 1}
        /\ \A i \in 1 .. long - 2 : path[i + 1] = name[i]
  BY DEF Matches
<1> HIDE DEF size, long
<1>7. long - 2 >= 0 /\ long - 2 <= NameLength - 3 /\ size = (long - 2) + 1
  BY <1>1, <1>5
<1>8. path[1] = SLASH
  BY <1>1, <1>2, <1>5
<1>9. ASSUME NEW i \in 1 .. long - 2 PROVE path[i + 1] = name[i]
  <2>1. i + 1 \in 1 .. 1 + size /\ ~(i + 1 <= 1) /\ (i + 1) - 1 = i
    BY <1>1, <1>5
  <2> QED
    BY <1>5, <2>1
<1> QED
  BY <1>6, <1>7, <1>8, <1>9

LEMMA OpensNamed ==
    ASSUME Inv, NEW path \in Paths, OPEN(path), NEW i \in DOMAIN ramfs,
           path = <<SLASH>> \o ramfs[i].of, Alone(i)
    PROVE  VFSReadFile(descriptor', NUL) = ramfs[i]
<1> DEFINE M == MatchingEntries(path)
<1>1. Table /\ Start
  BY DEF Inv
<1>2. /\ Len(ramfs) \in Nat /\ VFS_MAX_DESCRIPTORS \in Nat /\ i \in 1 .. Len(ramfs)
      /\ ramfs[i].of \in Names /\ VFSTotalEntries \in Nat
  BY <1>1, TableIs
<1>3. /\ i <= VFS_MAX_DESCRIPTORS /\ Len(ramfs[i].of) <= NameLength - 2
      /\ \A j \in 1 .. i - 1 : ~Matches(ramfs[j].of, path)
  BY DEF Alone
<1>4. i \in 1 .. VFSTotalEntries
  <2>1. added = Len(ramfs)
    BY <1>1 DEF OPEN, Start
  <2>2. VFSTotalEntries = IF added <= VFS_MAX_DESCRIPTORS THEN added ELSE VFS_MAX_DESCRIPTORS
    BY <1>1 DEF Table
  <2> DEFINE size == Len(ramfs)
  <2>3. /\ size \in Nat /\ i \in 1 .. size /\ i <= VFS_MAX_DESCRIPTORS
        /\ VFSTotalEntries = IF size <= VFS_MAX_DESCRIPTORS THEN size ELSE VFS_MAX_DESCRIPTORS
    BY <1>2, <1>3, <2>1, <2>2
  <2> HIDE DEF size
  <2> QED
    BY <1>2, <2>3
<1>5. i \in M
  BY <1>2, <1>3, <1>4, NameMatchesItself DEF MatchingEntries
<1>6. \A j \in M : j \in 1 .. VFSTotalEntries /\ ~(j \in 1 .. i - 1)
  BY <1>3 DEF MatchingEntries
<1>7. LET slots == VFSOpenFile(path)
      IN  descriptor' \in IF slots = {} THEN AtNull ELSE {VFSDescriptors[Max(slots)]}
  BY DEF OPEN
<1>8. PICK e \in M : (\A j \in M : e <= j) /\ VFSReadFile(descriptor', NUL) = ramfs[e]
  BY <1>1, <1>5, <1>7, OpenReads
<1> HIDE DEF M
<1>9. e = i
  BY <1>2, <1>5, <1>6, <1>8
<1> QED
  BY <1>8, <1>9

(* A program that opens a file by its name reads that file, if a           *)
(* descriptor was left for it, its name leaves two spaces, and no file     *)
(* before it matches the path as well (SYSCALL_OPEN, then SYSCALL_READ).   *)
THEOREM OpensByName == Spec => OpensNamedFile
<1> DEFINE Opens ==
             \A path \in Paths : OPEN(path) =>
               \A i \in DOMAIN ramfs : path = <<SLASH>> \o ramfs[i].of /\ Alone(i)
                 => VFSReadFile(descriptor', NUL) = ramfs[i]
<1>1. ASSUME Inv PROVE Opens
  BY <1>1, OpensNamed
<1>2. OpensNamedFile <=> [][Opens]_vars
  BY DEF OpensNamedFile
<1> HIDE DEF Opens
<1> QED
  BY <1>1, <1>2, Invariant, PTL
=============================================================================
