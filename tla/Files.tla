------------------------------- MODULE Files -------------------------------
(***************************************************************************)
(* The files of the ram image (kernel/src/filesystem), from the loader's   *)
(* image to a program's READ: kernelMain enters the names of the image     *)
(* into the descriptors of the VFS, loads the first program by its path,   *)
(* and programs OPEN and READ.  A path is looked up twice, among the       *)
(* descriptors and among the entries of the image, with comparisons that   *)
(* differ.  Contents are what the packager put there; what is kept of them *)
(* is whether they are a program that CheckELF accepts.                    *)
(***************************************************************************)
EXTENDS Integers, Sequences, FiniteSetsExt

CONSTANTS
    NameLength,         \* of Filename and of path: 368 in the code
    VFS_MAX_DESCRIPTORS,    \* 0x19F in the code
    Names,              \* of files: sequences of characters
    Paths,              \* that programs ask for
    InitPath,           \* "/minit.melf" in the code
    AtNull,             \* descriptors that the bytes at address 0 may make
    MaxFiles            \* a bound: files of an image

SPACE == " "
SLASH == "/"
NUL == "NUL"
SOURCE == "SOH"         \* VFS_SOURCE_RAMFS as a character
HEAP == "heap"          \* a byte that the heap's last user has left

(* Characters of names and paths; a space in a name is not told from the   *)
(* padding.                                                                *)
Characters == STRING \ {SPACE, NUL, SOURCE}

ASSUME FilesAssumption ==
    /\ NameLength \in Nat /\ NameLength > 2
    /\ VFS_MAX_DESCRIPTORS \in Nat \ {0} /\ MaxFiles \in Nat
    /\ \A n \in Names : n \in Seq(Characters) /\ Len(n) \in 1 .. NameLength
    /\ \A p \in Paths : p \in Seq(Characters) /\ Len(p) \in 1 .. NameLength
    /\ InitPath \in Paths
    /\ AtNull \subseteq [path : [1 .. NameLength -> STRING], source : STRING]

Contents == [of : Names, program : BOOLEAN]

(* Not contents of a file: null, what stands behind address 0, and what    *)
(* LoadELFExecutable makes of a file that is corrupt.                      *)
Nothing == [of |-> <<>>, program |-> FALSE]
LowMemory == [of |-> <<"low">>, program |-> FALSE]
Corrupt == [of |-> <<"2">>, program |-> FALSE]

(* An image names each of its files once, padded with spaces.              *)
Images == {files \in UNION {[1 .. k -> Contents] : k \in 0 .. MaxFiles} :
             \A i, j \in DOMAIN files : files[i].of = files[j].of => i = j}

Padded(name) == [i \in 1 .. NameLength |-> IF i <= Len(name) THEN name[i] ELSE SPACE]

VARIABLES
    checks,             \* binfo->RamFS is there and LLFSCheck accepts it
    ramfs,              \* the entries of the image
    pc,                 \* where kernelMain is
    added,              \* how many entries its loop has passed
    VFSDescriptors,
    tail,               \* of each descriptor: what follows it on the heap
    VFSTotalEntries,
    moldInit,           \* what is run: contents, or the corrupt program at 2
    asked,              \* history: the path it has asked for
    descriptor,         \* the program's copy of the one it has opened
    data                \* what it has read

image == <<checks, ramfs>>
table == <<added, VFSDescriptors, tail, VFSTotalEntries>>
program == <<asked, descriptor, data>>
vars == <<image, pc, table, moldInit, program>>

Slots == 0 .. VFS_MAX_DESCRIPTORS - 1
Zeros == [i \in 1 .. NameLength |-> NUL]
FreeDescriptor == [path |-> Zeros, source |-> NUL]

(* VFSInit clears the descriptors, not the rest of their segments.         *)
Init ==
    /\ checks \in BOOLEAN /\ ramfs \in Images
    /\ pc = "check" /\ added = 0
    /\ VFSDescriptors = [i \in Slots |-> FreeDescriptor]
    /\ tail \in [Slots -> {NUL, HEAP}]
    /\ VFSTotalEntries = 0
    /\ moldInit = Nothing
    /\ asked = <<>> /\ descriptor = FreeDescriptor /\ data = Nothing

-----------------------------------------------------------------------------
(***************************************************************************)
(* Strings and their comparison.  A string is a sequence that holds a NUL. *)
(***************************************************************************)
At(string, index) == string[index + 1]

(* strlen: the index of the last character.                                *)
strlen(string) ==
    LET end == Min({i \in DOMAIN string : string[i] = NUL})
    IN  IF end = 1 THEN 0 ELSE end - 2

memcmpEq(a, b, n) == \A i \in 0 .. n - 1 : At(a, i) = At(b, i)

Terminated(path) == path \o <<NUL, NUL>>

(* A descriptor as a string, which runs on behind the path.                *)
Text(d, last) == d.path \o <<d.source, last, NUL>>

VFSPathEqPrefix(path, path2) ==
    memcmpEq(path, path2, Min({strlen(path), strlen(path2)}))
VFSPathEq(path, path2) ==
    LET lenA == strlen(path)
        lenB == strlen(path2)
        next == IF lenA > lenB THEN At(path, lenB + 1) ELSE At(path2, lenA + 1)
    IN  memcmpEq(path, path2, Min({lenA, lenB})) /\ next \in {SPACE, NUL}

Found(i, path) == VFSPathEq(Text(VFSDescriptors[i], tail[i]), Terminated(path))

(* VFSOpenFile: the slot of the first descriptor that matches, if any.     *)
VFSOpenFileLast(path) ==
    {i \in Slots : Found(i, path) /\ \A j \in Slots : j > i => ~Found(j, path)}
VFSOpenFile(path) ==
    {i \in Slots : Found(i, path) /\ \A j \in 0 .. i - 1 : ~Found(j, path)}

(* LLFSOpenFile: an entry is compared over the length of the name asked    *)
(* for, which is the text of a descriptor less its first character.        *)
LLFSOpenFile(filename) ==
    {e \in DOMAIN ramfs :
        LET Eq(k) == memcmpEq(Padded(ramfs[k].of), filename,
                              Min({strlen(filename), NameLength}))
        IN  Eq(e) /\ \A k \in 1 .. e - 1 : ~Eq(k)}

(* VFSReadFile of a descriptor, in which LLFSReadFile adds to null.        *)
VFSReadFile(d, last) ==
    IF d.source # SOURCE THEN Nothing
    ELSE LET entries == LLFSOpenFile(Tail(Text(d, last)))
         IN  IF entries = {} THEN LowMemory ELSE ramfs[Max(entries)]

-----------------------------------------------------------------------------
(***************************************************************************)
(* kernelMain.                                                             *)
(***************************************************************************)
CheckImage ==
    /\ pc = "check"
    /\ pc' = IF checks THEN "add" ELSE "halted"
    /\ UNCHANGED <<image, table, moldInit, program>>

FreeSlotLast ==
    {i \in Slots : VFSDescriptors[i].path[1] = NUL
                  /\ \A j \in Slots : j > i => VFSDescriptors[j].path[1] # NUL}
FreeSlot ==
    {i \in Slots : VFSDescriptors[i].path[1] = NUL
                  /\ \A j \in 0 .. i - 1 : VFSDescriptors[j].path[1] # NUL}

EntriesCountedFirst == VFSTotalEntries + 1
Entries == VFSTotalEntries + (IF FreeSlot = {} THEN 0 ELSE 1)

(* One turn of the loop over the entries: VFSAdd cuts the last character   *)
(* of the name off, and drops the file when no descriptor is free.         *)
AddFile ==
    /\ pc = "add" /\ added < Len(ramfs)
    /\ added' = added + 1
    /\ LET name == Padded(ramfs[added + 1].of)
           new == [path |-> <<SLASH>> \o SubSeq(name, 1, NameLength - 1), source |-> SOURCE]
       IN  /\ VFSDescriptors' = [i \in Slots |-> IF i \in FreeSlot THEN new
                                                                  ELSE VFSDescriptors[i]]
           /\ VFSTotalEntries' = Entries
    /\ UNCHANGED <<image, pc, tail, moldInit, program>>

(* LoadELFExecutable answers null, 2 or the entry point; kernelMain tests  *)
(* for null, panics then, and runs the rest.  Low memory holds no ELF.     *)
LoadELFExecutable(path) ==
    LET slots == VFSOpenFile(path)
        slot == Max(slots)
        contents == VFSReadFile(VFSDescriptors[slot], tail[slot])
    IN  IF slots = {} \/ contents = Nothing THEN Nothing
        ELSE IF contents.program THEN contents ELSE Corrupt

RunInit ==
    /\ pc = "add" /\ added = Len(ramfs)
    /\ moldInit' = LoadELFExecutable(InitPath)
    /\ pc' = IF moldInit' = Nothing THEN "panic" ELSE "run"
    /\ UNCHANGED <<image, table, program>>

(***************************************************************************)
(* SYSCALL_OPEN copies a descriptor into a page of zeros: from null, and   *)
(* so whatever stands at address 0, when there is none.                    *)
(***************************************************************************)
OPEN(path) ==
    /\ pc = "run"
    /\ asked' = path
    /\ LET slots == VFSOpenFile(path)
       IN  descriptor' \in IF slots = {} THEN AtNull
                                         ELSE {VFSDescriptors[Max(slots)]}
    /\ UNCHANGED <<image, pc, table, moldInit, data>>

READ ==
    /\ pc = "run"
    /\ data' = VFSReadFile(descriptor, NUL)
    /\ UNCHANGED <<image, pc, table, moldInit, asked, descriptor>>

Next == CheckImage \/ AddFile \/ RunInit \/ READ \/ \E path \in Paths : OPEN(path)

Spec == Init /\ [][Next]_vars

-----------------------------------------------------------------------------
(* The types: descriptors are taken in the order of the entries.           *)
TypeOK ==
    /\ \A i \in Slots : \/ VFSDescriptors[i] = FreeDescriptor
                        \/ /\ VFSDescriptors[i].path[1] = SLASH
                           /\ VFSDescriptors[i].source = SOURCE
    /\ VFSTotalEntries = Cardinality({i \in Slots : VFSDescriptors[i] # FreeDescriptor})
    /\ moldInit \in Contents \cup {Nothing, Corrupt}
    /\ data \in Contents \cup {Nothing, LowMemory}

(* What a path opens: a file of the name, or one whose name differs from   *)
(* it in the last character, or lacks it.  A name that leaves no space at  *)
(* the end of the path is not found.                                       *)
Matches(name, path) ==
    LET k == Len(path) - 2      \* characters compared
    IN  /\ k >= 0 /\ k <= NameLength - 3 /\ path[1] = SLASH
        /\ Len(name) \in {k, k + 1}
        /\ \A i \in 1 .. k : path[i + 1] = name[i]

D == INSTANCE Directory WITH
       files <- SubSeq(ramfs, 1, VFSTotalEntries),
       open <- VFSReadFile(descriptor, NUL),
       Unpromised <- Contents \cup {Nothing, LowMemory}

(* Both lookups together are those of a directory: what OPEN finds among   *)
(* the descriptors, READ finds again among the entries of the image.  Only *)
(* of a path that no file matches there is no telling what it opens: any   *)
(* file of the image, low memory or nothing.                               *)
ImplementsDirectory == D!Spec

(* A program that opens a file of the image by its name reads that file,   *)
(* if a descriptor was left for it, its name leaves room for a space, and  *)
(* no file before it has a name that differs in the last character only or *)
(* is the same without it.                                                 *)
Alone(i) ==
    /\ i <= VFS_MAX_DESCRIPTORS /\ Len(ramfs[i].of) <= NameLength - 2
    /\ \A j \in 1 .. i - 1 : ~Matches(ramfs[j].of, <<SLASH>> \o ramfs[i].of)

OpensNamedFile ==
    [][\A path \in Paths : OPEN(path) =>
         \A i \in DOMAIN ramfs :
            path = <<SLASH>> \o ramfs[i].of /\ Alone(i)
                => VFSReadFile(descriptor', NUL) = ramfs[i]]_vars

(* Of the files in the table kernelMain takes the first that its path      *)
(* matches, and none only if there is none.  It takes that file for        *)
(* corrupt if it is no program, and also if the byte behind its descriptor *)
(* is not zero, for then no entry of the image is found.  What it does     *)
(* with a file it takes for corrupt is PanicsWhenCorrupt's matter.         *)
StartsInit ==
    LET found == {i \in 1 .. VFSTotalEntries : Matches(ramfs[i].of, InitPath)}
    IN  CASE pc = "panic" -> found = {}
          [] pc = "run" -> \E i \in found :
                /\ \A j \in found : i <= j
                /\ IF moldInit = Corrupt THEN ~ramfs[i].program \/ tail[i - 1] # NUL
                                         ELSE moldInit = ramfs[i]
          [] OTHER -> TRUE

(* "moldInit is missing or corrupt." is what the panic of kernel.cpp:84    *)
(* says: a file that the loader takes for corrupt is not run.              *)
PanicsWhenCorrupt == pc = "run" => moldInit # Corrupt
=============================================================================
