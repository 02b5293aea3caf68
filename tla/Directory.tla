----------------------------- MODULE Directory -----------------------------
(***************************************************************************)
(* What the file system promises a program: files are added once and for   *)
(* all, a path opens the first of them that it matches, and a read gives   *)
(* the contents of the file opened last.  It promises nothing of a path    *)
(* that matches no file, not even that nothing is opened.                  *)
(***************************************************************************)
EXTENDS Sequences, FiniteSetsExt

CONSTANTS
    Paths,
    Matches(_, _),      \* of a name and a path
    Contents,           \* records that say whose contents they are
    Nothing,
    Unpromised          \* what a path that matches no file may open

VARIABLES
    files,      \* in the order in which they were added
    asked,      \* the path that was opened last
    open,       \* what is open
    data        \* what was read

vars == <<files, asked, open, data>>

Lookup(path) ==
    LET found == {i \in DOMAIN files : Matches(files[i].of, path)}
    IN  IF found = {} THEN Unpromised ELSE {files[Min(found)]}

Init == files = <<>> /\ asked = <<>> /\ open = Nothing /\ data = Nothing

Add(contents) == files' = Append(files, contents) /\ UNCHANGED <<asked, open, data>>

Open(path) == asked' = path /\ open' \in Lookup(path) /\ UNCHANGED <<files, data>>

Read == data' = open /\ UNCHANGED <<files, asked, open>>

Next ==
    \/ \E contents \in Contents : Add(contents)
    \/ \E path \in Paths : Open(path)
    \/ Read

Spec == Init /\ [][Next]_vars
=============================================================================
