---------------------------- MODULE MCPageTables ----------------------------
(***************************************************************************)
(* Tables of four entries.  The framebuffer and a page of configuration    *)
(* space share upper tables with memory; another page has an entry of the  *)
(* PML4 to itself, as has the heap, whose second page needs a table of its *)
(* own.  The page after memory has no table.                               *)
(***************************************************************************)
EXTENDS PageTables

LowFrames == {0}
FramebufferPages == <<24, 25>>
ConfigurationPages == {31, 130}

=============================================================================
