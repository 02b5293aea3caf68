------------------------------ MODULE MCFiles ------------------------------
(* Names of every length up to a full Filename, twins in the last          *)
(* character, and one that is another's beginning.                         *)
EXTENDS Files

MCNames == {<<"a">>, <<"b">>, <<"a", "b">>, <<"a", "b", "a">>, <<"b", "b", "a", "b">>}
MCPaths == {<<"/">> \o n : n \in {<<>>, <<"a">>, <<"b">>, <<"a", "a">>, <<"a", "b">>,
                                  <<"b", "b">>, <<"a", "b", "a">>}}
MCInitPath == <<"/", "a", "b">>

(* At address 0: zeros, a name of no file that fills its path, the name of *)
(* one, and no name at all but a file's source.                            *)
Bytes(path, source) == [path |-> path, source |-> source]
MCAtNull == {FreeDescriptor,
             Bytes(<<HEAP, HEAP, HEAP, HEAP>>, SOURCE),
             Bytes(<<HEAP, "b", SPACE, NUL>>, SOURCE),
             Bytes(<<NUL, NUL, NUL, NUL>>, SOURCE)}
=============================================================================
