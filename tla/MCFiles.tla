------------------------------ MODULE MCFiles ------------------------------
(***************************************************************************)
(* The FAT32 driver, the VFS and the buffered streams of the C library side *)
(* by side.  They share no state here: each is explored from the common     *)
(* initial state while the others rest.                                    *)
(***************************************************************************)
EXTENDS MCFat, Vfs, Stdio

(* A name tree, and the opens that are tried on it.                        *)
SeekToDef == {-1, 1}
Vn(kind, parent, name, kids) == [kind |-> kind, parent |-> parent, name |-> name, kids |-> kids]
TreeDef == [n \in {"root", "dev", "con", "blk", "ver", "file"} |->
              CASE n = "root" -> Vn("dir", "null", "/", <<"file", "ver", "dev">>)
                [] n = "dev" -> Vn("dir", "root", "dev", <<"blk", "con">>)
                [] n = "con" -> Vn("chr", "dev", "console", << >>)
                [] n = "blk" -> Vn("blk", "dev", "blk", << >>)
                [] n = "ver" -> Vn("proc", "root", "version", << >>)
                [] OTHER -> Vn("reg", "root", "f", << >>)]
Args(path, acc, creat, excl, trunc, append) ==
    [path |-> path, acc |-> acc, creat |-> creat, excl |-> excl, trunc |-> trunc, append |-> append]
OpenArgsDef ==
    {Args(<< >>, "r", FALSE, FALSE, FALSE, FALSE), Args(<<"dev", "console">>, "rw", FALSE, FALSE, FALSE, FALSE),
     Args(<<"dev", "..", "dev", "blk">>, "rw", FALSE, FALSE, TRUE, FALSE),
     Args(<<"version">>, "r", FALSE, FALSE, FALSE, FALSE), Args(<<".", "f">>, "rw", TRUE, FALSE, TRUE, FALSE),
     Args(<<"f">>, "w", FALSE, FALSE, FALSE, TRUE), Args(<<"f">>, "rw", TRUE, TRUE, FALSE, FALSE),
     Args(<<"f">>, "bad", FALSE, FALSE, FALSE, FALSE), Args(<<"f", "x">>, "r", TRUE, FALSE, FALSE, FALSE)}

(* A stream; "r+" is not tried, see Stdio.                                 *)
ModesDef == {<<"r", "">>} \cup ({"w", "a"} \X {"", "+"})
SeekByDef == {-1, 0, 1}
OldBytesDef == <<11, 12>>

----------------------------------------------------------------------------
VARIABLE turn           \* the component that moves, once one has

FilesInit ==
    /\ turn = "any"
    /\ FatInit /\ VfsInit /\ StdioInit

Turn(who) == turn \in {"any", who} /\ turn' = who

FilesNext ==
    \/ Turn("fat") /\ FatNext /\ UNCHANGED <<vfsvars, stdiovars>>
    \/ Turn("vfs") /\ VfsNext /\ UNCHANGED <<fatvars, stdiovars>>
    \/ Turn("stdio") /\ StdioNext /\ UNCHANGED <<fatvars, vfsvars>>

FilesSpec == FilesInit /\ [][FilesNext]_<<turn, fatvars, vfsvars, stdiovars>>

Symmetric == Permutations(VfsTask)

\* Of a stream that only reads or only writes, nothing looks at the bytes of the buffer
\* outside its valid part, nor at the error flag.
FilesView ==
    <<turn, fatvars, vfsvars, others, todo, fdesc, got, fails, ref,
      [FILE EXCEPT !.err = FALSE, !.buf = SubSeq(@, 1, IF FILE.write THEN Least(FILE.wpos, STD_BUF_SIZE) ELSE FILE.rlen)]>>
=============================================================================
