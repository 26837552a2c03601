----------------------------- MODULE MCFileSystem ------------------------------
(* Instances of FileSystem for TLC: two names; the root, two entries of it, one  *)
(* entry below the first, and two malformed paths; contents of one to MaxLength  *)
(* bytes that share no byte.  The first disks have three blocks of one byte, two  *)
(* blocks of two, one block for which the longest content just does not wrap the  *)
(* sum of RequiredBlocks, and one for which it does; two sizes are refused.       *)
EXTENDS FileSystem

CONSTANT MaxLength

MCNames == {"a", "b"}

MCPaths == {<<"">>, <<"a">>, <<"b">>, <<"a", "a">>, <<"a", "">>, <<"", "a">>}

MCContents == {[k \in 1..n |-> <<n, k>>] : n \in 1..MaxLength}

LastFitting == MaxInt + 1 - MaxLength

MCDisks == {<<3, 1>>, <<4, 2>>, <<LastFitting, LastFitting>>, <<MaxInt, MaxInt>>,
            <<3, 2>>, <<4, 0>>}

(* The largest disk and block of all.                                            *)
HugeDisk == {<<MaxInt, MaxInt>>}
================================================================================
