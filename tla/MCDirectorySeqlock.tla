------------------------- MODULE MCDirectorySeqlock -------------------------
(***************************************************************************)
(* DirectorySeqlock for TLC.                                               *)
(***************************************************************************)
EXTENDS DirectorySeqlock

(* With the 0 of a wiped record, enough to tell a torn record from a whole *)
(* one.                                                                    *)
OneValue == {1}
=============================================================================
