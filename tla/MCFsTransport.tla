--------------------------- MODULE MCFsTransport ---------------------------
(***************************************************************************)
(* Directories of three names, the middle one too long to be looked at,    *)
(* with entries of other sorts appearing by the kernel's changes; files    *)
(* around a cap of three bytes: shorter, as long, longer, with and without *)
(* newlines and NULs.                                                      *)
(***************************************************************************)
EXTENDS FsTransport

MCNames == 1 .. 3
MCTooLong == {2}

Plain(t) == [link |-> FALSE, target |-> t]
Link(t) == [link |-> TRUE, target |-> t]

MCDisks == {<<Plain("file"), Absent, Link("dir")>>,
            <<Link("none"), Plain("file"), Plain("stream")>>}

MCContents ==
  {<< >>, <<"newline">>, <<"text", "newline", "newline">>, <<"text", "nul", "newline", "text">>}
=============================================================================
