--------------------------- MODULE MCFileSystem ---------------------------
(* FileSystem with a session beside one thread, and with two threads.      *)
EXTENDS FileSystem

MCCasts == {{"s", "t"}, {"t", "u"}}
=============================================================================
