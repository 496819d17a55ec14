---------------------------- MODULE MCFileNames ----------------------------
(* FileNames for TLC: a directory, a region's directory in it, and a file at *)
(* every level.                                                              *)
EXTENDS FileNames

MCDirs == { <<>>, <<"d">>, <<"d", "eu">> }
MCFiles == { <<"f">>, <<"d", "f">>, <<"d", "eu", "f">> }
=============================================================================
