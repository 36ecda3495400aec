----------------------------- MODULE MCFileTail -----------------------------
(* A small log for FileTail: the second line has a character that straddles *)
(* the two flushes it is written in.                                        *)
EXTENDS FileTail, TLC

CONSTANTS i1, i2, i3

MCInodes == {i1, i2, i3}
MCMultiByte == {2}
MCStarts == BOOLEAN
MCMidLine == {"mid_line"}
MCFromEnd == {FALSE}
=============================================================================
