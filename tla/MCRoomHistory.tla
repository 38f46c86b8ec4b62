--------------------------- MODULE MCRoomHistory ---------------------------
(* Small instances of the observed room registry for TLC. *)
EXTENDS RoomManagerHistory, TLC

CONSTANTS t1, t2

TwoTasks == {t1, t2}
=============================================================================
