--------------------------- MODULE MCRoomManager ---------------------------
(* Small instances of the room registry for TLC. *)
EXTENDS RoomManager, TLC

CONSTANTS t1, t2

TwoTasks == {t1, t2}
=============================================================================
