------------------------------ MODULE MCPacket ------------------------------
(* The constants of crypto.rs, with a limit on frames of four blocks instead *)
(* of eight megabytes, and lengths around one to four blocks.                *)
EXTENDS Packet

EdgeLengths == {1, 62, 63, 64, 126, 127, 128, 254, 255, 256}
=============================================================================
