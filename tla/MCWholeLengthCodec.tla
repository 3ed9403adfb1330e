------------------------- MODULE MCWholeLengthCodec -------------------------
(* The codec with other parameters its documentation describes: a length    *)
(* field in little-endian order that counts the whole frame, one more       *)
(* header byte that is stripped with it (LengthFieldBasedFrameDecoder.h     *)
(* lists such combinations).  After the rest of a frame that was too long,  *)
(* the bytes that follow may say a length of 0 (too small) or of 2 (less    *)
(* than the bytes to strip).                                                *)
EXTENDS FrameCodec

MCAdjustment == -2

MCContent == {<<1>>, <<1, 2>>, <<0, 0, 1>>, <<2, 0, 1>>}
=============================================================================
