---------------------------- MODULE MCAudioPath ----------------------------
(***************************************************************************)
(* AudioPath with two buffers of three samples, resampled from 2 to 3, so  *)
(* that a buffer gives four or five frames and no two neighbours begin at  *)
(* the same phase; a ring of four frames, smaller than a buffer, so that a *)
(* write takes several turns and the ring wraps inside one; and a device   *)
(* buffer of two.                                                          *)
(***************************************************************************)
EXTENDS AudioPath
=============================================================================
