-------------------------- MODULE MCImageConversion --------------------------
(* Small images for TLC: up to two frames of two rows of three pixels, and *)
(* sizes that fit them, are too small for them or leave padding.  Two such *)
(* frames have more bytes than the largest int of the instance.            *)
EXTENDS ImageConversion

MCImages ==
  [format : {"NCHW", "NHWC", "NV21", "UNKNOW"}, num : 0 .. 2, c : {0, 1, 3, 4},
   h : 0 .. 2, w : 0 .. 3, size : {0, 1, 6, 9, 12, 18, 24}]
=============================================================================
