--------------------------- MODULE ImageConversion ---------------------------
(***************************************************************************)
(* One call of decode_and_convert, the part of the parser's execute that   *)
(* makes a frame of BGR pixels out of the image a caller passes.  An image *)
(* is its format, its shape and its number of bytes; of the pixels only    *)
(* this is kept, whether the frame holds those of the image in their       *)
(* places.  Divisions by zero, products of a shape that are larger than an *)
(* int and accesses beyond a buffer are undefined.                         *)
(***************************************************************************)
EXTENDS Integers

CONSTANTS Images,     (* the arguments of the call                          *)
          MaxInt      (* the largest int: no image has more bytes           *)

VARIABLES src,        (* the image                                          *)
          n, i, y,    (* the parameter num, frames and rows behind us       *)
          dst,        (* the frame, or the source itself                    *)
          pc

vars == <<src, n, i, y, dst, pc>>

Frame(format, size, content) == [format |-> format, size |-> size, content |-> content]
NoFrame == Frame("UNKNOW", 0, "none")

Init ==
  /\ src \in Images
  /\ n = src.num /\ i = 0 /\ y = 0
  /\ dst = NoFrame
  /\ pc = "decode"

Ends(outcome) == pc' = outcome /\ UNCHANGED <<src, n, i, y, dst>>

(* decode_and_convert looks at the height, the width and the size only;    *)
(* n and c are not looked at.                                              *)
Decode ==
  /\ pc = "decode"
  /\ Ends(IF src.h <= 0 \/ src.w <= 0 \/ src.size <= 0 THEN "thrown" ELSE src.format)

Unsupported == pc = "UNKNOW" /\ Ends("thrown")
-----------------------------------------------------------------------------
(* The ints of the shape are multiplied from left to right.                *)
Overflows(a, b, c) == a * b > MaxInt \/ a * b * c > MaxInt

(* The size is refused if it is not divisible and too small.               *)
Refused == src.size % n # 0 /\ src.size \div n < src.c * src.h * src.w

(* BGR_NCHW: rows longer than the width are packed.  There is no break:    *)
(* the call goes on as for BGR_NHWC, with the source as it came.           *)
FromNCHW ==
  /\ pc = "NCHW"
  /\ IF n = 0 \/ (src.size % n # 0 /\ Overflows(src.c, src.h, src.w))
     THEN Ends("undefined")
     ELSE IF Refused THEN Ends("thrown")
     ELSE IF src.c = 0 \/ Overflows(n, src.c, src.h) THEN Ends("undefined")
     ELSE LET stride == src.size \div (n * src.c * src.h) IN
       IF stride < src.w THEN Ends("thrown")
       ELSE /\ dst' = IF stride = src.w THEN Frame("NCHW", src.size, "pixels")
                      ELSE Frame("NCHW", n * src.c * src.h * src.w, "pixels")
            /\ pc' = "NHWC"
            /\ UNCHANGED <<src, n, i, y>>

Stride == src.size \div (n * src.h)

(* BGR_NHWC: a source without padding is the frame, else rows are copied.  *)
FromNHWC ==
  /\ pc = "NHWC"
  /\ IF n = 0 \/ (src.size % n # 0 /\ Overflows(src.h, src.w, src.c))
     THEN Ends("undefined")
     ELSE IF Refused THEN Ends("thrown")
     ELSE IF n * src.h > MaxInt \/ src.c * src.w > MaxInt THEN Ends("undefined")
     ELSE IF Stride < src.c * src.w THEN Ends("thrown")
     ELSE /\ IF Stride = src.c * src.w
             THEN dst' = Frame(src.format, src.size, "pixels") /\ pc' = "done"
             ELSE pc' = "row" /\ UNCHANGED dst
          /\ UNCHANGED <<src, n, i, y>>

(* From the row with the number of the frame to the end of this row.       *)
RowBytes == (y - i) * Stride + src.c * src.w

(* The next row; the copy may be longer than what is left of the frame.    *)
CopyRow ==
  /\ pc = "row" /\ i < n
  /\ IF \/ RowBytes < 0
        \/ (i * src.h + y) * src.c * src.w + RowBytes > n * src.c * src.h * src.w
     THEN Ends("undefined")
     ELSE /\ y' = IF y + 1 < src.h THEN y + 1 ELSE 0
          /\ i' = IF y + 1 < src.h THEN i ELSE i + 1
          /\ UNCHANGED <<src, n, dst, pc>>

RowsCopied ==
  /\ pc = "row" /\ i >= n
  /\ dst' = Frame("NHWC", n * src.c * src.h * src.w,
                  IF src.format = "NHWC" \/ src.c <= 1 THEN "pixels" ELSE "garbled")
  /\ pc' = "done"
  /\ UNCHANGED <<src, n, i, y>>
-----------------------------------------------------------------------------
FrameSize == src.h * src.w * src.c

(* NV21: a plane of w by h bytes, and half as many for the colours.        *)
FromNV21 ==
  /\ pc = "NV21"
  /\ Ends(IF Overflows(src.h, src.w, src.c) THEN "undefined"
          ELSE IF src.h % 2 # 0 THEN "thrown"
          ELSE IF n * (FrameSize \div 2) > MaxInt THEN "undefined"
          ELSE IF src.size # n * (FrameSize \div 2) THEN "thrown"
          ELSE IF n * FrameSize > MaxInt THEN "undefined"
          ELSE "frame")

(* libyuv reads the colours behind a plane of even width, and writes three *)
(* bytes for a pixel into rows of c bytes for each.                        *)
EvenWidth == 2 * ((src.w + 1) \div 2)

FirstFrameFits ==
  /\ EvenWidth * src.h + EvenWidth * (src.h \div 2) <= src.size
  /\ (src.h - 1) * src.w * src.c + 3 * src.w <= src.num * FrameSize

(* The loop tests i and advances n: every turn converts the first frame.   *)
ConvertFrame ==
  /\ pc = "frame" /\ i < n
  /\ IF ~FirstFrameFits \/ n = MaxInt THEN Ends("undefined")
     ELSE n' = n + 1 /\ UNCHANGED <<src, i, y, dst, pc>>

FramesConverted ==
  /\ pc = "frame" /\ i >= n
  /\ dst' = Frame("NHWC", n * FrameSize, "pixels")
  /\ pc' = "done"
  /\ UNCHANGED <<src, n, i, y>>

Next ==
  \/ Decode \/ Unsupported
  \/ FromNCHW \/ FromNHWC \/ CopyRow \/ RowsCopied
  \/ FromNV21 \/ ConvertFrame \/ FramesConverted

Spec == Init /\ [][Next]_vars
FairSpec == Spec /\ WF_vars(Next)
-----------------------------------------------------------------------------
(* Images of the formats the source calls supported, without padding.      *)
Supported ==
  /\ src.num > 0 /\ src.c = 3 /\ src.h > 0 /\ src.w > 0
  /\ \/ src.format \in {"NCHW", "NHWC"} /\ src.size = src.num * FrameSize
     \/ /\ src.format = "NV21" /\ src.h % 2 = 0 /\ src.w % 2 = 0
        /\ src.size = src.num * (FrameSize \div 2)

(* An image in one of the formats the parser supports, with as many bytes  *)
(* as its shape asks for, becomes a frame of all its pixels.               *)
SupportedFormatsAreConverted ==
  Supported ~> (pc = "done" /\ dst.content = "pixels" /\ dst.size = src.num * FrameSize)
=============================================================================
