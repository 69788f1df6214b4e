------------------------ MODULE ImageConversionProofs ------------------------
(***************************************************************************)
(* What the conversion of an image does for every shape and every largest  *)
(* int: which images become a frame, and which never do.                   *)
(***************************************************************************)
EXTENDS ImageConversion, TLAPS

Formats == {"NCHW", "NHWC", "NV21", "UNKNOW"}

(* The images a caller can pass: the number of bytes comes as an int.      *)
Image == [format : Formats, num : Nat, c : Nat, h : Int, w : Int, size : 0 .. MaxInt]
Legal == MaxInt \in Nat /\ Images \subseteq Image

TypeOK ==
  /\ src \in Image
  /\ n \in Nat /\ i \in Nat /\ y \in Nat
  /\ dst \in [format : Formats, size : Int, content : {"none", "pixels", "garbled"}]
  /\ pc \in Formats \cup {"decode", "row", "frame", "thrown", "undefined", "done"}

BGR == {"NCHW", "NHWC"}

(* An image of BGR pixels with as many bytes as its shape asks for.        *)
Packed ==
  /\ src.format \in BGR
  /\ src.num > 0 /\ src.c > 0 /\ src.h > 0 /\ src.w > 0
  /\ src.size = src.num * FrameSize

(* A packed image becomes a frame of its pixels, in the format it came in. *)
PackedImagesSucceed ==
  Packed => /\ pc \notin {"thrown", "undefined"}
            /\ pc = "done" => dst = Frame(src.format, src.size, "pixels")

(* No image in the format NV21 becomes a frame.                            *)
NV21IsNeverConverted == src.format = "NV21" => pc # "done"

(* An image of BGR pixels whose rows have bytes behind the last pixel.     *)
Padded ==
  /\ src.format \in BGR /\ src.num > 0 /\ src.h > 0 /\ src.w > 0
  /\ src.size \div (src.num * src.h) > src.c * src.w

(* Of the padded images only those of a single row become a frame.         *)
PaddedBatchesAreNotConverted == Padded /\ pc = "done" => src.num = 1 /\ src.h = 1

(* A frame has a byte for every channel of every pixel of the image.       *)
FramesHoldEveryPixel == pc = "done" => dst.size >= src.num * FrameSize
-----------------------------------------------------------------------------
(* Where a call stands, and what it has checked on the way.                *)
Path ==
  /\ pc \in {"NCHW", "NHWC", "NV21", "row", "frame", "done"} =>
       src.h > 0 /\ src.w > 0 /\ src.size > 0
  /\ pc = "NCHW" => src.format = "NCHW"
  /\ pc \in {"NHWC", "row", "done"} => src.format \in BGR
  /\ pc \in {"NV21", "frame"} => src.format = "NV21"
  /\ pc = "UNKNOW" => src.format = "UNKNOW"
  /\ src.format \in BGR => n = src.num

(* The loops over frames and rows: the second frame is begun only when the *)
(* first has a single row, and a frame in NV21 is never left.              *)
Loops ==
  /\ pc \in Formats \cup {"decode", "frame"} => i = 0 /\ y = 0
  /\ pc = "frame" => n > 0
  /\ pc = "row" =>
       /\ n > 0 /\ Stride > src.c * src.w
       /\ \/ i = 0 /\ y < src.h
          \/ i = 1 /\ y = 0 /\ (n = 1 => src.h = 1)

Outcome ==
  /\ Packed => pc \notin {"thrown", "undefined", "row"}
  /\ Packed /\ pc = "done" => dst = Frame(src.format, src.size, "pixels")
  /\ PaddedBatchesAreNotConverted
  /\ FramesHoldEveryPixel

ConversionInv == TypeOK /\ Path /\ Loops /\ Outcome
-----------------------------------------------------------------------------
(* Products and quotients of the shape of an image.                        *)

LEMMA Exact ==
  ASSUME NEW a \in Nat \ {0}, NEW b \in Nat
  PROVE (a * b) % a = 0 /\ (a * b) \div a = b
<1> DEFINE q == (a * b) \div a
           r == (a * b) % a
<1>1. q \in Int /\ r \in 0 .. (a - 1) /\ a * b = a * q + r
  OBVIOUS
<1>2. a * (b - q) = r
  BY <1>1
<1>3. CASE b > q
  BY <1>1, <1>2, <1>3
<1>4. CASE b < q
  BY <1>1, <1>2, <1>4
<1>5. CASE b = q
  BY <1>1, <1>2, <1>5
<1> QED BY <1>1, <1>3, <1>4, <1>5

LEMMA Quotient ==
  ASSUME NEW a \in Nat \ {0}, NEW b \in Nat
  PROVE (b \div a) \in Nat /\ a * (b \div a) <= b
<1> DEFINE q == b \div a
           r == b % a
<1>1. q \in Int /\ r \in 0 .. (a - 1) /\ b = a * q + r
  OBVIOUS
<1>2. a * q <= b
  BY <1>1
<1>3. q >= 0
  <2>1. SUFFICES ASSUME q <= -1 PROVE FALSE
    BY <1>1
  <2>2. a * q <= -a
    BY <1>1, <2>1
  <2> QED BY <1>1, <2>2
<1> QED BY <1>1, <1>2, <1>3

LEMMA Product ==
  ASSUME NEW a \in Nat \ {0}, NEW b \in Nat \ {0}
  PROVE a * b \in Nat \ {0} /\ a <= a * b /\ b <= a * b
  OBVIOUS

LEMMA Monotone ==
  ASSUME NEW a \in Nat, NEW b \in Nat, NEW d \in Nat, b <= d
  PROVE a * b <= a * d
  OBVIOUS

LEMMA Regroup ==
  ASSUME NEW k \in Nat, NEW c \in Nat, NEW h \in Nat, NEW w \in Nat
  PROVE /\ k * (h * w * c) = (k * c * h) * w
        /\ k * (h * w * c) = (k * h) * (c * w)
        /\ k * (h * w * c) = k * c * h * w
        /\ k * h * c = k * c * h
  OBVIOUS

LEMMA PackedShape ==
  ASSUME NEW k \in Nat \ {0}, NEW c \in Nat \ {0}, NEW h \in Nat \ {0},
         NEW w \in Nat \ {0}, NEW s \in Nat, s = k * (h * w * c)
  PROVE /\ s % k = 0
        /\ k * c <= s /\ k * c * h <= s /\ k * h <= s /\ c * w <= s
        /\ s \div (k * c * h) = w
        /\ s \div (k * h) = c * w
<1>1. h * w * c \in Nat /\ s % k = 0
  BY Exact, Product
<1>2. k * c \in Nat \ {0} /\ k * c * h \in Nat \ {0} /\ k * h \in Nat \ {0} /\ c * w \in Nat \ {0}
  BY Product
<1>3. s = (k * c * h) * w /\ s = (k * h) * (c * w)
  BY Regroup
<1>4. k * c * h <= s /\ k * h <= s /\ c * w <= s
  BY <1>2, <1>3, Product
<1>5. k * c <= k * c * h
  BY <1>2, Product
<1>6. s \div (k * c * h) = w
  BY <1>2, <1>3, Exact
<1>7. s \div (k * h) = c * w
  BY <1>2, <1>3, Exact
<1> QED BY <1>1, <1>2, <1>4, <1>5, <1>6, <1>7
-----------------------------------------------------------------------------
(* The invariant holds at first and is kept by every step.                 *)

LEMMA InitImpliesInv == ASSUME Legal, Init PROVE ConversionInv
<1>1. src \in Image /\ pc = "decode" /\ n = src.num /\ i = 0 /\ y = 0 /\ dst = NoFrame
  BY DEF Legal, Init
<1>2. TypeOK
  BY <1>1 DEF TypeOK, Image, NoFrame, Frame, Formats
<1>3. Path /\ Loops /\ Outcome
  BY <1>1 DEF Path, Loops, Outcome, PaddedBatchesAreNotConverted,
              FramesHoldEveryPixel, Formats, BGR
<1> QED BY <1>2, <1>3 DEF ConversionInv

(* An end of the call that makes no frame.                                 *)
LEMMA EndsKeepsInv ==
  ASSUME ConversionInv, NEW o \in {"thrown", "undefined"}, Ends(o), ~ Packed
  PROVE ConversionInv'
<1> USE DEF ConversionInv, Ends
<1>1. TypeOK'
  BY DEF TypeOK
<1>2. Path'
  BY DEF Path, Formats
<1>3. Loops'
  BY DEF Loops, Formats
<1>4. Packed' = Packed
  BY DEF Packed, FrameSize
<1>5. Outcome'
  BY <1>4 DEF Outcome, PaddedBatchesAreNotConverted, FramesHoldEveryPixel
<1> QED BY <1>1, <1>2, <1>3, <1>5

(* What an image that is packed has passed, and where it stands.           *)
LEMMA PackedFacts ==
  ASSUME MaxInt \in Nat, TypeOK, Path, Packed
  PROVE /\ n = src.num /\ n \in Nat \ {0} /\ src.c \in Nat \ {0}
        /\ src.h \in Nat \ {0} /\ src.w \in Nat \ {0}
        /\ src.size \in Nat \ {0}
        /\ src.size % n = 0
        /\ ~ Overflows(n, src.c, src.h)
        /\ ~ (n * src.h > MaxInt) /\ ~ (src.c * src.w > MaxInt)
        /\ src.size \div (n * src.c * src.h) = src.w
        /\ Stride = src.c * src.w
<1>1. /\ n = src.num /\ n \in Nat \ {0} /\ src.c \in Nat \ {0}
      /\ src.h \in Nat \ {0} /\ src.w \in Nat \ {0} /\ src.size \in Nat
      /\ src.size <= MaxInt /\ MaxInt \in Int
      /\ src.size = n * (src.h * src.w * src.c)
  BY DEF TypeOK, Path, Packed, Image, BGR, FrameSize
<1> DEFINE k == n  c == src.c  h == src.h  w == src.w  s == src.size
<1> HIDE DEF k, c, h, w, s
<1>2. /\ k \in Nat \ {0} /\ c \in Nat \ {0} /\ h \in Nat \ {0} /\ w \in Nat \ {0}
      /\ s \in Nat /\ s = k * (h * w * c) /\ s <= MaxInt /\ MaxInt \in Int
  BY <1>1 DEF k, c, h, w, s
<1>3. /\ s % k = 0
      /\ k * c <= s /\ k * c * h <= s /\ k * h <= s /\ c * w <= s
      /\ s \div (k * c * h) = w
      /\ s \div (k * h) = c * w
  BY <1>2, PackedShape
<1>4. /\ ~ (k * c > MaxInt \/ k * c * h > MaxInt)
      /\ ~ (k * h > MaxInt) /\ ~ (c * w > MaxInt)
  BY <1>2, <1>3
<1>5. s > 0
  BY <1>2, <1>3, Product
<1> QED BY <1>1, <1>3, <1>4, <1>5 DEF k, c, h, w, s, Overflows, Stride

LEMMA DecodeKeepsInv ==
  ASSUME MaxInt \in Nat, ConversionInv, Decode PROVE ConversionInv'
<1>1. CASE src.h <= 0 \/ src.w <= 0 \/ src.size <= 0
  <2>1. Ends("thrown")
    BY <1>1 DEF Decode
  <2>2. Packed => FALSE
    <3>1. ASSUME Packed
          PROVE src.h \in Nat \ {0} /\ src.w \in Nat \ {0} /\ src.size \in Nat \ {0}
      BY <3>1, PackedFacts DEF ConversionInv
    <3> QED BY <1>1, <3>1
  <2> QED BY <2>1, <2>2, EndsKeepsInv
<1>2. CASE ~ (src.h <= 0 \/ src.w <= 0 \/ src.size <= 0)
  <2>1. pc = "decode" /\ pc' = src.format /\ UNCHANGED <<src, n, i, y, dst>>
    BY <1>2 DEF Decode, Ends
  <2>2. src.format \in Formats /\ src.h > 0 /\ src.w > 0 /\ src.size > 0
    BY <1>2 DEF ConversionInv, TypeOK, Image
  <2>3. TypeOK'
    BY <2>1, <2>2 DEF ConversionInv, TypeOK
  <2>4. Path'
    BY <2>1, <2>2 DEF ConversionInv, Path, Formats, BGR
  <2>5. Loops'
    BY <2>1, <2>2 DEF ConversionInv, Loops, Formats
  <2>6. Outcome'
    BY <2>1, <2>2 DEF Outcome, PaddedBatchesAreNotConverted, FramesHoldEveryPixel, Formats
  <2> QED BY <2>3, <2>4, <2>5, <2>6 DEF ConversionInv
<1> QED BY <1>1, <1>2

LEMMA UnsupportedKeepsInv ==
  ASSUME ConversionInv, Unsupported PROVE ConversionInv'
<1>1. ~ Packed
  BY DEF ConversionInv, Unsupported, Path, Packed, BGR
<1> QED BY <1>1, EndsKeepsInv DEF Unsupported

LEMMA FromNCHWKeepsInv ==
  ASSUME MaxInt \in Nat, ConversionInv, FromNCHW PROVE ConversionInv'
<1> DEFINE stride == src.size \div (n * src.c * src.h)
<1>1. CASE \E o \in {"thrown", "undefined"} : Ends(o)
  <2>1. ~ Packed
    <3>1. SUFFICES ASSUME Packed PROVE FALSE
      OBVIOUS
    <3>2. /\ n # 0 /\ src.c # 0 /\ src.size % n = 0
          /\ ~ Overflows(n, src.c, src.h) /\ stride = src.w /\ src.w \in Nat
      BY <3>1, PackedFacts DEF ConversionInv
    <3>3. pc' = "NHWC"
      BY <3>2 DEF FromNCHW, Refused
    <3> QED BY <1>1, <3>3 DEF Ends
  <2> QED BY <1>1, <2>1, EndsKeepsInv
<1>2. CASE ~ \E o \in {"thrown", "undefined"} : Ends(o)
  <2>1. /\ pc = "NCHW" /\ pc' = "NHWC" /\ UNCHANGED <<src, n, i, y>>
        /\ dst' \in {Frame("NCHW", src.size, "pixels"),
                     Frame("NCHW", n * src.c * src.h * src.w, "pixels")}
    BY <1>2 DEF FromNCHW
  <2>2. TypeOK'
    <3>1. n * src.c * src.h * src.w \in Int /\ src.size \in Int
      BY DEF ConversionInv, TypeOK, Image
    <3> QED BY <2>1, <3>1 DEF ConversionInv, TypeOK, Formats, Frame
  <2>3. Path'
    BY <2>1 DEF ConversionInv, Path, BGR
  <2>4. Loops'
    BY <2>1 DEF ConversionInv, Loops, Formats
  <2>5. Outcome'
    BY <2>1 DEF Outcome, PaddedBatchesAreNotConverted, FramesHoldEveryPixel
  <2> QED BY <2>2, <2>3, <2>4, <2>5 DEF ConversionInv
<1> QED BY <1>1, <1>2

LEMMA FromNHWCKeepsInv ==
  ASSUME MaxInt \in Nat, ConversionInv, FromNHWC PROVE ConversionInv'
<1>1. CASE \E o \in {"thrown", "undefined"} : Ends(o)
  <2>1. ~ Packed
    <3>1. SUFFICES ASSUME Packed PROVE FALSE
      OBVIOUS
    <3>2. /\ n # 0 /\ src.size % n = 0 /\ Stride = src.c * src.w
          /\ ~ (n * src.h > MaxInt \/ src.c * src.w > MaxInt)
          /\ src.c \in Nat /\ src.w \in Nat
      BY <3>1, PackedFacts DEF ConversionInv
    <3>3. ~ (Stride < src.c * src.w)
      BY <3>2
    <3>4. pc' = "done"
      BY <3>2, <3>3 DEF FromNHWC, Refused
    <3> QED BY <1>1, <3>4 DEF Ends
  <2> QED BY <1>1, <2>1, EndsKeepsInv
<1> DEFINE row == src.c * src.w
<1>2. CASE ~ \E o \in {"thrown", "undefined"} : Ends(o)
  <2>1. /\ pc = "NHWC" /\ UNCHANGED <<src, n, i, y>>
        /\ n # 0 /\ ~ (Stride < row)
        /\ \/ Stride = row /\ dst' = Frame(src.format, src.size, "pixels") /\ pc' = "done"
           \/ Stride # row /\ pc' = "row" /\ UNCHANGED dst
    BY <1>2 DEF FromNHWC
  <2>2. /\ src \in Image /\ n \in Nat \ {0} /\ n = src.num /\ src.format \in BGR
        /\ src.h \in Nat \ {0} /\ src.w \in Nat \ {0} /\ src.c \in Nat
        /\ src.size \in Nat \ {0} /\ i = 0 /\ y = 0
    BY <2>1 DEF ConversionInv, TypeOK, Path, Loops, Image, Formats
  <2>3. row \in Nat /\ n * src.h \in Nat \ {0}
    BY <2>2, Product
  <2>4. Stride \in Nat /\ (n * src.h) * Stride <= src.size
    BY <2>2, <2>3, Quotient DEF Stride
  <2>5. TypeOK'
    BY <2>1, <2>2 DEF ConversionInv, TypeOK, Frame, Image
  <2>6. Path'
    BY <2>1, <2>2 DEF ConversionInv, Path
  <2>7. Stride' = Stride
    BY <2>1 DEF Stride
  <2>8. Loops'
    BY <2>1, <2>2, <2>3, <2>4, <2>7 DEF Loops, Formats
  <2>9. (Packed => Stride = row) /\ (Packed' = Packed)
    BY <2>1, PackedFacts DEF ConversionInv, Packed, FrameSize
  <2>10. Padded' => Stride > row
    BY <2>1, <2>2 DEF Padded, Stride
  <2>11. (src.num * FrameSize)' = (n * src.h) * row
    BY <2>1, <2>2, Regroup DEF FrameSize
  <2>12. pc' = "done" => dst.size' >= (src.num * FrameSize)'
    BY <2>1, <2>2, <2>4, <2>11 DEF Frame
  <2>13. Outcome'
    BY <2>1, <2>2, <2>3, <2>4, <2>9, <2>10, <2>12
       DEF Outcome, PaddedBatchesAreNotConverted, FramesHoldEveryPixel, Frame
  <2> QED BY <2>5, <2>6, <2>8, <2>13 DEF ConversionInv
<1> QED BY <1>1, <1>2

(* The one frame whose rows are all copied has a single row: with more, the*)
(* last copy is longer than what is left, and a second frame begins with a *)
(* range of negative length.                                               *)
LEMMA CopyRowKeepsInv ==
  ASSUME ConversionInv, CopyRow PROVE ConversionInv'
<1> DEFINE row == src.c * src.w
<1>1. ~ Packed
  BY DEF ConversionInv, Outcome, CopyRow
<1>2. CASE Ends("undefined")
  BY <1>1, <1>2, EndsKeepsInv
<1>3. CASE ~ Ends("undefined")
  <2>1. /\ pc = "row" /\ i < n /\ RowBytes >= 0
        /\ (i * src.h + y) * src.c * src.w + RowBytes <= n * src.c * src.h * src.w
        /\ y' = IF y + 1 < src.h THEN y + 1 ELSE 0
        /\ i' = IF y + 1 < src.h THEN i ELSE i + 1
        /\ UNCHANGED <<src, n, dst, pc>>
    <3>1. src \in Image /\ n \in Nat /\ i \in Nat /\ y \in Nat /\ src.h > 0 /\ src.w > 0
      BY DEF ConversionInv, TypeOK, Path, CopyRow
    <3>2. src.h \in Nat \ {0} /\ src.w \in Nat \ {0} /\ src.c \in Nat /\ src.size \in Int
      BY <3>1 DEF Image
    <3>3. n > 0
      BY <3>1 DEF CopyRow
    <3>4. Stride \in Int
      BY <3>1, <3>2, <3>3, Product DEF Stride
    <3>5. RowBytes \in Int
      BY <3>1, <3>2, <3>4 DEF RowBytes
    <3>6. /\ (i * src.h + y) * src.c * src.w + RowBytes \in Int
          /\ n * src.c * src.h * src.w \in Int
      BY <3>1, <3>2, <3>5
    <3>7. ~ \/ RowBytes < 0
            \/ (i * src.h + y) * src.c * src.w + RowBytes > n * src.c * src.h * src.w
      BY <1>3 DEF CopyRow
    <3> QED BY <1>3, <3>5, <3>6, <3>7 DEF CopyRow
  <2>2. /\ src \in Image /\ n \in Nat \ {0} /\ i \in Nat /\ y \in Nat
        /\ src.h \in Nat \ {0} /\ src.w \in Nat \ {0} /\ src.c \in Nat
        /\ src.size \in Int /\ src.format \in BGR /\ Stride > row
        /\ \/ i = 0 /\ y < src.h
           \/ i = 1 /\ y = 0 /\ (n = 1 => src.h = 1)
    BY <2>1 DEF ConversionInv, TypeOK, Path, Loops, Image
  <2>3. row \in Nat /\ Stride \in Int
    BY <2>2, Product DEF Stride
  <2>4. i = 0 /\ y < src.h
    <3>1. SUFFICES ASSUME i = 1, y = 0 PROVE FALSE
      BY <2>2
    <3>2. RowBytes = row - Stride
      BY <2>3, <3>1 DEF RowBytes
    <3> QED BY <2>1, <2>2, <2>3, <3>2
  <2>5. y * row + y * Stride + row <= n * (src.h * row)
    <3>1. RowBytes = y * Stride + row
      BY <2>2, <2>3, <2>4 DEF RowBytes
    <3>2. (i * src.h + y) * src.c * src.w = y * row
      BY <2>2, <2>4
    <3>3. n * src.c * src.h * src.w = n * (src.h * row)
      BY <2>2
    <3>4. y * row \in Int /\ y * Stride \in Int
      BY <2>2, <2>3
    <3> QED BY <2>1, <2>3, <3>1, <3>2, <3>3, <3>4
  <2>6. CASE y + 1 < src.h
    <3>1. y' = y + 1 /\ i' = 0 /\ UNCHANGED <<src, n, dst, pc>> /\ pc = "row"
      BY <2>1, <2>4, <2>6
    <3>2. TypeOK' /\ Path' /\ Stride' = Stride
      BY <2>2, <3>1 DEF ConversionInv, TypeOK, Path, Stride
    <3>3. Loops'
      BY <2>2, <2>6, <3>1, <3>2 DEF Loops, Formats
    <3>4. Outcome' = Outcome
      BY <3>1 DEF Outcome, PaddedBatchesAreNotConverted, FramesHoldEveryPixel,
                  Packed, Padded, FrameSize
    <3> QED BY <3>2, <3>3, <3>4 DEF ConversionInv
  <2>7. CASE ~ (y + 1 < src.h)
    <3>1. y' = 0 /\ i' = 1 /\ UNCHANGED <<src, n, dst, pc>> /\ pc = "row"
      BY <2>1, <2>4, <2>7
    <3>2. TypeOK' /\ Path' /\ Stride' = Stride
      BY <2>2, <3>1 DEF ConversionInv, TypeOK, Path, Stride
    <3>3. n = 1 => src.h = 1
      <4>1. SUFFICES ASSUME n = 1, y >= 1 PROVE FALSE
        <5>1. src.h \in Nat \ {0} /\ y \in Nat
          BY <2>2
        <5> QED BY <2>4, <2>7, <5>1
      <4>2. src.h = y + 1
        <5>1. src.h \in Int /\ y \in Int
          BY <2>2
        <5> QED BY <2>4, <2>7, <5>1
      <4>3. src.h * row = y * row + row
        BY <2>2, <2>3, <4>2
      <4>4. Stride <= y * Stride
        <5>1. Stride \in Nat \ {0} /\ y \in Nat \ {0}
          BY <2>2, <2>3, <4>1
        <5> QED BY <5>1, Product
      <4>5. y * row \in Int /\ y * Stride \in Int
        BY <2>2, <2>3
      <4> QED BY <2>2, <2>3, <2>5, <4>1, <4>3, <4>4, <4>5
    <3>4. Loops'
      BY <2>2, <3>1, <3>2, <3>3 DEF Loops, Formats
    <3>5. Outcome' = Outcome
      BY <3>1 DEF Outcome, PaddedBatchesAreNotConverted, FramesHoldEveryPixel,
                  Packed, Padded, FrameSize
    <3> QED BY <3>2, <3>4, <3>5 DEF ConversionInv
  <2> QED BY <2>6, <2>7
<1> QED BY <1>2, <1>3

LEMMA RowsCopiedKeepsInv ==
  ASSUME ConversionInv, RowsCopied PROVE ConversionInv'
<1>1. /\ pc = "row" /\ i >= n /\ pc' = "done" /\ UNCHANGED <<src, n, i, y>>
      /\ dst'.size = n * src.c * src.h * src.w
      /\ dst' \in [format : {"NHWC"}, size : {n * src.c * src.h * src.w},
                   content : {"pixels", "garbled"}]
  BY DEF RowsCopied, Frame
<1>2. /\ src \in Image /\ n \in Nat \ {0} /\ n = src.num /\ i \in Nat
      /\ src.h \in Nat \ {0} /\ src.w \in Nat \ {0} /\ src.c \in Nat
      /\ i = 0 \/ (i = 1 /\ (n = 1 => src.h = 1))
  BY <1>1 DEF ConversionInv, TypeOK, Path, Loops, Image
<1>3. n = 1 /\ src.h = 1
  BY <1>1, <1>2
<1>4. TypeOK'
  <2>1. n * src.c * src.h * src.w \in Int
    BY <1>2
  <2> QED BY <1>1, <2>1 DEF ConversionInv, TypeOK, Formats
<1>5. Path' /\ Loops'
  BY <1>1 DEF ConversionInv, Path, Loops, Formats
<1>6. dst'.size = (src.num * FrameSize)'
  BY <1>1, <1>2, Regroup DEF FrameSize
<1>7. (src.num * FrameSize)' \in Int
  BY <1>1, <1>2 DEF FrameSize
<1>8. ~ Packed'
  BY <1>1 DEF ConversionInv, Outcome, Packed, FrameSize
<1>9. Outcome'
  BY <1>1, <1>2, <1>3, <1>6, <1>7, <1>8
     DEF Outcome, PaddedBatchesAreNotConverted, FramesHoldEveryPixel
<1> QED BY <1>4, <1>5, <1>9 DEF ConversionInv

LEMMA FromNV21KeepsInv ==
  ASSUME ConversionInv, FromNV21 PROVE ConversionInv'
<1>1. pc = "NV21" /\ src.format = "NV21"
  BY DEF ConversionInv, Path, FromNV21
<1>2. ~ Packed
  BY <1>1 DEF Packed, BGR
<1>3. CASE \E o \in {"thrown", "undefined"} : Ends(o)
  BY <1>2, <1>3, EndsKeepsInv
<1>4. CASE ~ \E o \in {"thrown", "undefined"} : Ends(o)
  <2>1. /\ pc' = "frame" /\ UNCHANGED <<src, n, i, y, dst>>
        /\ src.size = n * (FrameSize \div 2)
    BY <1>4 DEF FromNV21, Ends
  <2>2. src.size > 0 /\ src \in Image /\ n \in Nat
    BY <1>1 DEF ConversionInv, TypeOK, Path
  <2>3. n > 0
    <3>1. FrameSize \div 2 \in Int
      BY <2>2 DEF FrameSize, Image
    <3> QED BY <2>1, <2>2, <3>1
  <2>4. TypeOK' /\ Path'
    BY <1>1, <2>1 DEF ConversionInv, TypeOK, Path
  <2>5. Loops'
    BY <1>1, <2>1, <2>3 DEF ConversionInv, Loops, Formats
  <2>6. Outcome'
    BY <1>1, <2>1 DEF Outcome, Packed, BGR, PaddedBatchesAreNotConverted, FramesHoldEveryPixel
  <2> QED BY <2>4, <2>5, <2>6 DEF ConversionInv
<1> QED BY <1>3, <1>4

LEMMA ConvertFrameKeepsInv ==
  ASSUME ConversionInv, ConvertFrame PROVE ConversionInv'
<1>1. pc = "frame" /\ src.format = "NV21" /\ n \in Nat /\ n > 0
  BY DEF ConversionInv, TypeOK, Path, Loops, ConvertFrame
<1>2. ~ Packed
  BY <1>1 DEF Packed, BGR
<1>3. CASE Ends("undefined")
  BY <1>2, <1>3, EndsKeepsInv
<1>4. CASE ~ Ends("undefined")
  <2>1. n' = n + 1 /\ UNCHANGED <<src, i, y, dst, pc>>
    BY <1>4 DEF ConvertFrame
  <2>2. TypeOK'
    BY <1>1, <2>1 DEF ConversionInv, TypeOK
  <2>3. Path' /\ Loops'
    BY <1>1, <2>1 DEF ConversionInv, Path, Loops, Formats, BGR
  <2>4. Outcome'
    BY <1>1, <2>1 DEF Outcome, Packed, BGR, PaddedBatchesAreNotConverted, FramesHoldEveryPixel
  <2> QED BY <2>2, <2>3, <2>4 DEF ConversionInv
<1> QED BY <1>3, <1>4

(* The loop over the frames of an image in NV21 tests 0 < n.               *)
LEMMA FramesConvertedIsDead == ASSUME ConversionInv, FramesConverted PROVE FALSE
<1>1. pc = "frame" /\ i >= n
  BY DEF FramesConverted
<1>2. i = 0 /\ n > 0 /\ n \in Nat
  BY <1>1 DEF ConversionInv, TypeOK, Loops
<1> QED BY <1>1, <1>2

LEMMA StutterKeepsInv == ASSUME ConversionInv, UNCHANGED vars PROVE ConversionInv'
<1> USE DEF vars
<1>1. TypeOK' /\ Path'
  BY DEF ConversionInv, TypeOK, Path
<1>2. Loops'
  BY DEF ConversionInv, Loops, Stride
<1>3. Outcome'
  BY DEF ConversionInv, Outcome, Packed, Padded, FrameSize,
         PaddedBatchesAreNotConverted, FramesHoldEveryPixel
<1> QED BY <1>1, <1>2, <1>3 DEF ConversionInv

(* The invariant holds in every state of a call with a legal image.        *)
THEOREM ConversionInvariant == ASSUME Legal PROVE Spec => []ConversionInv
<1>1. Init => ConversionInv
  BY InitImpliesInv
<1>2. ConversionInv /\ [Next]_vars => ConversionInv'
  <2> SUFFICES ASSUME ConversionInv, [Next]_vars PROVE ConversionInv'
    OBVIOUS
  <2>1. MaxInt \in Nat
    BY DEF Legal
  <2>2. CASE Decode
    BY <2>1, <2>2, DecodeKeepsInv
  <2>3. CASE Unsupported
    BY <2>3, UnsupportedKeepsInv
  <2>4. CASE FromNCHW
    BY <2>1, <2>4, FromNCHWKeepsInv
  <2>5. CASE FromNHWC
    BY <2>1, <2>5, FromNHWCKeepsInv
  <2>6. CASE CopyRow
    BY <2>6, CopyRowKeepsInv
  <2>7. CASE RowsCopied
    BY <2>7, RowsCopiedKeepsInv
  <2>8. CASE FromNV21
    BY <2>8, FromNV21KeepsInv
  <2>9. CASE ConvertFrame
    BY <2>9, ConvertFrameKeepsInv
  <2>10. CASE FramesConverted
    BY <2>10, FramesConvertedIsDead
  <2>11. CASE UNCHANGED vars
    BY <2>11, StutterKeepsInv
  <2> QED BY <2>2, <2>3, <2>4, <2>5, <2>6, <2>7, <2>8, <2>9, <2>10, <2>11 DEF Next
<1> QED BY <1>1, <1>2, PTL DEF Spec
-----------------------------------------------------------------------------
(* What it says of the images that become a frame.                         *)

(* A packed image of BGR pixels, of whatever shape, becomes a frame of its *)
(* pixels: convert_to_bgr neither throws nor overflows on the way.         *)
THEOREM PackedImagesSucceedTheorem ==
  ASSUME Legal PROVE Spec => []PackedImagesSucceed
<1>1. ConversionInv => PackedImagesSucceed
  BY DEF ConversionInv, Outcome, PackedImagesSucceed
<1> QED BY <1>1, ConversionInvariant, PTL

(* No image in NV21 becomes a frame, of whatever shape and size: the loop  *)
(* over the frames at parser_impl.cpp:166 advances the bound it tests.     *)
THEOREM NV21Theorem == ASSUME Legal PROVE Spec => []NV21IsNeverConverted
<1>1. ConversionInv => NV21IsNeverConverted
  BY DEF ConversionInv, Path, NV21IsNeverConverted, BGR
<1> QED BY <1>1, ConversionInvariant, PTL

(* A padded image becomes a frame only when it has one row: the offset of  *)
(* a row in the source is made of the number of its frame.                 *)
THEOREM PaddedBatchesTheorem ==
  ASSUME Legal PROVE Spec => []PaddedBatchesAreNotConverted
<1>1. ConversionInv => PaddedBatchesAreNotConverted
  BY DEF ConversionInv, Outcome
<1> QED BY <1>1, ConversionInvariant, PTL

(* The frame handed on has a byte for every channel of every pixel, so the *)
(* products and remainders of the size checks let no short image through.  *)
THEOREM FramesHoldEveryPixelTheorem ==
  ASSUME Legal PROVE Spec => []FramesHoldEveryPixel
<1>1. ConversionInv => FramesHoldEveryPixel
  BY DEF ConversionInv, Outcome
<1> QED BY <1>1, ConversionInvariant, PTL
=============================================================================
