---------------------------- MODULE ImageDecoder ----------------------------
(***************************************************************************)
(* The converters of rk-binary-image-decoder: a raw file of a given format,*)
(* width, height and stride becomes an image.  They are pure functions of  *)
(* their arguments, the record job.                                        *)
(*                                                                         *)
(* The content of the file is left open: what a sample of the image has    *)
(* got is the position in the file of each of its bits, least significant  *)
(* first, so that every file is covered at once.  The colours are numbers. *)
(***************************************************************************)
EXTENDS Integers

CONSTANTS
    Widths, Heights,  \* in pixels
    Strides,          \* bytes per row that are asked for; Unset when not given
    Sizes,            \* bytes in the file
    Levels,           \* bound: the 8-bit samples whose colours are compared
    Unset

ASSUME SizesAssumption ==
    /\ Widths \subseteq Nat /\ Heights \subseteq Nat
    /\ Sizes \subseteq Nat /\ Strides \subseteq Nat \cup {Unset} /\ Unset \notin Nat
ASSUME LevelsAssumption == Levels \subseteq 0 .. 255

VARIABLE args  \* what the converter that runs is called with; Unset when none runs

Formats == {"NV12", "NV16", "NV24", "NV15", "NV20", "AB24", "BG24"}
Packed == {"NV15", "NV20"}  \* four samples of ten bits in five bytes
Plain == {"AB24", "BG24"}   \* no planes, a pixel in one piece
Jobs == [format : Formats, width : Widths, height : Heights,
         stride : Strides, size : Sizes]

Channels(format) == IF format \in Plain THEN {"r", "g", "b", "a"} ELSE {"Y", "U", "V"}

Zero == -1  \* a bit that is 0 whatever is in the file ...
One == -2   \* ... or 1
Grey == [b \in 0 .. 7 |-> IF b = 7 THEN One ELSE Zero]  \* 128
Opaque == [b \in 0 .. 7 |-> One]                        \* 255
Black == [b \in 0 .. 9 |-> Zero]                        \* np.zeros
IndexError == [b \in {} |-> Zero]

-----------------------------------------------------------------------------
(* The file, resized                                                       *)

MinStride(job) ==
    CASE job.format \in Packed -> (job.width * 5 + 3) \div 4
      [] job.format = "AB24"   -> job.width * 4
      [] job.format = "BG24"   -> job.width * 3
      [] OTHER                 -> job.width

\* A stride that is missing, no number or too small becomes the least possible.
Stride(job) == IF job.stride = Unset THEN MinStride(job)
               ELSE IF job.stride < MinStride(job) THEN MinStride(job) ELSE job.stride

LumaSize(job) == job.height * Stride(job)

\* required_size, expected_size
Required(job) ==
    CASE job.format \in Plain            -> LumaSize(job)
      [] job.format \in {"NV12", "NV15"} -> LumaSize(job) + (job.height \div 2) * Stride(job)
      [] job.format \in {"NV16", "NV20"} -> 2 * LumaSize(job)
      [] job.format = "NV24"             -> 3 * LumaSize(job)

\* A file that is too short is padded with zeros.
FileBit(job, position) == IF position < 8 * job.size THEN position ELSE Zero

Byte(job, at) ==
    IF at < Required(job) THEN [b \in 0 .. 7 |-> FileBit(job, 8 * at + b)] ELSE IndexError

-----------------------------------------------------------------------------
(* Samples of eight bits                                                   *)

Second(c) == IF c = "V" THEN 1 ELSE 0

Luma8(job, x, y) == Byte(job, y * Stride(job) + x)

\* One U and one V for two columns; grey where the plane has ended.
Chroma8(job, row, c, x) ==
    LET at == row * Stride(job) + (x - (x % 2)) + Second(c)
    IN  IF at < Required(job) - LumaSize(job) THEN Byte(job, LumaSize(job) + at) ELSE Grey

NV12(job, c, x, y) == IF c = "Y" THEN Luma8(job, x, y) ELSE Chroma8(job, y \div 2, c, x)

NV16(job, c, x, y) == IF c = "Y" THEN Luma8(job, x, y) ELSE Chroma8(job, y, c, x)

NV24(job, c, x, y) == IF c = "Y" THEN Luma8(job, x, y)
                       ELSE Byte(job, LumaSize(job) + y * Stride(job) * 2 + x * 2 + Second(c))

AB24(job, c, x, y) ==
    LET at == y * Stride(job) + x * 4
    IN  CASE c = "b" -> Byte(job, at)     [] c = "g" -> Byte(job, at + 1)
          [] c = "r" -> Byte(job, at + 2) [] c = "a" -> Byte(job, at + 3)

BG24(job, c, x, y) ==
    LET at == y * Stride(job) + x * 3
    IN  CASE c = "b" -> Byte(job, at)     [] c = "g" -> Byte(job, at + 1)
          [] c = "r" -> Byte(job, at + 2) [] c = "a" -> Opaque

-----------------------------------------------------------------------------
(* Samples of ten bits                                                     *)

\* Mutant of Unpack4x10: the masks of the second half are those of the first.
Unpack4x10Masked(job, at) ==
    IF at + 4 < Required(job)
    THEN [i \in 0 .. 3 |-> LET low == IF i = 0 THEN 8 ELSE 6
          IN  [b \in 0 .. 9 |-> IF b < low THEN FileBit(job, 8 * (at + i) + 2 * i + b)
                                ELSE FileBit(job, 8 * (at + i + 1) + b - low)]]
    ELSE IndexError

\* The i-th of four samples has the bits of byte at + i above its first 2 * i, and
\* the rest from the next byte.
Unpack4x10(job, at) ==
    IF at + 4 < Required(job)
    THEN [i \in 0 .. 3 |-> LET low == 8 - 2 * i
          IN  [b \in 0 .. 9 |-> IF b < low THEN FileBit(job, 8 * (at + i) + 2 * i + b)
                                ELSE FileBit(job, 8 * (at + i + 1) + b - low)]]
    ELSE IndexError

\* Four pixels at a time; the columns of an incomplete group are left at zero.
Luma10(job, x, y) ==
    LET first == x - (x % 4)
        at == y * Stride(job) + (first * 5) \div 4
    IN  IF first + 3 < job.width /\ at + 4 < Required(job)
        THEN Unpack4x10(job, at)[x % 4] ELSE Black

\* Two pairs U, V at a time, upsampled to the columns and rows that share them.
Chroma10(job, rows, row, c, x) ==
    LET column == x \div 2
        first == column - (column % 2)
        at == LumaSize(job) + row * Stride(job) + (first * 5) \div 2
    IN  IF first + 1 < job.width \div 2 /\ row < rows /\ at + 4 < Required(job)
        THEN Unpack4x10(job, at)[2 * (column % 2) + Second(c)] ELSE Black

NV15(job, c, x, y) == IF c = "Y" THEN Luma10(job, x, y)
                       ELSE Chroma10(job, job.height \div 2, y \div 2, c, x)

NV20(job, c, x, y) == IF c = "Y" THEN Luma10(job, x, y)
                       ELSE Chroma10(job, job.height, y, c, x)

Sample(job, c, x, y) ==
    CASE job.format = "NV12" -> NV12(job, c, x, y)
      [] job.format = "NV16" -> NV16(job, c, x, y)
      [] job.format = "NV24" -> NV24(job, c, x, y)
      [] job.format = "NV15" -> NV15(job, c, x, y)
      [] job.format = "NV20" -> NV20(job, c, x, y)
      [] job.format = "AB24" -> AB24(job, c, x, y)
      [] job.format = "BG24" -> BG24(job, c, x, y)

\* The samples of the image.
Places(job) == Channels(job.format) \X (0 .. job.width - 1) \X (0 .. job.height - 1)

-----------------------------------------------------------------------------
(* Colours                                                                 *)

Clip(top, n) == IF n < 0 THEN 0 ELSE IF n > top THEN top ELSE n

\* yuv_planes_to_rgb
ToRGB8(Y, U, V) ==
    LET C == Y - 16
        D == U - 128
        E == V - 128
    IN  [r |-> Clip(255, (298 * C + 409 * E + 128) \div 256),
         g |-> Clip(255, (298 * C - 100 * D - 208 * E + 128) \div 256),
         b |-> Clip(255, (298 * C + 516 * D + 128) \div 256)]

\* Mutant of ToRGB10: the black level is that of eight bits.
ToRGB10Black(Y, U, V) ==
    LET C == Y - 16
        D == U - 512
        E == V - 512
    IN  [r |-> Clip(1023, (1192 * C + 1634 * E + 512) \div 1024),
         g |-> Clip(1023, (1192 * C - 401 * D - 833 * E + 512) \div 1024),
         b |-> Clip(1023, (1192 * C + 2066 * D + 512) \div 1024)]

\* yuv_planes_to_rgb10, before the shift to 16 bits
ToRGB10(Y, U, V) ==
    LET C == Y - 64
        D == U - 512
        E == V - 512
    IN  [r |-> Clip(1023, (1192 * C + 1634 * E + 512) \div 1024),
         g |-> Clip(1023, (1192 * C - 401 * D - 833 * E + 512) \div 1024),
         b |-> Clip(1023, (1192 * C + 2066 * D + 512) \div 1024)]

\* Shifted to 16 bits, and by write_png16 to 8.
ToPNG16(level) == (level * 64) \div 256

-----------------------------------------------------------------------------
(* The calls                                                               *)

DecoderInit == args = Unset

Call == args = Unset /\ args' \in Jobs

Return == args # Unset /\ args' = Unset

DecoderNext == Call \/ Return

DecoderSpec == DecoderInit /\ [][DecoderNext]_args

-----------------------------------------------------------------------------
(* Properties                                                              *)

\* Where a format has a sample: after `row' bytes, the samples before it being of
\* as many bits.
Place(job, bits, row, before) ==
    [b \in 0 .. bits - 1 |-> FileBit(job, 8 * row + bits * before + b)]

Bits(job) == IF job.format \in Packed THEN 10 ELSE 8

\* Rows and columns that share their chroma.
ShareX(job) == IF job.format \in {"NV12", "NV16", "NV15", "NV20"} THEN 2 ELSE 1
ShareY(job) == IF job.format \in {"NV12", "NV15"} THEN 2 ELSE 1

ChromaRow(job, y) ==
    LumaSize(job)
    + (y \div ShareY(job)) * (IF job.format = "NV24" THEN 2 * Stride(job) ELSE Stride(job))

\* The formats as references/formats.md and scripts/README.md describe them.
Expected(job, c, x, y) ==
    CASE c = "Y" -> Place(job, Bits(job), y * Stride(job), x)
      [] c \in {"U", "V"} ->
             Place(job, Bits(job), ChromaRow(job, y), 2 * (x \div ShareX(job)) + Second(c))
      [] c \in {"r", "g", "b", "a"} ->
             LET bytes == IF job.format = "AB24" THEN 4 ELSE 3
                 order == CASE c = "b" -> 0 [] c = "g" -> 1 [] c = "r" -> 2 [] c = "a" -> 3
             IN  IF c = "a" /\ job.format = "BG24" THEN Opaque
                 ELSE Place(job, 8, y * Stride(job), bytes * x + order)

\* The columns and rows of complete groups: of four columns where four samples are
\* packed, of the columns and rows that share their chroma elsewhere.
InGroup(job, x, y) ==
    /\ x < job.width - (job.width % (IF job.format \in Packed THEN 4 ELSE ShareX(job)))
    /\ y < job.height - (job.height % ShareY(job))

\* Every sample is read inside the data, for any width, height, stride and size of
\* the file ("helper program can handle size error", references/formats.md), and in
\* a complete group it is the one that the format has at its place; where the file
\* is too short, its bits are zero.
SamplesInPlace ==
    args # Unset =>
        \A p \in Places(args) :
            /\ Sample(args, p[1], p[2], p[3]) # IndexError
            /\ InGroup(args, p[2], p[3]) =>
                   Sample(args, p[1], p[2], p[3]) = Expected(args, p[1], p[2], p[3])

\* The colours of BT.601 in ten thousandths of a level of `scale' steps.
Exact(scale, Y, U, V) ==
    LET C == Y - 16 * scale
        D == U - 128 * scale
        E == V - 128 * scale
    IN  [r |-> Clip(2550000, (11644 * C + 15960 * E) \div scale),
         g |-> Clip(2550000, (11644 * C - 3918 * D - 8130 * E) \div scale),
         b |-> Clip(2550000, (11644 * C + 20172 * D) \div scale)]

Near(level, exact) == 10000 * level - exact \in -11000 .. 11000

Exact8 ==
    \A Y, U, V \in Levels :
        LET rgb == ToRGB8(Y, U, V)
        IN  \A c \in {"r", "g", "b"} : Near(rgb[c], Exact(1, Y, U, V)[c])

FineLevels == {4 * l + rest : l \in Levels, rest \in {0, 3}}

Exact10 ==
    \A Y, U, V \in FineLevels :
        LET rgb == ToRGB10(Y, U, V)
        IN  \A c \in {"r", "g", "b"} : Near(ToPNG16(rgb[c]), Exact(4, Y, U, V)[c])

\* What is written is within 1.1 levels of the colour BT.601 gives, whether the
\* samples have eight bits or ten.
ColoursRight ==
    args # Unset => IF args.format \in Packed THEN Exact10
                    ELSE args.format \notin Plain => Exact8
=============================================================================
