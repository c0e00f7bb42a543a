--------------------------------- MODULE Gif ---------------------------------
(***************************************************************************)
(* The GIF decoder (gif.c): a client of the cache that is called with all  *)
(* the bytes there are so far, and takes what it can use of them.  The     *)
(* line and the spill lines are scratch memory: the pixels not yet sent    *)
(* are `line', and what a_Dicache_write was given is `written'.            *)
(*                                                                         *)
(* A file is what it says: the parts of the grammar quoted in gif.c.       *)
(***************************************************************************)
EXTENDS Integers, Sequences, FiniteSets, SequencesExt
LOCAL INSTANCE Bitwise

CONSTANTS Images,    \* the files that may be received
          MaxBits    \* MAX_LWZ_BITS

ASSUME GifMaxBits == MaxBits \in 3 .. 12

VARIABLES image,     \* the file
          bytes,     \* the bytes of it
          gifArrived,   \* how many of them the cache has
          gif        \* the decoder

gifVars == <<image, bytes, gifArrived, gif>>

IMG_DESC == 44
TRAILER == 59
EXT_ID == 33
GC_EXT == 249
CMT_EXT == 254

Signature == <<71, 73, 70, 56, 57, 97>>

LocalMap(flags) == flags >= 128
Interlaced(flags) == (flags \div 64) % 2 = 1
Colors(flags) == 2 ^ (1 + (flags % 8))

(* a_Gif_new.                                                              *)
NewGif ==
  [state |-> 0, ofs |-> 0, width |-> 0, height |-> 0, interlace |-> FALSE,
   transparent |-> -1, map |-> <<0, 0>>, cmap |-> <<0, 0>>, input |-> 0,
   y |-> 0, pass |-> 0, packet |-> 0, window |-> 0, bits |-> 0, size |-> 0, last |-> 0,
   length |-> <<>>, code |-> <<>>, line |-> <<>>, written |-> <<>>]

(* The bytes at hand, up to what has arrived.                              *)
Has(at, n) == at + n <= gifArrived'
Byte(at) == bytes[at + 1]
Word16(at) == Byte(at) + 256 * Byte(at + 1)

Failed(g) == [g EXCEPT !.state = 999]

(* Gif_data_blocks: the end of a sequence of data blocks, or 0 when some   *)
(* of it is missing.                                                       *)
RECURSIVE Blocks(_)
Blocks(at) ==
  IF ~Has(at, 1) THEN 0
  ELSE IF Byte(at) = 0 THEN at + 1
  ELSE IF ~Has(at, Byte(at) + 2) THEN 0
  ELSE Blocks(at + Byte(at) + 1)

(* Gif_do_extension: the end of an extension, whose label is the byte      *)
(* before, or 0; the graphic control extension names a transparent colour. *)
ExtensionEnd(at) ==
  LET size == Byte(at) IN
  CASE Byte(at - 1) = GC_EXT -> IF Has(at, size + 2) THEN at + size + 2 ELSE 0
    [] Byte(at - 1) = CMT_EXT -> Blocks(at)
    [] OTHER -> IF Has(at, size) THEN Blocks(at + size + 1) ELSE 0

Extended(g, at) ==
  IF Byte(at - 1) = GC_EXT /\ ExtensionEnd(at) # 0 /\ Byte(at + 1) % 2 = 1
  THEN [g EXCEPT !.transparent = Byte(at + 4)] ELSE g

(* Gif_lwz_init and the end of Gif_do_img_desc.                            *)
CodesStart(g, input) ==
  [g EXCEPT !.input = input, !.y = 0, !.bits = 0, !.last = 2 ^ input + 1,
            !.length = [c \in 0 .. 2 ^ MaxBits |-> 0],
            !.code = [c \in 0 .. 2 ^ MaxBits |-> [prev |-> 0, byte |-> 0]],
            !.size = input + 1, !.state = 3, !.cmap = g.map]

(* Gif_do_img_desc: the decoder after an image descriptor, or after the    *)
(* part of it that is there; ofs is past it only when all of it was.       *)
Described(g, at) ==
  LET flags == Byte(at + 8)
      dataAt == at + 9 + (IF LocalMap(flags) THEN 3 * Colors(flags) ELSE 0)
      sized == [g EXCEPT !.width = Word16(at + 4), !.height = Word16(at + 6)]
      opened == [sized EXCEPT !.interlace = @ \/ Interlaced(flags), !.pass = 0]
      mapped == IF LocalMap(flags) /\ dataAt <= gifArrived'
                THEN [opened EXCEPT !.map = <<at + 9, Colors(flags)>>] ELSE opened
      whole == [mapped EXCEPT !.ofs = dataAt + 1]
  IN  IF ~Has(at, 10) THEN g
      ELSE IF sized.width = 0 \/ sized.height = 0 THEN Failed(sized)
      ELSE IF ~Has(dataAt, 1) THEN mapped
      ELSE IF Byte(dataAt) > 8 THEN Failed([whole EXCEPT !.input = Byte(dataAt)])
      ELSE CodesStart(whole, Byte(dataAt))

(* GIF_Block: extensions, up to the image, the trailer or missing bytes.   *)
RECURSIVE GifBlock(_)
GifBlock(g) ==
  LET at == g.ofs IN
  IF g.state # 2 \/ ~Has(at, 1) THEN g
  ELSE CASE Byte(at) = EXT_ID ->
              IF ~Has(at, 3) \/ ExtensionEnd(at + 2) = 0 THEN g
              ELSE GifBlock([Extended(g, at + 2) EXCEPT !.ofs = ExtensionEnd(at + 2)])
         [] Byte(at) = IMG_DESC -> Described(g, at + 1)
         [] OTHER -> Failed([g EXCEPT !.ofs = at + 1])

(* A mutant: the third pass begins one row too early.                      *)
Mut_NextRow(g) ==
  IF ~g.interlace THEN [g EXCEPT !.y = IF @ < g.height THEN @ + 1 ELSE @]
  ELSE LET step == <<8, 8, 4, 2>>
           y == g.y + (IF g.pass \in 0 .. 3 THEN step[g.pass + 1] ELSE 0)
           first == <<4, 1, 1>>
       IN  IF y < g.height THEN [g EXCEPT !.y = y]
           ELSE [g EXCEPT !.pass = @ + 1,
                          !.y = IF g.pass \in 0 .. 2 THEN first[g.pass + 1] ELSE 0]

(* Gif_emit_line: the row of the next line; an interlaced image is sent in *)
(* four passes.                                                            *)
NextRow(g) ==
  IF ~g.interlace THEN [g EXCEPT !.y = IF @ < g.height THEN @ + 1 ELSE @]
  ELSE LET step == <<8, 8, 4, 2>>
           y == g.y + (IF g.pass \in 0 .. 3 THEN step[g.pass + 1] ELSE 0)
           first == <<4, 2, 1>>
       IN  IF y < g.height THEN [g EXCEPT !.y = y]
           ELSE [g EXCEPT !.pass = @ + 1,
                          !.y = IF g.pass \in 0 .. 2 THEN first[g.pass + 1] ELSE 0]

RECURSIVE Emitted(_)
Emitted(g) ==
  IF Len(g.line) < g.width THEN g
  ELSE Emitted([NextRow(g) EXCEPT
                  !.written = Append(@, [y |-> g.y, line |-> SubSeq(g.line, 1, g.width)]),
                  !.line = SubSeq(@, g.width + 1, Len(@))])

(* Gif_literal and Gif_sequence: the pixels of a code.  The byte of the    *)
(* last entry of the table becomes known with the code after it; a code    *)
(* for that very entry ends with the byte it begins with.                  *)
RECURSIVE Chain(_, _, _)
Chain(g, code, n) ==
  IF n = 1 THEN <<code>> ELSE Append(Chain(g, g.code[code].prev, n - 1), g.code[code].byte)

Pixels(g, code) ==
  IF code < 2 ^ g.input THEN <<code>>
  ELSE LET chain == Chain(g, code, g.length[code]) IN
         IF code = g.last THEN [chain EXCEPT ![Len(chain)] = chain[1]] ELSE chain

Entered(g, code) ==
  LET pixels == Pixels(g, code) IN
    Emitted([g EXCEPT !.length[g.last + 1] = Len(pixels) + 1,
                      !.code = [@ EXCEPT ![g.last + 1] = [prev |-> code, byte |-> 0],
                                         ![g.last].byte = @ | pixels[1]],
                      !.line = @ \o pixels])

(* The table grows by one code, and the codes by one bit when it must.     *)
Grown(g) ==
  IF g.last + 1 # 2 ^ g.size THEN [g EXCEPT !.last = @ + 1]
  ELSE IF g.last + 1 = 2 ^ MaxBits THEN g
  ELSE [g EXCEPT !.last = @ + 1, !.size = @ + 1]

(* Gif_process_code and the loop of Gif_decode over the codes in the       *)
(* window.                                                                 *)
RECURSIVE Codes(_)
Codes(g) ==
  IF g.bits < g.size \/ g.state = 999 THEN g
  ELSE LET code == g.window % 2 ^ g.size
           clear == 2 ^ g.input
           taken == [g EXCEPT !.window = @ \div 2 ^ g.size, !.bits = @ - g.size]
       IN  CASE code < clear \/ code \in clear + 2 .. g.last ->
                  Codes(Grown(Entered(taken, code)))
             [] code = clear ->
                  Codes([taken EXCEPT !.last = clear + 1, !.size = g.input + 1])
             [] OTHER -> Failed(taken)

(* Gif_decode: data blocks, byte by byte.                                  *)
RECURSIVE Decoded(_)
Decoded(g) ==
  LET next == [g EXCEPT !.ofs = @ + 1]
      byte == Byte(g.ofs)
  IN  IF g.state # 3 \/ ~Has(g.ofs, 1) THEN g
      ELSE IF g.packet > 0
      THEN Decoded(Codes([next EXCEPT !.packet = @ - 1, !.bits = @ + 8,
                                      !.window = @ + byte * 2 ^ g.bits]))
      ELSE IF byte = 0 THEN Failed(next)
      ELSE Decoded([next EXCEPT !.packet = byte])

(* Gif_check_sig and Gif_get_descriptor.                                   *)
Checked(g) ==
  IF g.state # 0 \/ ~Has(g.ofs, 6) THEN g
  ELSE [g EXCEPT !.ofs = @ + 6,
                 !.state = IF SubSeq(bytes, 1, 6) = Signature THEN 1 ELSE 999]

Screen(g) ==
  LET flags == Byte(g.ofs + 4)
      end == g.ofs + 7 + (IF LocalMap(flags) THEN 3 * Colors(flags) ELSE 0)
  IN  IF g.state # 1 \/ ~Has(g.ofs, 7) THEN g
      ELSE IF end > gifArrived' THEN g
      ELSE [g EXCEPT !.state = 2, !.ofs = end,
                     !.map = IF LocalMap(flags) THEN <<g.ofs + 7, Colors(flags)>> ELSE @]

(* Gif_process_bytes: each state goes on into the next; when the file is   *)
(* over or wrong, all there is is consumed.                                *)
Processed(g) ==
  LET done == Decoded(GifBlock(Screen(Checked(g)))) IN
    IF done.state = 999 THEN [done EXCEPT !.ofs = gifArrived'] ELSE done

(* a_Gif_callback with CA_Send, Gif_write: some more bytes have arrived.   *)
Send(n) ==
  /\ gifArrived' = gifArrived + n
  /\ gifArrived' <= Len(bytes)
  /\ gif' = Processed(gif)
  /\ UNCHANGED <<image, bytes>>

-----------------------------------------------------------------------------
(* The bytes of a file, by the grammar quoted in gif.c.                    *)
Table(n) == [i \in 1 .. (3 * n) |-> i]
Flags(n, interlaced) ==
  (IF interlaced THEN 64 ELSE 0)
    + (IF n = 0 THEN 0 ELSE 127 + (CHOOSE k \in 1 .. 8 : 2 ^ k = n))

Bytes(f) ==
  Signature \o <<f.width, 0, f.height, 0, Flags(f.global, FALSE), 0, 0>> \o Table(f.global)
    \o (IF f.comment THEN <<EXT_ID, CMT_EXT, 2, 33, 44, 1, 59, 0>> ELSE <<>>)
    \o (IF f.application THEN <<EXT_ID, 255, 3, 1, 2, 3, 1, 44, 0>> ELSE <<>>)
    \o (IF f.transparent = -1 THEN <<>>
        ELSE <<EXT_ID, GC_EXT, 4, 1, 0, 0, f.transparent, 0>>)
    \o <<IMG_DESC, 0, 0, 0, 0, f.width, 0, f.height, 0, Flags(f.local, f.interlace)>>
    \o Table(f.local) \o <<f.input>>
    \o FlattenSeq([i \in DOMAIN f.blocks |-> <<Len(f.blocks[i])>> \o f.blocks[i]])
    \o <<0, TRAILER>>

GifInit ==
  /\ image \in Images
  /\ bytes = Bytes(image)
  /\ gifArrived = 0
  /\ gif = NewGif

GifNext == \E n \in 1 .. Len(bytes) - gifArrived : Send(n)

GifSpec == GifInit /\ [][GifNext]_gifVars

-----------------------------------------------------------------------------
(* The pixels the data blocks of a file stand for, decoded as the GIF      *)
(* specification says: a table of strings, that grows by the last string   *)
(* and the first pixel of the next.                                        *)
BitsOf(f) ==
  FlattenSeq([i \in DOMAIN FlattenSeq(f.blocks) |->
                [b \in 1 .. 8 |-> (FlattenSeq(f.blocks)[i] \div 2 ^ (b - 1)) % 2]])

RECURSIVE Unpack(_, _, _, _)
Unpack(f, bits, table, before) ==
  LET clear == 2 ^ f.input
      free == clear + 2 + Len(table) + (IF before = <<>> THEN -1 ELSE 0)
      size == CHOOSE k \in 1 .. MaxBits :
                /\ 2 ^ k > free \/ k = MaxBits
                /\ k > f.input /\ (k > f.input + 1 => 2 ^ (k - 1) <= free)
      code == FoldLeft(LAMBDA n, i: n + bits[i] * 2 ^ (i - 1), 0, [i \in 1 .. size |-> i])
      rest == SubSeq(bits, size + 1, Len(bits))
      string == IF code < clear THEN <<code>>
                ELSE IF code - clear - 1 <= Len(table) THEN table[code - clear - 1]
                ELSE Append(before, before[1])
      full == clear + 2 + Len(table) = 2 ^ MaxBits
      more == IF before = <<>> \/ full THEN table ELSE Append(table, Append(before, string[1]))
  IN  IF Len(bits) < size \/ code = clear + 1 THEN <<>>
      ELSE IF code = clear THEN Unpack(f, rest, <<>>, <<>>)
      ELSE IF code - clear - 1 > Len(table) + (IF before = <<>> THEN 0 ELSE 1) THEN <<>>
      ELSE string \o Unpack(f, rest, more, string)

(* The rows of an image in the order they are sent.                        *)
RowsFrom(first, step, height) ==
  IF first >= height THEN <<>>
  ELSE [i \in 1 .. ((height - first - 1) \div step + 1) |-> first + (i - 1) * step]

RowOrder(f) ==
  IF f.interlace
  THEN RowsFrom(0, 8, f.height) \o RowsFrom(4, 8, f.height) \o RowsFrom(2, 4, f.height)
         \o RowsFrom(1, 2, f.height)
  ELSE RowsFrom(0, 1, f.height)

RightRows(f) ==
  LET pixels == Unpack(f, BitsOf(f), <<>>, <<>>)
      order == RowOrder(f)
      n == Len(pixels) \div f.width
  IN  [i \in 1 .. (IF n < f.height THEN n ELSE f.height) |->
         [y |-> order[i], line |-> SubSeq(pixels, (i - 1) * f.width + 1, i * f.width)]]

(* However the bytes arrive, the lines that have reached the image are     *)
(* those of the file, in the rows they belong to, and with the last byte   *)
(* all of them have; the colours are those nearest to the image and the    *)
(* transparent one is that of the file (Gif_process_bytes, Gif_decode,     *)
(* Gif_emit_line).  A line past the last row is not shown.                 *)
ImageIsRight ==
  LET right == RightRows(image)
      shown == SelectSeq(gif.written, LAMBDA w: w.y < image.height)
  IN  /\ IsPrefix(shown, right)
      /\ gifArrived = Len(bytes) => shown = right
      /\ gif.state = 3 =>
           /\ gif.cmap[2] = (IF image.local # 0 THEN image.local ELSE image.global)
           /\ gif.cmap[2] # 0 =>
                SubSeq(bytes, gif.cmap[1] + 1, gif.cmap[1] + 3 * gif.cmap[2]) = Table(gif.cmap[2])
           /\ gif.transparent = image.transparent
=============================================================================
