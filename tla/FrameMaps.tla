------------------------------ MODULE FrameMaps ------------------------------
(***************************************************************************)
(* Where the pictures lie: AllocateFrameBufferArray lays the planes of the *)
(* frame buffers out, SetTiledMapType gives the tables by which a position *)
(* in a plane becomes row, bank and column of the memory and these an      *)
(* address, and GetXY2AXIAddr follows the tables.  All three are functions *)
(* of map type, memory and size; the state is what an encoder keeps of     *)
(* them when its frames are registered.                                    *)
(*                                                                         *)
(* The registers bufY, bufCb and bufCr of a tiled frame pack four base     *)
(* addresses in bits.  They are a record here, in the units the packing    *)
(* keeps: pages of 4096 in the macroblock maps, rows of the memory else.   *)
(***************************************************************************)
EXTENDS Integers, Sequences, FiniteSets

CONSTANTS Strides, Heights,    \* sizes that a caller registers frames with
          Base,                \* where the driver's block begins
          Frames               \* how many frame buffers share it

(* VPU_EncRegisterFrameBuffer asks no more of a size than what RegisterFrameBuffer
   has for a guard.  That it is no larger than this is the caller's duty: an encoder
   is opened for pictures of at most 1920 by 1088 (MAX_ENC_PIC_WIDTH, -HEIGHT), in
   lines whose x has no more bits than the tables.  So is the number of frames: the
   call writes beyond frameAddr[22] if there are more.  A block of the driver begins
   at a page of VMEM_PAGE_SIZE. *)
ASSUME FrameMapsAssumption ==
  /\ Strides \subseteq 0 .. 2048
  /\ Heights \subseteq 1 .. 1088
  /\ Base \in Nat /\ Base % 16384 = 0
  /\ Frames \in 1 .. 22

VARIABLES frameBufPool,        \* of EncInfo: the frames, counted from 0
          vbFrame,             \* the block they lie in
          mapCfg               \* the tables, and the memory they are made for

frameVars == <<frameBufPool, vbFrame, mapCfg>>

RowMaps == {"FRAME_V", "FRAME_H", "FIELD_V", "MIXED_V"}
MbMaps  == {"FRAME_MB_RASTER", "FIELD_MB_RASTER"}
MapTypes == RowMaps \cup MbMaps \cup {"LINEAR"}

(* EM_CAS, EM_BANK, EM_RAS and EM_WIDTH of the two platforms. *)
Fpga  == [cas |-> 9,  bank |-> 2, ras |-> 13, bus |-> 3]
Board == [cas |-> 10, bank |-> 3, ras |-> 13, bus |-> 2]

RoundUp(n, unit) == ((n + unit - 1) \div unit) * unit
Bit(n, b) == (n \div 2^b) % 2

(***************************************************************************)
(* The layout.                                                             *)
(***************************************************************************)
RowBits(dram) == dram.bank + dram.cas + dram.bus
(* RasLowBitsForHor: the rows of the memory beside each other in a line. *)
LowBits(dram) == IF dram.cas = 9 THEN 3 ELSE 2

(* Rows of the memory for one field of chroma; luma takes twice as many. *)
ChrFieldRas(chromaHeight, dram) ==
  (RoundUp((chromaHeight + 1) \div 2, 64) \div 64) * 2^LowBits(dram)

(* The bytes AllocateFrameBufferArray counts for one frame of FORMAT_420. *)
LumSize(map, stride, height) ==
  CASE map = "FRAME_MB_RASTER" -> RoundUp(stride * height, 16384)
    [] map = "FIELD_MB_RASTER" -> RoundUp(RoundUp(stride * height, 16384), 32768)
    [] OTHER -> stride * height
ChrSize(map, stride, height) ==
  LET plane == (height \div 2) * (stride \div 2)
  IN CASE map = "FRAME_MB_RASTER" -> RoundUp(plane, 16384)
       [] map = "FIELD_MB_RASTER" -> RoundUp(RoundUp(plane, 16384), 32768)
       [] OTHER -> plane
FrameSize(map, dram, stride, height) ==
  IF map \in RowMaps
  THEN 6 * ChrFieldRas(height \div 2, dram) * 2^RowBits(dram)
  ELSE LumSize(map, stride, height) + 2 * ChrSize(map, stride, height)

(* VPU_GetFrameBufSize, what a caller is told to keep for a frame. *)
GetFrameBufSize(map, dram, width, height) ==
  LET w == RoundUp(width, 16)
      h == RoundUp(height, 32)
      unit == IF map = "FRAME_MB_RASTER" THEN 16384 ELSE 32768
  IN RoundUp(CASE map = "LINEAR" -> w * h + (w \div 2) * (h \div 2) * 2
               [] map \in MbMaps -> RoundUp(w * h, unit)
                                      + 2 * RoundUp((w * h) \div 4, unit)
               [] OTHER -> 6 * ChrFieldRas(h \div 2, dram) * 2^RowBits(dram), 8)

(* The base addresses of the i-th frame, counted from 0, that the loop of
   AllocateFrameBufferArray comes to. *)
FrameAt(map, dram, stride, height, i) ==
  LET size == FrameSize(map, dram, stride, height)
      lum  == LumSize(map, stride, height)
      chr  == ChrSize(map, stride, height)
      a    == RoundUp(Base, 16384) + i * size
      field == ChrFieldRas(height \div 2, dram)
      row  == i * 6 * field
      low  == 2^LowBits(dram)
      Middle(r) == (r \div low) * low + low \div 2
  IN CASE map = "LINEAR" ->
            [y |-> Base + i * size, cb |-> Base + i * size + lum,
             cr |-> Base + i * size + lum + chr]
       [] map \in MbMaps ->
            [lumTop |-> a \div 4096,         lumBot |-> (a + lum \div 2) \div 4096,
             chrTop |-> (a + lum) \div 4096, chrBot |-> (a + lum + chr) \div 4096]
       [] OTHER ->
            [y  |-> [top |-> row, bot |-> row + 2 * field],
             cb |-> [top |-> row + 4 * field, bot |-> row + 5 * field],
             cr |-> [top |-> Middle(row + 4 * field),
                     bot |-> Middle(row + 5 * field)]]

(***************************************************************************)
(* The tables.  An entry that picks a bit of x or y is the number the      *)
(* macros XY2 and XY2BANK make of it, 16 * selector + bit; a pair has      *)
(* luma's and chroma's.                                                    *)
(***************************************************************************)
Xs(from, to) == [i \in 1 .. to - from + 1 |-> <<from + i - 1, from + i - 1>>]
Ys(from, to) == [i \in 1 .. to - from + 1 |-> <<16 + from + i - 1, 16 + from + i - 1>>]
ZeroEntry == 64
ZSel == <<<<48, 48>>>>         \* XY2(Z_SEL, 0, Z_SEL, 0)
Inverted == 128

XsThenYs == Xs(3, 6) \o Ys(0, 3)
YsThenXs == Ys(0, 3) \o Xs(3, 6)
FirstLineLast == Ys(1, 3) \o Ys(0, 0) \o Xs(3, 6)

CasMapChromaAsLuma(map, dram) ==
  LET within == IF map = "FRAME_H" THEN XsThenYs ELSE YsThenXs
  IN CASE map \in RowMaps /\ dram = Fpga -> within \o Ys(4, 4)
       [] map \in RowMaps /\ dram = Board -> ZSel \o within \o Ys(4, 4)
       [] map \in MbMaps -> Ys(0, 2) \o <<<<19, 3>>, <<3, ZeroEntry>>>>

CasMap(map, dram) ==
  LET within == CASE map \in {"FRAME_V", "FIELD_V"} -> YsThenXs
                  [] map = "FRAME_H" -> XsThenYs
                  [] map = "MIXED_V" -> FirstLineLast
  IN CASE map = "FRAME_MB_RASTER" -> Ys(0, 2) \o <<<<19, 3>>, <<3, ZeroEntry>>>>
       [] map = "FIELD_MB_RASTER" -> Ys(0, 1) \o <<<<18, 3>>, <<3, ZeroEntry>>>>
       [] map \in RowMaps /\ dram = Fpga  -> within \o <<<<20, 21>>>>
       [] map \in RowMaps /\ dram = Board -> ZSel \o within \o Ys(4, 4)

BankMap(map, dram) ==
  IF dram = Board
  THEN <<<<7, Inverted + 7>>, <<8, Inverted + 8>>, <<21, Inverted + 21>>>>
  ELSE <<<<7, Inverted + 7>>, IF map = "FIELD_V" THEN <<53, Inverted + 52>>
                                                ELSE <<21, Inverted + 20>>>>

RasMap(dram) ==
  IF dram = Fpga THEN Xs(8, 10) \o Ys(6, 15) ELSE Xs(9, 10) \o Ys(6, 15)

(* rbc2axiMap: which bit of row, bank or column each bit of the address is.
   The lowest bits and those past the end are zero. *)
Of(part, from, to) == [i \in 1 .. to - from + 1 |-> <<part, from + i - 1>>]
Zeros(n) == [i \in 1 .. n |-> <<"zero", 0>>]
OfBlock(last) ==
  Zeros(3) \o Of("ca", 0, last) \o Of("ca", 8, 15) \o Of("ra", 0, 15)
OfRow(dram) ==
  IF dram = Fpga
  THEN Zeros(3) \o Of("ca", 0, 8) \o Of("ba", 0, 1) \o Of("ra", 0, 15)
  ELSE Zeros(2) \o Of("ca", 0, 9) \o Of("ba", 0, 2) \o Of("ra", 0, 12)
AxiMap(map, dram, chroma) ==
  CASE map = "LINEAR" -> <<>>
    [] map = "FRAME_MB_RASTER" -> OfBlock(IF chroma THEN 3 ELSE 4)
    [] map = "FIELD_MB_RASTER" -> OfBlock(IF chroma THEN 2 ELSE 3)
    [] map \in RowMaps -> OfRow(dram)

(* What SetTiledMapType leaves in pMapCfg.  tbSeparateMap, from
   xy2rbcConfig: the two fields lie apart. *)
SetTiledMapType(map, dram) ==
  [mapType |-> map, dram |-> dram,
   cas  |-> IF map = "LINEAR" THEN <<>> ELSE CasMap(map, dram),
   bank |-> IF map \in RowMaps THEN BankMap(map, dram) ELSE <<>>,
   ras  |-> IF map \in RowMaps THEN RasMap(dram) ELSE <<>>,
   axi  |-> [chroma \in BOOLEAN |-> AxiMap(map, dram, chroma)],
   tbSeparateMap |-> map \in {"FIELD_V", "FIELD_MB_RASTER"}]

(***************************************************************************)
(* Following the tables.                                                   *)
(***************************************************************************)

(* GetXY2RBCLogic. *)
XyBit(entry, x, y, tb) ==
  LET pos    == IF Bit(entry, 4) = 1 THEN y ELSE x
      bit    == Bit(pos, entry % 16)
      xored  == IF Bit(entry, 5) = 1 THEN (bit + tb) % 2 ELSE bit
      zeroed == IF Bit(entry, 6) = 1 THEN 0 ELSE xored
  IN IF Bit(entry, 7) = 1 THEN 1 - zeroed ELSE zeroed

(* The number with these bits, the lowest first. *)
Value(bits) ==
  LET length == Len(bits)
      Highest[n \in 0 .. length] ==
        IF n = 0 THEN 0 ELSE bits[length + 1 - n] + 2 * Highest[n - 1]
  IN Highest[length]

(* side is 1 for luma's entries, 2 for chroma's. *)
Converted(table, side, x, y, tb) ==
  Value([i \in 1 .. Len(table) |-> XyBit(table[i][side], x, y, tb)])

(* rbc2axi_logic, for all bits of the address. *)
Addressed(axi, ra, ba, ca) ==
  LET in == [ra |-> ra, ba |-> ba, ca |-> ca, zero |-> 0]
  IN Value([i \in 1 .. Len(axi) |-> Bit(in[axi[i][1]], axi[i][2])])

(* GetXY2AXIAddr.  The planes are "y", "cb" and "cr". *)
GetXY2AXIAddr(cfg, plane, posY, posX, stride, fb) ==
  LET tb     == posY % 2
      y      == IF cfg.tbSeparateMap THEN posY \div 2 ELSE posY
      chroma == plane # "y"
      side   == IF chroma THEN 2 ELSE 1
      bottom == cfg.tbSeparateMap /\ tb = 1
      ca     == Converted(cfg.cas, side, posX, y, tb)
      mb     == (stride \div 16) * (posY \div (IF chroma THEN 8 ELSE 16))
                  + posX \div 16
      page   == CASE ~chroma /\ bottom  -> fb.lumBot
                  [] ~chroma /\ ~bottom -> fb.lumTop
                  [] chroma /\ bottom   -> fb.chrBot
                  [] chroma /\ ~bottom  -> fb.chrTop
      ba     == Converted(cfg.bank, side, posX, y, tb)
      row    == IF bottom THEN fb[plane].bot ELSE fb[plane].top
      ra     == Converted(cfg.ras, side, posX, y, tb) + row
  IN CASE cfg.mapType = "LINEAR" -> posY * stride + posX + fb[plane]
       [] cfg.mapType \in MbMaps ->
            page * 4096 + Addressed(cfg.axi[chroma], mb \div 256, 0,
                                    (ca % 256) + (mb % 256) * 256)
       [] cfg.mapType \in RowMaps ->
            Base + Addressed(cfg.axi[chroma], ra, ba, ca)

(***************************************************************************)
(* VPU_EncRegisterFrameBuffer of an encoder that leaves it to the VPU API  *)
(* to find the memory.                                                     *)
(***************************************************************************)
Registered == frameBufPool # <<>>

FramesInit ==
  /\ frameBufPool = <<>>
  /\ vbFrame = [phys |-> 0, size |-> 0]
  /\ mapCfg = SetTiledMapType("LINEAR", Board)

RegisterFrameBuffer(map, dram, interleave, stride, height) ==
  /\ ~Registered
  /\ stride # 0 /\ stride % 8 = 0    \* RETCODE_INVALID_STRIDE
  /\ mapCfg' = SetTiledMapType(map, dram)
  /\ frameBufPool' = [i \in 0 .. Frames - 1 |->
       [buf |-> FrameAt(map, dram, stride, height, i), stride |-> stride,
        height |-> height, cbcrInterleave |-> interleave]]
  /\ vbFrame' = [phys |-> Base,
                 size |-> Frames * FrameSize(map, dram, stride, height)]

RegisterFrames ==
  \E map \in MapTypes, dram \in {Fpga, Board}, interleave \in BOOLEAN,
     stride \in Strides, height \in Heights :
    RegisterFrameBuffer(map, dram, interleave, stride, height)

FramesSpec == FramesInit /\ [][RegisterFrames]_frameVars

(***************************************************************************)
(* What is read of a frame.  StoreYuvImageBurstFormat goes through the     *)
(* planes in blocks of eight bytes, each with an address of its own; with  *)
(* cbcrInterleave the second plane has both colours.  Checked are the      *)
(* blocks at the edges and those about each power of two.                  *)
(***************************************************************************)
Corners(end, step) ==
  {n \in {0, ((end - 1) \div step) * step} \cup {step * 2^k : k \in 0 .. 11}
         \cup {step * (2^k - 1) : k \in 1 .. 11} : 0 <= n /\ n < end}

Blocks(interleave, stride, height) ==
  LET Plane(names, s, h) == names \X Corners(h, 1) \X Corners(s, 8) \X {s}
  IN Plane({"y"}, stride, height) \cup
     IF interleave THEN Plane({"cb"}, stride, height \div 2)
                   ELSE Plane({"cb", "cr"}, stride \div 2, height \div 2)

(* In the field map of the board the entry of the lowest column bit is
   Z_SEL, which XyBit takes for "bit 0 of y, exclusive or the field": a bit
   that is zero only where the lines of the fields are not told apart. *)
Crooked(map, dram) == map = "FIELD_V" /\ dram = Board

(* The sizes that VPU_EncRegisterFrameBuffer lets pass and some map cannot lay out.
   GetXY2AXIAddr counts whole macroblocks, of which a stride that is no multiple of
   16 has one more than it counts, and LumSize does not make room for a last row of
   them that is not full; half a line of chroma may not be of whole blocks; and the
   height is halved twice, rounded down, before the rows are counted, so that one
   line over 256 has no row of its own.  The decoder rounds its sizes up to 16 or 32
   (vpu_decoder.cpp:1050); whoever opens an encoder has to do likewise. *)
Ragged(map, interleave, stride, height) ==
  \/ map \in MbMaps /\ (stride % 16 # 0 \/ height % 16 # 0)
  \/ map = "LINEAR" /\ ~interleave /\ stride % 16 # 0
  \/ map \in RowMaps /\ height % 256 = 1

(* Whatever the map, the memory and the size that an encoder registered its frames
   with, a frame fits what VPU_GetFrameBufSize advises; and unless the map is crooked
   or cannot lay out the size, no two blocks of the frame buffers have an address in
   common and none lies outside the memory that was asked for: a wrong entry of a
   table, a base too near or a size that was rounded too soon would paint one picture
   over another. *)
BlocksApart ==
  LET map    == mapCfg.mapType
      first  == frameBufPool[0]
      blocks == (DOMAIN frameBufPool)
                  \X Blocks(first.cbcrInterleave \/ map \in MbMaps,
                            first.stride, first.height)
      used   == {GetXY2AXIAddr(mapCfg, b[2][1], b[2][2], b[2][3], b[2][4],
                               frameBufPool[b[1]].buf) : b \in blocks}
  IN Registered =>
       /\ vbFrame.size <= Frames * GetFrameBufSize(map, mapCfg.dram,
                                                   first.stride, first.height)
       /\ \/ Crooked(map, mapCfg.dram)
          \/ Ragged(map, first.cbcrInterleave, first.stride, first.height)
          \/ /\ Cardinality(used) = Cardinality(blocks)
             /\ \A a \in used : /\ a % 8 = 0
                                /\ a >= vbFrame.phys
                                /\ a + 8 <= vbFrame.phys + vbFrame.size
=============================================================================
