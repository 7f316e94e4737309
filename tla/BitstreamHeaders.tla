-------------------------- MODULE BitstreamHeaders --------------------------
(***************************************************************************)
(* What VpuDecoder::buildVideoPacket writes into the VPU's bitstream: once *)
(* the header that BuildSeqHeader makes of the extradata, then for each    *)
(* packet the header of BuildPicHeader and the data, in which the lengths  *)
(* of an mp4 file have been replaced by start codes.  That the ring may    *)
(* have no room for a piece is VpuDecoder's matter.                        *)
(*                                                                         *)
(* A byte is a pair: <<"byte", v>> is a number, v < Radix; <<name, i>> is  *)
(* the i-th byte of something whose value is not looked at, such as the    *)
(* width, a time or the inside of a picture.  Offsets count from 0.        *)
(***************************************************************************)
EXTENDS Integers, Sequences
S == INSTANCE SequencesExt

CONSTANTS Radix,               \* one more than a byte holds, 256 in the code
          Names,               \* of what is not looked at
          Films                \* streams, with what they consist of

(* The lengths of the headers, of which 32 is the longest, have two digits. *)
ASSUME RadixAssumption == Radix \in Nat /\ Radix >= 6
ASSUME NamesAssumption ==
  {"byte", "C5", "height", "width", "first", "bit_rate", "frameRate", "VIDO",
   "CNMV", "DIV3", "DKIF", "VP80", "rate", "scale", "entries", "pts",
   "frame_number", "0D"} \subseteq Names

VARIABLES videoSt,             \* the stream that is open, or NoFilm
          seqFilled,
          fed,                 \* how many of its packets were handed over
          sent                 \* what has been written to the bitstream

streamVars == <<videoSt, seqFilled, fed, sent>>
NoFilm == [format |-> "none"]

(***************************************************************************)
(* Bytes: PUT_BE32, PUT_LE16 and so on, and the shifts that read them.     *)
(***************************************************************************)
Byte == Names \X Nat
B(v) == <<"byte", v>>
Shifted(v, n) ==
  LET By[i \in 0 .. n] == IF i = 0 THEN v ELSE By[i - 1] \div Radix
  IN By[n]
PutBE(v, n) == [i \in 1 .. n |-> B(Shifted(v, n - i) % Radix)]
PutLE(v, n) == [i \in 1 .. n |-> B(Shifted(v, i - 1) % Radix)]
Some(name, n) == [i \in 1 .. n |-> <<name, i>>]
Piece(s, from, n) == SubSeq(s, from + 1, from + n)
Number(bytes) ==
  LET Upto[n \in 0 .. Len(bytes)] ==
        IF n = 0 THEN 0 ELSE Upto[n - 1] * Radix + bytes[n][2]
  IN Upto[Len(bytes)]
NumberAt(s, from, n) == Number(Piece(s, from, n))
LittleAt(s, from, n) == Number(S!Reverse(Piece(s, from, n)))

Prefix == <<B(0), B(0), B(1)>>
StartCode == <<B(0)>> \o Prefix

(* A packet has zeros behind its end.  The search for 0 0 1 ends at the next
   multiple of four. *)
Padded(data) == data \o PutBE(0, 4)
PrefixAt(data, i) == Piece(Padded(data), i, 3) = Prefix
HasStartCode(data, align) == \E i \in 0 .. 3 - align : PrefixAt(data, i)

IsAdvanced(st) == st.fourcc \in {"WVC1", "WMVA"}
IsRealVideo(st) == st.fourcc \in {"RV30", "RV40"}
(* extradata that begins with 1 is of a mov or mp4 file. *)
IsAvcConfig(extradata) == Len(extradata) > 1 /\ extradata[1] = B(1)

(***************************************************************************)
(* BuildSeqHeader: the bytes it puts and the size it returns.  A size of 0 *)
(* or -1 means that nothing is written.                                    *)
(***************************************************************************)
Header(size, bytes) == [size |-> size, bytes |-> bytes]
NoHeader == Header(0, <<>>)

(* The parameter sets of an mp4 file, each behind its length. *)
ParameterSets(data, from, count) ==
  LET After[n \in 0 .. count] ==
        IF n = 0 THEN [at |-> from, out |-> <<>>]
        ELSE LET nal == NumberAt(data, After[n - 1].at, 2)
             IN [at |-> After[n - 1].at + 2 + nal,
                 out |-> After[n - 1].out
                           \o (StartCode \o Piece(data, After[n - 1].at + 2, nal))]
  IN After[count]
AvcHeader(data) ==
  LET sps == ParameterSets(data, 6, data[6][2] % Radix)
      pps == ParameterSets(data, sps.at + 1, NumberAt(data, sps.at, 1))
  IN Header(Len(sps.out) + Len(pps.out), sps.out \o pps.out)

(* RCV_V2 is defined. *)
RcvHeader(data) ==
  Header(32 + Len(data),
    Some("C5", 4) \o PutLE(Len(data), 4) \o data \o Some("height", 4)
      \o Some("width", 4) \o PutLE(12, 4) \o Some("first", 4)
      \o Some("bit_rate", 4) \o Some("frameRate", 4))
RvHeader(st) ==
  Header(26 + Len(st.extradata),
    PutBE(26 + Len(st.extradata), 4) \o Some("VIDO", 4) \o Some(st.fourcc, 4)
      \o Some("width", 2) \o Some("height", 2) \o PutBE(12, 2) \o PutBE(0, 2)
      \o PutBE(0, 2) \o Some("frameRate", 4) \o st.extradata)
(* For DIV3 and VP8, the beginning of an IVF file. *)
IvfHeader(signature, fourcc) ==
  Header(32,
    Some(signature, 4) \o PutLE(0, 2) \o PutLE(32, 2) \o Some(fourcc, 4)
      \o Some("width", 2) \o Some("height", 2) \o Some("rate", 4)
      \o Some("scale", 4) \o Some("entries", 4) \o PutLE(0, 4))

BuildSeqHeader(st) ==
  LET data  == st.extradata
      Whole == Header(Len(data), data)
  IN CASE st.format \in {"AVC", "AVS"} ->
            IF IsAvcConfig(data) THEN AvcHeader(data)
            ELSE IF Len(data) > 3 /\ HasStartCode(data, 0) THEN Whole ELSE NoHeader
       [] st.format = "VC1" -> IF IsAdvanced(st) THEN Whole ELSE RcvHeader(data)
       [] st.format = "RV"  -> IF IsRealVideo(st) THEN RvHeader(st) ELSE NoHeader
       [] st.format = "DIV3" ->
            IF data = <<>> THEN IvfHeader("CNMV", "DIV3")
            ELSE Header(4 + Len(data), PutBE(Len(data), 4) \o data)
       [] st.format = "VP8" -> IvfHeader("DKIF", "VP80")
       [] OTHER -> Whole

(***************************************************************************)
(* BuildPicHeader.                                                         *)
(***************************************************************************)

(* What is found at each place from an offset on, as far as the end. *)
Walk(end, from, found, next) ==
  LET From[at \in Nat] ==
        IF at < end /\ next[at] \in at + 1 .. end
        THEN found[at] \o From[next[at]] ELSE <<>>
  IN From[from]

(* The packet of an mp4 file with its lengths replaced; of an AVS unit the
   first byte is overwritten too.  The last unit ends with the packet. *)
Recoded(data, code, skip) ==
  LET next  == [o \in Nat |->
                 LET after == o + 4 + NumberAt(Padded(data), o, 4)
                 IN IF after > Len(data) THEN Len(data) ELSE after]
      found == [o \in Nat |->
                 Piece(code \o SubSeq(data, o + 5 + skip, next[o]), 0, next[o] - o)]
  IN Walk(Len(data), 0, found, next)

(* The data as the call leaves them. *)
DataByStartCodeOnly(st, pkt) ==
  IF Len(pkt.data) < 5 \/ HasStartCode(pkt.data, pkt.align) THEN pkt.data
  ELSE IF st.format = "AVC" /\ st.extradata[1] = B(1) THEN Recoded(pkt.data, StartCode, 0)
  ELSE IF st.format = "AVS" THEN Recoded(pkt.data, <<B(0)>> \o StartCode, 1)
  ELSE pkt.data
PacketData(st, pkt) ==
  LET coded == HasStartCode(pkt.data, pkt.align)
  IN IF Len(pkt.data) < 5 THEN pkt.data
     ELSE IF st.format = "AVC" /\ (IsAvcConfig(st.extradata)
                                     \/ (~coded /\ st.extradata[1] = B(1)))
     THEN Recoded(pkt.data, StartCode, 0)
     ELSE IF st.format = "AVS" /\ ~coded
     THEN Recoded(pkt.data, <<B(0)>> \o StartCode, 1)
     ELSE pkt.data

(* A RealVideo packet begins with the number of its segments, less one, and
   two numbers for each. *)
Segments(data) == data[1][2] + 1
SliceBytes(data) == Len(data) - 1 - 8 * Segments(data)
RvPicHeader(data) ==
  LET entry(i) == PutBE(LittleAt(data, 1 + 4 * (i - 1), 4), 4)
  IN Header(20 + 8 * Segments(data),
       PutBE(SliceBytes(data), 4) \o Some("pts", 4) \o Some("frame_number", 2)
         \o PutBE(2, 2) \o PutBE(0, 4) \o PutBE(Segments(data), 4)
         \o S!FlattenSeq([i \in 1 .. 2 * Segments(data) |-> entry(i)]))

(* The length of a picture, with the mark of a key frame in its highest bit,
   and its time. *)
RcvPicHeader(pkt) ==
  LET n == Len(pkt.data)
  IN Header(8, [PutLE(n, 4) EXCEPT ![4] = <<"byte", @[2] + IF pkt.key THEN Radix ELSE 0>>]
                 \o Some("pts", 4))

BuildPicHeader(st, pkt) ==
  CASE st.format = "VC1" /\ IsAdvanced(st) ->
         IF PrefixAt(pkt.data, 0) THEN NoHeader
         ELSE Header(4, Prefix \o <<<<"0D", 1>>>>)
    [] st.format = "VC1" /\ ~IsAdvanced(st) -> RcvPicHeader(pkt)
    [] st.format = "RV" /\ IsRealVideo(st) -> RvPicHeader(pkt.data)
    [] st.format \in {"DIV3", "VP8"} ->
         Header(12, PutLE(Len(pkt.data), 4) \o PutLE(0, 4) \o PutLE(0, 4))
    [] OTHER -> NoHeader

(***************************************************************************)
(* The steps.                                                              *)
(***************************************************************************)

(* What WriteBsBufFromBufHelper takes of a buffer that was zeroed. *)
Written(h) == Piece(h.bytes \o [i \in 1 .. h.size |-> B(0)], 0, h.size)

StreamInit == videoSt = NoFilm /\ seqFilled = FALSE /\ fed = 0 /\ sent = <<>>

OpenStream(film) ==
  /\ videoSt = NoFilm
  /\ videoSt' = film
  /\ UNCHANGED <<seqFilled, fed, sent>>

(* buildVideoPacket; of THO and VP3 nothing is written.  _seqInited is only set when seqFilled is. *)
BuildVideoPacket(pkt) ==
  LET first == IF seqFilled THEN <<>> ELSE Written(BuildSeqHeader(videoSt))
      data  == PacketData(videoSt, pkt)
      chunk == IF videoSt.format = "RV"
               THEN Piece(data, 1 + 8 * Segments(data), SliceBytes(data))
               ELSE data
  IN /\ sent' = IF videoSt.format \in {"THO", "VP3"} THEN sent
                ELSE sent \o first \o Written(BuildPicHeader(videoSt, pkt)) \o chunk
     /\ seqFilled' = TRUE
     /\ fed' = fed + 1
     /\ UNCHANGED videoSt

StreamNext ==
  \/ \E film \in Films : OpenStream(film)
  \/ /\ videoSt # NoFilm
     /\ fed < Len(videoSt.packets)
     /\ BuildVideoPacket(videoSt.packets[fed + 1])

StreamSpec == StreamInit /\ [][StreamNext]_streamVars

(***************************************************************************)
(* What a decoder finds in the bitstream, by the formats' own rules: units *)
(* between start codes, or pictures behind a header that tells their       *)
(* length.                                                                 *)
(***************************************************************************)

CodeAt(s, i) == i + 3 <= Len(s) /\ Piece(s, i, 3) = Prefix
(* Where the first start code is from an offset on, or the end. *)
CodeFrom(s, at) ==
  CHOOSE e \in at .. Len(s) :
    /\ e = Len(s) \/ CodeAt(s, e)
    /\ \A j \in at .. e - 1 : ~CodeAt(s, j)
(* Without the zeros at its end. *)
Stripped(s) ==
  LET last == CHOOSE n \in 0 .. Len(s) :
                /\ n = 0 \/ s[n] # B(0)
                /\ \A i \in n + 1 .. Len(s) : s[i] = B(0)
  IN SubSeq(s, 1, last)
Units(s) ==
  LET next  == [at \in Nat |-> CodeFrom(s, at + 1)]
      found == [at \in Nat |-> <<Stripped(SubSeq(s, at + 4, next[at]))>>]
  IN Walk(Len(s), CodeFrom(s, 0), found, next)

(* Pictures one behind the other from an offset on, each behind a header of
   so many bytes that begins with its length, of so many bytes too. *)
Pictures(s, from, header, digits) ==
  LET size(at) == LittleAt(s, at, digits)
  IN Walk(Len(s), from, [at \in Nat |-> <<Piece(s, at + header, size(at))>>],
          [at \in Nat |-> at + header + size(at)])

(* A RealVideo picture with the table of its segments. *)
RvPictures(s, from) ==
  LET size(at)  == NumberAt(s, at, 4)
      table(at) == 2 * NumberAt(s, at + 16, 4)
  IN Walk(Len(s), from,
          [at \in Nat |->
            <<[table |-> [i \in 1 .. table(at) |-> NumberAt(s, at + 16 + 4 * i, 4)],
               data  |-> Piece(s, at + 20 + 4 * table(at), size(at))]>>],
          [at \in Nat |-> at + 20 + 4 * table(at) + size(at)])

Found(st, s) ==
  CASE st.format \in {"AVC", "AVS"} \/ IsAdvanced(st) -> Units(s)
    [] st.format = "VC1" /\ ~IsAdvanced(st) ->
         LET n == LittleAt(s, 4, 4)
             b == LittleAt(s, 8 + n + 8, 4)
         IN <<Piece(s, 8, n)>> \o Pictures(s, 8 + n + 12 + b, 8, 3)
    [] st.format = "RV" ->
         LET n == NumberAt(s, 0, 4)
         IN <<Piece(s, 26, n - 26)>> \o RvPictures(s, n)
    [] st.format = "DIV3" /\ st.extradata # <<>> ->
         LET n == NumberAt(s, 0, 4)
         IN <<Piece(s, 4, n)>> \o Pictures(s, 4 + n, 12, 4)
    [] st.format = "VP8" \/ (st.format = "DIV3" /\ st.extradata = <<>>) ->
         Pictures(s, LittleAt(s, 6, 2), 12, 4)
    [] OTHER -> s

(***************************************************************************)
(* What a file holds.  A film has, beside what the player knows of it, the *)
(* sequence of the things that a decoder is to find: its head, and for     *)
(* each packet its content.                                                *)
(***************************************************************************)
Fits(v, n) == Shifted(v, n) = 0

(* Nothing in a unit looks like a start code, and it does not end with a
   zero: the coders see to that. *)
IsUnit(u) ==
  /\ u \in Seq(Byte)
  /\ u # <<>> /\ u[Len(u)] # B(0)
  /\ \A i \in 0 .. Len(u) : ~CodeAt(u, i)
AreUnits(us) == us \in Seq(Seq(Byte)) /\ \A i \in 1 .. Len(us) : IsUnit(us[i])

(* Units behind their lengths, and units behind a start code. *)
Sized(units, n) ==
  S!FlattenSeq([i \in 1 .. Len(units) |-> PutBE(Len(units[i]), n) \o units[i]])
Coded(units, code) == S!FlattenSeq([i \in 1 .. Len(units) |-> code \o units[i]])

HoldsUnits(film) ==
  /\ AreUnits(film.head)
  /\ \A k \in 1 .. Len(film.packets) : AreUnits(film.content[k])

(* An mp4 file: lengths of two bytes in the extradata, of four elsewhere. *)
IsMp4(film) ==
  /\ film.format = "AVC" /\ ~IsAdvanced(film)
  /\ HoldsUnits(film)
  /\ IsAvcConfig(film.extradata) /\ Len(film.extradata) > 6
  /\ \E n \in 0 .. Len(film.head) :
       LET sps == SubSeq(film.head, 1, n)
           pps == SubSeq(film.head, n + 1, Len(film.head))
       IN /\ film.extradata[6][2] % Radix = n
          /\ film.extradata = SubSeq(film.extradata, 1, 6) \o Sized(sps, 2)
                                 \o <<B(Len(pps))>> \o Sized(pps, 2)
  /\ \A i \in 1 .. Len(film.head) : Fits(Len(film.head[i]), 2)
  /\ \A k \in 1 .. Len(film.packets) :
       /\ film.packets[k].data = Sized(film.content[k], 4)
       /\ \A i \in 1 .. Len(film.content[k]) : Fits(Len(film.content[k][i]), 4)

(* A broadcast.  Where the first four bytes do not show the start code, what
   decides is the extradata; a packet of H.264 then needs some to be there, since
   avc->extradata[0] is read without asking (vpuhelper.c:2537). *)
IsBroadcast(film) ==
  /\ film.format \in {"AVC", "AVS"} /\ ~IsAdvanced(film)
  /\ HoldsUnits(film)
  /\ \E code \in {Prefix, StartCode} :
       /\ film.extradata = Coded(film.head, code)
       /\ \A k \in 1 .. Len(film.packets) :
            /\ film.packets[k].data = Coded(film.content[k], code)
            /\ \/ film.format = "AVC" /\ film.head # <<>>
               \/ film.packets[k].align < Len(Prefix) \/ code = Prefix

IsAdvancedVc1(film) ==
  /\ film.format = "VC1" /\ IsAdvanced(film)
  /\ HoldsUnits(film)
  /\ film.extradata = Coded(film.head, Prefix)
  /\ \A k \in 1 .. Len(film.packets) :
       LET data == film.packets[k].data
       IN \/ data = Coded(film.content[k], Prefix) /\ Len(film.content[k]) = 1
          \/ ~PrefixAt(data, 0) /\ film.content[k] = <<<<<<"0D", 1>>>> \o data>>

(* Each packet is a picture. *)
HoldsPictures(film, digits) ==
  \A k \in 1 .. Len(film.packets) :
    /\ film.content[k] = <<film.packets[k].data>>
    /\ Fits(Len(film.packets[k].data), digits)
IsSimpleVc1(film) ==
  /\ film.format = "VC1" /\ ~IsAdvanced(film)
  /\ film.head = <<film.extradata>> /\ Fits(Len(film.extradata), 4)
  /\ HoldsPictures(film, 3)
IsDivx3(film) ==
  /\ film.format = "DIV3" /\ ~IsAdvanced(film)
  /\ film.head = IF film.extradata = <<>> THEN <<>> ELSE <<film.extradata>>
  /\ Fits(Len(film.extradata), 4)
  /\ HoldsPictures(film, 4)
IsVp8(film) ==
  /\ film.format = "VP8" /\ ~IsAdvanced(film)
  /\ film.head = <<>>
  /\ HoldsPictures(film, 4)

IsReal(film) ==
  /\ film.format = "RV" /\ IsRealVideo(film) /\ film.fourcc \in Names
  /\ film.head = <<film.extradata>> /\ Fits(26 + Len(film.extradata), 4)
  /\ \A k \in 1 .. Len(film.packets) :
       LET picture == film.content[k][1]
           n       == film.packets[k].data[1][2] + 1
       IN /\ film.content[k] = <<[table |-> picture.table, data |-> picture.data]>>
          /\ film.packets[k].data # <<>>
          /\ picture.table \in Seq(Nat) /\ Len(picture.table) = 2 * n
          /\ \A i \in 1 .. 2 * n : Fits(picture.table[i], 4)
          /\ picture.data \in Seq(Byte)
          /\ Fits(n, 4) /\ Fits(Len(picture.data), 4)
          /\ film.packets[k].data =
                <<B(n - 1)>> \o S!FlattenSeq([i \in 1 .. 2 * n |-> PutLE(picture.table[i], 4)])
                  \o picture.data

(* Of these the bytes are taken as they are. *)
IsPlain(film) ==
  /\ film.format \notin {"AVC", "AVS", "VC1", "RV", "DIV3", "VP8", "THO", "VP3"}
  /\ ~IsAdvanced(film)
  /\ film.head = film.extradata
  /\ \A k \in 1 .. Len(film.packets) : film.content[k] = film.packets[k].data
IsUnwritten(film) ==
  /\ film.format \in {"THO", "VP3"} /\ ~IsAdvanced(film)
  /\ film.head = <<>>
  /\ \A k \in 1 .. Len(film.packets) : film.content[k] = <<>>

Packet == [data : Seq(Byte), align : 0 .. 3, key : BOOLEAN]
IsFilm(film) ==
  /\ film.extradata \in Seq(Byte)
  /\ film.packets \in Seq(Packet)
  /\ film.format # NoFilm.format
  /\ Len(film.content) = Len(film.packets)
  /\ film.content = [k \in 1 .. Len(film.packets) |-> film.content[k]]
  /\ \/ IsMp4(film) \/ IsBroadcast(film) \/ IsAdvancedVc1(film)
     \/ IsSimpleVc1(film) \/ IsDivx3(film) \/ IsVp8(film) \/ IsReal(film)
     \/ IsPlain(film) \/ IsUnwritten(film)
ASSUME FilmsAssumption == \A film \in Films : IsFilm(film)

(* Whatever has been written, a decoder that reads it by the rules of the
   format finds what the file consists of, in this order and nothing else:
   the parameter sets or the extradata, then the pictures handed over so far.
   A length read one byte off, a start code looked for where a length stands,
   or a header longer or shorter than the size that is returned for it would
   spoil everything behind it. *)
StreamTells ==
  fed > 0 => Found(videoSt, sent) =
               videoSt.head \o S!FlattenSeq(SubSeq(videoSt.content, 1, fed))
=============================================================================
