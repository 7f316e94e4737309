------------------------------ MODULE MCMemory ------------------------------
(* Three parts of the VPU's helpers that share no state: the driver's memory,
   the layout of the frame buffers, and what is written to the bitstream.
   One moves at a time, the others being as they began, so that the states of
   one are not multiplied by those of another. *)
EXTENDS VideoMemory, FrameMaps, BitstreamHeaders

(* Nothing, less than a page, exactly one, and more. *)
AnySize == {0, 1, 2, 3, 5, 8}

----------------------------------------------------------------------------
(* Streams as a file holds them, with head and content: what is in them.
   Units of the lengths at which the bytes of a length look like a start code,
   and those beside them; pictures with one segment and with two. *)
MC_Unit(name, n) == Some(name, n)
MC_Film(format, fourcc, extradata, head, packets, content) ==
  [format |-> format, fourcc |-> fourcc, extradata |-> extradata, head |-> head,
   packets |-> packets, content |-> content]
MC_Packet(data) == [data |-> data, align |-> 0, key |-> FALSE]

MC_UnitLists == {<<MC_Unit("a", m)>> : m \in {1, 7, 8, 9}}
                  \cup {<<MC_Unit("a", 8), MC_Unit("b", n)>> : n \in {1, 8, 15, 16}}
MC_Sets == {<<>>, <<MC_Unit("sps", 3)>>, <<MC_Unit("sps", 8), MC_Unit("sps2", 9)>>}

(* An mp4 file. *)
MC_Mp4 ==
  {MC_Film("AVC", "avc1",
     <<B(1), <<"profile", 1>>, <<"profile", 2>>, <<"profile", 3>>, B(Radix + 3),
       B(Radix + Len(s))>> \o Sized(s, 2) \o <<B(Len(p))>> \o Sized(p, 2),
     s \o p, <<MC_Packet(Sized(u, 4)), MC_Packet(Sized(v, 4))>>, <<u, v>>)
   : s \in MC_Sets, p \in {<<>>, <<MC_Unit("pps", 2)>>}, u \in MC_UnitLists,
     v \in {<<MC_Unit("c", 2)>>, <<MC_Unit("c", 9), MC_Unit("d", 8)>>}}

(* A broadcast, with short or long start codes, with or without extradata.
   With extradata the packet may begin anywhere in a word. *)
MC_Raw ==
  {MC_Film(format, "none", IF h = <<>> THEN <<>> ELSE Coded(h, code), h,
     <<[data |-> Coded(u, code), key |-> FALSE,
        align |-> IF format = "AVC" /\ h # <<>> THEN align ELSE 0],
       MC_Packet(Coded(<<MC_Unit("c", 4)>>, code))>>,
     <<u, <<MC_Unit("c", 4)>>>>)
   : format \in {"AVC", "AVS"}, code \in {Prefix, StartCode},
     h \in {<<>>, <<MC_Unit("sps", 3), MC_Unit("pps", 2)>>}, u \in MC_UnitLists,
     align \in 0 .. 3}

MC_Advanced ==
  {MC_Film("VC1", "WVC1", Coded(<<MC_Unit("seq", 5)>>, Prefix), <<MC_Unit("seq", 5)>>,
     <<MC_Packet(IF bare THEN Some("a", m) ELSE Prefix \o <<<<"0D", 1>>>> \o Some("a", m)),
       MC_Packet(Some("b", 3))>>,
     <<<<<<<<"0D", 1>>>> \o Some("a", m)>>, <<<<<<"0D", 1>>>> \o Some("b", 3)>>>>)
   : bare \in BOOLEAN, m \in {1, 8}}

(* Files whose pictures need a header in front. *)
MC_Headed ==
  {MC_Film(f[1], f[2], e, IF f[1] = "VP8" \/ (f[1] = "DIV3" /\ e = <<>>) THEN <<>> ELSE <<e>>,
     <<[MC_Packet(Some("a", m)) EXCEPT !.key = TRUE], MC_Packet(Some("b", 3))>>,
     <<<<Some("a", m)>>, <<Some("b", 3)>>>>)
   : f \in {<<"VC1", "WMV3">>, <<"DIV3", "DIV3">>, <<"VP8", "VP80">>},
     e \in {<<>>, Some("extra", 4), Some("extra", 9)}, m \in {1, 8, 65}}

MC_RealVideo ==
  {MC_Film("RV", "RV40", Some("extra", e), <<Some("extra", e)>>,
     <<MC_Packet(<<B(n - 1)>> \o S!FlattenSeq([i \in 1 .. 2 * n |-> PutLE(9 * i, 4)])
                   \o Some("a", m))>>,
     <<<<[table |-> [i \in 1 .. 2 * n |-> 9 * i], data |-> Some("a", m)]>>>>)
   : e \in {2, 40}, n \in 1 .. 3, m \in {1, 65}}

MC_Plain ==
  {MC_Film("MPEG2", "none", Some("extra", e), Some("extra", e),
     <<MC_Packet(Some("a", 3)), MC_Packet(Some("b", 1))>>,
     <<Some("a", 3), Some("b", 1)>>) : e \in {0, 4}}

(* Nothing of these is written. *)
MC_Unwritten == {MC_Film("THO", "none", Some("extra", 4), <<>>, <<MC_Packet(Some("a", 3))>>, <<<<>>>>)}

(* A film holds what its packets are made of, and every film is one of those
   the theorem is about. *)
SomeNames ==
  {"byte", "C5", "height", "width", "first", "bit_rate", "frameRate", "VIDO",
   "CNMV", "DIV3", "DKIF", "VP80", "rate", "scale", "entries", "pts",
   "frame_number", "0D", "RV40", "profile", "sps", "sps2", "pps", "seq", "extra",
   "a", "b", "c", "d"}
SomeFilms == MC_Mp4 \cup MC_Raw \cup MC_Advanced \cup MC_Headed \cup MC_RealVideo
               \cup MC_Plain \cup MC_Unwritten

----------------------------------------------------------------------------
MCInit == Init /\ FramesInit /\ StreamInit

MemoryAsBegun == alloc_tree = Null /\ free_tree # Null
MemoryStep ==
  ~Registered /\ videoSt = NoFilm /\ Next /\ UNCHANGED <<frameVars, streamVars>>
FramesStep ==
  MemoryAsBegun /\ videoSt = NoFilm /\ RegisterFrames /\ UNCHANGED <<vars, streamVars>>
StreamStep ==
  MemoryAsBegun /\ ~Registered /\ StreamNext /\ UNCHANGED <<vars, frameVars>>

Helpers ==
  MCInit /\ [][MemoryStep \/ FramesStep \/ StreamStep]_<<vars, frameVars, streamVars>>
=============================================================================
