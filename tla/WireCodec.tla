----------------------------- MODULE WireCodec ------------------------------
(***************************************************************************)
(* Packets as v4 frames (src/serialize.cpp): encoded with the schema of    *)
(* one process and decoded with an equal one.  A frame is a record of its  *)
(* fields.  The checksum and the compression of payloads are left out, and *)
(* so are the frames of older versions, which this code only reads.        *)
(***************************************************************************)
EXTENDS SchemaRegistry

CONSTANTS
    BitmapBits,      \* 256: kV4EndpointBitmapBytes * 8
    CountLimit,      \* 256: the endpoints of a frame are counted in a byte
    Digit,           \* 128: what a byte of a uleb128 number holds
    MaxDigits,       \* 10: bytes read_uleb128 reads at most
    Seqs             \* sequence and acknowledgement numbers

(* Digit to the power of k *)
Power(k) == LET p[i \in 0 .. k] == IF i = 0 THEN 1 ELSE p[i - 1] * Digit IN p[k]

(* The bytes that are read hold every id and every number: 128^10 > 2^64. *)
ASSUME CodecAssumption ==
    /\ Digit \in Nat /\ Digit >= 2 /\ MaxDigits \in Nat \ {0}
    /\ BitmapBits \in Nat /\ CountLimit \in Nat \ {0}
    /\ MaxId < Power(MaxDigits)
    /\ \A n \in Seqs : n \in Nat /\ n < Power(MaxDigits)

-----------------------------------------------------------------------------
(* Numbers *)

(* What is left of a number after the loop of write_uleb128 ran k times *)
Shifted(v) ==
    LET rest[k \in 0 .. v + 1] == IF k = 0 THEN v ELSE rest[k - 1] \div Digit
    IN  rest

(* write_uleb128: low digits first; a byte is <<digit, continued>> *)
Uleb(v) ==
    LET n == Min({k \in 1 .. v + 1 : Shifted(v)[k] = 0})
    IN  [i \in 1 .. n |-> <<Shifted(v)[i - 1] % Digit, Shifted(v)[i] # 0>>]

(* read_uleb128, of a whole number: its value, or -1 *)
ReadUleb(bytes) ==
    LET n == Len(bytes)
        high[k \in 0 .. n] == IF k = 0 THEN 0 ELSE high[k - 1] * Digit + bytes[(n - k) + 1][1]
    IN  IF n > MaxDigits \/ bytes[n][2] THEN -1 ELSE high[n]

-----------------------------------------------------------------------------
(* Ids *)

(* v4_type_id *)
WireTypeId(ty) ==
    LET fixed == {w \in DOMAIN BuiltinType : BuiltinType[w] = types[ty].name}
    IN  IF fixed # {} THEN Min(fixed) ELSE IF ty >= Base THEN ty ELSE Base + ty

NoType == -1    \* std::nullopt

(* local_type_id *)
LocalTypeId(wire) ==
    IF wire \in DOMAIN BuiltinType
    THEN IF TypesNamed(BuiltinType[wire]) = {} THEN NoType
         ELSE Min(TypesNamed(BuiltinType[wire]))
    ELSE IF wire >= Base /\ ValidType(wire) THEN wire
    ELSE IF wire >= Base /\ ValidType(wire - Base) THEN wire - Base ELSE NoType

(* v4_endpoint_id *)
WireEndpointId(ep) ==
    LET fixed == {w \in DOMAIN BuiltinEndpoint : BuiltinEndpoint[w] = endpoints[ep]}
    IN  IF ep >= Base THEN ep ELSE IF fixed # {} THEN Min(fixed) ELSE Base + ep

(* Mutant: an endpoint is looked up under the id on the wire alone. *)
LocalEndpointIdsExact(wire) == {wire} \cap DOMAIN endpoints

(* local_endpoint_id; an id without an endpoint is dropped by parse_v4_bitmap. *)
LocalEndpointIds(wire) ==
    IF ValidEndpoint(wire) /\ wire >= Base THEN {wire}
    ELSE IF wire \in DOMAIN BuiltinEndpoint
    THEN {ep \in EndpointsNamed(BuiltinEndpoint[wire]) :
             \A o \in EndpointsNamed(BuiltinEndpoint[wire]) : ep <= o}
    ELSE {wire - Base} \cap DOMAIN endpoints

(* v4_endpoint_bitmap, parse_v4_bitmap *)
Bitmap(eps) == {WireEndpointId(ep) : ep \in eps} \cap 0 .. BitmapBits - 1
ParseBitmap(bitmap) == UNION {LocalEndpointIds(w) : w \in bitmap}

-----------------------------------------------------------------------------
(* Reliable headers: [flags, seq, ack] *)

ControlTypes == {"RELIABLE_ACK", "RELIABLE_PACKET_REQUEST", "RELIABLE_PARTIAL_ACK"}
HasReliableHeader(ty) == types[ty].reliable /\ types[ty].name \notin ControlTypes

(* should_compact_reliable_header *)
Compacts(h) == "AckOnly" \in h.flags \/ h.seq = 0 \/ h.ack = 0

AckPresent(h) == h.ack # 0 \/ "AckOnly" \in h.flags
SeqPresent(h) == "AckOnly" \notin h.flags \/ h.seq # 0

(* write_v4_reliable_header *)
WriteHeader(h) ==
    IF ~Compacts(h) THEN [flags |-> h.flags, seq |-> << <<h.seq, FALSE>> >>,
                          ack |-> << <<h.ack, FALSE>> >>]
    ELSE [flags |-> h.flags \cup (IF SeqPresent(h) THEN {"Seq"} ELSE {})
                            \cup (IF AckPresent(h) THEN {"Ack"} ELSE {}),
          seq |-> IF SeqPresent(h) THEN Uleb(h.seq) ELSE << >>,
          ack |-> IF AckPresent(h) THEN Uleb(h.ack) ELSE << >>]

(* read_v4_reliable_header *)
ReadHeader(w, compact) ==
    IF ~compact THEN [flags |-> w.flags, seq |-> w.seq[1][1], ack |-> w.ack[1][1]]
    ELSE [flags |-> w.flags \ {"Seq", "Ack"},
          seq |-> IF "Seq" \in w.flags THEN ReadUleb(w.seq) ELSE 0,
          ack |-> IF "Ack" \in w.flags THEN ReadUleb(w.ack) ELSE 0]

-----------------------------------------------------------------------------
(* Frames *)

NoHeader == [flags |-> {}, seq |-> 0, ack |-> 0]

(* serialize_packet_with_reliable; serialize_packet is the case of an      *)
(* unsequenced header.                                                     *)
Serialize(ty, eps, header) ==
    [flags |-> {"EndpointBitmap"} \cup (IF Compacts(header) THEN {"CompactHeader"} ELSE {}),
     nep |-> Cardinality(eps) % CountLimit,
     type |-> Uleb(WireTypeId(ty)),
     bitmap |-> Bitmap(eps),
     header |-> IF HasReliableHeader(ty) THEN WriteHeader(header) ELSE NoHeader]

(* serialize_reliable_ack: the type acknowledged, no endpoint *)
SerializeAck(ty, ack) ==
    [flags |-> {"EndpointBitmap", "CompactHeader"}, nep |-> 0,
     type |-> Uleb(WireTypeId(ty)), bitmap |-> {},
     header |-> WriteHeader([flags |-> {"AckOnly"}, seq |-> 0, ack |-> ack])]

(* is_v4_frame_flags *)
IsV4(flags) == flags \cap {"EndpointBitmap", "CompactHeader"} # {}

Rejected == [ok |-> FALSE]

(* peek_frame_info: a frame counts more endpoints than it names when one is *)
(* unknown here or beyond the bitmap.                                       *)
PeekFrameInfo(frame) ==
    LET ty  == LocalTypeId(ReadUleb(frame.type))
        eps == ParseBitmap(frame.bitmap)
    IN  IF \/ ~IsV4(frame.flags) \/ ~ValidType(ty)
           \/ Cardinality({w \in frame.bitmap : LocalEndpointIds(w) # {}}) # frame.nep
        THEN Rejected
        ELSE [ok |-> TRUE, ty |-> ty, eps |-> eps,
              header |-> IF HasReliableHeader(ty)
                         THEN ReadHeader(frame.header, "CompactHeader" \in frame.flags)
                         ELSE NoHeader]

(* deserialize_packet: an ack-only frame carries no packet. *)
Deserialize(frame) ==
    LET info == PeekFrameInfo(frame)
    IN  IF info.ok /\ "AckOnly" \notin info.header.flags THEN info ELSE Rejected

-----------------------------------------------------------------------------
(* Properties *)

Headers == [flags : {{}, {"Unsequenced"}, {"Unordered"}}, seq : Seqs, ack : Seqs]

EndpointNames(eps) == {endpoints[ep] : ep \in eps}

(* Two types of the process that get the same id on the wire *)
Collide ==
    \E a, b \in DOMAIN types : /\ types[a].name # types[b].name
                               /\ WireTypeId(a) = WireTypeId(b)
CollideEndpoints(eps) ==
    \E a \in eps, b \in DOMAIN endpoints :
        endpoints[a] # endpoints[b] /\ WireEndpointId(a) = WireEndpointId(b)

(* The endpoints of the type, also with one that goes by another name *)
EndpointSets(ty) ==
    LET eps == types[ty].eps
    IN  {eps} \cup {eps \cup {e} : e \in {e \in DOMAIN endpoints :
                                         endpoints[e] \notin EndpointNames(eps)}}

(***************************************************************************)
(* Whatever was registered, loaded in part and removed, by id or by name,  *)
(* the endpoints of every type are registered and, between processes with  *)
(* the same schema, a packet is decoded as the type of the same name, for  *)
(* the same endpoints and with the same reliable header, compact or not    *)
(* (seds_endpoint_remove, serialize_packet_with_reliable,                  *)
(* deserialize_packet), as long as no two types share a wire id and the    *)
(* endpoints can be counted.  Endpoints beyond the bitmap make the frame   *)
(* unreadable, never another packet.  An acknowledgement frame tells       *)
(* peek_frame_info the number it acknowledges and is never taken for a     *)
(* packet.                                                                 *)
(***************************************************************************)
DecodesToWhatWasSent ==
    \A ty \in DOMAIN types :
        /\ types[ty].eps \subseteq DOMAIN endpoints
        /\ ~Collide => \A eps \in EndpointSets(ty), h \in Headers :
              LET got == Deserialize(Serialize(ty, eps, h))
              IN  ~CollideEndpoints(eps) /\ Cardinality(eps) < CountLimit =>
                  IF \E ep \in eps : WireEndpointId(ep) >= BitmapBits THEN got = Rejected
                  ELSE /\ got.ok
                       /\ types[got.ty].name = types[ty].name
                       /\ EndpointNames(got.eps) = EndpointNames(eps)
                       /\ HasReliableHeader(ty) => got.header = h
        /\ ~Collide /\ HasReliableHeader(ty) => \A ack \in Seqs :
              LET frame == SerializeAck(ty, ack)
              IN  /\ PeekFrameInfo(frame).header.ack = ack
                  /\ Deserialize(frame) = Rejected
=============================================================================
