----------------------------- MODULE SrTransfer -----------------------------
(***************************************************************************)
(* The Segment Routing data path from the sender's encode_data to the      *)
(* receiver's decode_datagram and insert_fragment (src/src/sr.rs), over a  *)
(* network that loses, duplicates, delays and reorders datagrams.          *)
(*                                                                         *)
(* Lengths are kept, bytes are not: a payload is the packet it carries.    *)
(* Both ends hold the same configuration.  SR headers (path and next_id)   *)
(* are rewritten by the routers in between and are left out.               *)
(***************************************************************************)
EXTENDS SrReassembly

CONSTANTS
    Mtu,        \* payload_mtu
    Block,      \* AES_BLOCK_LEN
    Lengths,    \* inner packet lengths that are explored
    MaxSends,   \* bound: packets handed to the sender
    NetLife     \* ticks a datagram may spend in the network

ASSUME SrTransferAssumption ==
    /\ Mtu \in Nat \ {0} /\ Block \in Nat \ {0}
    /\ Lengths \subseteq Nat \ {0}
    /\ MaxSends \in Nat /\ NetLife \in Nat
    \* Fragment IDs are the numbers of one machine word.
    /\ IsFiniteSet(Ids) /\ Ids = 0 .. Cardinality(Ids) - 1

VARIABLES
    conf,       \* [enc, outer]: session encryption and outer algorithm
    nextId,     \* SrRuntime::fragment_id
    sent,       \* packets read from the device so far
    outbox,     \* datagrams of the current packet still to send
    net,        \* datagrams in the network, with their age
    inner       \* the packet the last step wrote to the receiver's device

transferVars == <<srVars, conf, nextId, sent, outbox, net, inner>>

Inner == [n: 1..MaxSends, ver: {4, 6}, len: Lengths]
ASSUME PayloadsAssumption == Inner \subseteq Payloads

NoInner == [n |-> 0, ver |-> 0, len |-> 0]

Padding(n) == (Block - (n % Block)) % Block

-----------------------------------------------------------------------------
(* encode_data. *)

\* fragment_sr_packet: exactly two parts, cut at the MTU.
Halves(p, id) ==
    << [id |-> id, off |-> 0, len |-> Mtu, eop |-> FALSE, pay |-> p],
       [id |-> id, off |-> Mtu, len |-> p.len - Mtu, eop |-> TRUE,
        pay |-> p] >>

\* IPv6 disables the session encryption.
InnerEncryption(p) == IF p.ver = 4 THEN conf.enc ELSE "None"

\* The session cipher's output: AES pads with zeros to whole blocks.
InnerLen(p) ==
    IF InnerEncryption(p) = "Aes" THEN p.len + Padding(p.len) ELSE p.len

\* The padding the outer cipher adds and records in the SR header.
OuterPadding(p) == IF conf.outer = "None" THEN 0 ELSE Padding(InnerLen(p))

\* A packet that fits travels whole, unless AES cannot take its length or the
\* outer padding pushes it over the MTU.
WholeAccepted(p) ==
    /\ p.len <= Mtu
    /\ InnerEncryption(p) = "Aes" => (p.len % Block) = 0
    /\ InnerLen(p) + OuterPadding(p) <= Mtu

\* Mutant: the upper bound of two payloads is not tested.
SplitAcceptedAlways(p) ==
    /\ p.len > Mtu
    /\ InnerEncryption(p) = "None" /\ conf.outer = "None"

SplitAccepted(p) ==
    /\ p.len > Mtu
    /\ InnerEncryption(p) = "None" /\ conf.outer = "None"
    /\ Mtu <= MaxLen /\ p.len <= 2 * Mtu /\ p.len <= MaxPacket

PacketType(p) == IF InnerEncryption(p) # "None" THEN "DataEncrypted"
                 ELSE IF p.ver = 6 THEN "DataIpv6" ELSE "Data"

Whole(p) ==
    [kind |-> "whole", type |-> PacketType(p), alg |-> conf.outer,
     enc |-> InnerEncryption(p), pad |-> OuterPadding(p),
     wire |-> InnerLen(p) + OuterPadding(p), pay |-> p]

Split(p, id) ==
    [k \in 1..2 |-> [kind |-> "fragment", ver |-> p.ver,
                     part |-> Halves(p, id)[k]]]

EncodeData(p, id) ==
    IF WholeAccepted(p) THEN <<Whole(p)>>
    ELSE IF SplitAccepted(p) THEN Split(p, id) ELSE <<>>

\* A fragment ID is reused only when 2^32 packets have been read since, by
\* which time no fragment that carries it is in flight or waits in a group.
IdIsFresh(id) ==
    /\ id \in DOMAIN groups => groups[id].age > Lifetime
    /\ \A d \in net : d.dgram.kind = "fragment" => d.dgram.part.id # id

\* One turn of the sender's loop: an ID is taken for every packet, whether or
\* not it is fragmented, and a refused packet is dropped.
ReadPacket ==
    /\ outbox = <<>> /\ sent < MaxSends /\ IdIsFresh(nextId)
    /\ \E v \in {4, 6}, l \in Lengths :
          outbox' = EncodeData([n |-> sent + 1, ver |-> v, len |-> l], nextId)
    /\ nextId' = (nextId + 1) % Cardinality(Ids)
    /\ sent' = sent + 1
    /\ inner' = NoInner
    /\ Return("none")
    /\ UNCHANGED <<groups, buffered, conf, net>>

SendDatagram ==
    /\ outbox # <<>>
    /\ Return("none")
    /\ net' = net \cup {[dgram |-> Head(outbox), age |-> 0]}
    /\ outbox' = Tail(outbox)
    /\ inner' = NoInner
    /\ UNCHANGED <<groups, buffered, conf, nextId, sent>>

-----------------------------------------------------------------------------
(* decode_datagram and insert_fragment. *)

\* The length left after the outer padding is cut off.
Plain(d) == d.wire - d.pad

\* The outer layer must match the configuration, the inner one the session;
\* trim_ip_packet needs the whole packet, and the type gives its version.
DecodesWhole(d) ==
    /\ d.alg = conf.outer
    /\ IF d.alg = "None" THEN d.pad = 0
       ELSE d.wire > 0 /\ d.wire % Block = 0 /\ d.pad < d.wire
    /\ IF d.type = "DataEncrypted"
         THEN d.enc = conf.enc /\ d.enc \in {"Xor", "Aes"}
         ELSE d.enc = "None"
    /\ d.enc = "Aes" => Plain(d) % Block = 0
    /\ d.pay.len <= Plain(d)
    /\ d.pay.ver = IF d.type = "DataIpv6" THEN 6 ELSE 4

Decodes(d) == IF d.kind = "whole" THEN DecodesWhole(d) ELSE FragmentParses(d.part)

\* The network hands over any datagram in it, and may keep a copy.
Deliver ==
    \E d \in net :
        /\ net' \in {net, net \ {d}}
        /\ IF d.dgram.kind = "whole"
             THEN /\ inner' = IF Decodes(d.dgram) THEN d.dgram.pay ELSE NoInner
                  /\ Return("none")
                  /\ UNCHANGED <<groups, buffered>>
             ELSE /\ Insert(d.dgram.part)
                  /\ inner' = IF /\ result' = "packet"
                                 /\ packet'[1].pay.ver = d.dgram.ver
                                THEN packet'[1].pay ELSE NoInner
        /\ UNCHANGED <<conf, nextId, sent, outbox>>

TransferTick ==
    /\ AgeGroups
    /\ Return("none")
    /\ net' = {[d EXCEPT !.age = @ + 1] : d \in {e \in net : e.age < NetLife}}
    /\ inner' = NoInner
    /\ UNCHANGED <<buffered, conf, nextId, sent, outbox>>

TransferInit ==
    /\ SrInit
    /\ conf \in [enc: {"None", "Xor", "Aes"}, outer: {"None", "Aes"}]
    /\ nextId \in 0 .. Cardinality(Ids) - 1
    /\ sent = 0 /\ outbox = <<>> /\ net = {} /\ inner = NoInner

TransferNext == ReadPacket \/ SendDatagram \/ Deliver \/ TransferTick

TransferSpec == TransferInit /\ [][TransferNext]_transferVars

-----------------------------------------------------------------------------
(* Properties. *)

\* Whatever encode_data accepts, decode_datagram accepts: the planner's MTU
\* and encryption rules never produce a datagram the other end must refuse.
AcceptedDecodes == \A d \in net : Decodes(d.dgram)

\* A datagram carries at most one MTU of payload after its headers.
FitsMtu ==
    \A d \in net :
        (IF d.dgram.kind = "whole" THEN d.dgram.wire ELSE d.dgram.part.len)
            <= Mtu

\* The planner's two promises about whatever it puts on the wire.
EncodedSound == AcceptedDecodes /\ FitsMtu

\* Loss, duplication, delay, reordering and reuse of IDs never make the
\* receiver build a packet out of two: all parts come from one packet and
\* together are as long as that packet.
NeverMixed ==
    result = "packet" =>
        /\ \A k \in 1 .. Len(packet) : packet[k].pay = inner
        /\ EndOffset(Last(packet)) = inner.len

\* From planner to reassembler: what is sent can be decoded and fits, and what
\* is reassembled at the other end is one packet, however the network loses,
\* duplicates, delays and reorders the datagrams.
TransferSound == EncodedSound /\ NeverMixed

=============================================================================
