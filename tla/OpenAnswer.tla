----------------------------- MODULE OpenAnswer -----------------------------
(***************************************************************************)
(* What an answer to an OPEN says: decode_packet and the TLV codec         *)
(* (src/src/protocol.rs), and parse_open_ack and parse_rejection           *)
(* (src/src/client.rs).  Module Authenticate has the exchange around them. *)
(*                                                                         *)
(* A body is a sequence of bytes, because how its bytes are cut into       *)
(* attributes is what can go wrong.  Words are shorter than in the code.   *)
(* The header is its packet type, and a frame is described by how much of  *)
(* header and signature is there.  The server is external: it sends any    *)
(* bytes, or a text followed by attributes, as the known servers do.       *)
(***************************************************************************)
EXTENDS Integers, Sequences, SequencesExt

CONSTANTS
    Bytes,         \* the bytes of arbitrary bodies
    MaxBody,       \* bound: their length
    Texts,         \* the texts before the attributes
    Values,        \* the values of attributes
    MaxAttributes, \* bound: attributes of a body
    WordLen,       \* bytes of a nonce or an address, 4 in the code
    Widths,        \* lengths of integers, 1, 2 and 4 in the code
    MtuRange,      \* 576..9000 in the code
    RequestedMtu,
    Nonce          \* the nonce of the OPEN, a word

Byte == 0..255

ASSUME OpenAnswerAssumption ==
    /\ Bytes \subseteq Byte /\ Texts \subseteq Seq(Byte)
    /\ Values \subseteq {v \in Seq(Byte) : Len(v) <= 253}
    /\ MaxBody \in Nat /\ MaxAttributes \in Nat
    /\ WordLen \in Nat \ {0} /\ Nonce \in Seq(Byte)
    /\ Len(Nonce) = WordLen /\ \E i \in 1..WordLen : Nonce[i] # 0

VARIABLES
    reply,   \* the datagram: [type, frame, body, text, meant], where the last two
             \* are what a server made the body of
    verdict  \* what the client makes of it

answerVars == <<reply, verdict>>

TlvType == [Username |-> 1, Password |-> 2, Mtu |-> 3, Ip |-> 4, Dns |-> 5, Gateway |-> 6,
            Netmask |-> 7, Encrypt |-> 8, DupPacket |-> 9, Link |-> 10,
            AuthVerify |-> 15, ErrorMessage |-> 16]
Kinds == {TlvType[k] : k \in DOMAIN TlvType}
Attribute(k, v) == [kind |-> TlvType[k], value |-> v]

-----------------------------------------------------------------------------
(* Tlv. *)

Encode(tlvs) ==
    FlattenSeq([i \in DOMAIN tlvs |-> <<tlvs[i].kind, Len(tlvs[i].value) + 2>> \o tlvs[i].value])

Left(input, o) == Len(input) - o + 1

\* Mutant: a TLV that ends where the input ends does not fit.
FitsStrict(input, o) == input[o] \in Kinds /\ input[o + 1] \in 2 .. (Left(input, o) - 1)

\* A known type and a total length within what is left.
Fits(input, o) == input[o] \in Kinds /\ input[o + 1] \in 2 .. Left(input, o)

\* A suffix of one or two bytes is ignored.
ParseAll(input) ==
    LET From[o \in 1 .. (Len(input) + 1)] ==
          IF Left(input, o) < 3 THEN [ok |-> TRUE, tlvs |-> <<>>]
          ELSE IF ~ Fits(input, o) THEN [ok |-> FALSE, tlvs |-> <<>>]
          ELSE LET next == o + input[o + 1]
                   rest == From[next]
                   tlv == [kind |-> input[o], value |-> SubSeq(input, o + 2, next - 1)]
               IN [rest EXCEPT !.tlvs = <<tlv>> \o @]
    IN From[1]

\* parse_complete succeeds.
Completes(input) ==
    LET parsed == ParseAll(input) IN parsed.ok /\ Len(Encode(parsed.tlvs)) = Len(input)

\* find_tlv: the position of the first attribute of a type, 0 if there is none.
FindTlv(tlvs, k) == SelectInSeq(tlvs, LAMBDA t : t.kind = TlvType[k])

None == <<>>
FirstWord(v) == IF Len(v) < WordLen THEN None ELSE SubSeq(v, 1, WordLen)

NoInteger == 0 - 1
AsInteger(v) ==
    IF Len(v) \notin Widths THEN NoInteger
    ELSE FoldLeft(LAMBDA n, b : n * 256 + b, 0, v)

-----------------------------------------------------------------------------
(* decode_packet. *)

Control == {"Open", "OpenAck", "OpenReject", "Close"}   \* is_control, in part

\* A datagram may have no header that decodes, end after it or within the
\* signature, or carry a wrong signature; a bare header is a CLOSE of its own.
DecodesPacket(d) ==
    /\ d.frame # "short" /\ d.type # "SegmentRouting"
    /\ d.type \in Control =>
          d.frame = "signed" \/ (d.type = "Close" /\ d.frame = "header")

-----------------------------------------------------------------------------
(* parse_open_ack. *)

\* Mutant: an address that is too short takes the one before it away.
LatestOrNone(old, v) == FirstWord(v)

\* A value that is too short leaves the one before it.
Latest(old, v) == IF FirstWord(v) = None THEN old ELSE FirstWord(v)

Unspecified == [i \in 1..WordLen |-> 0]

\* One attribute of the loop over them.
Takes(info, t) ==
    CASE t.kind = TlvType.Mtu ->
           [info EXCEPT !.mtu = IF AsInteger(t.value) \in MtuRange THEN AsInteger(t.value)
                                ELSE RequestedMtu]
      [] t.kind = TlvType.Ip -> [info EXCEPT !.address = Latest(@, t.value)]
      [] t.kind = TlvType.Gateway -> [info EXCEPT !.gateway = Latest(@, t.value)]
      [] t.kind = TlvType.Dns ->
           [info EXCEPT !.dns = IF FirstWord(t.value) = Unspecified THEN @ ELSE Latest(@, t.value)]
      [] t.kind = TlvType.Encrypt ->
           [info EXCEPT !.encryption = CASE AsInteger(t.value) = 1 -> "Xor"
                                         [] AsInteger(t.value) = 2 -> "Aes"
                                         [] OTHER -> "None"]
      [] OTHER -> info

Offered == [mtu |-> RequestedMtu, address |-> None, dns |-> None, gateway |-> None,
            encryption |-> "header"]

OpenAck(body) ==
    LET parsed == ParseAll(body)
        at == FindTlv(parsed.tlvs, "AuthVerify")
        word == IF at = 0 THEN Nonce ELSE FirstWord(parsed.tlvs[at].value)
    IN CASE ~ parsed.ok \/ word = None -> [kind |-> "Malformed"]
         [] parsed.ok /\ word \notin {None, Nonce} -> [kind |-> "VerifyMismatch"]
         [] parsed.ok /\ word = Nonce ->
              [kind |-> "Session", info |-> FoldLeft(Takes, Offered, parsed.tlvs)]

-----------------------------------------------------------------------------
(* parse_rejection. *)

\* Mutant: the search leaves the first byte out.
OffsetsLate(body) == 2 .. Len(body)
Offsets(body) == 1 .. Len(body)

\* The attributes start here: they fill the rest, and among them are the user
\* name and a nonce.
Recognised(body, o) ==
    LET rest == SubSeq(body, o, Len(body))
        tlvs == ParseAll(rest).tlvs
        verify == FindTlv(tlvs, "AuthVerify")
    IN /\ Completes(rest)
       /\ FindTlv(tlvs, "Username") # 0
       /\ verify # 0 /\ Len(tlvs[verify].value) = WordLen

\* Without recognised attributes the whole body is the message, in bytes here:
\* the text is trimmed and searched for keywords, which choose a code.
Rejection(body) ==
    LET starts == {o \in Offsets(body) : Recognised(body, o)}
    IN IF starts = {} THEN [kind |-> "Rejected", message |-> body]
       ELSE LET start == CHOOSE o \in starts : \A p \in starts : o <= p
                tlvs == ParseAll(SubSeq(body, start, Len(body))).tlvs
                message == FindTlv(tlvs, "ErrorMessage")
            IN IF tlvs[FindTlv(tlvs, "AuthVerify")].value # Nonce
                 THEN [kind |-> "VerifyMismatch"]
               ELSE [kind |-> "Rejected", message |-> IF message # 0 THEN tlvs[message].value
                                                      ELSE SubSeq(body, 1, start - 1)]

-----------------------------------------------------------------------------

Undecided == [kind |-> "none"]
Datagram(type, frame, text, tlvs) ==
    [type |-> type, frame |-> frame, body |-> text \o Encode(tlvs), text |-> text,
     meant |-> tlvs]

\* build_open: a nonce of zero is left out.
OpenAttributes(name, link, nonce) ==
    <<Attribute("Mtu", <<0, 0>>), Attribute("Username", name),
      Attribute("Password", <<1, 2>>), Attribute("Encrypt", <<1>>)>>
    \o (IF link = None THEN <<>> ELSE <<Attribute("Link", link)>>)
    \o (IF \A i \in DOMAIN nonce : nonce[i] = 0 THEN <<>> ELSE <<Attribute("AuthVerify", nonce)>>)

Opens == {Datagram("Open", "signed", <<>>, OpenAttributes(n, l, Nonce)) :
            n \in Values, l \in {None, Nonce}}

\* The attributes an answer is read for; a user name's value is never looked at.
AckAttributes ==
    {Attribute(k, v) : k \in {"Mtu", "Ip", "Dns", "Gateway", "Encrypt", "AuthVerify"}, v \in Values}
RejectAttributes ==
    {Attribute(k, v) : k \in {"AuthVerify", "ErrorMessage"}, v \in Values}
        \cup {Attribute("Username", <<1>>)}

StructuredAnswers ==
    {Datagram("OpenAck", "signed", <<>>, tlvs) :
        tlvs \in BoundedSeq(AckAttributes, MaxAttributes)}
    \cup {Datagram("OpenReject", "signed", text, tlvs) :
            text \in Texts, tlvs \in BoundedSeq(RejectAttributes, MaxAttributes)}

AnyBytes == {[Datagram(type, "signed", body, <<>>) EXCEPT !.text = <<0>>] :
                type \in {"OpenAck", "OpenReject"}, body \in BoundedSeq(Bytes, MaxBody)}

Frames == {Datagram(type, frame, <<>>, <<>>) : type \in Control \cup {"Data", "SegmentRouting"},
                frame \in {"short", "header", "cut", "wrong", "signed"}}

AnswerInit == reply \in Opens \cup StructuredAnswers \cup AnyBytes \cup Frames /\ verdict = Undecided

\* What authenticate_with_budget does with a datagram.
Settle ==
    /\ verdict = Undecided
    /\ verdict' = CASE ~ DecodesPacket(reply) -> [kind |-> "Malformed"]
                    [] DecodesPacket(reply) /\ reply.type = "OpenReject" -> Rejection(reply.body)
                    [] DecodesPacket(reply) /\ reply.type = "OpenAck" -> OpenAck(reply.body)
                    [] OTHER -> [kind |-> "Ignored"]
    /\ UNCHANGED reply

AnswerDone == verdict # Undecided /\ UNCHANGED answerVars
AnswerNext == Settle \/ AnswerDone

AnswerSpec == AnswerInit /\ [][AnswerNext]_answerVars

-----------------------------------------------------------------------------
(* Properties. *)

\* Parsing undoes encoding, except that an empty last attribute is taken for a
\* suffix; and whatever is parsed is what the bytes say, all but two of them.
ParsedExactly ==
    LET parsed == ParseAll(reply.body)
        n == Len(reply.meant)
        seen == IF n > 0 /\ reply.meant[n].value = <<>> THEN SubSeq(reply.meant, 1, n - 1)
                                                        ELSE reply.meant
    IN /\ parsed.ok => /\ IsPrefix(Encode(parsed.tlvs), reply.body)
                       /\ Len(reply.body) - Len(Encode(parsed.tlvs)) <= 2
       /\ reply.text = <<>> => parsed = [ok |-> TRUE, tlvs |-> seen]

\* A session is taken only with this OPEN's nonce or none; address, DNS server
\* and gateway are those of the last attribute that has one, and an MTU outside
\* the range or an unspecified DNS server never is taken ("uses last valid
\* values", a unit test of parse_open_ack).
AckRead ==
    verdict.kind = "Session" =>
        LET tlvs == ParseAll(reply.body).tlvs
            verify == FindTlv(tlvs, "AuthVerify")
            LastWord(k, Bad) == LET i == SelectLastInSeq(tlvs, LAMBDA t :
                                           t.kind = TlvType[k] /\ FirstWord(t.value) \notin Bad)
                                IN IF i = 0 THEN None ELSE FirstWord(tlvs[i].value)
            mtu == SelectLastInSeq(tlvs, LAMBDA t : t.kind = TlvType.Mtu)
        IN /\ verify # 0 => IsPrefix(Nonce, tlvs[verify].value)
           /\ verdict.info.address = LastWord("Ip", {None})
           /\ verdict.info.gateway = LastWord("Gateway", {None})
           /\ verdict.info.dns = LastWord("Dns", {None, Unspecified})
           /\ verdict.info.mtu \in MtuRange \cup {RequestedMtu}
           /\ mtu = 0 => verdict.info.mtu = RequestedMtu

\* A rejection made of a text and attributes is recognised whatever the text,
\* as long as none of its bytes is a TLV type: it is refused when it is meant
\* for another OPEN and gives the message it was sent with otherwise.
RejectionRead ==
    LET n == Len(reply.meant)
        verify == FindTlv(reply.meant, "AuthVerify")
        message == FindTlv(reply.meant, "ErrorMessage")
        text == reply.text
    IN /\ reply.type = "OpenReject" /\ verdict # Undecided /\ n > 0
       /\ \A i \in DOMAIN text : text[i] \notin Kinds
       /\ FindTlv(reply.meant, "Username") # 0 /\ verify # 0
       /\ Len(reply.meant[verify].value) = WordLen /\ reply.meant[n].value # <<>>
       => verdict = IF reply.meant[verify].value # Nonce THEN [kind |-> "VerifyMismatch"]
                    ELSE [kind |-> "Rejected",
                          message |-> IF message = 0 THEN text ELSE reply.meant[message].value]

\* The client reads from an answer what the server wrote.
AnswerRead == ParsedExactly /\ AckRead /\ RejectionRead

=============================================================================
