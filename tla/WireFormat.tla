----------------------------- MODULE WireFormat -----------------------------
(***************************************************************************)
(* Messages as bytes: put_number and WireParser of util/serialization, and *)
(* how Datagram, AckMsg and ConfigMsg are written and read.                *)
(*                                                                         *)
(* A string is a sequence of bytes.  A message is written, and read, as a  *)
(* list of numbers: pairs of a field's name and its width in bytes, in the *)
(* order of the calls.                                                     *)
(***************************************************************************)
EXTENDS Integers, Sequences

CONSTANT BYTE    \* values of a byte, 256 in the code

ASSUME ByteAssumption == BYTE \in Nat \ 0..3

Byte == 0..(BYTE - 1)

uint8  == 1
uint16 == 2
uint32 == 4
uint64 == 8

(* Power[w] is the number of values of w bytes. *)
Power[w \in 0..uint64] == IF w = 0 THEN 1 ELSE Power[w - 1] * BYTE

(* The numbers of an unsigned type of w bytes. *)
UInt(w) == 0..(Power[w] - 1)

-----------------------------------------------------------------------------
(* A number in network byte order, most significant byte first. *)
put_number(n, w) == [i \in 1..w |-> (n \div Power[w - i]) % BYTE]

(* ntoh: the number that a string of bytes stands for. *)
Number(s) == LET value[i \in 0..Len(s)] ==
                   IF i = 0 THEN 0 ELSE value[i - 1] * BYTE + s[i]
             IN value[Len(s)]

-----------------------------------------------------------------------------
(* class WireParser: each call of read<T> moves the start of the string by *)
(* the size of T, so that a call begins where the ones before it end, and  *)
(* throws if the string ends too early.                                    *)

Pos(fields, i) ==
  LET end[k \in 0..Len(fields)] ==
        IF k = 0 THEN 0 ELSE end[k - 1] + fields[k][2]
  IN end[i - 1]

Size(fields) == Pos(fields, Len(fields) + 1)

Throws(str, fields) ==
  \E i \in DOMAIN fields : Pos(fields, i) + fields[i][2] > Len(str)

(* The message whose fields are read from str. *)
Filled(str, fields) ==
  [name \in {fields[i][1] : i \in DOMAIN fields} |->
     LET i == CHOOSE j \in DOMAIN fields : fields[j][1] = name
         pos == Pos(fields, i)
     IN Number(SubSeq(str, pos + 1, pos + fields[i][2]))]

(* read_string() and the string that is left: what follows the fields. *)
Rest(str, fields) == SubSeq(str, Size(fields) + 1, Len(str))

(* The fields of a message m, put one after the other. *)
WriteAll(m, fields) ==
  LET binary[i \in 0..Len(fields)] ==
        IF i = 0 THEN <<>>
        ELSE binary[i - 1] \o put_number(m[fields[i][1]], fields[i][2])
  IN binary[Len(fields)]

-----------------------------------------------------------------------------
(* Datagram.  The header has a fixed size; the payload is the rest. *)

HEADER_SIZE == uint32 + uint8 + 2 * uint16 + uint64

DatagramWrites == <<<<"frame_id", uint32>>, <<"frame_type", uint8>>,
                    <<"frag_id", uint16>>, <<"frag_cnt", uint16>>,
                    <<"send_ts", uint64>>>>

(* Mutant: the two fragment numbers are read in the wrong order. *)
DatagramReadsSwapped == <<<<"frame_id", uint32>>, <<"frame_type", uint8>>,
                          <<"frag_cnt", uint16>>, <<"frag_id", uint16>>,
                          <<"send_ts", uint64>>>>

DatagramReads == <<<<"frame_id", uint32>>, <<"frame_type", uint8>>,
                   <<"frag_id", uint16>>, <<"frag_cnt", uint16>>,
                   <<"send_ts", uint64>>>>

SerializeDatagram(d) == WriteAll(d, DatagramWrites) \o d.payload

(* The set of the datagram read, empty when parse_from_string is false. *)
ParseDatagram(str) ==
  LET header == Filled(str, DatagramReads)
  IN IF Len(str) < HEADER_SIZE
     THEN {}
     ELSE {[frame_id |-> header.frame_id, frame_type |-> header.frame_type,
            frag_id |-> header.frag_id, frag_cnt |-> header.frag_cnt,
            send_ts |-> header.send_ts, payload |-> Rest(str, DatagramReads)]}

-----------------------------------------------------------------------------
(* Msg and what derives from it: a type, then the fields of that type. *)

INVALID == 0
ACK     == 1
CONFIG  == 2

AckWrites == <<<<"frame_id", uint32>>, <<"frag_id", uint16>>,
               <<"send_ts", uint64>>>>

AckReads == <<<<"frame_id", uint32>>, <<"frag_id", uint16>>,
              <<"send_ts", uint64>>>>

ConfigWrites == <<<<"width", uint16>>, <<"height", uint16>>,
                  <<"frame_rate", uint16>>, <<"target_bitrate", uint32>>>>

ConfigReads == <<<<"width", uint16>>, <<"height", uint16>>,
                 <<"frame_rate", uint16>>, <<"target_bitrate", uint32>>>>

SerializeAck(m) == put_number(ACK, uint8) \o WriteAll(m, AckWrites)

SerializeConfig(m) == put_number(CONFIG, uint8) \o WriteAll(m, ConfigWrites)

(* Msg::parse_from_string: nullptr for an empty message and for a type it  *)
(* does not know; bytes after the last field are not looked at.            *)
ParseMsg(str) ==
  LET type == Number(SubSeq(str, 1, uint8))
      rest == SubSeq(str, uint8 + 1, Len(str))
      fields == IF type = ACK THEN AckReads ELSE ConfigReads
  IN IF str = <<>> \/ type \notin {ACK, CONFIG}
     THEN [type |-> INVALID, thrown |-> FALSE, fields |-> {}]
     ELSE [type |-> type, thrown |-> Throws(rest, fields),
           fields |-> IF Throws(rest, fields) THEN {} ELSE {Filled(rest, fields)}]
=============================================================================
