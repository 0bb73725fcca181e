--------------------------- MODULE PacketizerProofs ---------------------------
(***************************************************************************)
(* Fragmentation covers the frame for every frame size and max_payload.    *)
(*                                                                         *)
(* The inductive invariant gives the position of the copy pointer: a whole *)
(* number of full payloads until the last fragment, the end of the frame   *)
(* after it; and says that the datagrams queued so far are the first ones  *)
(* of Packetize.                                                           *)
(***************************************************************************)
EXTENDS Packetizer, TLAPS

(* Rounding down: the full groups of m + 1 bytes fit into n bytes. *)
LEMMA DivFacts ==
  ASSUME NEW n \in Nat, NEW m \in Nat \ {0}
  PROVE  /\ n \div (m + 1) \in Nat
         /\ (n \div (m + 1)) * (m + 1) <= n
  <1> DEFINE q == n \div (m + 1)
  <1>1. q \in Int /\ n % (m + 1) \in 0..m
    OBVIOUS
  <1>2. n = (m + 1) * q + (n % (m + 1))
    OBVIOUS
  <1>3. q >= 0
    BY <1>1, <1>2, SMTT(30)
  <1>4. (m + 1) * q = q * (m + 1)
    BY <1>1
  <1> QED
    BY <1>1, <1>2, <1>3, <1>4, SMTT(30)

(* Multiplication by a natural number is monotonic. *)
LEMMA TimesMonotonic ==
  ASSUME NEW a \in Nat, NEW b \in Nat, NEW m \in Nat, a <= b
  PROVE  a * m \in Nat /\ a * m <= b * m
  <1>1. PICK c \in Nat : b = a + c
    BY b - a \in Nat
  <1>2. (a + c) * m = a * m + c * m
    OBVIOUS
  <1>3. c * m >= 0 /\ a * m >= 0
    OBVIOUS
  <1> QED
    BY <1>1, <1>2, <1>3

(* The division in frag_cnt never yields a fragment without bytes: all but *)
(* the last fragment leave something for the last one.                     *)
LEMMA LastFragmentNotEmpty ==
  ASSUME NEW size \in Nat \ {0}
  PROVE  /\ FragCnt(size) \in Nat \ {0}
         /\ (FragCnt(size) - 1) * max_payload \in Nat
         /\ (FragCnt(size) - 1) * max_payload < size
  <1> DEFINE q == size \div (max_payload + 1)
  <1>1. max_payload \in Nat \ {0}
    BY MaxPayloadAssumption
  <1>2. q \in Nat /\ q * (max_payload + 1) <= size
    BY <1>1, DivFacts
  <1>3. FragCnt(size) = q + 1
    BY DEF FragCnt
  <1> HIDE DEF q
  <1>4. q * (max_payload + 1) = q * max_payload + q
    BY <1>1, <1>2
  <1>5. q * max_payload \in Nat
    BY <1>1, <1>2
  <1>6. q * max_payload < size
    <2>1. CASE q = 0
      BY <2>1, <1>1
    <2>2. CASE q > 0
      BY <2>2, <1>2, <1>4, <1>5
    <2> QED
      BY <2>1, <2>2, <1>2
  <1>7. FragCnt(size) - 1 = q
    BY <1>2, <1>3
  <1> QED
    BY <1>2, <1>3, <1>5, <1>6, <1>7

(* Where the copy pointer is before fragment `frag_id' is cut. *)
Position == IF frag_id < frag_cnt THEN frag_id * max_payload ELSE frame_size

IInv == /\ frame_size \in 1..MaxFrameSize
        /\ frag_id \in 0..frag_cnt
        /\ buf_ptr = Position
        /\ queued \in Seq(Datagram)
        /\ Len(queued) = frag_id
        /\ \A i \in 1..frag_id :
             /\ queued[i] = Packetize(0, KEY, frame_size)[i]
             /\ queued[i].payload > 0

(* The facts about the constants that every step uses. *)
LEMMA CountFacts ==
  ASSUME frame_size \in 1..MaxFrameSize
  PROVE  /\ max_payload \in Nat \ {0}
         /\ frame_size \in Nat \ {0}
         /\ frag_cnt \in Nat \ {0}
         /\ (frag_cnt - 1) * max_payload \in Nat
         /\ (frag_cnt - 1) * max_payload < frame_size
  BY MaxPayloadAssumption, PacketizerAssumption, LastFragmentNotEmpty
     DEF frag_cnt

LEMMA InitInv == Init => IInv
  <1> SUFFICES ASSUME Init PROVE IInv
    OBVIOUS
  <1> frame_size \in 1..MaxFrameSize
    BY DEF Init
  <1>1. frag_cnt \in Nat \ {0} /\ max_payload \in Nat
    BY CountFacts
  <1>2. 0 * max_payload = 0
    BY <1>1
  <1> QED
    BY <1>1, <1>2 DEF Init, IInv, Position

LEMMA StepInv == IInv /\ [Next]_vars => IInv'
  <1> SUFFICES ASSUME IInv, [Next]_vars PROVE IInv'
    OBVIOUS
  <1>1. CASE UNCHANGED vars
    BY <1>1 DEF vars, IInv, Position, frag_cnt
  <1>2. CASE EnqueueFragment
    <2>1. /\ max_payload \in Nat \ {0}
          /\ frame_size \in Nat \ {0}
          /\ frag_cnt \in Nat \ {0}
          /\ (frag_cnt - 1) * max_payload \in Nat
          /\ (frag_cnt - 1) * max_payload < frame_size
      BY CountFacts DEF IInv
    <2>2. /\ frame_size' = frame_size /\ frag_cnt' = frag_cnt
          /\ frag_id \in Nat /\ frag_id < frag_cnt
          /\ frag_id' = frag_id + 1
          /\ buf_ptr = frag_id * max_payload
          /\ buf_ptr' = buf_ptr + payload_size
      BY <1>2, <2>1 DEF EnqueueFragment, IInv, Position, frag_cnt
    <2>3. /\ payload_size \in Nat \ {0}
          /\ payload_size = PayloadSize(frame_size, frag_id)
          /\ buf_ptr' = Position'
      <3>1. CASE frag_id < frag_cnt - 1
        <4>1. payload_size = max_payload
          BY <3>1 DEF payload_size
        <4>2. PayloadSize(frame_size, frag_id) = max_payload
          BY <3>1 DEF PayloadSize, frag_cnt
        <4>3. (frag_id + 1) * max_payload = frag_id * max_payload + max_payload
          BY <2>1, <2>2
        <4> QED
          BY <2>1, <2>2, <3>1, <4>1, <4>2, <4>3 DEF Position
      <3>2. CASE frag_id = frag_cnt - 1
        <4>1. payload_size = frame_size - (frag_cnt - 1) * max_payload
          BY <2>1, <2>2, <3>2 DEF payload_size
        <4>2. PayloadSize(frame_size, frag_id) = payload_size
          BY <2>1, <3>2, <4>1 DEF PayloadSize, frag_cnt
        <4>3. buf_ptr = (frag_cnt - 1) * max_payload
          BY <2>2, <3>2
        <4> QED
          BY <2>1, <2>2, <3>2, <4>1, <4>2, <4>3 DEF Position
      <3> QED
        BY <2>1, <2>2, <3>1, <3>2
    <2> DEFINE d == [frame_id |-> 0, frame_type |-> KEY, frag_id |-> frag_id,
                     frag_cnt |-> frag_cnt, payload |-> payload_size,
                     send_ts |-> 0, num_rtx |-> 0, last_send_ts |-> 0]
    <2>4. d \in Datagram /\ d.payload > 0
      BY <2>1, <2>2, <2>3 DEF Datagram, FrameType
    <2>5. queued' = Append(queued, d)
      BY <1>2 DEF EnqueueFragment
    <2>6. d = Packetize(0, KEY, frame_size)[frag_id + 1]
      BY <2>1, <2>2, <2>3 DEF Packetize, frag_cnt
    <2>7. /\ queued' \in Seq(Datagram)
          /\ Len(queued') = frag_id'
          /\ \A i \in 1..frag_id : queued'[i] = queued[i]
          /\ queued'[frag_id + 1] = d
      BY <2>2, <2>4, <2>5 DEF IInv
    <2>8. \A i \in 1..frag_id' :
             /\ queued'[i] = Packetize(0, KEY, frame_size)[i]
             /\ queued'[i].payload > 0
      <3> HIDE DEF d
      <3> SUFFICES ASSUME NEW i \in 1..frag_id'
                   PROVE  /\ queued'[i] = Packetize(0, KEY, frame_size)[i]
                          /\ queued'[i].payload > 0
        OBVIOUS
      <3>1. CASE i = frag_id + 1
        BY <3>1, <2>4, <2>6, <2>7
      <3>2. CASE i \in 1..frag_id
        BY <3>2, <2>7 DEF IInv
      <3> QED
        BY <2>2, <3>1, <3>2
    <2> QED
      BY <2>1, <2>2, <2>3, <2>7, <2>8 DEF IInv
  <1> QED
    BY <1>1, <1>2 DEF Next

(* Type correctness: the copy pointer stays inside the frame. *)
THEOREM TypeCorrect == Spec => []TypeOK
  <1>1. IInv => TypeOK
    <2> SUFFICES ASSUME IInv PROVE TypeOK
      OBVIOUS
    <2>1. /\ max_payload \in Nat
          /\ frame_size \in Nat \ {0}
          /\ frag_cnt \in Nat \ {0}
          /\ (frag_cnt - 1) * max_payload < frame_size
      BY CountFacts DEF IInv
    <2>2. CASE frag_id < frag_cnt
      <3>1. frag_id \in Nat /\ frag_cnt - 1 \in Nat /\ frag_id <= frag_cnt - 1
        BY <2>1, <2>2 DEF IInv
      <3>2. frag_id * max_payload \in Nat
            /\ frag_id * max_payload <= (frag_cnt - 1) * max_payload
        BY <2>1, <3>1, TimesMonotonic
      <3>3. (frag_cnt - 1) * max_payload \in Int
        BY <2>1, <3>1
      <3> QED
        BY <2>1, <2>2, <3>2, <3>3 DEF IInv, TypeOK, Position
    <2>3. CASE ~(frag_id < frag_cnt)
      BY <2>1, <2>3 DEF IInv, TypeOK, Position
    <2> QED
      BY <2>2, <2>3
  <1> QED
    BY <1>1, InitInv, StepInv, PTL DEF Spec

(* packetize_encoded_frame copies every byte of the frame once and queues  *)
(* no empty fragment, for every frame size and max_payload.                *)
THEOREM CoversFrame == Spec => []FragmentsCoverFrame
  <1>1. IInv => FragmentsCoverFrame
    <2> SUFFICES ASSUME IInv PROVE FragmentsCoverFrame
      OBVIOUS
    <2>1. frag_cnt \in Nat
      BY CountFacts DEF IInv
    <2>2. DOMAIN queued = 1..frag_id
      BY DEF IInv
    <2> QED
      BY <2>1, <2>2 DEF IInv, FragmentsCoverFrame, Done, Position
  <1> QED
    BY <1>1, InitInv, StepInv, PTL DEF Spec

(* The loop computes Packetize, which the model of the encoder takes for   *)
(* packetize_encoded_frame: all fragments, in order, with their sizes.     *)
THEOREM LoopIsPacketize == Spec => []ComputesPacketize
  <1>1. IInv => ComputesPacketize
    <2> SUFFICES ASSUME IInv, Done
                 PROVE  queued = Packetize(0, KEY, frame_size)
      BY DEF ComputesPacketize
    <2>1. frag_cnt \in Nat
      BY CountFacts DEF IInv
    <2> DEFINE P == Packetize(0, KEY, frame_size)
    <2>2. /\ P = [i \in DOMAIN P |-> P[i]]
          /\ DOMAIN P = 1..frag_cnt
      BY DEF Packetize, frag_cnt
    <2> HIDE DEF P
    <2>3. DOMAIN queued = 1..frag_cnt
      BY <2>1 DEF IInv, Done
    <2>4. queued = [i \in DOMAIN queued |-> queued[i]]
      BY DEF IInv
    <2>5. \A i \in 1..frag_cnt : queued[i] = P[i]
      BY DEF IInv, Done, P
    <2> QED
      BY <2>2, <2>3, <2>4, <2>5 DEF P
  <1> QED
    BY <1>1, InitInv, StepInv, PTL DEF Spec

-----------------------------------------------------------------------------
(* How far the fragments miss "maximum size for 'payload'" (protocol.hh).  *)
(* The division by max_payload + 1 leaves to the last fragment the         *)
(* remainder, and one byte for each of the full ones.                      *)

Full(size) == size \div (max_payload + 1)
Rest(size) == size % (max_payload + 1)

LEMMA LastPayload ==
  ASSUME NEW size \in Nat \ {0}
  PROVE  /\ Full(size) \in Nat /\ Rest(size) \in 0..max_payload
         /\ FragCnt(size) = Full(size) + 1
         /\ size = Full(size) * (max_payload + 1) + Rest(size)
         /\ size - Full(size) * max_payload = Full(size) + Rest(size)
  <1> DEFINE q == Full(size)
             r == Rest(size)
             m == max_payload
  <1>1. m \in Nat \ {0}
    BY MaxPayloadAssumption
  <1>2. q \in Nat /\ FragCnt(size) = q + 1
    BY <1>1, DivFacts DEF FragCnt, Full
  <1>3. r \in 0..m
    BY <1>1 DEF Rest
  <1>4. size = (m + 1) * q + r
    BY <1>1 DEF Full, Rest
  <1> HIDE DEF q, r, m
  <1>5. (m + 1) * q = q * (m + 1) /\ q * (m + 1) = q * m + q /\ q * m \in Nat
    BY <1>1, <1>2
  <1>6. size - q * m = q + r
    BY <1>2, <1>3, <1>4, <1>5, <1>1
  <1>7. size = q * (m + 1) + r
    BY <1>4, <1>5
  <1> QED
    BY <1>2, <1>3, <1>6, <1>7 DEF q, r, m

LEMMA PayloadOfFragment ==
  ASSUME IInv, NEW i \in 1..frag_id
  PROVE  /\ DOMAIN queued = 1..frag_id
         /\ i < frag_cnt => queued[i].payload = max_payload
         /\ i = frag_cnt
              => queued[i].payload = Full(frame_size) + Rest(frame_size)
  <1>1. /\ max_payload \in Nat /\ frame_size \in Nat \ {0}
        /\ frag_cnt \in Nat \ {0}
    BY CountFacts DEF IInv
  <1>2. i \in 1..frag_cnt
    BY <1>1 DEF IInv
  <1>3. queued[i] = Packetize(0, KEY, frame_size)[i] /\ DOMAIN queued = 1..frag_id
    BY DEF IInv
  <1>4. queued[i].payload = PayloadSize(frame_size, i - 1)
    BY <1>2, <1>3 DEF Packetize, frag_cnt
  <1>5. ASSUME i < frag_cnt PROVE queued[i].payload = max_payload
    <2>1. i - 1 < FragCnt(frame_size) - 1
      BY <1>1, <1>5 DEF frag_cnt
    <2> QED
      BY <1>4, <2>1 DEF PayloadSize
  <1>6. ASSUME i = frag_cnt
        PROVE  queued[i].payload = Full(frame_size) + Rest(frame_size)
    <2>1. ~(i - 1 < FragCnt(frame_size) - 1)
      BY <1>1, <1>6 DEF frag_cnt
    <2>2. PayloadSize(frame_size, i - 1)
            = frame_size - (FragCnt(frame_size) - 1) * max_payload
      BY <2>1 DEF PayloadSize
    <2>3. /\ Full(frame_size) \in Nat
          /\ FragCnt(frame_size) = Full(frame_size) + 1
          /\ frame_size - Full(frame_size) * max_payload
               = Full(frame_size) + Rest(frame_size)
      BY <1>1, LastPayload
    <2>4. FragCnt(frame_size) - 1 = Full(frame_size)
      BY <2>3
    <2> QED
      BY <1>4, <2>2, <2>3, <2>4
  <1> QED
    BY <1>3, <1>5, <1>6

(* When all fragments are queued, the last one decides. *)
LEMMA LastDecides ==
  ASSUME IInv, Done
  PROVE  PayloadWithinMax <=> Full(frame_size) + Rest(frame_size) <= max_payload
  <1>1. max_payload \in Nat /\ frag_cnt \in Nat \ {0}
    BY CountFacts DEF IInv
  <1>2. frag_id = frag_cnt /\ frag_cnt \in 1..frag_id
    BY <1>1 DEF Done
  <1>3. /\ DOMAIN queued = 1..frag_cnt
        /\ queued[frag_cnt].payload = Full(frame_size) + Rest(frame_size)
    BY <1>2, PayloadOfFragment
  <1>4. \A i \in 1..frag_cnt : i # frag_cnt => queued[i].payload = max_payload
    <2>1. ASSUME NEW i \in 1..frag_cnt, i # frag_cnt
          PROVE  queued[i].payload = max_payload
      <3>1. i < frag_cnt /\ i \in 1..frag_id
        BY <1>1, <1>2, <2>1
      <3> QED
        BY <3>1, PayloadOfFragment
    <2> QED
      BY <2>1
  <1> QED
    BY <1>1, <1>2, <1>3, <1>4 DEF PayloadWithinMax

(* Which frames get a payload larger than max_payload from                 *)
(* packetize_encoded_frame: exactly those whose number of full fragments   *)
(* and remainder add up to more.                                           *)
THEOREM OversizedExactly ==
  Spec => [](Done => (PayloadWithinMax
                        <=> Full(frame_size) + Rest(frame_size) <= max_payload))
  BY LastDecides, InitInv, StepInv, PTL DEF Spec

(* A frame of at most two full payloads is cut as protocol.hh promises;    *)
(* with one byte more packetize_encoded_frame always exceeds max_payload.  *)
THEOREM ShortFramesFit ==
  Spec => [](/\ frame_size <= 2 * max_payload => PayloadWithinMax
             /\ Done /\ frame_size = 2 * max_payload + 1 => ~PayloadWithinMax)
  <1>1. ASSUME IInv, frame_size <= 2 * max_payload PROVE PayloadWithinMax
    <2> DEFINE q == Full(frame_size)
               r == Rest(frame_size)
    <2>1. /\ max_payload \in Nat \ {0} /\ frame_size \in Nat \ {0}
          /\ frag_cnt \in Nat \ {0}
      BY <1>1, CountFacts DEF IInv
    <2>2. /\ q \in Nat /\ r \in 0..max_payload
          /\ frame_size = q * (max_payload + 1) + r
      BY <2>1, LastPayload
    <2> HIDE DEF q, r
    <2>3. q + r <= max_payload
      <3>1. CASE q = 0
        BY <2>1, <2>2, <3>1
      <3>2. CASE q = 1
        <4>1. frame_size = max_payload + 1 + r
          BY <2>1, <2>2, <3>2
        <4> QED
          BY <1>1, <2>1, <2>2, <3>2, <4>1
      <3>3. CASE q >= 2
        <4>1. 2 * (max_payload + 1) <= q * (max_payload + 1)
          BY <2>1, <2>2, <3>3, TimesMonotonic
        <4>2. q * (max_payload + 1) \in Nat
          BY <2>1, <2>2
        <4> QED
          BY <1>1, <2>1, <2>2, <4>1, <4>2
      <3> QED
        BY <2>2, <3>1, <3>2, <3>3
    <2>4. ASSUME NEW i \in DOMAIN queued PROVE queued[i].payload <= max_payload
      <3>1. DOMAIN queued = 1..frag_id /\ frag_id \in 0..frag_cnt
        BY <1>1 DEF IInv
      <3>2. i \in 1..frag_id
        BY <2>4, <3>1
      <3>3. /\ i < frag_cnt => queued[i].payload = max_payload
            /\ i = frag_cnt => queued[i].payload = q + r
        BY <1>1, <3>2, PayloadOfFragment DEF q, r
      <3>4. i < frag_cnt \/ i = frag_cnt
        BY <2>1, <3>1, <3>2
      <3> QED
        BY <2>1, <2>3, <3>3, <3>4
    <2> QED
      BY <2>4 DEF PayloadWithinMax
  <1>2. ASSUME IInv, Done, frame_size = 2 * max_payload + 1
        PROVE  ~PayloadWithinMax
    <2> DEFINE q == Full(frame_size)
               r == Rest(frame_size)
    <2>1. max_payload \in Nat \ {0} /\ frame_size \in Nat \ {0}
      BY <1>2, CountFacts DEF IInv
    <2>2. /\ q \in Nat /\ r \in 0..max_payload
          /\ frame_size = q * (max_payload + 1) + r
      BY <2>1, LastPayload
    <2> HIDE DEF q, r
    <2>3. q # 0
      BY <1>2, <2>1, <2>2
    <2>4. CASE q = 1
      <3>1. frame_size = max_payload + 1 + r
        BY <2>1, <2>2, <2>4
      <3>2. ~(q + r <= max_payload)
        BY <1>2, <2>1, <2>2, <2>4, <3>1
      <3> QED
        BY <1>2, <3>2, LastDecides DEF q, r
    <2>5. CASE q >= 2
      <3>1. 2 * (max_payload + 1) <= q * (max_payload + 1)
        BY <2>1, <2>2, <2>5, TimesMonotonic
      <3>2. q * (max_payload + 1) \in Nat
        BY <2>1, <2>2
      <3> QED
        BY <1>2, <2>1, <2>2, <3>1, <3>2
    <2> QED
      BY <2>2, <2>3, <2>4, <2>5
  <1> QED
    BY <1>1, <1>2, InitInv, StepInv, PTL DEF Spec
=============================================================================
