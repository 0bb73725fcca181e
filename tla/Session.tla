------------------------------- MODULE Session -------------------------------
(***************************************************************************)
(* How a call begins: video_sender waits on its port for a ConfigMsg, each *)
(* video_receiver sends one, once, and waits for datagrams.                *)
(*                                                                         *)
(* Several receivers may try.  The network may lose, delay, reorder and    *)
(* duplicate what they send, and other hosts may send to the port, too.    *)
(* What travels is bytes, in the formats of WireFormat.  Of the call       *)
(* itself, datagrams go to the peer and its ACKs come back.                *)
(***************************************************************************)
EXTENDS WireFormat

CONSTANTS
  Receivers,    \* addresses of the receivers
  Configs,      \* configurations their users may ask for
  Datagrams,    \* datagrams the encoder may produce
  StrayMsgs,    \* messages, whole or not, that another host may send
  VideoWidth, VideoHeight,   \* dimensions of the video file
  Stray,        \* address of that host
  NoPeer,       \* no address
  MaxInbox      \* messages the socket's receive buffer holds

ASSUME SessionAssumption ==
  /\ Configs \subseteq [width : UInt(uint16), height : UInt(uint16),
                        frame_rate : UInt(uint16),
                        target_bitrate : UInt(uint32)]
  /\ \A d \in Datagrams :
       d \in [frame_id : UInt(uint32), frame_type : UInt(uint8),
              frag_id : UInt(uint16), frag_cnt : UInt(uint16),
              send_ts : UInt(uint64), payload : Seq(Byte)]
  /\ \A s \in StrayMsgs : s \in Seq(Byte)
  /\ Stray \notin Receivers
  /\ NoPeer \notin Receivers \cup {Stray}
  /\ MaxInbox \in Nat \ {0}

VARIABLES
  sender_pc,   \* how far video_sender's main has come
  peer,        \* peer_addr
  config,      \* config_msg: a set with the configuration, empty before
  inbox,       \* the socket's receive buffer
  datagrams,   \* datagrams sent, with the address each was sent to
  acked,       \* ACKs handled, with the address each came from
  sent,        \* packets sent to the sender's port
  asked,       \* the configuration each receiver's user asks for
  recv_pc      \* how far each video_receiver has come

senderVars == <<sender_pc, peer, config, inbox, datagrams, acked>>
vars == <<senderVars, sent, asked, recv_pc>>

Packet(addr, bytes) == [from |-> addr, data |-> bytes]

StrayPackets == {Packet(Stray, s) : s \in StrayMsgs}

-----------------------------------------------------------------------------
(* video_sender *)

SenderBind ==
  /\ sender_pc = "start"
  /\ sender_pc' = "waiting"
  /\ UNCHANGED <<peer, config, inbox, datagrams, acked, sent, asked, recv_pc>>

(* Mutants: the address is that of the newest packet; an ignored packet is *)
(* not taken off the queue.                                                *)
RecvConfigFromNewest ==
  /\ sender_pc = "waiting"
  /\ inbox # <<>>
  /\ LET msg == ParseMsg(Head(inbox).data)
     IN /\ sender_pc' = IF msg.thrown THEN "ended"
                        ELSE IF msg.type = CONFIG THEN "connecting" ELSE "waiting"
        /\ peer' = IF sender_pc' = "connecting"
                   THEN inbox[Len(inbox)].from ELSE peer
        /\ config' = IF sender_pc' = "connecting" THEN msg.fields ELSE config
  /\ inbox' = Tail(inbox)
  /\ UNCHANGED <<datagrams, acked, sent, asked, recv_pc>>

RecvConfigPeek ==
  /\ sender_pc = "waiting"
  /\ inbox # <<>>
  /\ LET msg == ParseMsg(Head(inbox).data)
     IN /\ sender_pc' = IF msg.thrown THEN "ended"
                        ELSE IF msg.type = CONFIG THEN "connecting" ELSE "waiting"
        /\ peer' = IF sender_pc' = "connecting" THEN Head(inbox).from ELSE peer
        /\ config' = IF sender_pc' = "connecting" THEN msg.fields ELSE config
  /\ inbox' = IF sender_pc' = "waiting" THEN inbox ELSE Tail(inbox)
  /\ UNCHANGED <<datagrams, acked, sent, asked, recv_pc>>

(* One iteration of recv_config_msg. *)
RecvConfig ==
  /\ sender_pc = "waiting"
  /\ inbox # <<>>
  /\ LET msg == ParseMsg(Head(inbox).data)
     IN /\ sender_pc' = IF msg.thrown THEN "ended"
                        ELSE IF msg.type = CONFIG THEN "connecting" ELSE "waiting"
        /\ peer' = IF sender_pc' = "connecting" THEN Head(inbox).from ELSE peer
        /\ config' = IF sender_pc' = "connecting" THEN msg.fields ELSE config
  /\ inbox' = Tail(inbox)
  /\ UNCHANGED <<datagrams, acked, sent, asked, recv_pc>>

(* connect() leaves in the receive buffer what is already there. *)
SenderConnect ==
  /\ sender_pc = "connecting"
  /\ sender_pc' = "setup"
  /\ UNCHANGED <<peer, config, inbox, datagrams, acked, sent, asked, recv_pc>>

(* The video must have the size asked for, and the frame interval of       *)
(* BILLION / frame_rate nanoseconds must be less than a second.            *)
Usable(c) == /\ c.width = VideoWidth /\ c.height = VideoHeight
             /\ c.frame_rate >= 2

SenderSetUp ==
  /\ sender_pc = "setup"
  /\ sender_pc' = IF \A c \in config : Usable(c) THEN "call" ELSE "ended"
  /\ UNCHANGED <<peer, config, inbox, datagrams, acked, sent, asked, recv_pc>>

SenderSend ==
  /\ sender_pc = "call"
  /\ \E d \in Datagrams :
       datagrams' = datagrams \cup {[to |-> peer, datagram |-> d]}
  /\ UNCHANGED <<sender_pc, peer, config, inbox, acked, sent, asked, recv_pc>>

(* Mutant: a ConfigMsg during the call changes the peer. *)
SenderReadRetarget ==
  /\ sender_pc = "call"
  /\ inbox # <<>>
  /\ LET msg == ParseMsg(Head(inbox).data)
     IN /\ sender_pc' = IF msg.thrown THEN "ended" ELSE "call"
        /\ peer' = IF msg.type = CONFIG /\ ~msg.thrown
                   THEN Head(inbox).from ELSE peer
  /\ inbox' = Tail(inbox)
  /\ UNCHANGED <<config, datagrams, acked, sent, asked, recv_pc>>

(* One iteration of the readable callback.  Whatever was parsed, an ACK or *)
(* not, the peer and the configuration stay.                               *)
SenderRead ==
  /\ sender_pc = "call"
  /\ inbox # <<>>
  /\ LET msg == ParseMsg(Head(inbox).data)
     IN /\ sender_pc' = IF msg.thrown THEN "ended" ELSE "call"
        /\ acked' = IF msg.type = ACK
                    THEN acked \cup {[from |-> Head(inbox).from, ack |-> m] :
                                       m \in msg.fields}
                    ELSE acked
  /\ inbox' = Tail(inbox)
  /\ UNCHANGED <<peer, config, datagrams, sent, asked, recv_pc>>

(* The peer has ended: its host refuses a datagram, and the next send() or *)
(* recv() of the sender throws.                                            *)
SenderRefused ==
  /\ sender_pc = "call"
  /\ \E d \in datagrams : recv_pc[d.to] = "ended"
  /\ sender_pc' = "ended"
  /\ UNCHANGED <<peer, config, inbox, datagrams, acked, sent, asked, recv_pc>>

-----------------------------------------------------------------------------
(* video_receiver *)

(* Sends its ConfigMsg, once, and waits in recv(). *)
ReceiverStart(r) ==
  /\ recv_pc[r] = "off"
  /\ \E c \in Configs :
       /\ asked' = [asked EXCEPT ![r] = {c}]
       /\ sent' = sent \cup {Packet(r, SerializeConfig(c))}
  /\ recv_pc' = [recv_pc EXCEPT ![r] = "waiting"]
  /\ UNCHANGED senderVars

(* Receives a datagram, which it must be able to parse, and acknowledges   *)
(* it.                                                                     *)
ReceiverAck(r) ==
  /\ recv_pc[r] \in {"waiting", "call"}
  /\ \E d \in datagrams :
       /\ d.to = r
       /\ LET parsed == ParseDatagram(SerializeDatagram(d.datagram))
          IN /\ sent' = sent \cup {Packet(r, SerializeAck(w)) : w \in parsed}
             /\ recv_pc' = [recv_pc EXCEPT ![r] = IF parsed = {} THEN "ended"
                                                  ELSE "call"]
  /\ UNCHANGED <<senderVars, asked>>

-----------------------------------------------------------------------------
(* The network delivers any packet ever sent.  The port takes it while it  *)
(* is open and, once connected, if it comes from the peer; a full buffer   *)
(* drops it.                                                               *)

Accepts(p) == \/ sender_pc \in {"waiting", "connecting"}
              \/ sender_pc \in {"setup", "call"} /\ p.from = peer

Arrive(p) ==
  /\ Accepts(p)
  /\ Len(inbox) < MaxInbox
  /\ inbox' = Append(inbox, p)
  /\ UNCHANGED <<sender_pc, peer, config, datagrams, acked, sent, asked,
                 recv_pc>>

(* Otherwise the source is told, and its recv() throws. *)
Refuse(p) ==
  /\ ~Accepts(p)
  /\ p.from \in Receivers
  /\ recv_pc[p.from] # "ended"
  /\ recv_pc' = [recv_pc EXCEPT ![p.from] = "ended"]
  /\ UNCHANGED <<senderVars, sent, asked>>

-----------------------------------------------------------------------------
Init == /\ sender_pc = "start"
        /\ peer = NoPeer
        /\ config = {}
        /\ inbox = <<>>
        /\ datagrams = {}
        /\ acked = {}
        /\ sent = {}
        /\ asked = [r \in Receivers |-> {}]
        /\ recv_pc = [r \in Receivers |-> "off"]

SenderStep == \/ SenderBind \/ RecvConfig \/ SenderConnect \/ SenderSetUp
              \/ SenderSend \/ SenderRead

Next == \/ SenderStep
        \/ SenderRefused
        \/ \E r \in Receivers : ReceiverStart(r) \/ ReceiverAck(r)
        \/ \E p \in sent \cup StrayPackets : Arrive(p) \/ Refuse(p)

(* The sender is scheduled; nothing makes a packet arrive. *)
Fairness == WF_vars(SenderStep)

Spec == Init /\ [][Next]_vars /\ Fairness

-----------------------------------------------------------------------------
(* The sender uses the configuration that the user of the receiver it      *)
(* sends to has asked for, number by number, although others ask at the    *)
(* same time.                                                              *)
AgreedConfig ==
  sender_pc \in {"setup", "call"}
    => peer \in Receivers /\ config # {} /\ config = asked[peer]

(* A call has two parties: only the peer gets datagrams and takes part,    *)
(* although ConfigMsgs of others may be in the receive buffer when the     *)
(* sender connects.                                                        *)
OnlyPeerServed ==
  /\ \A d \in datagrams : d.to = peer
  /\ \A r \in Receivers : recv_pc[r] = "call" => r = peer

(* What the sender takes for acknowledged by its peer was sent to it, with *)
(* that sequence number and at that time: a datagram and its ACK survive   *)
(* being written and read twice.                                           *)
AcksEcho ==
  \A a \in acked :
    a.from \in Receivers
      => \E d \in datagrams :
           /\ d.to = a.from
           /\ d.datagram.frame_id = a.ack.frame_id
           /\ d.datagram.frag_id = a.ack.frag_id
           /\ d.datagram.send_ts = a.ack.send_ts

(* Whatever comes before it, a ConfigMsg in the receive buffer ends the    *)
(* wait: the sender starts a call or ends.                                 *)
ConfigEndsWait ==
  (\E i \in DOMAIN inbox : ParseMsg(inbox[i].data).type = CONFIG)
    /\ sender_pc = "waiting"
    ~> sender_pc \in {"call", "ended"}

(* "ignore invalid or non-config messages" (video_sender.cc): no message   *)
(* ends the sender; only a configuration it cannot use, or the end of its  *)
(* peer.                                                                   *)
InvalidIgnored ==
  sender_pc = "ended"
    => \/ \E c \in config : ~Usable(c)
       \/ peer \in Receivers /\ recv_pc[peer] = "ended"
=============================================================================
