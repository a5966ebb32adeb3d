---------------------------- MODULE Crystalfontz ----------------------------
(***************************************************************************)
(* Packets of the newer Crystalfontz displays (drv_Crystalfontz.c).  What  *)
(* comes from the display goes through a ring buffer, from which packets   *)
(* are taken one by one: by the timer, and by whoever has sent a command   *)
(* and waits for its acknowledgement.  A key that comes meanwhile has its  *)
(* expression evaluated at once, and that may send a command of its own.   *)
(***************************************************************************)
EXTENDS Integers, Sequences, SequencesExt, FiniteSets

CONSTANTS
    RING,           \* size of the ring buffer (256)
    Keys,           \* key numbers
    KeyCommand,     \* the command that the expression of a key sends, or 0
    Commands,       \* commands of the main loop
    CRC,            \* the two bytes of the check sum for the packets of the display
    MaxSends, MaxPressed, MaxLost   \* bounds: commands of the main loop, keys, lost bytes

VARIABLES
    line,       \* bytes on their way to the driver; with each, the packet that it belongs to
    ring,       \* what the ring buffer holds between its read and its write position
    sends,      \* commands whose acknowledgement is awaited, the innermost last
    display,    \* commands that the display has not executed yet
    pressed,    \* history: the packets of the keys that were pressed on the keypad, and ...
    served,     \* ... those whose expression was evaluated, in this order
    damaged,    \* history: packets of which a byte was lost
    wrapped,    \* history: the ring buffer was written over
    sent        \* how many commands the main loop sent

cfVars == <<line, ring, sends, display, pressed, served, damaged, wrapped, sent>>

\* A packet of the display: type and code, size, data and check sum.
Packet(type, code, data) ==
    LET packet == <<type * 64 + code, Len(data)>> \o data IN packet \o CRC[packet]
\* Its bytes, each with the name of the packet.
Named(packet, name) == [i \in DOMAIN packet |-> [byte |-> packet[i], of |-> name]]

CfInit ==
    /\ line = <<>>
    /\ ring = <<>>
    /\ sends = <<>> /\ display = <<>>
    /\ pressed = <<>> /\ served = <<>> /\ damaged = {}
    /\ wrapped = FALSE /\ sent = 0

-----------------------------------------------------------------------------
(* The ring buffer. *)

Bytes(bytes) == [i \in DOMAIN bytes |-> bytes[i].byte]

\* The first loop of drv_CF_poll: all that has come is written.  A write position that
\* comes round to the read position says that nothing is there.
Filled ==
    LET all == ring \o line IN SubSeq(all, Len(all) - (Len(all) % RING) + 1, Len(all))

\* Variant for mutation: garbage is dropped with what it took for its data.
TakenWhole(bytes) ==
    LET size == IF Len(bytes) >= 2 THEN Bytes(bytes)[2] ELSE 0
    IN  IF Len(bytes) < 4 \/ (Bytes(bytes)[1] >= 64 /\ size <= 16 /\ Len(bytes) < size + 4)
        THEN [dropped |-> 0, packet |-> <<>>]
        ELSE IF /\ Bytes(bytes)[1] >= 64 /\ size <= 16
                /\ SubSeq(Bytes(bytes), 1, size + 2) \in DOMAIN CRC
                /\ SubSeq(Bytes(bytes), size + 3, size + 4) = CRC[SubSeq(Bytes(bytes), 1, size + 2)]
        THEN [dropped |-> 0, packet |-> SubSeq(bytes, 1, size + 4)]
        ELSE [dropped |-> IF size <= 16 /\ size + 4 <= Len(bytes) THEN size + 4 ELSE 1, packet |-> <<>>]

\* The second one: garbage is dropped byte by byte, until there is a packet, or less than
\* what might be one.
RECURSIVE Taken(_)
Taken(bytes) ==
    LET b == Bytes(bytes)
        size == b[2]
        Garbage == LET rest == Taken(Tail(bytes)) IN [rest EXCEPT !.dropped = @ + 1]
    IN  IF Len(bytes) < 4 THEN [dropped |-> 0, packet |-> <<>>]
        ELSE IF b[1] < 64 \/ size > 16 THEN Garbage
        ELSE IF Len(bytes) < size + 4 THEN [dropped |-> 0, packet |-> <<>>]
        ELSE IF SubSeq(b, 1, size + 2) \notin DOMAIN CRC
                \/ SubSeq(b, size + 3, size + 4) # CRC[SubSeq(b, 1, size + 2)] THEN Garbage
        ELSE [dropped |-> 0, packet |-> SubSeq(bytes, 1, size + 4)]

\* drv_CF_poll: the packet that it finds, or none.
Poll(taken) ==
    /\ ring' = SubSeq(Filled, taken.dropped + Len(taken.packet) + 1, Len(Filled))
    /\ line' = <<>>
    /\ wrapped' = (wrapped \/ Len(ring \o line) >= RING)

-----------------------------------------------------------------------------
(* The driver. *)

\* drv_CF_send, as far as the serial line
Send(cmd) ==
    /\ display' = Append(display, cmd)
    /\ sends' = Append(sends, cmd)

\* The main loop draws something.
MainSends(cmd) ==
    /\ sends = <<>> /\ sent < MaxSends
    /\ Send(cmd)
    /\ sent' = sent + 1
    /\ UNCHANGED <<line, ring, pressed, served, damaged, wrapped>>

\* drv_CF_process_packet: of the packets that come of their own accord, keys do something.
ProcessPacket(packet) ==
    IF packet # <<>> /\ packet[1].byte = 128
    THEN LET cmd == KeyCommand[packet[3].byte]
         IN  /\ served' = Append(served, packet[1].of)
             /\ IF cmd = 0 THEN UNCHANGED <<sends, display>> ELSE Send(cmd)
    ELSE UNCHANGED <<served, sends, display>>

\* drv_CF_timer, one turn of its loop
TimerPolls ==
    /\ sends = <<>>
    /\ LET taken == Taken(Filled)
       IN  Poll(taken) /\ ProcessPacket(taken.packet)
    /\ UNCHANGED <<pressed, damaged, sent>>

\* drv_CF_send, one turn of its loop: the acknowledgement, or any other packet.
SendPolls ==
    /\ sends # <<>>
    /\ LET taken == Taken(Filled)
       IN  /\ Poll(taken)
           /\ IF taken.packet # <<>> /\ taken.packet[1].byte = 64 + Last(sends)
              THEN sends' = Front(sends) /\ UNCHANGED <<display, served>>
              ELSE ProcessPacket(taken.packet)
    /\ UNCHANGED <<pressed, damaged, sent>>

\* After 250 msec it gives up.
SendGivesUp ==
    /\ sends # <<>>
    /\ sends' = Front(sends)
    /\ UNCHANGED <<line, ring, display, pressed, served, damaged, wrapped, sent>>

-----------------------------------------------------------------------------
(* The display and the line. *)

\* A command is executed and acknowledged.
Execute ==
    /\ display # <<>>
    /\ display' = Tail(display)
    /\ line' = line \o Named(Packet(1, Head(display), <<>>), 0)
    /\ UNCHANGED <<ring, sends, pressed, served, damaged, wrapped, sent>>

Press(key) ==
    /\ Len(pressed) < MaxPressed
    /\ LET name == Len(pressed) + 1
       IN  /\ pressed' = Append(pressed, name)
           /\ line' = line \o Named(Packet(2, 0, <<key>>), name)
    /\ UNCHANGED <<ring, sends, display, served, damaged, wrapped, sent>>

\* A byte is lost on the line.
Lose(i) ==
    /\ Cardinality(damaged) < MaxLost
    /\ line[i].of # 0
    /\ line' = RemoveAt(line, i)
    /\ damaged' = damaged \cup {line[i].of}
    /\ UNCHANGED <<ring, sends, display, pressed, served, wrapped, sent>>

CfNext ==
    \/ \E cmd \in Commands : MainSends(cmd)
    \/ TimerPolls \/ SendPolls \/ SendGivesUp
    \/ Execute
    \/ \E key \in Keys : Press(key)
    \/ \E i \in DOMAIN line : Lose(i)

CfSpec == CfInit /\ [][CfNext]_cfVars

-----------------------------------------------------------------------------
(* Properties. *)

\* Garbage is dropped one byte at a time, and any of its bytes may look like the beginning of
\* a packet that reaches into the next one: still no packet is lost whose bytes all came, as
\* long as the ring buffer was not written over, and none is served twice or out of order,
\* through acknowledgements, nested commands and timeouts.
IntactKept ==
    LET Held(name) == Cardinality({i \in DOMAIN (ring \o line) : (ring \o line)[i].of = name})
        intact == {name \in 1..Len(pressed) : name \notin damaged}
    IN  /\ \A i, j \in DOMAIN served : i < j => served[i] < served[j]
        /\ ~wrapped => \A name \in intact : Held(name) = 5 \/ \E i \in DOMAIN served : served[i] = name
=============================================================================
