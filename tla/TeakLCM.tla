------------------------------ MODULE TeakLCM ------------------------------
(***************************************************************************)
(* The driver of the Teak LCM (drv_TeakLCM.c): a state machine that talks  *)
(* with the display over a serial line.  It is driven by the event table,  *)
(* when bytes can be read, by a one-shot timer that makes contact, and by  *)
(* the widgets, which write into a shadow of the display.  The display is  *)
(* not part of the repository; it is modelled from the commands and modes  *)
(* that the driver knows.                                                  *)
(***************************************************************************)
EXTENDS Integers, FiniteSets, Sequences, SequencesExt

CONSTANTS
    Lines,          \* what a line of the display may show; "blank" is one of them
    MaxChunk,       \* how much one read returns at most (32 bytes)
    MaxWrites, MaxRestarts, MaxRequests, MaxKeys  \* bounds: writes of widgets; restarts of the display,
                    \* how often it asks for a connection of its own accord, and keys

VARIABLES
    started,    \* "timer" until the one-shot timer has fired, "open", "closed"
    fsm,        \* the state machine: its state, and global_reset_rx_flag
    shadow,     \* the two lines as the widgets want them
    toHost,     \* bytes on their way to the driver
    toLCM,      \* frames on their way to the display
    mode,       \* of the display: "idle", "asked" (it sent CONNECT), "acked" (it was asked),
                \* "connected", or "boot": it has not said anything yet
    lcd,        \* the two lines that the display shows
    cut,        \* TRUE: reads may return a part of a frame
    astray,     \* history: the display asked for a connection while an earlier request, or the answer
                \* to one, was under way, or a command was taken that had not been read
    writes, restarts, requests, keys   \* how many there have been

lcmVars == <<started, fsm, shadow, toHost, toLCM, mode, lcd, cut, astray, writes, restarts, requests, keys>>

Blanks == <<"blank", "blank">>

\* The bytes of a command frame, and of a data frame with a key: MASK stands for
\* LCM_FRAME_MASK and crc for a check sum that fits.
CmdFrame(cmd) == <<"MASK", cmd, "MASK">>
KeyFrame == <<"MASK", "WRITE", "length", "key", "crc", "MASK">>
Frame(cmd) == [cmd |-> cmd, line |-> "none"]
\* CMD_PRINT1 and CMD_PRINT2 with a line of the shadow
PrintLine(row) == [cmd |-> IF row = 1 THEN "PRINT1" ELSE "PRINT2", line |-> shadow[row]]

\* drv_TeakLCM_init and start: the line is open, garbage was read, the timer is set.
LcmInit ==
    /\ started = "timer"
    /\ fsm = [state |-> "IDLE", reset_rx |-> FALSE]
    /\ shadow = Blanks
    /\ toHost = <<>> /\ toLCM = <<>>
    /\ mode = "boot" /\ lcd = Blanks
    /\ cut \in BOOLEAN /\ astray = FALSE
    /\ writes = 0 /\ restarts = 0 /\ requests = 0 /\ keys = 0

-----------------------------------------------------------------------------
(* The state machine.  f is its state, with what it sends. *)

\* fsm_init and the frame of try_reset
TryReset(f) == [f EXCEPT !.state = "IDLE", !.sent = Append(@, Frame("RESET"))]

\* flush_shadow, when the display is connected; the frames that switch it and its light on
\* are left out.
Flush == <<PrintLine(1), PrintLine(2)>>

\* Variant for mutation: the shadow is not sent after connecting.
FsmStepUnflushed(f, next_state, frames) ==
    LET g == [f EXCEPT !.sent = @ \o frames]
    IN  IF next_state # "CONNECTED" \/ f.state = "CONNECTED" THEN [g EXCEPT !.state = next_state]
        ELSE IF ~f.reset_rx THEN TryReset(g)
        ELSE [g EXCEPT !.state = "CONNECTED"]

\* fsm_step with the next state and the frames of the action
FsmStep(f, next_state, frames) ==
    LET g == [f EXCEPT !.sent = @ \o frames]
    IN  IF next_state # "CONNECTED" \/ f.state = "CONNECTED" THEN [g EXCEPT !.state = next_state]
        ELSE IF ~f.reset_rx THEN TryReset(g)
        ELSE [g EXCEPT !.state = "CONNECTED", !.sent = @ \o Flush]

\* Variant for mutation: a reset of a connected display is overlooked.
TransitionDeaf(state, cmd) ==
    IF state = "CONNECTED" /\ cmd = "RESET" THEN <<"CONNECTED", <<>>>> ELSE
    CASE cmd = "ACK"        -> <<"CONNECTED", <<Frame("CONFIRM")>>>>
      [] cmd = "RESET"      -> <<"COMMAND", <<Frame("CONNECT")>>>>
      [] cmd = "CONFIRM"    -> <<"CONNECTED", <<>>>>
      [] OTHER              -> <<state, <<>>>>

\* What fsm_handle_cmd does with a command: the next state, and its answer.
Transition(state, cmd) ==
    IF state = "CONNECTED"
    THEN CASE cmd = "ACK"        -> <<"CONNECTED", <<Frame("CONFIRM")>>>>
           [] cmd = "CONNECT"    -> <<"CONNECTED", <<Frame("NACK")>>>>
           [] cmd = "DISCONNECT" -> <<"CONNECTED", <<Frame("ACK")>>>>
           [] cmd = "RESET"      -> <<"IDLE", <<Frame("CONNECT")>>>>
           [] OTHER              -> <<"CONNECTED", <<>>>>
    ELSE CASE cmd = "CONNECT"    -> <<"COMMAND", <<Frame("ACK")>>>>
           [] cmd = "ACK"        -> <<"CONNECTED", <<Frame("CONFIRM")>>>>
           [] cmd = "NACK"       -> <<"IDLE", <<Frame("CONFIRM")>>>>
           [] cmd = "CONFIRM"    -> <<"CONNECTED", <<>>>>
           [] cmd = "RESET"      -> <<"COMMAND", <<Frame("CONNECT")>>>>
           [] OTHER              -> <<"IDLE", <<Frame("NACK")>>>>

FsmHandleCmd(f, cmd) ==
    LET t == Transition(f.state, cmd)
    IN  FsmStep([f EXCEPT !.reset_rx = @ \/ cmd = "RESET"], t[1], t[2])

FsmHandleDatacmd(f) ==
    IF f.state = "CONNECTED" THEN FsmStep(f, "CONNECTED", <<>>)
    ELSE FsmStep(f, f.state, <<Frame("NACK")>>)

\* fsm_handle_bytes takes a frame from the first of length bytes of the buffer, and then the
\* next one behind it.  What is neither a command frame nor a data frame is dropped as a whole,
\* with all that follows: the NACK after a wrong check sum is prepared, and never sent.  Behind
\* a data frame, one byte too much is taken for the rest, so that behind several of them a
\* command may be taken although its byte is none of those that were read.
FrameHandled(s) ==
    LET ends == {n \in 5..s.length : SubSeq(s.buf, n - 1, n) = <<"crc", "MASK">>}
        end == CHOOSE n \in ends : \A other \in ends : n <= other
        Behind(n) == SubSeq(s.buf, n + 1, Len(s.buf))
    IN  IF s.length >= 3 /\ s.buf[1] = "MASK" /\ s.buf[3] = "MASK"
        THEN [f |-> FsmHandleCmd(s.f, s.buf[2]), buf |-> Behind(3), length |-> s.length - 3,
              read |-> s.read - 3, astray |-> s.astray \/ s.read < 2]
        ELSE IF s.length > 3 /\ s.buf[1] = "MASK" /\ ends # {} /\ SubSeq(s.buf, 1, end) = KeyFrame
        THEN [f |-> FsmHandleDatacmd(s.f), buf |-> Behind(end),
              length |-> IF end < s.length THEN s.length - end + 1 ELSE 0,
              read |-> s.read - end, astray |-> s.astray]
        ELSE [s EXCEPT !.length = 0]
FsmHandleBytes(f, buf, length) ==
    LET handled[n \in 0..length \div 3] ==
            IF n = 0 THEN [f |-> f, buf |-> buf, length |-> length, read |-> length, astray |-> FALSE]
            ELSE FrameHandled(handled[n - 1])
    IN  handled[length \div 3]

-----------------------------------------------------------------------------
(* The driver. *)

\* fsm_send and fsm_send_data: whoever is not connected sends nothing.
FsmSend(frames) == toLCM' = IF fsm.state = "CONNECTED" THEN toLCM \o frames ELSE toLCM

\* initial_connect_to_display_callback: the one-shot timer adds the event and resets the display.
InitialConnect ==
    /\ started = "timer"
    /\ started' = "open"
    /\ fsm' = [fsm EXCEPT !.state = "IDLE"]
    /\ toLCM' = Append(toLCM, Frame("RESET"))
    /\ UNCHANGED <<shadow, toHost, mode, lcd, cut, astray, writes, restarts, requests, keys>>

\* The lengths that one read may return: whole frames, unless they may be cut.
Chunks ==
    {n \in 1..Len(toHost) :
        /\ n <= MaxChunk
        /\ cut \/ (toHost[n] = "MASK" /\ (n = Len(toHost) \/ toHost[n + 1] = "MASK"))}

\* What may stand behind the bytes of a read, in the static buffer or behind it: as many
\* bytes as frames of keys were read can be taken for the rest.
Byte == {"MASK", "RESET", "CONNECT", "ACK", "CONFIRM", "other"}
Stale(bytes) == [1..Cardinality({x \in 1..Len(bytes) : bytes[x] = "WRITE"}) -> Byte]

\* lcm_event_callback
Receive ==
    /\ started = "open"
    /\ \E n \in Chunks :
        LET bytes == SubSeq(toHost, 1, n) IN
        \E stale \in Stale(bytes) :
          LET f == [state |-> fsm.state, reset_rx |-> fsm.reset_rx, sent |-> <<>>]
              handled == FsmHandleBytes(f, bytes \o stale, n)
          IN  /\ toHost' = SubSeq(toHost, n + 1, Len(toHost))
              /\ fsm' = [state |-> handled.f.state, reset_rx |-> handled.f.reset_rx]
              /\ toLCM' = toLCM \o handled.f.sent
              /\ astray' = (astray \/ handled.astray)
    /\ UNCHANGED <<started, shadow, mode, lcd, cut, writes, restarts, requests, keys>>

\* drv_TeakLCM_write
Write(row, line) ==
    /\ started # "closed" /\ writes < MaxWrites
    /\ shadow' = [shadow EXCEPT ![row] = line]
    /\ FsmSend(<<[PrintLine(row) EXCEPT !.line = line]>>)
    /\ writes' = writes + 1
    /\ UNCHANGED <<started, fsm, toHost, mode, lcd, cut, astray, restarts, requests, keys>>

\* drv_TeakLCM_quit: the display is cleared and disconnected, the event goes.
Quit ==
    /\ started # "closed"
    /\ started' = "closed"
    /\ shadow' = Blanks
    /\ FsmSend(<<[cmd |-> "PRINT1", line |-> "blank"], [cmd |-> "PRINT2", line |-> "blank"],
                 Frame("DISCONNECT")>>)
    /\ UNCHANGED <<fsm, toHost, mode, lcd, cut, astray, writes, restarts, requests, keys>>

-----------------------------------------------------------------------------
(* The display. *)

Say(cmd) == toHost' = toHost \o CmdFrame(cmd)
Silent == UNCHANGED toHost

\* It takes a frame, and answers commands as the state machine expects it.
Obey ==
    /\ toLCM # <<>>
    /\ toLCM' = Tail(toLCM)
    /\ LET cmd == Head(toLCM).cmd IN
       /\ lcd' = IF mode = "connected" /\ cmd = "PRINT1" THEN [lcd EXCEPT ![1] = Head(toLCM).line]
                 ELSE IF mode = "connected" /\ cmd = "PRINT2" THEN [lcd EXCEPT ![2] = Head(toLCM).line]
                 ELSE IF cmd = "RESET" THEN Blanks ELSE lcd
       /\ \/ cmd = "RESET" /\ mode' = "idle" /\ Say("RESET")
          \/ cmd = "CONNECT" /\ mode' = "acked" /\ Say("ACK")
          \/ cmd = "CONFIRM" /\ mode' = (IF mode = "acked" THEN "connected" ELSE mode) /\ Silent
          \/ cmd = "ACK" /\ mode = "asked" /\ mode' = "connected" /\ Say("CONFIRM")
          \/ cmd = "NACK" /\ mode = "asked" /\ mode' = "idle" /\ Silent
          \/ cmd \in {"ACK", "NACK"} /\ mode # "asked" /\ UNCHANGED mode /\ Silent
          \/ cmd = "DISCONNECT" /\ mode' = "idle" /\ Say("ACK")
          \/ cmd \in {"PRINT1", "PRINT2"} /\ UNCHANGED mode /\ Silent
    /\ UNCHANGED <<started, fsm, shadow, cut, astray, writes, restarts, requests, keys>>

\* It is switched on, or restarts, blank, and says so.  Where nothing is under way, that mends
\* whatever went astray.
RestartDisplay ==
    /\ mode = "boot" \/ restarts < MaxRestarts
    /\ restarts' = IF mode = "boot" THEN restarts ELSE restarts + 1
    /\ mode' = "idle" /\ lcd' = Blanks
    /\ astray' = (astray /\ (toHost # <<>> \/ toLCM # <<>>))
    /\ Say("RESET")
    /\ UNCHANGED <<started, fsm, shadow, toLCM, cut, writes, requests, keys>>

\* An earlier request for a connection is on its way to the driver, or the answer to one is
\* on its way back.
AnswerUnderWay ==
    \/ \E x \in 1..Len(toHost) : toHost[x] = "CONNECT"
    \/ \E x \in 1..Len(toLCM) : toLCM[x].cmd = "ACK"

\* It asks for a connection, or a key is pressed.
Request ==
    /\ mode = "idle" /\ requests < MaxRequests
    /\ requests' = requests + 1
    /\ mode' = "asked"
    /\ astray' = (astray \/ AnswerUnderWay)
    /\ Say("CONNECT")
    /\ UNCHANGED <<started, fsm, shadow, toLCM, lcd, cut, writes, restarts, keys>>

Key ==
    /\ mode = "connected" /\ keys < MaxKeys
    /\ keys' = keys + 1
    /\ toHost' = toHost \o KeyFrame
    /\ UNCHANGED <<started, fsm, shadow, toLCM, mode, lcd, cut, astray, writes, restarts, requests>>

LcmNext ==
    \/ InitialConnect \/ Receive \/ Quit
    \/ \E row \in 1..2, line \in Lines : Write(row, line)
    \/ Obey \/ RestartDisplay \/ Request \/ Key

LcmSpec == LcmInit /\ [][LcmNext]_lcmVars /\ WF_lcmVars(InitialConnect) /\ WF_lcmVars(Receive) /\ WF_lcmVars(Obey)

-----------------------------------------------------------------------------
(* Properties. *)

\* Writes are dropped as long as the display is not connected, and the shadow makes up for
\* them: where both sides are connected and nothing is under way, the display shows what the
\* widgets wrote, whatever was reset, cut, asked or acknowledged twice on the way there.
\* Excepted is what went astray: a display that asks again before it has the answer to an
\* earlier request may take that answer for a new one, and a stale command may connect a
\* driver that nobody answered; writes are then lost.  A restart mends both.
ShadowShown ==
    fsm.state = "CONNECTED" /\ mode = "connected" /\ toLCM = <<>> /\ toHost = <<>> /\ ~astray => lcd = shadow

\* Whenever frames come whole and nothing went astray, the display is connected again after its
\* last restart, and shows what the widgets wrote.
ShownAgain == []<>(cut \/ astray \/ started = "closed" \/ (lcd = shadow /\ mode = "connected"))
=============================================================================
